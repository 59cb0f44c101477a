CONSTANTS
  script = script
  copy = copy
  lib = lib
  other = other
  table = table
  holdout = holdout
  plain = plain
  edited = edited
  naming = naming
  numbers = numbers
  secret = secret
  first = first
  second = second
  trace = trace
  manifest = manifest
  Leaves = {trace, manifest, output}
  Outputs = {small, partial, big}
  Oversized = {big}
  Snippets = {partial}
  CodeHashes = {small}
  MaxTools = 1
  MaxDeaths = 1
  Trials = {first, second}
  Files <- Names
  Texts <- Texts5
  Imports <- ImportsOf
  Literals <- LiteralsOf
  Opens <- OpensOf
  Data = {table, holdout}
  Declared = {{table}}
  Holds <- HoldsOf
  Extra = {lib}
  Uploads = {edited}
  ExtraHashes = {{naming}}
  Holdout = {holdout}
  Hosts <- Copied
  Sandboxes = {"full", "none", "missing"}
  MaxEvents = 3
SYMMETRY Both
SPECIFICATION Parts
INVARIANTS
  SealHolds
  RecordedIsWhatRan
  LeaksAreFlagged
  EvidenceSurvives
CHECK_DEADLOCK FALSE
