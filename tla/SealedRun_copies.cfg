CONSTANTS
  script = script
  copy = copy
  lib = lib
  other = other
  table = table
  holdout = holdout
  plain = plain
  edited = edited
  naming = naming
  numbers = numbers
  secret = secret
  first = first
  second = second
  trace = trace
  manifest = manifest
  Leaves = {trace, manifest, output}
  Outputs = {small, partial, big}
  Oversized = {big}
  Snippets = {partial}
  CodeHashes = {small}
  MaxTools = 1
  MaxDeaths = 1
  Trials = {first, second}
  Files <- Names
  Texts <- Texts5
  Imports <- ImportsOf
  Literals <- LiteralsOf
  Opens <- OpensOf
  Data = {table, holdout}
  Declared = {{table}}
  Holds <- HoldsCopies
  Extra = {}
  Uploads = {edited}
  ExtraHashes = {}
  Holdout = {holdout}
  Hosts <- Copied
  Sandboxes = {"full"}
  MaxEvents = 3
SYMMETRY Both
SPECIFICATION Parts
INVARIANT SealedBytesOrNoRun
CHECK_DEADLOCK FALSE
