------------------------------ MODULE MCSealedRun ------------------------------
(***************************************************************************)
(* What a run reads and what it leaves: the sealed run and the artifacts,  *)
(* two models side by side.  A behaviour is of one of them, and the other  *)
(* stays at its start.                                                     *)
(*                                                                         *)
(* Of the sealed run: a script, a copy of it, the module they import,      *)
(* another of its name in a directory the script puts on its path (for the *)
(* analysis the second candidate, for Python the first), the table they    *)
(* open, and a holdout that a changed text opens.  Of the artifacts: the   *)
(* trace, the manifest and an output, which may be written in part, and be *)
(* too large.                                                              *)
(***************************************************************************)
EXTENDS SealedRun, TLC

CONSTANTS
  script, copy, lib, other, table, holdout,
  plain, naming, edited, numbers, secret,                     \* texts
  first, second,                                              \* trials
  Leaves, trace, manifest, Outputs, Oversized, Snippets, CodeHashes, MaxTools, MaxDeaths

Names == {script, copy, lib, other, table, holdout}
Texts5 == {plain, naming, edited, numbers, secret}
TheImport == [search |-> <<lib, other>>, load |-> <<other, lib>>]
ImportsOf == [c \in Texts5 |-> IF c = plain THEN {TheImport} ELSE {}]
LiteralsOf == [c \in Texts5 |-> IF c = naming THEN {[direct |-> {}, named |-> {script, copy}]} ELSE {}]
OpensOf == [c \in Texts5 |-> CASE c = plain -> {table} [] c = edited -> {holdout} [] OTHER -> {}]
Copied == {[f \in Names |-> CASE f = lib -> naming [] f = holdout -> secret [] f = table -> numbers
                              [] f = other -> Gone [] OTHER -> plain]}
HoldsOf == [f \in Names |-> CASE f = script -> {Gone, plain} [] f = lib -> {Gone, naming, edited}
                               [] f = other -> {edited} [] f = table -> {Gone} [] OTHER -> {}]
HoldsCopies == [HoldsOf EXCEPT ![copy] = {edited}, ![script] = {edited}]
Both == Permutations({first, second})

VARIABLES
  part,         \* what this behaviour is about
  run, staged, removed, blobs, stored, capture, wrote, blind, finalized, tools, deaths

Left == INSTANCE Artifacts WITH
  Files <- Leaves, Trace <- trace, Manifest <- manifest, Contents <- Outputs, Sealed <- CodeHashes,
  rows <- stored

ASSUME LeftAssumption == Left!ArtifactsAssumption

leftVars == <<run, staged, removed, blobs, stored, capture, wrote, blind, finalized, tools, deaths>>

Start ==
  /\ part \in {"run", "left"} /\ Init /\ Left!Init
  /\ part = "left" => sandbox = "full" /\ enforced    \* (any would do)

Step ==
  \/ part = "run" /\ Next /\ UNCHANGED <<part, leftVars>>
  \/ part = "left" /\ Left!Next /\ UNCHANGED <<part, vars>>

Parts == Start /\ [][Step]_<<part, vars, leftVars>>

-----------------------------------------------------------------------------
\* What Artifacts says of the files a run leaves.
EvidenceSurvives == Left!EvidenceSurvives
===============================================================================
