------------------------- MODULE MCProgrammeLifecycle -------------------------
(***************************************************************************)
(* The programmes of episteme, their archiving, and the upgrade of a       *)
(* server's database when it connects: three subsystems in one model.  A   *)
(* behaviour is of one of them, and the others stay at their start.        *)
(*                                                                         *)
(* Two closed programmes go into files of one, which a race overfills.     *)
(* Hypotheses, trials and callers are interchangeable.                     *)
(***************************************************************************)
EXTENDS ProgrammeLifecycle, TLC

CONSTANTS
  Filed, Files, Startup, BatchSize, MaxInherited,     \* Archive
  Rows, Columns                                       \* Migration

\* No action names an id or a caller.
Interchangeable ==
  Permutations(Hypotheses) \cup Permutations(Trials) \cup Permutations(Callers)

VARIABLES
  part,       \* what this behaviour is about
  status, whole, registry, filed, sealHash, entries, contents, readonly, archiving, outages,
  db, disk, open, server, left, step, seen, enforced, accepted, starts

Archiving == INSTANCE Archive WITH
  Programmes <- Filed, Archives <- Files, Nothing <- Nobody, call <- archiving, crashes <- outages
Upgrade == INSTANCE Migration WITH None <- Nobody, crashes <- starts

ASSUME ArchivingAssumption == Archiving!NamesAssumption /\ Archiving!BoundsAssumption
ASSUME UpgradeAssumption == Upgrade!MigrationAssumption

archiveVars ==
  <<status, whole, registry, filed, sealHash, entries, contents, readonly, archiving, outages>>
upgradeVars == <<db, disk, open, server, left, step, seen, enforced, accepted, starts>>

\* How those begin that a behaviour is not about.
NoFile == registry = <<>>
UpToDate == server = "arete" /\ db.columns = Columns /\ db.stamp = "closed_at" /\ db.edge = "external"

Start ==
  /\ Init /\ Archiving!Init /\ Upgrade!Init
  /\ \/ part = "programmes" /\ NoFile /\ UpToDate
     \/ part = "archive" /\ UpToDate
     \/ part = "upgrade" /\ NoFile

Advance ==
  \/ part = "programmes" /\ Next /\ UNCHANGED <<part, archiveVars, upgradeVars>>
  \/ part = "archive" /\ Archiving!Next /\ UNCHANGED <<part, vars, upgradeVars>>
  \/ part = "upgrade" /\ Upgrade!Next /\ UNCHANGED <<part, vars, archiveVars>>

Parts == Start /\ [][Advance]_<<part, vars, archiveVars, upgradeVars>>

-----------------------------------------------------------------------------
\* What Archive says of the rows of archived programmes, of its entries, and of
\* a start that ends.
ArchivedIsCopied == Archiving!ArchivedIsCopied
OneEntry == Archiving!OneEntry
StartLeavesNothingPending == Archiving!StartLeavesNothingPending

\* What Migration says of a death at any statement, and of a server that serves.
NothingIsDestroyed == Upgrade!NothingIsDestroyed
ServedIsUpgraded == Upgrade!ServedIsUpgraded
=============================================================================
