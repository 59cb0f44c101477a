------------------------------- MODULE Migration -------------------------------
(***************************************************************************)
(* What a server does to a database of an older version when it connects:  *)
(* it adds columns, rebuilds tables whose constraints have changed, and    *)
(* repairs rows that an older version wrote wrong.  The process may die    *)
(* after any statement, and the next start finds what was committed.       *)
(*                                                                         *)
(* A statement of an executescript is committed by itself; an INSERT or an *)
(* UPDATE that is executed opens a transaction, which statements that      *)
(* change the schema then belong to.  PRAGMA foreign_keys does nothing     *)
(* inside a transaction.                                                   *)
(***************************************************************************)
EXTENDS Sequences, FiniteSets, Naturals

CONSTANTS Rows,        \* rows of a rebuilt table
          Columns,     \* columns an older version does not have
          None,
          MaxCrashes   \* bound: process deaths

MigrationAssumption ==
  /\ \A rows \in SUBSET Rows : rows # None
  /\ MaxCrashes \in Nat

Servers == {"episteme", "zetesis", "arete", "anamnesis"}

VARIABLES
  db, disk, open,   \* those of Connection
  server,           \* whose database it is
  left,             \* what this start has still to do
  step,             \* of the rebuild under way, or "down", "start", "serving"
  seen,             \* the columns the start has found
  enforced,         \* whether this process enforces foreign keys
  accepted,         \* auxiliary: the rows written so far, by table
  crashes

Conn == INSTANCE Connection
vars == <<db, disk, open, server, left, step, seen, enforced, accepted, crashes>>

Tables == {"evidence_refs", "findings", "claims"}

\* The connect of each server.
EpistemeOrder == <<"schema", "columns", "programmes">>
ZetesisOrder == <<"evidence_refs", "findings", "stamps", "columns", "schema">>
AreteOrder == <<"schema", "columns">>
AnamnesisOrder == <<"schema", "columns", "claims", "commit", "edges">>
Order == CASE server = "episteme" -> EpistemeOrder [] server = "zetesis" -> ZetesisOrder
           [] server = "arete" -> AreteOrder [] OTHER -> AnamnesisOrder

\* A rebuild in one executescript, or in single statements.
Scripted(t) == t \in {"evidence_refs", "findings"}

Now(what) == step = "start" /\ left # <<>> /\ Head(left) = what
Goto(s) == step' = s /\ UNCHANGED left
Next1 == left' = Tail(left) /\ step' = "start"

\* A statement that changes the schema.
DDL(rows) == IF open THEN Conn!Exec(rows) ELSE Conn!Save(rows)

-----------------------------------------------------------------------------
Start ==
  /\ step = "down"
  /\ step' = "start" /\ left' = Order
  /\ enforced' = TRUE
  /\ seen' = db.columns
  /\ UNCHANGED <<db, disk, open, server, accepted, crashes>>

\* CREATE TABLE IF NOT EXISTS, in the columns of today.
Schema ==
  /\ Now("schema")
  /\ Conn!Save([db EXCEPT !.table = [t \in Tables |->
       IF db.table[t].shape = "none" THEN [db.table[t] EXCEPT !.shape = "current"]
       ELSE db.table[t]]])
  /\ Next1
  /\ UNCHANGED <<server, seen, enforced, accepted, crashes>>

\* mutant: the first column tells whether all of them are there
AddColumnOfMany ==
  /\ Now("columns")
  /\ IF seen = {} /\ db.columns # Columns
       THEN /\ \E c \in Columns \ db.columns : DDL([db EXCEPT !.columns = @ \cup {c}])
            /\ UNCHANGED <<left, step>>
       ELSE Conn!Commit /\ Next1
  /\ UNCHANGED <<server, seen, enforced, accepted, crashes>>

\* ALTER TABLE ADD COLUMN, one column after the other, where PRAGMA table_info
\* did not list it; a commit at the end.
AddColumn ==
  /\ Now("columns")
  /\ IF Columns \ (seen \cup db.columns) # {}
       THEN /\ \E c \in Columns \ (seen \cup db.columns) : DDL([db EXCEPT !.columns = @ \cup {c}])
            /\ UNCHANGED <<left, step>>
       ELSE Conn!Commit /\ Next1
  /\ UNCHANGED <<server, seen, enforced, accepted, crashes>>

-----------------------------------------------------------------------------
(***************************************************************************)
(* The rebuild of a table: create another one, copy, drop, rename.         *)
(***************************************************************************)
Put(t, table) == [db EXCEPT !.table[t] = table]

Look(t) ==
  /\ Now(t)
  /\ IF db.table[t].shape = "legacy" THEN Goto("create") /\ enforced' = FALSE
     ELSE Next1 /\ UNCHANGED enforced
  /\ UNCHANGED <<db, disk, open, server, seen, accepted, crashes>>

Rebuilding(t, at) == step = at /\ Head(left) = t

Create(t) ==
  /\ Rebuilding(t, "create")
  /\ db.table[t].copy = None
  /\ DDL(Put(t, [db.table[t] EXCEPT !.copy = {}]))
  /\ Goto("copy")
  /\ UNCHANGED <<server, seen, enforced, accepted, crashes>>

\* A table of that name is there: connect raises, and the process ends.
CreateFails(t) ==
  /\ Rebuilding(t, "create")
  /\ db.table[t].copy # None
  /\ Conn!Reopen
  /\ step' = "down" /\ left' = <<>>
  /\ UNCHANGED <<server, seen, enforced, accepted, crashes>>

\* mutant: the table is dropped before it is copied
CopyAfterDrop(t) ==
  /\ Rebuilding(t, "copy")
  /\ DDL(Put(t, [db.table[t] EXCEPT !.shape = "none", !.rows = {}]))
  /\ Goto("drop")
  /\ UNCHANGED <<server, seen, enforced, accepted, crashes>>

Copy(t) ==
  LET rows == Put(t, [db.table[t] EXCEPT !.copy = db.table[t].rows])
  IN  /\ Rebuilding(t, "copy")
      /\ IF Scripted(t) THEN Conn!Save(rows) ELSE Conn!Exec(rows)
      /\ Goto("drop")
      /\ UNCHANGED <<server, seen, enforced, accepted, crashes>>

Drop(t) ==
  /\ Rebuilding(t, "drop")
  /\ DDL(Put(t, [db.table[t] EXCEPT !.shape = "none", !.rows = {}]))
  /\ Goto("rename")
  /\ UNCHANGED <<server, seen, enforced, accepted, crashes>>

Rename(t) ==
  /\ Rebuilding(t, "rename")
  /\ DDL(Put(t, [shape |-> "current", rows |-> db.table[t].copy, copy |-> None]))
  /\ Goto("swapped")
  /\ UNCHANGED <<server, seen, enforced, accepted, crashes>>

\* PRAGMA foreign_keys = ON, and for a script the commit that follows it.
Enforce(t) ==
  /\ Rebuilding(t, "swapped")
  /\ enforced' = ~open
  /\ Next1
  /\ UNCHANGED <<db, disk, open, server, seen, accepted, crashes>>

CommitAll ==
  /\ Now("commit")
  /\ Conn!Commit
  /\ Next1
  /\ UNCHANGED <<server, seen, enforced, accepted, crashes>>

-----------------------------------------------------------------------------
(***************************************************************************)
(* Repairs.                                                                *)
(***************************************************************************)
Statuses == {"active", "completed", "abandoned", "archived"}
Directions == {"minimize", "maximize"}

\* Which of the three values of a row is which, told by what it looks like.
First(row, set, default) ==
  IF \E i \in 1..3 : row[i] \in set
    THEN row[CHOOSE i \in 1..3 : row[i] \in set /\ \A j \in 1..(i - 1) : row[j] \notin set]
    ELSE default
Instants(row) == {row[i] : i \in 1..3} \ (Statuses \cup Directions)
Repaired(row) ==
  <<First(row, Statuses, "active"), First(row, Directions, "maximize"),
    First(row, Instants(row), row[3])>>

\* UPDATE programmes, where the row is not right; a commit.
RepairProgrammes ==
  /\ Now("programmes")
  /\ Conn!Save([db EXCEPT !.row = Repaired(@)])
  /\ Next1
  /\ UNCHANGED <<server, seen, enforced, accepted, crashes>>

\* abandoned_at = closed_at of abandoned campaigns: it opens a transaction that
\* the columns which follow belong to.
MoveStamps ==
  /\ Now("stamps")
  /\ Conn!Exec([db EXCEPT !.stamp = IF @ = "closed_at" THEN "abandoned_at" ELSE @])
  /\ Next1
  /\ UNCHANGED <<server, seen, enforced, accepted, crashes>>

\* Edges that were filed as external get the type of their prefix.
RetypeEdges ==
  /\ Now("edges")
  /\ Conn!Save([db EXCEPT !.edge = IF @ = "external" THEN "internal" ELSE @])
  /\ Next1
  /\ UNCHANGED <<server, seen, enforced, accepted, crashes>>

-----------------------------------------------------------------------------
Serve ==
  /\ step = "start" /\ left = <<>>
  /\ Goto("serving")
  /\ UNCHANGED <<db, disk, open, server, seen, enforced, accepted, crashes>>

\* A handler writes.
Insert(t, r) ==
  /\ step = "serving"
  /\ db.table[t].shape = "current"
  /\ r \notin accepted[t]
  /\ Conn!Save(Put(t, [db.table[t] EXCEPT !.rows = @ \cup {r}]))
  /\ accepted' = [accepted EXCEPT ![t] = @ \cup {r}]
  /\ UNCHANGED <<server, left, step, seen, enforced, crashes>>

Crash ==
  /\ step # "down"
  /\ crashes < MaxCrashes /\ crashes' = crashes + 1
  /\ Conn!Reopen
  /\ step' = "down" /\ left' = <<>>
  /\ UNCHANGED <<server, seen, enforced, accepted>>

-----------------------------------------------------------------------------
Created == "2026-01-01"
Right == <<"active", "minimize", Created>>

\* A row of programmes as one of its writers left it.
Written == {Right, <<"minimize", Created, "active">>, <<Created, "minimize", "active">>}

\* The tables of the server, of the old shape or of today's, or not there.
Mine == CASE server = "zetesis" -> {"evidence_refs", "findings"}
          [] server = "anamnesis" -> {"claims"} [] OTHER -> {}

Init ==
  /\ server \in Servers
  /\ \E shape \in [Mine -> {"none", "legacy", "current"}], rows \in SUBSET Rows,
        columns \in {{}, Columns}, row \in Written,
        stamp \in {"closed_at", "abandoned_at"}, edge \in {"external", "internal"} :
       db = [table |-> [t \in Tables |->
                          IF t \in Mine /\ shape[t] # "none"
                            THEN [shape |-> shape[t], rows |-> rows, copy |-> None]
                            ELSE [shape |-> "none", rows |-> {}, copy |-> None]],
             columns |-> columns, stamp |-> stamp, edge |-> edge,
             row |-> IF server = "episteme" THEN row ELSE Right]
  /\ disk = db /\ open = FALSE
  /\ left = <<>> /\ step = "down" /\ seen = {} /\ enforced = FALSE /\ crashes = 0
  /\ accepted = [t \in Tables |-> db.table[t].rows]

Next ==
  \/ Start \/ Schema \/ AddColumn \/ CommitAll
  \/ \E t \in Tables :
       \/ Look(t) \/ Create(t) \/ CreateFails(t) \/ Copy(t) \/ Drop(t) \/ Rename(t) \/ Enforce(t)
       \/ \E r \in Rows : Insert(t, r)
  \/ RepairProgrammes \/ MoveStamps \/ RetypeEdges
  \/ Serve \/ Crash

Spec == Init /\ [][Next]_vars

-----------------------------------------------------------------------------
\* "ids are preserved": whenever the process dies, a row that was written is on
\* disk, in its table or in the copy that was to become it.
NothingIsDestroyed ==
  \A t \in Tables :
    LET copy == IF disk.table[t].copy = None THEN {} ELSE disk.table[t].copy
    IN  accepted[t] \subseteq disk.table[t].rows \cup copy

\* A server that serves has committed the whole schema and every repair, however
\* many starts have died on the way.
ServedIsUpgraded ==
  step = "serving" =>
    /\ open = FALSE /\ disk.columns = Columns
    /\ \A t \in Mine : disk.table[t].shape = "current"
    /\ disk.row = Right
    /\ server = "zetesis" => disk.stamp = "abandoned_at"
    /\ server = "anamnesis" => disk.edge = "internal"

\* The same, in the docstring of _migrate: "the finding_evidence junction keeps
\* resolving".  What was written before the upgrade is there to be read after it.
AcceptedIsServed == step = "serving" => \A t \in Tables : accepted[t] \subseteq db.table[t].rows
===============================================================================
