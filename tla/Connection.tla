------------------------------ MODULE Connection ------------------------------
(***************************************************************************)
(* The one sqlite connection of a server, shared by the event loop and all *)
(* worker threads (check_same_thread=False, no lock).  sqlite keeps one    *)
(* transaction per connection and not per thread: a writing statement      *)
(* opens it, and whoever commits or rolls back ends it for everybody.      *)
(***************************************************************************)
VARIABLES db,      \* what a read over the connection returns
          disk,    \* what survives a rollback and the death of the process
          open     \* Connection.in_transaction

connection == <<db, disk, open>>

\* A writing statement; db is left as it is by one that fails, and the
\* transaction it has opened stays open all the same.
Exec(rows) == db' = rows /\ open' = TRUE /\ UNCHANGED disk
ExecFails == Exec(db)

\* A method of the store that writes and commits, where nothing depends on
\* what runs between the two.
Save(rows) == db' = rows /\ disk' = rows /\ open' = FALSE

\* BEGIN: refused with OperationalError while a transaction is open.
BeginTx == ~open /\ open' = TRUE /\ UNCHANGED <<db, disk>>
BeginRefused == open /\ UNCHANGED connection

Commit == disk' = db /\ open' = FALSE /\ UNCHANGED db
Rollback == db' = disk /\ open' = FALSE /\ UNCHANGED disk

\* The process dies and the file is opened again.
Reopen == Rollback
===============================================================================
