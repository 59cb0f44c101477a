---------------------------- MODULE ExecutorRecord ----------------------------
(***************************************************************************)
(* The JSON object a trial row keeps in executor_output_json, reduced to   *)
(* the keys the code branches on, and the two predicates over it that must *)
(* agree: the store's gate for the label `completed' and the finalizer's   *)
(* verdict.  `source' stands for the keys that only say who wrote the      *)
(* record (a run, a cancellation receipt, ...); no predicate reads it.     *)
(*                                                                         *)
(* `timed_out' is left out: no code in the repository writes it.           *)
(***************************************************************************)
EXTENDS Naturals

\* "none" means that the key is absent.  stdout is "inner" when its last JSON
\* line reports a failure of the job inside the wrapper.
Record == [ source : {"none", "run", "cancel", "finished", "reaper"},
            status : {"none", "completed", "failed", "timeout", "cancelled"},
            exit   : {"none", "zero", "nonzero"},
            error  : BOOLEAN,
            stdout : {"none", "clean", "inner"} ]

\* A NULL column, or an object that holds nothing but 'corrections'.
NoRecord == [source |-> "none", status |-> "none", exit |-> "none",
             error |-> FALSE, stdout |-> "none"]

(***************************************************************************)
(* What the writers of the column write.                                   *)
(***************************************************************************)
RunOk      == [source |-> "run", status |-> "completed", exit |-> "zero",
               error |-> FALSE, stdout |-> "clean"]
RunInner   == [source |-> "run", status |-> "completed", exit |-> "zero",
               error |-> FALSE, stdout |-> "inner"]
RunCrash   == [source |-> "run", status |-> "failed", exit |-> "nonzero",
               error |-> TRUE, stdout |-> "clean"]
RunTimeout == [source |-> "run", status |-> "timeout", exit |-> "nonzero",
               error |-> TRUE, stdout |-> "clean"]

\* Every result execute_code can hand back.
RunResults == {RunOk, RunInner, RunCrash, RunTimeout}

\* cancel_async's answer once the process is dead or the id is tombstoned, and
\* the answer of await_async to a waiter whose task was killed.
CancelReceipt == [source |-> "cancel", status |-> "cancelled",
                  exit |-> "none", error |-> FALSE, stdout |-> "none"]

\* cancel_async's answer for a task that is done.
AlreadyFinished == [source |-> "finished", status |-> "failed",
                    exit |-> "none", error |-> TRUE, stdout |-> "none"]

\* The note of the startup reaper.
Interrupted == [source |-> "reaper", status |-> "failed",
                exit |-> "none", error |-> TRUE, stdout |-> "none"]

-----------------------------------------------------------------------------
HasExecutorRecord(r) ==
  \/ r.status # "none" \/ r.exit # "none" \/ r.error \/ r.stdout # "none"

FailureSignal(r) ==
  \/ r.status \notin {"none", "completed"}
  \/ r.exit = "nonzero"
  \/ r.error
  \/ r.stdout = "inner"

HasRunArtifact(r) == r.exit # "none" \/ r.stdout # "none"

\* The gate of the store: may a row with this record be labelled `completed'?
EvidencesCompletion(r) ==
  /\ HasExecutorRecord(r)
  /\ HasRunArtifact(r)
  /\ ~FailureSignal(r)

\* The label the finalizer asks for.  Absent status and exit_code default to
\* "completed" and 0 there.
FinalizeVerdict(r) ==
  IF \/ r.status \notin {"none", "completed"}
     \/ r.exit = "nonzero"
     \/ r.error
     \/ r.stdout = "inner"
     \/ ~HasExecutorRecord(r)
  THEN "failed"
  ELSE "completed"

ReportedFinal(r) == r.status \in {"completed", "failed", "timeout"}
=============================================================================
