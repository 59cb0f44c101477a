---------------------------- MODULE TrialLifecycle ----------------------------
(***************************************************************************)
(* One trial's life inside the episteme server: the durable row in SQLite, *)
(* the local executor's in-memory maps, and the handlers that race over    *)
(* both.                                                                   *)
(*                                                                         *)
(* run_trial, cancel_trial, mark_retryable and get_trial_status are async  *)
(* handlers of one event loop: what runs between two awaits is one step.   *)
(* The steps of different handlers interleave at the awaits, and a handler *)
(* goes on with what it knew before.  correct_trial_status is a worker     *)
(* thread's handler, but its one store call holds the store's lock, so it  *)
(* is one step as well.  The process may die between two commits; a start  *)
(* then reaps the rows left running before it serves.                      *)
(***************************************************************************)
EXTENDS ExecutorRecord, Sequences

CONSTANTS Trials,        \* trial ids
          Callers,       \* requests the server handles at the same time
          NoTrial,       \* the trial of an idle caller
          TombstoneCap,  \* LocalExecutor._CANCELLED_CAP
          MaxCorrections,\* bound: correct_trial_status calls per trial
          MaxCrashes     \* bound: process deaths

ASSUME TrialsAssumption == NoTrial \notin Trials
ASSUME BoundsAssumption ==
  /\ TombstoneCap \in Nat \ {0}
  /\ MaxCorrections \in Nat
  /\ MaxCrashes \in Nat

VARIABLES
  status,     \* trials.status
  output,     \* trials.executor_output_json, without its 'corrections'
  trail,      \* the 'corrections' list inside executor_output_json
  task,       \* the asyncio task that runs the trial's code
  registered, \* ids in LocalExecutor._running_tasks
  result,     \* LocalExecutor._completed_results; NoRecord when absent
  tombstones, \* LocalExecutor._cancelled_ids, oldest first
  poller,     \* trials an _auto_finalize task polls for
  call,       \* where each caller's handler is suspended
  reply,      \* how each caller's last cancel_trial was answered
  boot,       \* serving, or reaping at start
  noting,     \* the trial the reaper has failed but not annotated yet
  applied,    \* history: every correction ever recorded
  spawned,    \* history: executions started per trial
  crashes

row  == <<status, output, trail>>
exec == <<task, registered, result, tombstones, poller>>
conv == <<call, reply>>
life == <<boot, noting, crashes>>
hist == <<applied, spawned>>
vars == <<row, exec, conv, life, hist>>

Status   == {"designed", "running", "completed", "failed", "retryable",
             "abandoned"}
Finished == {"completed", "failed", "retryable"}
Terminal == Finished \cup {"abandoned"}

Correction == [from : Finished, to : Finished]

\* _TRIAL_TRANSITIONS
Transitions == [ designed  |-> {"running", "abandoned"},
                 running   |-> Finished,
                 completed |-> {}, failed    |-> {},
                 retryable |-> {}, abandoned |-> {} ]

Idle == [at |-> "idle", trial |-> NoTrial]

At(c, where) == call[c].at = where
Goto(c, where, t) == call' = [call EXCEPT ![c] = [at |-> where, trial |-> t]]
Return(c) == call' = [call EXCEPT ![c] = Idle]

-----------------------------------------------------------------------------
(***************************************************************************)
(* The store.                                                              *)
(***************************************************************************)

\* update_trial_status accepts the transition of row t to s, when the record
\* in the row is r.
Legal(t, s, r) ==
  /\ s \in Transitions[status[t]]
  /\ s = "completed" => EvidencesCompletion(r)

SetStatus(t, s) == status' = [status EXCEPT ![t] = s]

\* update_trial_executor_output replaces the column: 'corrections' goes too.
SetOutput(t, r) ==
  /\ output' = [output EXCEPT ![t] = r]
  /\ trail'  = [trail EXCEPT ![t] = << >>]

Fail(t) ==
  /\ Legal(t, "failed", output[t])
  /\ SetStatus(t, "failed")

Finalize(t, r) ==
  /\ SetOutput(t, r)
  /\ IF status[t] \in Finished
     THEN UNCHANGED status
     ELSE /\ Legal(t, FinalizeVerdict(r), r)
          /\ SetStatus(t, FinalizeVerdict(r))

-----------------------------------------------------------------------------
(***************************************************************************)
(* The executor.                                                           *)
(***************************************************************************)
Tombstoned(t) == \E i \in 1..Len(tombstones) : tombstones[i] = t

\* Record the id; past the cap the oldest one is dropped.
Tombstone(t) ==
  LET longer == IF Tombstoned(t) THEN tombstones ELSE Append(tombstones, t)
  IN  tombstones' = IF Len(longer) > TombstoneCap THEN Tail(longer) ELSE longer

\* A refused dispatch uses its tombstone up.
Untombstone(t) ==
  LET i == CHOOSE j \in 1..Len(tombstones) : tombstones[j] = t IN
  tombstones' = SubSeq(tombstones, 1, i - 1)
                \o SubSeq(tombstones, i + 1, Len(tombstones))

\* An execution of t has ended, one way or the other (task.done()).
TaskDone(t) == task[t] \in {"done", "cancelled"}
TaskLive(t) == task[t] \in {"running", "cancelling"}

\* get_async_status(t): a result that a poller finalizes with, or a run.
FinalResult(t)     == result[t] # NoRecord /\ ReportedFinal(result[t])
ReportedRunning(t) == result[t] = NoRecord /\ t \in registered

TaskFinish(t) ==
  /\ task[t] = "running"
  /\ task' = [task EXCEPT ![t] = "done"]
  /\ \E r \in RunResults : result' = [result EXCEPT ![t] = r]
  /\ UNCHANGED <<row, registered, tombstones, poller, conv, life, hist>>

\* The cancellation has killed the process group and left the task.
TaskCancelled(t) ==
  /\ task[t] = "cancelling"
  /\ task' = [task EXCEPT ![t] = "cancelled"]
  /\ UNCHANGED <<row, registered, result, tombstones, poller, conv, life,
                 hist>>

-----------------------------------------------------------------------------
(***************************************************************************)
(* run_trial.  The bundle and the programme are the concern of             *)
(* ProgrammeLifecycle; here the bundle is captured.                        *)
(***************************************************************************)

\* Up to the first await, the resolution of a data reference.
RunBegin(c, t) ==
  /\ boot = "serving" /\ call[c] = Idle
  /\ status[t] \notin Finished \cup {"running"}
  /\ Legal(t, "running", output[t])
  /\ SetStatus(t, "running")
  /\ Goto(c, "staging", t)
  /\ UNCHANGED <<output, trail, exec, reply, life, hist>>

\* A data reference does not resolve, or a snippet is gone: the handler
\* returns an error and leaves the row as it is.
RunUnresolved(c) ==
  /\ At(c, "staging")
  /\ Return(c)
  /\ UNCHANGED <<row, exec, reply, life, hist>>

\* The sealed code cannot be staged.  A row that is no longer running refuses
\* the label, and the handler's exception path leaves it alone.
RunUnstaged(c) ==
  LET t == call[c].trial IN
  /\ At(c, "staging")
  /\ IF status[t] = "running" THEN Fail(t) ELSE UNCHANGED status
  /\ Return(c)
  /\ UNCHANGED <<output, trail, exec, reply, life, hist>>

\* The row as it is just before the dispatch.
MayDispatch(t) == status[t] \notin Terminal

\* The row went terminal while the handler staged: nothing is spawned.
RunLapsed(c) ==
  /\ At(c, "staging")
  /\ ~MayDispatch(call[c].trial)
  /\ Return(c)
  /\ UNCHANGED <<row, exec, reply, life, hist>>

\* execute_code_async: a tombstoned id is refused and finalized as cancelled,
\* any other one is spawned and the handler waits for the submit window.
RunDispatch(c) ==
  LET t == call[c].trial IN
  /\ At(c, "staging")
  /\ MayDispatch(t)
  /\ IF Tombstoned(t)
     THEN /\ Untombstone(t)
          /\ result' = [result EXCEPT ![t] = CancelReceipt]
          /\ Finalize(t, CancelReceipt)
          /\ Return(c)
          /\ UNCHANGED <<task, registered, spawned>>
     ELSE /\ task' = [task EXCEPT ![t] = "running"]
          /\ registered' = registered \cup {t}
          /\ spawned' = [spawned EXCEPT ![t] = @ + 1]
          /\ Goto(c, "waiting", t)
          /\ UNCHANGED <<row, result, tombstones>>
  /\ UNCHANGED <<poller, reply, life, applied>>

\* create_task(_auto_finalize(...)).
NoPoll(t) == UNCHANGED poller  \* mutant: the client has to poll
StartPoll(t) == poller' = poller \cup {t}

\* The submit window closes on what get_async_status calls running, a live
\* task or one killed at that very moment: a poller takes over.
RunRedispatch(c) ==  \* mutant: a probe first, then the dispatch proper
  LET t == call[c].trial IN
  /\ At(c, "waiting")
  /\ ReportedRunning(t)
  /\ Goto(c, "staging", t)
  /\ UNCHANGED <<row, exec, reply, life, hist>>
RunDetach(c) ==
  LET t == call[c].trial IN
  /\ At(c, "waiting")
  /\ ReportedRunning(t)
  /\ StartPoll(t)
  /\ Return(c)
  /\ UNCHANGED <<row, task, registered, result, tombstones, reply, life, hist>>

\* The wait ended within the window, with a result or with the word that the
\* task was killed.  The row is read again before it is finalized.
RunConclude(c) ==
  LET t == call[c].trial
      r == IF task[t] = "done" THEN result[t] ELSE CancelReceipt
  IN
  /\ At(c, "waiting")
  /\ TaskDone(t)
  /\ IF status[t] \in Terminal THEN UNCHANGED row ELSE Finalize(t, r)
  /\ Return(c)
  /\ UNCHANGED <<exec, reply, life, hist>>

\* One successful poll of _auto_finalize.
PollFinalize(t) ==
  /\ t \in poller
  /\ FinalResult(t)
  /\ Finalize(t, result[t])
  /\ poller' = poller \ {t}
  /\ UNCHANGED <<task, registered, result, tombstones, conv, life, hist>>

\* get_trial_status, and each turn of wait_trial.
GetTrialStatus(t) ==
  /\ boot = "serving"
  /\ FinalResult(t)
  /\ Finalize(t, result[t])
  /\ UNCHANGED <<exec, conv, life, hist>>

-----------------------------------------------------------------------------
(***************************************************************************)
(* cancel_trial and mark_retryable, around cancel_async.  The first labels *)
(* the row after the kill, the second before it.                           *)
(***************************************************************************)
CancelDesigned(c, t) ==
  /\ boot = "serving" /\ call[c] = Idle
  /\ status[t] = "designed"
  /\ Legal(t, "abandoned", output[t])
  /\ SetStatus(t, "abandoned")
  /\ reply' = [reply EXCEPT ![c] = "cancelled"]
  /\ UNCHANGED <<output, trail, exec, call, life, hist>>

\* cancel_async returns at once: there is no task, or the task is done.
CancelAsyncUnasked(t, r) ==  \* mutant: done() is not asked
  \/ t \notin registered /\ Tombstone(t) /\ r = CancelReceipt
  \/ t \in registered /\ r = AlreadyFinished /\ UNCHANGED tombstones
CancelAsyncReturns(t, r) ==
  \/ /\ t \notin registered
     /\ Tombstone(t)
     /\ r = CancelReceipt
  \/ /\ t \in registered /\ TaskDone(t)
     /\ r = AlreadyFinished
     /\ UNCHANGED tombstones

\* cancel_async asks the task to stop and awaits it.
CancelAsyncKills(t) ==
  /\ t \in registered /\ TaskLive(t)
  /\ task' = [task EXCEPT ![t] = "cancelling"]

\* cancel_async after the sweep for stray processes: unregister and tombstone.
\* `del' raises when an overlapping call has unregistered the id already.
CancelAsyncWaits(t) ==  \* mutant: wait for the id to be there
  /\ t \in registered
  /\ registered' = registered \ {t}
  /\ Tombstone(t)
CancelAsyncEnds(t) ==
  IF t \in registered
  THEN registered' = registered \ {t} /\ Tombstone(t)
  ELSE UNCHANGED <<registered, tombstones>>

CancelNow(c, t) ==
  /\ boot = "serving" /\ call[c] = Idle
  /\ status[t] = "running"
  /\ \E r \in {CancelReceipt, AlreadyFinished} :
       /\ CancelAsyncReturns(t, r)
       /\ Fail(t)
       /\ SetOutput(t, r)
  /\ reply' = [reply EXCEPT ![c] = "cancelled"]
  /\ UNCHANGED <<task, registered, result, poller, call, life, hist>>

CancelKill(c, t) ==
  /\ boot = "serving" /\ call[c] = Idle
  /\ status[t] = "running"
  /\ CancelAsyncKills(t)
  /\ Goto(c, "cancelling", t)
  /\ reply' = [reply EXCEPT ![c] = "none"]
  /\ UNCHANGED <<row, registered, result, tombstones, poller, life, hist>>

\* Back from the sweep: `del' raises, or the label is refused because the row
\* has become terminal meanwhile, or the row is failed and the receipt stored.
CancelSettle(c) ==
  LET t == call[c].trial IN
  /\ At(c, "cancelling")
  /\ TaskDone(t)
  /\ CancelAsyncEnds(t)
  /\ IF t \in registered /\ status[t] = "running"
     THEN /\ Fail(t)
          /\ SetOutput(t, CancelReceipt)
          /\ reply' = [reply EXCEPT ![c] = "cancelled"]
     ELSE /\ reply' = [reply EXCEPT ![c] = "refused"]
          /\ UNCHANGED row
  /\ Return(c)
  /\ UNCHANGED <<task, result, poller, life, hist>>

RetryNow(c, t) ==
  /\ boot = "serving" /\ call[c] = Idle
  /\ status[t] = "running"
  /\ Legal(t, "retryable", output[t])
  /\ SetStatus(t, "retryable")
  /\ \E r \in {CancelReceipt, AlreadyFinished} :
       /\ CancelAsyncReturns(t, r)
       /\ SetOutput(t, r)
  /\ UNCHANGED <<task, registered, result, poller, conv, life, hist>>

RetryKill(c, t) ==
  /\ boot = "serving" /\ call[c] = Idle
  /\ status[t] = "running"
  /\ Legal(t, "retryable", output[t])
  /\ SetStatus(t, "retryable")
  /\ CancelAsyncKills(t)
  /\ Goto(c, "retrying", t)
  /\ UNCHANGED <<output, trail, registered, result, tombstones, poller, reply,
                 life, hist>>

\* The receipt is stored over whatever the row holds by now.
RetrySettle(c) ==
  LET t == call[c].trial IN
  /\ At(c, "retrying")
  /\ TaskDone(t)
  /\ CancelAsyncEnds(t)
  /\ IF t \in registered THEN SetOutput(t, CancelReceipt)
                         ELSE UNCHANGED <<output, trail>>
  /\ Return(c)
  /\ UNCHANGED <<status, task, result, poller, reply, life, hist>>

-----------------------------------------------------------------------------
MayCorrect(t, to) ==
  /\ status[t] \in Finished
  /\ to = "completed" => EvidencesCompletion(output[t])

CorrectSilently(t, to) ==  \* mutant: nothing appended to the record
  /\ boot = "serving"
  /\ MayCorrect(t, to)
  /\ SetStatus(t, to)
  /\ UNCHANGED <<output, trail, exec, conv, life, hist>>
Correct(t, to) ==
  LET correction == [from |-> status[t], to |-> to] IN
  /\ boot = "serving"
  /\ Len(applied[t]) < MaxCorrections
  /\ MayCorrect(t, to)
  /\ SetStatus(t, to)
  /\ trail'   = [trail EXCEPT ![t] = Append(@, correction)]
  /\ applied' = [applied EXCEPT ![t] = Append(@, correction)]
  /\ UNCHANGED <<output, exec, conv, life, spawned>>

-----------------------------------------------------------------------------
(***************************************************************************)
(* Death and restart.  The rows survive; the maps, the handlers and, with  *)
(* --die-with-parent, the processes do not.                                *)
(***************************************************************************)
LoseMemory ==
  /\ crashes < MaxCrashes
  /\ crashes' = crashes + 1
  /\ task' = [t \in Trials |-> "none"]
  /\ registered' = {}
  /\ result' = [t \in Trials |-> NoRecord]
  /\ tombstones' = << >>
  /\ poller' = {}
  /\ call' = [c \in Callers |-> Idle]
  /\ reply' = [c \in Callers |-> "none"]
  /\ boot' = "reaping"
  /\ noting' = NoTrial
  /\ UNCHANGED hist

Crash ==
  /\ LoseMemory
  /\ UNCHANGED row

\* Death inside _finalize_trial, between the commit of the output and the
\* commit of the label.
CrashInFinalize(t) ==
  /\ LoseMemory
  /\ status[t] = "running"
  /\ FinalResult(t)
  /\ SetOutput(t, result[t])
  /\ UNCHANGED status

\* reap_orphaned_trials: fail a running row, then overwrite its output.
ReapFail(t) ==
  /\ boot = "reaping" /\ noting = NoTrial
  /\ status[t] = "running"
  /\ Fail(t)
  /\ noting' = t
  /\ UNCHANGED <<output, trail, exec, conv, boot, crashes, hist>>

ReapNote ==
  /\ noting # NoTrial
  /\ SetOutput(noting, Interrupted)
  /\ noting' = NoTrial
  /\ UNCHANGED <<status, exec, conv, boot, crashes, hist>>

Serve ==
  /\ boot = "reaping" /\ noting = NoTrial
  /\ \A t \in Trials : status[t] # "running"
  /\ boot' = "serving"
  /\ UNCHANGED <<row, exec, conv, noting, crashes, hist>>

-----------------------------------------------------------------------------
Init ==
  /\ status = [t \in Trials |-> "designed"]
  /\ output = [t \in Trials |-> NoRecord]
  /\ trail  = [t \in Trials |-> << >>]
  /\ task   = [t \in Trials |-> "none"]
  /\ registered = {}
  /\ result = [t \in Trials |-> NoRecord]
  /\ tombstones = << >>
  /\ poller = {}
  /\ call   = [c \in Callers |-> Idle]
  /\ reply  = [c \in Callers |-> "none"]
  /\ boot = "serving"
  /\ noting = NoTrial
  /\ applied = [t \in Trials |-> << >>]
  /\ spawned = [t \in Trials |-> 0]
  /\ crashes = 0

RunStage(c) ==
  RunUnresolved(c) \/ RunUnstaged(c) \/ RunLapsed(c) \/ RunDispatch(c)

Handler(c) ==
  \/ RunStage(c) \/ RunDetach(c) \/ RunConclude(c)
  \/ CancelSettle(c) \/ RetrySettle(c)

Request(c, t) ==
  \/ RunBegin(c, t)
  \/ CancelDesigned(c, t) \/ CancelNow(c, t) \/ CancelKill(c, t)
  \/ RetryNow(c, t) \/ RetryKill(c, t)

Executor(t) == TaskFinish(t) \/ TaskCancelled(t)

Reaper == (\E t \in Trials : ReapFail(t)) \/ ReapNote \/ Serve

Next ==
  \/ \E c \in Callers : Handler(c)
  \/ \E c \in Callers, t \in Trials : Request(c, t)
  \/ \E t \in Trials : Executor(t) \/ PollFinalize(t) \/ GetTrialStatus(t)
  \/ \E t \in Trials, to \in Finished : Correct(t, to)
  \/ Reaper
  \/ Crash
  \/ \E t \in Trials : CrashInFinalize(t)

Spec == Init /\ [][Next]_vars

\* The event loop runs every ready handler, the executor's deadline ends every
\* run, and a start runs the reaper to its end.  No request has to come.
Fairness ==
  /\ \A c \in Callers : WF_vars(Handler(c))
  /\ \A t \in Trials : WF_vars(Executor(t)) /\ WF_vars(PollFinalize(t))
  /\ WF_vars(Reaper)

FairSpec == Spec /\ Fairness
-----------------------------------------------------------------------------
(***************************************************************************)
(* The audits of integrity/checks.py over rows and executor: the trials    *)
(* each would report now.  Observations and the clock are not modelled.    *)
(***************************************************************************)
orphaned_running_trials ==
  {t \in Trials : status[t] = "running" /\ t \notin registered}

\* An entry whose task is done is left behind by every run and reports nothing.
terminal_with_live_executor ==
  {t \in Trials : /\ status[t] \in {"retryable", "failed", "abandoned"}
                  /\ t \in registered /\ TaskLive(t)}

mislabeled_outcome ==
  {t \in Trials : status[t] = "completed" /\ ~EvidencesCompletion(output[t])}

\* The task has finished and the row was never finalized.
stalled_running_trials ==
  {t \in Trials : /\ status[t] = "running"
                  /\ t \in registered /\ TaskDone(t)}

-----------------------------------------------------------------------------
(***************************************************************************)
(* Properties.                                                             *)
(***************************************************************************)

\* Every variable holds a value of its kind, and an idle caller holds no trial.
TypeOK ==
  /\ status \in [Trials -> Status]
  /\ output \in [Trials -> Record]
  /\ trail  \in [Trials -> Seq(Correction)]
  /\ task   \in [Trials -> {"none", "running", "cancelling", "done",
                            "cancelled"}]
  /\ registered \subseteq Trials
  /\ result \in [Trials -> Record]
  /\ tombstones \in Seq(Trials)
  /\ poller \subseteq Trials
  /\ call \in [Callers -> {Idle} \cup
                           [at : {"staging", "waiting", "cancelling",
                                  "retrying"}, trial : Trials]]
  /\ reply \in [Callers -> {"none", "cancelled", "refused"}]
  /\ boot \in {"serving", "reaping"}
  /\ noting \in Trials \cup {NoTrial}
  /\ applied \in [Trials -> Seq(Correction)]
  /\ spawned \in [Trials -> Nat]
  /\ crashes \in Nat

\* mislabeled_outcome never fires: whatever a late finalizer, a cancellation
\* receipt or the reaper writes over a row, a row labelled completed holds a
\* record of a completed run.
CompletedIsEvidenced ==
  \A t \in Trials : status[t] = "completed" => EvidencesCompletion(output[t])

\* terminal_with_live_executor never fires: trial code that nobody has asked
\* to stop runs only under a row that is still running.
NoRunUnderTerminalRow ==
  \A t \in Trials : task[t] = "running" => status[t] = "running"

\* "Enforcement prevents violations at write time; these checks detect what
\* enforcement cannot cover": no audit but the live-task one ever has a false
\* label to report, that one reports only a run that is being killed, and a
\* running row that no handler and no poller will ever label, the snippet or
\* the reference of its code being gone, is reported.
AuditsSeeEveryLoss ==
  /\ mislabeled_outcome = {}
  /\ \A t \in terminal_with_live_executor : task[t] = "cancelling"
  /\ boot = "serving" =>
       \A t \in Trials : status[t] = "running" =>
         \/ t \in poller
         \/ \E c \in Callers : call[c].trial = t
         \/ t \in orphaned_running_trials \cup stalled_running_trials

\* run_trial's "no double execution": over all requests, races and restarts,
\* the code of a trial is started at most once.
OneExecution == \A t \in Trials : spawned[t] <= 1

\* A tombstone is only ever left for a trial whose row is terminal, so refusing
\* the spawn never strands a trial that could still run.
TombstonedIsTerminal ==
  \A i \in 1..Len(tombstones) : status[tombstones[i]] \in Terminal

\* stalled_running_trials never fires for good: while a row is running after
\* its execution has ended, somebody is still there to label it, namely the
\* run_trial that waits, a poller, or the cancel_trial that killed it.
EndedRunHasFinalizer ==
  \A t \in Trials : TaskDone(t) /\ status[t] = "running" =>
    \/ t \in poller /\ FinalResult(t)
    \/ \E c \in Callers : call[c].trial = t /\ At(c, "waiting")
    \/ \E c \in Callers : call[c].trial = t /\ At(c, "cancelling")

\* orphaned_running_trials never fires for a dispatched trial: its id stays in
\* _running_tasks for as long as its row is running.
DispatchedIsRegistered ==
  \A t \in Trials :
    boot = "serving" /\ status[t] = "running" /\ task[t] # "none"
      => t \in registered

\* "Repair is an explicit recorded act, never a silent rewrite": the label of a
\* terminal row changes only in a step that records a correction of it.
TerminalChangesAreRecorded ==
  [][\A t \in Trials :
       status[t] \in Terminal /\ status'[t] # status[t] =>
         /\ status[t] # "abandoned"
         /\ trail'[t] = Append(trail[t],
                               [from |-> status[t], to |-> status'[t]])
    ]_vars

\* Whatever the handlers, the executor and the reaper do to a row is something
\* the row's own specification allows.
Row == INSTANCE TrialRow
         WITH Trials <- Trials, status <- status, output <- output,
              trail <- trail
ImplementsTrialRow == Row!Spec

\* The auto-finalizer closes the loop: once a trial's code has been started its
\* row becomes terminal, through any cancellation, restart or lost client.
DispatchedSettles ==
  \A t \in Trials : task[t] # "none" ~> status[t] \in Terminal

\* A cancel request is always answered: the handler that waits for a kill
\* returns, even when another one has unregistered the task.
CancelReturns ==
  \A c \in Callers : At(c, "cancelling") ~> ~At(c, "cancelling")

-----------------------------------------------------------------------------
(***************************************************************************)
(* The inductive invariant: what each suspended handler may still rely on. *)
(***************************************************************************)
On(c, t, where) == call[c].trial = t /\ At(c, where)

\* Nothing has touched a trial that was never started.
UntouchedBeforeStart ==
  \A t \in Trials : status[t] \in {"designed", "abandoned"} =>
    /\ task[t] = "none" /\ spawned[t] = 0 /\ output[t] = NoRecord
    /\ \A c \in Callers : call[c].trial # t

\* One run_trial stages a trial, and nothing ran for it yet.
StagerIsAlone ==
  \A t \in Trials, c \in Callers : On(c, t, "staging") =>
    /\ task[t] = "none" /\ spawned[t] = 0
    /\ ~EvidencesCompletion(output[t])
    /\ \A d \in Callers : On(d, t, "staging") => d = c

\* Only an execution that ended by itself has a result.
ResultIsOfTheRun ==
  \A t \in Trials :
    IF task[t] = "done" THEN result[t] \in RunResults ELSE result[t] = NoRecord

\* A waiter has a task, and a killer's task is dying or dead.
HandlersHoldTheirTask ==
  \A t \in Trials, c \in Callers :
    /\ On(c, t, "waiting") => task[t] # "none"
    /\ On(c, t, "cancelling") \/ On(c, t, "retrying")
         => task[t] \in {"cancelling", "cancelled"}
    /\ On(c, t, "retrying") => status[t] \in Finished

\* Evidence in a row was put there by the result still cached, or before the
\* last restart.
EvidenceIsOfTheRun ==
  \A t \in Trials : EvidencesCompletion(output[t]) =>
    \/ task[t] = "none"
    \/ task[t] = "done" /\ EvidencesCompletion(result[t])

\* Somebody will label a running row.
RunningRowIsWatched ==
  \A t \in Trials : status[t] = "running" =>
    /\ task[t] \in {"running", "done"} =>
         t \in poller \/ \E c \in Callers : On(c, t, "waiting")
    /\ task[t] \in {"cancelling", "cancelled"} =>
         \E c \in Callers : On(c, t, "cancelling")

\* Until it serves, a fresh process holds nothing but the rows.
ReapingIsQuiet ==
  /\ boot = "reaping" =>
       /\ \A t \in Trials : task[t] = "none"
       /\ \A c \in Callers : call[c] = Idle
  /\ noting # NoTrial => boot = "reaping" /\ status[noting] = "failed"

\* _running_tasks holds tasks that were really created.
RegisteredHasTask == \A t \in registered : task[t] # "none"

IndInv ==
  /\ TypeOK
  /\ CompletedIsEvidenced
  /\ NoRunUnderTerminalRow
  /\ OneExecution
  /\ TombstonedIsTerminal
  /\ DispatchedIsRegistered
  /\ UntouchedBeforeStart
  /\ StagerIsAlone
  /\ ResultIsOfTheRun
  /\ HandlersHoldTheirTask
  /\ EvidenceIsOfTheRun
  /\ RunningRowIsWatched
  /\ ReapingIsQuiet

=============================================================================
