------------------------ MODULE TrialLifecycle_proofs ------------------------
(***************************************************************************)
(* TrialLifecycle keeps its safety invariants for every set of trials and  *)
(* callers, every tombstone cap and every bound.  IndInv is inductive: one *)
(* lemma per action shows that the action keeps it, and each invariant the *)
(* runs check follows from it.                                             *)
(*                                                                         *)
(* An action whose effect on the row depends on the row has a lemma first  *)
(* that says what the effect is; the lemma that the invariant is kept      *)
(* cites that one and leaves the action closed.                            *)
(***************************************************************************)
EXTENDS TrialLifecycle, SequenceTheorems, TLAPS

-----------------------------------------------------------------------------
(***************************************************************************)
(* The records, the tombstones and the finalizer.                          *)
(***************************************************************************)

\* The records the program writes are records; none but a run's own result
\* can evidence completion; every run's result is final for the pollers; and
\* for what run_trial and the pollers finalize with, the finalizer's verdict
\* is exactly what the store's gate will accept.
LEMMA RecordFacts ==
  /\ {NoRecord, CancelReceipt, AlreadyFinished, Interrupted} \cup RunResults
       \subseteq Record
  /\ NoRecord \notin RunResults
  /\ \A r \in {NoRecord, CancelReceipt, AlreadyFinished, Interrupted} :
       ~EvidencesCompletion(r)
  /\ \A r \in RunResults : ReportedFinal(r)
  /\ \A r \in RunResults \cup {CancelReceipt} :
       /\ FinalizeVerdict(r) \in {"completed", "failed"}
       /\ FinalizeVerdict(r) = "completed" <=> EvidencesCompletion(r)
  /\ FinalizeVerdict(CancelReceipt) = "failed"
<1> USE DEF NoRecord, RunResults, RunOk, RunInner, RunCrash, RunTimeout,
            CancelReceipt, AlreadyFinished, Interrupted
<1>1. {NoRecord, CancelReceipt, AlreadyFinished, Interrupted} \cup RunResults
        \subseteq Record
  BY DEF Record
<1>2. NoRecord \notin RunResults
  OBVIOUS
<1> USE DEF HasExecutorRecord, HasRunArtifact, FailureSignal
<1>3. \A r \in {NoRecord, CancelReceipt, AlreadyFinished, Interrupted} :
        ~EvidencesCompletion(r)
  BY DEF EvidencesCompletion
<1>4. \A r \in RunResults : ReportedFinal(r)
  BY DEF ReportedFinal
<1>5. \A r \in RunResults \cup {CancelReceipt} :
        /\ FinalizeVerdict(r) \in {"completed", "failed"}
        /\ FinalizeVerdict(r) = "completed" <=> EvidencesCompletion(r)
  BY DEF FinalizeVerdict, EvidencesCompletion
<1>6. FinalizeVerdict(CancelReceipt) = "failed"
  BY DEF FinalizeVerdict
<1>7. QED
  BY <1>1, <1>2, <1>3, <1>4, <1>5, <1>6

\* _finalize_trial and the store agree on every record with a run artifact, not
\* only on those a run writes: the verdict is `completed' exactly when
\* update_trial_status accepts that label.
LEMMA VerdictIsAccepted ==
  ASSUME NEW r \in Record, HasRunArtifact(r)
  PROVE  FinalizeVerdict(r) = "completed" <=> EvidencesCompletion(r)
BY DEF Record, HasRunArtifact, FinalizeVerdict, EvidencesCompletion,
       HasExecutorRecord, FailureSignal

\* Recording a cancelled id, and dropping the oldest one past the cap, leaves
\* tombstones that were there before, and the new one.
LEMMA TombstoneKeepsTheRest ==
  ASSUME tombstones \in Seq(Trials), NEW t \in Trials, Tombstone(t)
  PROVE  /\ tombstones' \in Seq(Trials)
         /\ \A i \in 1..Len(tombstones') :
              \/ tombstones'[i] = t
              \/ \E j \in 1..Len(tombstones) : tombstones[j] = tombstones'[i]
<1> DEFINE longer ==
      IF Tombstoned(t) THEN tombstones ELSE Append(tombstones, t)
<1>1. /\ longer \in Seq(Trials)
      /\ \A i \in 1..Len(longer) :
           \/ longer[i] = t
           \/ \E j \in 1..Len(tombstones) : tombstones[j] = longer[i]
  BY AppendProperties
<1>2. tombstones' = IF Len(longer) > TombstoneCap THEN Tail(longer) ELSE longer
  BY DEF Tombstone
<1> HIDE DEF longer
<1>3. CASE Len(longer) > TombstoneCap
  <2>1. longer # << >>
    BY <1>1, <1>3, BoundsAssumption
  <2>2. /\ Tail(longer) \in Seq(Trials)
        /\ Len(Tail(longer)) = Len(longer) - 1
        /\ \A i \in 1..Len(Tail(longer)) : Tail(longer)[i] = longer[i + 1]
    BY <1>1, <2>1, HeadTailProperties
  <2>3. QED
    BY <1>1, <1>2, <1>3, <2>2
<1>4. CASE ~(Len(longer) > TombstoneCap)
  BY <1>1, <1>2, <1>4
<1>5. QED
  BY <1>3, <1>4

\* What a finalization leaves in the row.
Settles(t, r) ==
  /\ output' = [output EXCEPT ![t] = r]
  /\ trail'  = [trail EXCEPT ![t] = << >>]
  /\ \E s \in Finished :
       /\ status' = [status EXCEPT ![t] = s]
       /\ status[t] \in Finished => s = status[t]
       /\ s = "completed" => EvidencesCompletion(r)

USE DEF Status, Finished, Terminal, Idle, At, On, row, conv, exec, life, hist

\* _finalize_trial on a running or finished row replaces its record, ends it if
\* it was running, and never leaves `completed' without evidence.
LEMMA FinalizeSettles ==
  ASSUME TypeOK, NEW t \in Trials, NEW r \in RunResults \cup {CancelReceipt},
         status[t] \in Finished \cup {"running"},
         status[t] = "completed" => EvidencesCompletion(r),
         Finalize(t, r)
  PROVE  Settles(t, r)
<1> USE DEF Finalize, SetStatus, SetOutput, Settles, TypeOK
<1>1. CASE status[t] \in Finished
  BY <1>1
<1>2. CASE status[t] = "running"
  BY <1>2, RecordFacts
<1>3. QED
  BY <1>1, <1>2

\* What a poller or get_trial_status finalizes with is the result of an
\* execution that ended by itself, and a row already labelled `completed' is
\* rewritten with the evidence of that same run.
LEMMA LateResult ==
  ASSUME IndInv, NEW t \in Trials, FinalResult(t), Finalize(t, result[t])
  PROVE  /\ task[t] = "done" /\ status[t] \in Finished \cup {"running"}
         /\ Settles(t, result[t])
         /\ result[t] \in RunResults
         /\ status[t] = "completed" => EvidencesCompletion(result[t])
<1> USE DEF IndInv
<1>1. task[t] = "done" /\ result[t] \in RunResults
  BY DEF FinalResult, ResultIsOfTheRun
<1>2. status[t] \in Finished \cup {"running"}
  BY <1>1 DEF UntouchedBeforeStart, TypeOK
<1>3. status[t] = "completed" => EvidencesCompletion(result[t])
  BY <1>1 DEF CompletedIsEvidenced, EvidenceIsOfTheRun
<1>4. QED
  BY <1>1, <1>2, <1>3, FinalizeSettles

\* No action takes a terminal row back, so a tombstone needs a look only when
\* it is new.
TerminalStays ==
  \A t \in Trials : status[t] \in Terminal => status'[t] \in Terminal

\* A step that records no cancelled id keeps TombstonedIsTerminal.
LEMMA OldTombstones ==
  ASSUME TypeOK, TombstonedIsTerminal, UNCHANGED tombstones, TerminalStays
  PROVE  TombstonedIsTerminal'
<1>1. \A i \in 1..Len(tombstones) : tombstones[i] \in Trials
  BY ElementOfSeq DEF TypeOK
<1>2. QED
  BY <1>1 DEF TombstonedIsTerminal, TerminalStays

\* A step that records the id of a trial whose row is terminal afterwards keeps
\* TombstonedIsTerminal.
LEMMA NewTombstone ==
  ASSUME TypeOK, TombstonedIsTerminal, TerminalStays,
         NEW t \in Trials, status'[t] \in Terminal,
         \A i \in 1..Len(tombstones') :
           \/ tombstones'[i] = t
           \/ \E j \in 1..Len(tombstones) : tombstones[j] = tombstones'[i]
  PROVE  TombstonedIsTerminal'
<1>1. \A i \in 1..Len(tombstones) : tombstones[i] \in Trials
  BY ElementOfSeq DEF TypeOK
<1>2. QED
  BY <1>1 DEF TombstonedIsTerminal, TerminalStays

-----------------------------------------------------------------------------
(***************************************************************************)
(* run_trial keeps the invariant.                                          *)
(***************************************************************************)

\* run_trial, up to the resolution of a data reference.
LEMMA RunBeginKeeps ==
  ASSUME NEW c \in Callers, NEW t \in Trials, IndInv, RunBegin(c, t)
  PROVE  IndInv'
<1> USE DEF IndInv, RunBegin, Legal, SetStatus, Goto
<1>1. status[t] = "designed"
  BY DEF Legal, Transitions, TypeOK
<1>2. TerminalStays
  BY <1>1 DEF TypeOK, TerminalStays
<1>3. TypeOK'
  BY <1>1, RecordFacts, EmptySeq DEF TypeOK
<1>4. CompletedIsEvidenced'
  BY <1>1, RecordFacts DEF CompletedIsEvidenced, TypeOK
<1>5. NoRunUnderTerminalRow'
  BY <1>1 DEF NoRunUnderTerminalRow, TypeOK
<1>6. TombstonedIsTerminal'
  BY <1>2, OldTombstones
<1>7. DispatchedIsRegistered'
  BY <1>1 DEF DispatchedIsRegistered, TypeOK, UntouchedBeforeStart
<1>8. UntouchedBeforeStart'
  BY <1>1, TrialsAssumption DEF UntouchedBeforeStart, TypeOK
<1>9. StagerIsAlone'
  BY <1>1, RecordFacts DEF StagerIsAlone, TypeOK, UntouchedBeforeStart
<1>10. HandlersHoldTheirTask'
  BY <1>1 DEF HandlersHoldTheirTask, TypeOK, UntouchedBeforeStart
<1>11. RunningRowIsWatched'
  BY <1>1 DEF RunningRowIsWatched, TypeOK, UntouchedBeforeStart
<1>12. ReapingIsQuiet'
  BY <1>1 DEF ReapingIsQuiet, TypeOK
<1>13. (OneExecution /\ ResultIsOfTheRun /\ EvidenceIsOfTheRun)'
  BY <1>1, <1>2 DEF OneExecution, ResultIsOfTheRun, EvidenceIsOfTheRun
<1>14. QED
  BY <1>3, <1>4, <1>5, <1>6, <1>7, <1>8, <1>9, <1>10, <1>11, <1>12, <1>13

\* run_trial, giving up on a data reference or a snippet.
LEMMA RunUnresolvedKeeps ==
  ASSUME NEW c \in Callers, IndInv, RunUnresolved(c)
  PROVE  IndInv'
<1> USE DEF IndInv, RunUnresolved, Return
<1>1. call[c].trial \in Trials /\ call[c] # Idle
  BY DEF TypeOK
<1>2. TypeOK'
  BY <1>1, RecordFacts, EmptySeq DEF TypeOK
<1>3. UntouchedBeforeStart'
  BY <1>1, TrialsAssumption DEF UntouchedBeforeStart, TypeOK
<1>4. StagerIsAlone'
  BY <1>1, RecordFacts DEF StagerIsAlone, TypeOK
<1>5. HandlersHoldTheirTask'
  BY <1>1 DEF HandlersHoldTheirTask, TypeOK
<1>6. RunningRowIsWatched'
  BY <1>1 DEF RunningRowIsWatched, TypeOK, StagerIsAlone
<1>7. ReapingIsQuiet'
  BY <1>1 DEF ReapingIsQuiet, TypeOK
<1>8. (CompletedIsEvidenced /\ NoRunUnderTerminalRow /\ OneExecution
       /\ TombstonedIsTerminal /\ DispatchedIsRegistered /\ ResultIsOfTheRun
       /\ EvidenceIsOfTheRun)'
  BY <1>1
  DEF CompletedIsEvidenced, NoRunUnderTerminalRow, OneExecution,
      TombstonedIsTerminal, DispatchedIsRegistered, ResultIsOfTheRun,
      EvidenceIsOfTheRun
<1>9. QED
  BY <1>2, <1>3, <1>4, <1>5, <1>6, <1>7, <1>8

\* run_trial, failing the row because the sealed code cannot be staged.
LEMMA RunUnstagedKeeps ==
  ASSUME NEW c \in Callers, IndInv, RunUnstaged(c)
  PROVE  IndInv'
<1> USE DEF IndInv
<1>1. PICK t \in Trials : call[c] = [at |-> "staging", trial |-> t]
  BY DEF RunUnstaged, TypeOK
<1>2. task[t] = "none"
  BY <1>1 DEF StagerIsAlone
<1>3. \/ status[t] # "running" /\ UNCHANGED status
      \/ status[t] = "running" /\ status' = [status EXCEPT ![t] = "failed"]
  BY <1>1 DEF RunUnstaged, Fail, SetStatus
<1>4. /\ call' = [call EXCEPT ![c] = Idle]
      /\ UNCHANGED <<output, trail, exec, reply, life, hist>>
  BY DEF RunUnstaged, Return
<1>5. TerminalStays
  BY <1>3 DEF TypeOK, TerminalStays
<1>6. TypeOK'
  BY <1>1, <1>2, <1>3, <1>4, RecordFacts, EmptySeq DEF TypeOK
<1>7. CompletedIsEvidenced'
  BY <1>1, <1>2, <1>3, <1>4, RecordFacts DEF CompletedIsEvidenced, TypeOK
<1>8. NoRunUnderTerminalRow'
  BY <1>1, <1>2, <1>3, <1>4 DEF NoRunUnderTerminalRow, TypeOK
<1>9. TombstonedIsTerminal'
  BY <1>4, <1>5, OldTombstones
<1>10. DispatchedIsRegistered'
  BY <1>1, <1>2, <1>3, <1>4 DEF DispatchedIsRegistered, TypeOK
<1>11. UntouchedBeforeStart'
  BY <1>1, <1>2, <1>3, <1>4, TrialsAssumption DEF UntouchedBeforeStart, TypeOK
<1>12. StagerIsAlone'
  BY <1>1, <1>2, <1>3, <1>4, RecordFacts DEF StagerIsAlone, TypeOK
<1>13. HandlersHoldTheirTask'
  BY <1>1, <1>2, <1>3, <1>4 DEF HandlersHoldTheirTask, TypeOK
<1>14. RunningRowIsWatched'
  BY <1>1, <1>2, <1>3, <1>4 DEF RunningRowIsWatched, TypeOK, StagerIsAlone
<1>15. ReapingIsQuiet'
  BY <1>1, <1>2, <1>3, <1>4 DEF ReapingIsQuiet, TypeOK
<1>16. (OneExecution /\ ResultIsOfTheRun /\ EvidenceIsOfTheRun)'
  BY <1>1, <1>2, <1>3, <1>4, <1>5
  DEF OneExecution, ResultIsOfTheRun, EvidenceIsOfTheRun
<1>17. QED
  BY <1>6, <1>7, <1>8, <1>9, <1>10, <1>11, <1>12, <1>13, <1>14, <1>15, <1>16

\* run_trial, finding the row terminal before the dispatch.
LEMMA RunLapsedKeeps ==
  ASSUME NEW c \in Callers, IndInv, RunLapsed(c)
  PROVE  IndInv'
BY RunUnresolvedKeeps DEF RunLapsed, RunUnresolved

\* The dispatch always starts the code, for the first time: the second look at
\* the row has excluded every tombstoned id, so the executor's refusal of one
\* is never taken.
LEMMA RunDispatchStarts ==
  ASSUME NEW c \in Callers, IndInv, RunDispatch(c)
  PROVE  \E t \in Trials :
           /\ call[c] = [at |-> "staging", trial |-> t]
           /\ status[t] = "running" /\ task[t] = "none" /\ spawned[t] = 0
           /\ task' = [task EXCEPT ![t] = "running"]
           /\ registered' = registered \cup {t}
           /\ spawned' = [spawned EXCEPT ![t] = 1]
           /\ call' = [call EXCEPT ![c] = [at |-> "waiting", trial |-> t]]
           /\ UNCHANGED <<row, result, tombstones, poller, reply, life,
                          applied>>
<1> USE DEF IndInv
<1>1. PICK t \in Trials : call[c] = [at |-> "staging", trial |-> t]
  BY DEF RunDispatch, TypeOK
<1>2. call[c].trial = t /\ status[t] \notin Terminal
  BY <1>1 DEF RunDispatch, MayDispatch
<1>3. status[t] = "running"
  BY <1>2 DEF UntouchedBeforeStart, TypeOK
<1>4. task[t] = "none" /\ spawned[t] = 0
  BY <1>1 DEF StagerIsAlone
<1>5. ~Tombstoned(t)
  BY <1>3 DEF Tombstoned, TombstonedIsTerminal
<1>6. /\ task' = [task EXCEPT ![t] = "running"]
      /\ registered' = registered \cup {t}
      /\ spawned' = [spawned EXCEPT ![t] = @ + 1]
      /\ Goto(c, "waiting", t)
      /\ UNCHANGED <<row, result, tombstones, poller, reply, life, applied>>
  BY <1>2, <1>5 DEF RunDispatch
<1>7. spawned' = [spawned EXCEPT ![t] = 1]
  BY <1>4, <1>6 DEF TypeOK
<1>8. QED
  BY <1>1, <1>3, <1>4, <1>6, <1>7 DEF Goto

\* run_trial, dispatching to execute_code_async.
LEMMA RunDispatchKeeps ==
  ASSUME NEW c \in Callers, IndInv, RunDispatch(c)
  PROVE  IndInv'
<1> USE DEF IndInv
<1>1. PICK t \in Trials :
        /\ call[c] = [at |-> "staging", trial |-> t]
        /\ status[t] = "running" /\ task[t] = "none" /\ spawned[t] = 0
        /\ task' = [task EXCEPT ![t] = "running"]
        /\ registered' = registered \cup {t}
        /\ spawned' = [spawned EXCEPT ![t] = 1]
        /\ call' = [call EXCEPT ![c] = [at |-> "waiting", trial |-> t]]
        /\ UNCHANGED <<row, result, tombstones, poller, reply, life, applied>>
  BY RunDispatchStarts
<1>2. TypeOK'
  BY <1>1, RecordFacts, EmptySeq DEF TypeOK
<1>3. NoRunUnderTerminalRow'
  BY <1>1 DEF NoRunUnderTerminalRow, TypeOK
<1>4. OneExecution'
  BY <1>1 DEF OneExecution, TypeOK
<1>5. DispatchedIsRegistered'
  BY <1>1 DEF DispatchedIsRegistered, TypeOK
<1>6. UntouchedBeforeStart'
  BY <1>1, TrialsAssumption DEF UntouchedBeforeStart, TypeOK
<1>7. StagerIsAlone'
  <2>1. \A d \in Callers : On(d, t, "staging") => d = c
    BY <1>1 DEF StagerIsAlone
  <2>2. \A d \in Callers : ~On(d, t, "staging")'
    BY <1>1, <2>1 DEF TypeOK
  <2>3. QED
    BY <1>1, <2>2 DEF StagerIsAlone, TypeOK
<1>8. ResultIsOfTheRun'
  BY <1>1 DEF ResultIsOfTheRun, TypeOK
<1>9. HandlersHoldTheirTask'
  BY <1>1 DEF HandlersHoldTheirTask, TypeOK
<1>10. EvidenceIsOfTheRun'
  <2>1. ~EvidencesCompletion(output[t])
    BY <1>1 DEF StagerIsAlone
  <2>2. QED
    BY <1>1, <2>1 DEF EvidenceIsOfTheRun, TypeOK
<1>11. RunningRowIsWatched'
  BY <1>1 DEF RunningRowIsWatched, TypeOK
<1>12. ReapingIsQuiet'
  BY <1>1 DEF ReapingIsQuiet, TypeOK
<1>13. (CompletedIsEvidenced /\ TombstonedIsTerminal)'
  BY <1>1 DEF CompletedIsEvidenced, TombstonedIsTerminal
<1>14. QED
  BY <1>2, <1>3, <1>4, <1>5, <1>6, <1>7, <1>8, <1>9, <1>10, <1>11, <1>12,
     <1>13

\* run_trial, leaving a live task to the auto-finalizer.
LEMMA RunDetachKeeps ==
  ASSUME NEW c \in Callers, IndInv, RunDetach(c)
  PROVE  IndInv'
<1> USE DEF IndInv, RunDetach, Return, StartPoll
<1>1. call[c].trial \in Trials /\ call[c] # Idle
  BY DEF TypeOK
<1>2. TypeOK'
  BY <1>1, RecordFacts, EmptySeq DEF TypeOK
<1>3. UntouchedBeforeStart'
  BY <1>1, TrialsAssumption DEF UntouchedBeforeStart, TypeOK
<1>4. StagerIsAlone'
  BY <1>1, RecordFacts DEF StagerIsAlone, TypeOK
<1>5. HandlersHoldTheirTask'
  BY <1>1 DEF HandlersHoldTheirTask, TypeOK
<1>6. RunningRowIsWatched'
  BY <1>1 DEF RunningRowIsWatched, TypeOK
<1>7. ReapingIsQuiet'
  BY <1>1 DEF ReapingIsQuiet, TypeOK
<1>8. (CompletedIsEvidenced /\ NoRunUnderTerminalRow /\ OneExecution
       /\ TombstonedIsTerminal /\ DispatchedIsRegistered /\ ResultIsOfTheRun
       /\ EvidenceIsOfTheRun)'
  BY <1>1
  DEF CompletedIsEvidenced, NoRunUnderTerminalRow, OneExecution,
      TombstonedIsTerminal, DispatchedIsRegistered, ResultIsOfTheRun,
      EvidenceIsOfTheRun
<1>9. QED
  BY <1>2, <1>3, <1>4, <1>5, <1>6, <1>7, <1>8

\* A wait that ended leaves a terminal row alone and ends a running one, with
\* the result of the run or with the word that it was killed.
LEMMA RunConcludeSettles ==
  ASSUME NEW c \in Callers, IndInv, RunConclude(c)
  PROVE  \E t \in Trials :
           /\ call[c] = [at |-> "waiting", trial |-> t]
           /\ \/ UNCHANGED row /\ status[t] \in Terminal
              \/ \E r \in RunResults \cup {CancelReceipt} :
                   /\ status[t] = "running"
                   /\ \/ task[t] = "done" /\ r = result[t]
                      \/ task[t] = "cancelled" /\ r = CancelReceipt
                   /\ Settles(t, r)
<1> USE DEF IndInv
<1>1. PICK t \in Trials : call[c] = [at |-> "waiting", trial |-> t]
  BY DEF RunConclude, TypeOK
<1>2. \/ UNCHANGED row /\ status[t] \in Terminal
      \/ \E r \in RunResults \cup {CancelReceipt} :
           /\ status[t] = "running"
           /\ \/ task[t] = "done" /\ r = result[t]
              \/ task[t] = "cancelled" /\ r = CancelReceipt
           /\ Settles(t, r)
  <2>1. /\ status[t] \in Terminal \cup {"running"}
        /\ task[t] \in {"done", "cancelled"}
    BY <1>1 DEF RunConclude, TaskDone, UntouchedBeforeStart, TypeOK
  <2>2. CASE status[t] \in Terminal
    BY <1>1, <2>2 DEF RunConclude
  <2>3. CASE status[t] = "running" /\ task[t] = "done"
    <3>1. Finalize(t, result[t]) /\ result[t] \in RunResults
      BY <1>1, <2>3 DEF RunConclude, ResultIsOfTheRun
    <3>2. QED
      BY <2>3, <3>1, FinalizeSettles
  <2>4. CASE status[t] = "running" /\ task[t] = "cancelled"
    <3>1. Finalize(t, CancelReceipt)
      BY <1>1, <2>4 DEF RunConclude
    <3>2. QED
      BY <2>4, <3>1, FinalizeSettles
  <2>5. QED
    BY <2>1, <2>2, <2>3, <2>4
<1>3. QED
  BY <1>1, <1>2

\* run_trial, finalizing within the submit window.
LEMMA RunConcludeKeeps ==
  ASSUME NEW c \in Callers, IndInv, RunConclude(c)
  PROVE  IndInv'
<1> USE DEF IndInv
<1>1. PICK t \in Trials :
        /\ call[c] = [at |-> "waiting", trial |-> t]
        /\ \/ UNCHANGED row /\ status[t] \in Terminal
           \/ \E r \in RunResults \cup {CancelReceipt} :
                /\ status[t] = "running"
                /\ \/ task[t] = "done" /\ r = result[t]
                   \/ task[t] = "cancelled" /\ r = CancelReceipt
                /\ Settles(t, r)
  BY RunConcludeSettles
<1>2. /\ call' = [call EXCEPT ![c] = Idle]
      /\ UNCHANGED <<exec, reply, life, hist>>
  BY DEF RunConclude, Return
<1>3. TerminalStays
  BY <1>1 DEF TypeOK, Settles, TerminalStays
<1> USE DEF Settles
<1>4. TypeOK'
  <2>1. << >> \in Seq(Correction)
    BY EmptySeq
  <2>2. trail' \in [Trials -> Seq(Correction)]
    BY <2>1, <1>1 DEF TypeOK
  <2>3. status' \in [Trials -> Status]
    BY <1>1 DEF TypeOK
  <2>4. output' \in [Trials -> Record]
    BY <1>1, RecordFacts DEF TypeOK
  <2>5. QED
    BY <2>2, <2>3, <2>4, <1>2 DEF TypeOK
<1>5. CompletedIsEvidenced'
  BY <1>1, <1>2, RecordFacts DEF CompletedIsEvidenced, TypeOK
<1>6. NoRunUnderTerminalRow'
  BY <1>1, <1>2 DEF NoRunUnderTerminalRow, TypeOK
<1>7. TombstonedIsTerminal'
  BY <1>2, <1>3, OldTombstones
<1>8. DispatchedIsRegistered'
  BY <1>1, <1>2 DEF DispatchedIsRegistered, TypeOK
<1>9. UntouchedBeforeStart'
  BY <1>1, <1>2, TrialsAssumption DEF UntouchedBeforeStart, TypeOK
<1>10. StagerIsAlone'
  <2>1. task[t] # "none"
    BY <1>1 DEF HandlersHoldTheirTask
  <2>2. \A u \in Trials : u # t => output'[u] = output[u]
    BY <1>1 DEF TypeOK
  <2>3. QED
    BY <1>2, <2>1, <2>2 DEF StagerIsAlone, TypeOK
<1>11. HandlersHoldTheirTask'
  BY <1>1, <1>2 DEF HandlersHoldTheirTask, TypeOK
<1>12. EvidenceIsOfTheRun'
  BY <1>1, <1>2, RecordFacts DEF EvidenceIsOfTheRun, TypeOK
<1>13. RunningRowIsWatched'
  BY <1>1, <1>2 DEF RunningRowIsWatched, TypeOK
<1>14. ReapingIsQuiet'
  BY <1>1, <1>2 DEF ReapingIsQuiet, TypeOK
<1>15. (OneExecution /\ ResultIsOfTheRun)'
  BY <1>1, <1>2, <1>3 DEF OneExecution, ResultIsOfTheRun
<1>16. QED
  BY <1>4, <1>5, <1>6, <1>7, <1>8, <1>9, <1>10, <1>11, <1>12, <1>13, <1>14,
     <1>15

\* A result written over a running or finished row by a poller or by
\* get_trial_status, in the terms of the row.
LEMMA LateResultKeeps ==
  ASSUME IndInv, NEW t \in Trials, task[t] = "done", result[t] \in RunResults,
         NEW s \in Finished,
         status[t] \in Finished \cup {"running"},
         status[t] \in Finished => s = status[t],
         s = "completed" => EvidencesCompletion(result[t]),
         status' = [status EXCEPT ![t] = s],
         output' = [output EXCEPT ![t] = result[t]],
         trail' = [trail EXCEPT ![t] = << >>],
         poller' = poller \/ poller' = poller \ {t},
         UNCHANGED <<task, registered, result, tombstones, conv, life, hist>>
  PROVE  IndInv'
<1> USE DEF IndInv
<1>1. TerminalStays
  BY DEF TypeOK, TerminalStays
<1>2. TypeOK'
  BY RecordFacts, EmptySeq DEF TypeOK
<1>3. CompletedIsEvidenced'
  BY RecordFacts DEF CompletedIsEvidenced, TypeOK
<1>4. NoRunUnderTerminalRow'
  BY DEF NoRunUnderTerminalRow, TypeOK
<1>5. TombstonedIsTerminal'
  BY <1>1, OldTombstones
<1>6. DispatchedIsRegistered'
  BY DEF DispatchedIsRegistered, TypeOK
<1>7. UntouchedBeforeStart'
  BY TrialsAssumption DEF UntouchedBeforeStart, TypeOK
<1>8. StagerIsAlone'
  BY RecordFacts DEF StagerIsAlone, TypeOK
<1>9. HandlersHoldTheirTask'
  BY DEF HandlersHoldTheirTask, TypeOK
<1>10. EvidenceIsOfTheRun'
  BY RecordFacts DEF EvidenceIsOfTheRun, TypeOK
<1>11. RunningRowIsWatched'
  BY DEF RunningRowIsWatched, TypeOK
<1>12. ReapingIsQuiet'
  BY DEF ReapingIsQuiet, TypeOK
<1>13. (OneExecution /\ ResultIsOfTheRun)'
  BY <1>1 DEF OneExecution, ResultIsOfTheRun
<1>14. QED
  BY <1>2, <1>3, <1>4, <1>5, <1>6, <1>7, <1>8, <1>9, <1>10, <1>11, <1>12, <1>13

-----------------------------------------------------------------------------
(***************************************************************************)
(* cancel_trial and mark_retryable keep the invariant.                     *)
(***************************************************************************)

\* cancel_trial on a designed trial.
LEMMA CancelDesignedKeeps ==
  ASSUME NEW c \in Callers, NEW t \in Trials, IndInv, CancelDesigned(c, t)
  PROVE  IndInv'
<1> USE DEF IndInv, CancelDesigned, Legal, SetStatus
<1>1. TerminalStays
  BY DEF TypeOK, TerminalStays
<1>2. TypeOK'
  BY RecordFacts, EmptySeq DEF TypeOK
<1>3. CompletedIsEvidenced'
  BY RecordFacts DEF CompletedIsEvidenced, TypeOK
<1>4. NoRunUnderTerminalRow'
  BY DEF NoRunUnderTerminalRow, TypeOK
<1>5. TombstonedIsTerminal'
  BY <1>1, OldTombstones
<1>6. DispatchedIsRegistered'
  BY DEF DispatchedIsRegistered, TypeOK
<1>7. UntouchedBeforeStart'
  BY TrialsAssumption DEF UntouchedBeforeStart, TypeOK
<1>8. HandlersHoldTheirTask'
  BY DEF HandlersHoldTheirTask, TypeOK
<1>9. RunningRowIsWatched'
  BY DEF RunningRowIsWatched, TypeOK
<1>10. ReapingIsQuiet'
  BY DEF ReapingIsQuiet, TypeOK
<1>11. (OneExecution /\ StagerIsAlone /\ ResultIsOfTheRun
        /\ EvidenceIsOfTheRun)'
  BY <1>1 DEF OneExecution, StagerIsAlone, ResultIsOfTheRun, EvidenceIsOfTheRun
<1>12. QED
  BY <1>2, <1>3, <1>4, <1>5, <1>6, <1>7, <1>8, <1>9, <1>10, <1>11

\* cancel_trial on a running row that has no live task.
LEMMA CancelNowKeeps ==
  ASSUME NEW c \in Callers, NEW t \in Trials, IndInv, CancelNow(c, t)
  PROVE  IndInv'
<1> USE DEF IndInv, CancelNow, Fail, Legal, SetStatus, SetOutput,
            CancelAsyncReturns, TaskDone
<1>1. /\ tombstones' \in Seq(Trials)
      /\ \A i \in 1..Len(tombstones') :
           \/ tombstones'[i] = t
           \/ \E j \in 1..Len(tombstones) : tombstones[j] = tombstones'[i]
  BY TombstoneKeepsTheRest DEF CancelAsyncReturns, TypeOK
<1>2. /\ status' = [status EXCEPT ![t] = "failed"]
      /\ \E r \in {CancelReceipt, AlreadyFinished} :
           output' = [output EXCEPT ![t] = r]
  OBVIOUS
<1>3. task[t] \notin {"running", "cancelling"}
  BY DEF CancelAsyncReturns, TaskDone, DispatchedIsRegistered, TypeOK
<1>4. TerminalStays
  BY <1>2 DEF TypeOK, TerminalStays
<1>5. TypeOK'
  BY <1>1, <1>2, <1>3, RecordFacts, EmptySeq DEF TypeOK
<1>6. CompletedIsEvidenced'
  BY <1>1, <1>2, <1>3, RecordFacts DEF CompletedIsEvidenced, TypeOK
<1>7. NoRunUnderTerminalRow'
  BY <1>1, <1>2, <1>3 DEF NoRunUnderTerminalRow, TypeOK
<1>8. TombstonedIsTerminal'
  BY <1>1, <1>2, <1>3, <1>4, NewTombstone DEF TypeOK
<1>9. DispatchedIsRegistered'
  BY <1>1, <1>2, <1>3 DEF DispatchedIsRegistered, TypeOK
<1>10. UntouchedBeforeStart'
  BY <1>1, <1>2, <1>3, TrialsAssumption DEF UntouchedBeforeStart, TypeOK
<1>11. StagerIsAlone'
  BY <1>1, <1>2, <1>3, RecordFacts DEF StagerIsAlone, TypeOK
<1>12. HandlersHoldTheirTask'
  BY <1>1, <1>2, <1>3 DEF HandlersHoldTheirTask, TypeOK
<1>13. EvidenceIsOfTheRun'
  BY <1>1, <1>2, <1>3, RecordFacts DEF EvidenceIsOfTheRun, TypeOK
<1>14. RunningRowIsWatched'
  BY <1>1, <1>2, <1>3 DEF RunningRowIsWatched, TypeOK
<1>15. ReapingIsQuiet'
  BY <1>1, <1>2, <1>3 DEF ReapingIsQuiet, TypeOK
<1>16. (OneExecution /\ ResultIsOfTheRun)'
  BY <1>1, <1>2, <1>3, <1>4 DEF OneExecution, ResultIsOfTheRun
<1>17. QED
  BY <1>5, <1>6, <1>7, <1>8, <1>9, <1>10, <1>11, <1>12, <1>13, <1>14, <1>15,
     <1>16

\* cancel_trial, asking the task to stop.
LEMMA CancelKillKeeps ==
  ASSUME NEW c \in Callers, NEW t \in Trials, IndInv, CancelKill(c, t)
  PROVE  IndInv'
<1> USE DEF IndInv, CancelKill, Goto, CancelAsyncKills, TaskLive
<1>1. TypeOK'
  BY RecordFacts, EmptySeq DEF TypeOK
<1>2. NoRunUnderTerminalRow'
  BY DEF NoRunUnderTerminalRow, TypeOK
<1>3. DispatchedIsRegistered'
  BY DEF DispatchedIsRegistered, TypeOK
<1>4. UntouchedBeforeStart'
  BY TrialsAssumption DEF UntouchedBeforeStart, TypeOK
<1>5. StagerIsAlone'
  BY RecordFacts DEF StagerIsAlone, TypeOK
<1>6. ResultIsOfTheRun'
  BY DEF ResultIsOfTheRun, TypeOK
<1>7. HandlersHoldTheirTask'
  BY DEF HandlersHoldTheirTask, TypeOK
<1>8. EvidenceIsOfTheRun'
  BY RecordFacts DEF EvidenceIsOfTheRun, TypeOK
<1>9. RunningRowIsWatched'
  BY DEF RunningRowIsWatched, TypeOK
<1>10. ReapingIsQuiet'
  BY DEF ReapingIsQuiet, TypeOK
<1>11. (CompletedIsEvidenced /\ OneExecution /\ TombstonedIsTerminal)'
  BY DEF CompletedIsEvidenced, OneExecution, TombstonedIsTerminal
<1>12. QED
  BY <1>1, <1>2, <1>3, <1>4, <1>5, <1>6, <1>7, <1>8, <1>9, <1>10, <1>11

\* cancel_trial back from the kill fails a running row and leaves one alone
\* that somebody else has ended; a running row's id is still registered.
LEMMA CancelSettleRow ==
  ASSUME NEW c \in Callers, IndInv, CancelSettle(c)
  PROVE  \E t \in Trials :
           /\ call[c] = [at |-> "cancelling", trial |-> t]
           /\ task[t] = "cancelled"
           /\ status[t] \in Finished \cup {"running"}
           /\ status[t] = "running" => t \in registered
           /\ \/ UNCHANGED row /\ status[t] # "running"
              \/ /\ status[t] = "running"
                 /\ status' = [status EXCEPT ![t] = "failed"]
                 /\ output' = [output EXCEPT ![t] = CancelReceipt]
                 /\ trail' = [trail EXCEPT ![t] = << >>]
<1> USE DEF IndInv
<1>1. PICK t \in Trials : call[c] = [at |-> "cancelling", trial |-> t]
  BY DEF CancelSettle, TypeOK
<1>2. /\ task[t] = "cancelled"
      /\ status[t] \in Finished \cup {"running"}
      /\ status[t] = "running" => t \in registered
  <2>1. task[t] = "cancelled"
    BY <1>1 DEF CancelSettle, TaskDone, HandlersHoldTheirTask
  <2>2. status[t] \in Finished \cup {"running"}
    BY <2>1 DEF TypeOK, UntouchedBeforeStart
  <2>3. boot = "serving"
    BY <2>1 DEF TypeOK, ReapingIsQuiet
  <2>4. QED
    BY <2>1, <2>2, <2>3 DEF DispatchedIsRegistered
<1>3. \/ UNCHANGED row /\ status[t] # "running"
      \/ /\ status[t] = "running"
         /\ status' = [status EXCEPT ![t] = "failed"]
         /\ output' = [output EXCEPT ![t] = CancelReceipt]
         /\ trail' = [trail EXCEPT ![t] = << >>]
  BY <1>1, <1>2 DEF CancelSettle, Fail, SetStatus, SetOutput
<1>4. QED
  BY <1>1, <1>2, <1>3

\* cancel_trial, back from the kill.
LEMMA CancelSettleKeeps ==
  ASSUME NEW c \in Callers, IndInv, CancelSettle(c)
  PROVE  IndInv'
<1> USE DEF IndInv
<1>1. PICK t \in Trials :
        /\ call[c] = [at |-> "cancelling", trial |-> t]
        /\ task[t] = "cancelled"
        /\ status[t] \in Finished \cup {"running"}
        /\ status[t] = "running" => t \in registered
        /\ \/ UNCHANGED row /\ status[t] # "running"
           \/ /\ status[t] = "running"
              /\ status' = [status EXCEPT ![t] = "failed"]
              /\ output' = [output EXCEPT ![t] = CancelReceipt]
              /\ trail' = [trail EXCEPT ![t] = << >>]
  BY CancelSettleRow
<1>2. /\ tombstones' \in Seq(Trials)
      /\ \A i \in 1..Len(tombstones') :
           \/ tombstones'[i] = t
           \/ \E j \in 1..Len(tombstones) : tombstones[j] = tombstones'[i]
  BY <1>1, TombstoneKeepsTheRest DEF CancelSettle, CancelAsyncEnds, TypeOK
<1>3. registered' = registered \ {t}
  BY <1>1 DEF CancelSettle, CancelAsyncEnds, TypeOK
<1>4. /\ reply' \in [Callers -> {"none", "cancelled", "refused"}]
      /\ call' = [call EXCEPT ![c] = Idle]
      /\ UNCHANGED <<task, result, poller, life, hist>>
  BY DEF CancelSettle, Return, TypeOK
<1>5. TerminalStays
  BY <1>1 DEF TypeOK, TerminalStays
<1>6. status'[t] \in Terminal
  BY <1>1 DEF TypeOK
<1>7. TypeOK'
  <2>1. << >> \in Seq(Correction)
    BY EmptySeq
  <2>2. trail' \in [Trials -> Seq(Correction)]
    BY <2>1, <1>1 DEF TypeOK
  <2>3. status' = status \/ status' = [status EXCEPT ![t] = "failed"]
    BY <1>1
  <2>4. status' \in [Trials -> Status]
    BY <2>3 DEF TypeOK
  <2>5. output' \in [Trials -> Record]
    BY <1>1, RecordFacts DEF TypeOK
  <2>6. QED
    BY <2>2, <2>4, <2>5, <1>2, <1>3, <1>4 DEF TypeOK
<1>8. CompletedIsEvidenced'
  BY <1>1, <1>2, <1>3, <1>4, <1>6, RecordFacts
  DEF CompletedIsEvidenced, TypeOK
<1>9. NoRunUnderTerminalRow'
  BY <1>1, <1>2, <1>3, <1>4, <1>6 DEF NoRunUnderTerminalRow, TypeOK
<1>10. TombstonedIsTerminal'
  BY <1>1, <1>2, <1>3, <1>4, <1>5, <1>6, NewTombstone DEF TypeOK
<1>11. DispatchedIsRegistered'
  BY <1>1, <1>2, <1>3, <1>4, <1>6
  DEF DispatchedIsRegistered, TypeOK
<1>12. UntouchedBeforeStart'
  BY <1>1, <1>2, <1>3, <1>4, <1>6, TrialsAssumption
  DEF UntouchedBeforeStart, TypeOK
<1>13. StagerIsAlone'
  <2>1. \A u \in Trials : EvidencesCompletion(output'[u]) =>
          EvidencesCompletion(output[u])
    BY <1>1, RecordFacts DEF TypeOK
  <2>2. QED
    BY <1>4, <2>1 DEF StagerIsAlone, TypeOK
<1>14. HandlersHoldTheirTask'
  BY <1>1, <1>2, <1>3, <1>4, <1>6 DEF HandlersHoldTheirTask, TypeOK
<1>15. EvidenceIsOfTheRun'
  <2>1. \A u \in Trials : EvidencesCompletion(output'[u]) =>
          EvidencesCompletion(output[u])
    BY <1>1, RecordFacts DEF TypeOK
  <2>2. QED
    BY <1>4, <2>1 DEF EvidenceIsOfTheRun
<1>16. RunningRowIsWatched'
  BY <1>1, <1>2, <1>3, <1>4, <1>6, SMTT(20) DEF RunningRowIsWatched, TypeOK
<1>17. ReapingIsQuiet'
  BY <1>1, <1>2, <1>3, <1>4, <1>6 DEF ReapingIsQuiet, TypeOK
<1>18. (OneExecution /\ ResultIsOfTheRun)'
  BY <1>1, <1>2, <1>3, <1>4, <1>5, <1>6
  DEF OneExecution, ResultIsOfTheRun
<1>19. QED
  BY <1>7, <1>8, <1>9, <1>10, <1>11, <1>12, <1>13, <1>14, <1>15, <1>16,
     <1>17, <1>18

\* mark_retryable on a row that has no live task.
LEMMA RetryNowKeeps ==
  ASSUME NEW c \in Callers, NEW t \in Trials, IndInv, RetryNow(c, t)
  PROVE  IndInv'
<1> USE DEF IndInv, RetryNow, Legal, SetStatus, SetOutput,
            CancelAsyncReturns, TaskDone
<1>1. /\ tombstones' \in Seq(Trials)
      /\ \A i \in 1..Len(tombstones') :
           \/ tombstones'[i] = t
           \/ \E j \in 1..Len(tombstones) : tombstones[j] = tombstones'[i]
  BY TombstoneKeepsTheRest DEF CancelAsyncReturns, TypeOK
<1>2. /\ status' = [status EXCEPT ![t] = "retryable"]
      /\ \E r \in {CancelReceipt, AlreadyFinished} :
           output' = [output EXCEPT ![t] = r]
  OBVIOUS
<1>3. task[t] \notin {"running", "cancelling"}
  BY DEF CancelAsyncReturns, TaskDone, DispatchedIsRegistered, TypeOK
<1>4. TerminalStays
  BY <1>2 DEF TypeOK, TerminalStays
<1>5. TypeOK'
  BY <1>1, <1>2, <1>3, RecordFacts, EmptySeq DEF TypeOK
<1>6. CompletedIsEvidenced'
  BY <1>1, <1>2, <1>3, RecordFacts DEF CompletedIsEvidenced, TypeOK
<1>7. NoRunUnderTerminalRow'
  BY <1>1, <1>2, <1>3 DEF NoRunUnderTerminalRow, TypeOK
<1>8. TombstonedIsTerminal'
  BY <1>1, <1>2, <1>3, <1>4, NewTombstone DEF TypeOK
<1>9. DispatchedIsRegistered'
  BY <1>1, <1>2, <1>3 DEF DispatchedIsRegistered, TypeOK
<1>10. UntouchedBeforeStart'
  BY <1>1, <1>2, <1>3, TrialsAssumption DEF UntouchedBeforeStart, TypeOK
<1>11. StagerIsAlone'
  BY <1>1, <1>2, <1>3, RecordFacts DEF StagerIsAlone, TypeOK
<1>12. HandlersHoldTheirTask'
  BY <1>1, <1>2, <1>3 DEF HandlersHoldTheirTask, TypeOK
<1>13. EvidenceIsOfTheRun'
  BY <1>1, <1>2, <1>3, RecordFacts DEF EvidenceIsOfTheRun, TypeOK
<1>14. RunningRowIsWatched'
  BY <1>1, <1>2, <1>3 DEF RunningRowIsWatched, TypeOK
<1>15. ReapingIsQuiet'
  BY <1>1, <1>2, <1>3 DEF ReapingIsQuiet, TypeOK
<1>16. (OneExecution /\ ResultIsOfTheRun)'
  BY <1>1, <1>2, <1>3, <1>4 DEF OneExecution, ResultIsOfTheRun
<1>17. QED
  BY <1>5, <1>6, <1>7, <1>8, <1>9, <1>10, <1>11, <1>12, <1>13, <1>14, <1>15,
     <1>16

\* mark_retryable, labelling the row and asking the task to stop.
LEMMA RetryKillKeeps ==
  ASSUME NEW c \in Callers, NEW t \in Trials, IndInv, RetryKill(c, t)
  PROVE  IndInv'
<1> USE DEF IndInv, RetryKill, Legal, SetStatus, Goto, CancelAsyncKills,
            TaskLive
<1>1. TerminalStays
  BY DEF TypeOK, TerminalStays
<1>2. TypeOK'
  BY RecordFacts, EmptySeq DEF TypeOK
<1>3. CompletedIsEvidenced'
  BY RecordFacts DEF CompletedIsEvidenced, TypeOK
<1>4. NoRunUnderTerminalRow'
  BY DEF NoRunUnderTerminalRow, TypeOK
<1>5. TombstonedIsTerminal'
  BY <1>1, OldTombstones
<1>6. DispatchedIsRegistered'
  BY DEF DispatchedIsRegistered, TypeOK
<1>7. UntouchedBeforeStart'
  BY TrialsAssumption DEF UntouchedBeforeStart, TypeOK
<1>8. StagerIsAlone'
  BY RecordFacts DEF StagerIsAlone, TypeOK
<1>9. ResultIsOfTheRun'
  BY DEF ResultIsOfTheRun, TypeOK
<1>10. HandlersHoldTheirTask'
  BY DEF HandlersHoldTheirTask, TypeOK
<1>11. EvidenceIsOfTheRun'
  BY RecordFacts DEF EvidenceIsOfTheRun, TypeOK
<1>12. RunningRowIsWatched'
  BY DEF RunningRowIsWatched, TypeOK
<1>13. ReapingIsQuiet'
  BY DEF ReapingIsQuiet, TypeOK
<1>14. (OneExecution)'
  BY <1>1 DEF OneExecution
<1>15. QED
  BY <1>2, <1>3, <1>4, <1>5, <1>6, <1>7, <1>8, <1>9, <1>10, <1>11, <1>12,
     <1>13, <1>14

\* mark_retryable back from the kill changes no label, and the record its
\* receipt replaces was no evidence of completion.
LEMMA RetrySettleRow ==
  ASSUME NEW c \in Callers, IndInv, RetrySettle(c)
  PROVE  \E t \in Trials :
           /\ call[c] = [at |-> "retrying", trial |-> t]
           /\ task[t] = "cancelled" /\ status[t] \in Finished
           /\ ~EvidencesCompletion(output[t])
           /\ UNCHANGED status
           /\ \/ UNCHANGED <<output, trail>>
              \/ /\ output' = [output EXCEPT ![t] = CancelReceipt]
                 /\ trail' = [trail EXCEPT ![t] = << >>]
<1> USE DEF IndInv
<1>1. PICK t \in Trials : call[c] = [at |-> "retrying", trial |-> t]
  BY DEF RetrySettle, TypeOK
<1>2. /\ task[t] = "cancelled" /\ status[t] \in Finished
      /\ ~EvidencesCompletion(output[t])
  <2>1. task[t] = "cancelled" /\ status[t] \in Finished
    BY <1>1 DEF RetrySettle, TaskDone, HandlersHoldTheirTask
  <2>2. QED
    BY <2>1 DEF EvidenceIsOfTheRun
<1>3. \/ UNCHANGED <<output, trail>>
      \/ /\ output' = [output EXCEPT ![t] = CancelReceipt]
         /\ trail' = [trail EXCEPT ![t] = << >>]
  BY <1>1 DEF RetrySettle, SetOutput
<1>4. QED
  BY <1>1, <1>2, <1>3 DEF RetrySettle

\* mark_retryable, back from the kill.
LEMMA RetrySettleKeeps ==
  ASSUME NEW c \in Callers, IndInv, RetrySettle(c)
  PROVE  IndInv'
<1> USE DEF IndInv
<1>1. PICK t \in Trials :
        /\ call[c] = [at |-> "retrying", trial |-> t]
        /\ task[t] = "cancelled" /\ status[t] \in Finished
        /\ ~EvidencesCompletion(output[t])
        /\ UNCHANGED status
        /\ \/ UNCHANGED <<output, trail>>
           \/ /\ output' = [output EXCEPT ![t] = CancelReceipt]
              /\ trail' = [trail EXCEPT ![t] = << >>]
  BY RetrySettleRow
<1>2. /\ tombstones' \in Seq(Trials)
      /\ \A i \in 1..Len(tombstones') :
           \/ tombstones'[i] = t
           \/ \E j \in 1..Len(tombstones) : tombstones[j] = tombstones'[i]
  BY <1>1, TombstoneKeepsTheRest, SMTT(20)
  DEF RetrySettle, CancelAsyncEnds, TypeOK
<1>3. registered' = registered \ {t}
  BY <1>1 DEF RetrySettle, CancelAsyncEnds, TypeOK
<1>4. /\ call' = [call EXCEPT ![c] = Idle]
      /\ UNCHANGED <<status, task, result, poller, reply, life, hist>>
  BY DEF RetrySettle, Return
<1>5. TerminalStays
  BY <1>4 DEF TerminalStays
<1>6. status'[t] \in Terminal
  BY <1>1, <1>4
<1>7. TypeOK'
  <2>1. << >> \in Seq(Correction)
    BY EmptySeq
  <2>2. trail' \in [Trials -> Seq(Correction)]
    BY <2>1, <1>1, <1>4 DEF TypeOK
  <2>3. status' \in [Trials -> Status]
    BY <1>1, <1>4 DEF TypeOK
  <2>4. output' \in [Trials -> Record]
    BY <1>1, <1>4, RecordFacts DEF TypeOK
  <2>5. QED
    BY <2>2, <2>3, <2>4, <1>2, <1>3, <1>4 DEF TypeOK
<1>8. CompletedIsEvidenced'
  BY <1>1, <1>2, <1>3, <1>4, <1>6, RecordFacts
  DEF CompletedIsEvidenced, TypeOK
<1>9. TombstonedIsTerminal'
  BY <1>1, <1>2, <1>3, <1>4, <1>5, <1>6, NewTombstone DEF TypeOK
<1>10. DispatchedIsRegistered'
  BY <1>1, <1>2, <1>3, <1>4, <1>6
  DEF DispatchedIsRegistered, TypeOK
<1>11. UntouchedBeforeStart'
  BY <1>1, <1>2, <1>3, <1>4, <1>6, TrialsAssumption
  DEF UntouchedBeforeStart, TypeOK
<1>12. StagerIsAlone'
  <2>1. \A u \in Trials : EvidencesCompletion(output'[u]) =>
          EvidencesCompletion(output[u])
    BY <1>1, RecordFacts DEF TypeOK
  <2>2. QED
    BY <1>4, <2>1 DEF StagerIsAlone, TypeOK
<1>13. HandlersHoldTheirTask'
  BY <1>1, <1>2, <1>3, <1>4, <1>6 DEF HandlersHoldTheirTask, TypeOK
<1>14. EvidenceIsOfTheRun'
  BY <1>1, <1>2, <1>3, <1>4, <1>6, RecordFacts
  DEF EvidenceIsOfTheRun, TypeOK
<1>15. RunningRowIsWatched'
  BY <1>1, <1>2, <1>3, <1>4, <1>6 DEF RunningRowIsWatched, TypeOK
<1>16. ReapingIsQuiet'
  BY <1>1, <1>2, <1>3, <1>4, <1>6 DEF ReapingIsQuiet, TypeOK
<1>17. (NoRunUnderTerminalRow /\ OneExecution /\ ResultIsOfTheRun)'
  BY <1>1, <1>2, <1>3, <1>4, <1>5, <1>6
  DEF NoRunUnderTerminalRow, OneExecution, ResultIsOfTheRun
<1>18. QED
  BY <1>7, <1>8, <1>9, <1>10, <1>11, <1>12, <1>13, <1>14, <1>15, <1>16, <1>17

-----------------------------------------------------------------------------
(***************************************************************************)
(* Corrections, restarts and the executor keep the invariant.              *)
(***************************************************************************)

\* correct_trial_status.
LEMMA CorrectKeeps ==
  ASSUME NEW t \in Trials, NEW to \in Finished, IndInv, Correct(t, to)
  PROVE  IndInv'
<1> USE DEF IndInv, Correct, MayCorrect, SetStatus
<1>1. TerminalStays
  BY DEF TypeOK, TerminalStays
<1>2. TypeOK'
  BY AppendProperties, RecordFacts, EmptySeq DEF TypeOK, Correction
<1>3. CompletedIsEvidenced'
  BY RecordFacts DEF CompletedIsEvidenced, TypeOK
<1>4. NoRunUnderTerminalRow'
  BY DEF NoRunUnderTerminalRow, TypeOK
<1>5. TombstonedIsTerminal'
  BY <1>1, OldTombstones
<1>6. DispatchedIsRegistered'
  BY DEF DispatchedIsRegistered, TypeOK
<1>7. UntouchedBeforeStart'
  BY TrialsAssumption DEF UntouchedBeforeStart, TypeOK
<1>8. HandlersHoldTheirTask'
  BY DEF HandlersHoldTheirTask, TypeOK
<1>9. RunningRowIsWatched'
  BY DEF RunningRowIsWatched, TypeOK
<1>10. ReapingIsQuiet'
  BY DEF ReapingIsQuiet, TypeOK
<1>11. (OneExecution /\ StagerIsAlone /\ ResultIsOfTheRun
        /\ EvidenceIsOfTheRun)'
  BY <1>1 DEF OneExecution, StagerIsAlone, ResultIsOfTheRun, EvidenceIsOfTheRun
<1>12. QED
  BY <1>2, <1>3, <1>4, <1>5, <1>6, <1>7, <1>8, <1>9, <1>10, <1>11

\* The death of the process between two steps.
LEMMA CrashKeeps ==
  ASSUME IndInv, Crash
  PROVE  IndInv'
<1> USE DEF IndInv, Crash, LoseMemory
<1>1. TypeOK'
  BY RecordFacts, EmptySeq DEF TypeOK
<1>2. NoRunUnderTerminalRow'
  BY DEF NoRunUnderTerminalRow, TypeOK
<1>3. TombstonedIsTerminal'
  BY DEF TombstonedIsTerminal, TypeOK
<1>4. DispatchedIsRegistered'
  BY DEF DispatchedIsRegistered, TypeOK
<1>5. UntouchedBeforeStart'
  BY TrialsAssumption DEF UntouchedBeforeStart, TypeOK
<1>6. StagerIsAlone'
  BY RecordFacts DEF StagerIsAlone, TypeOK
<1>7. ResultIsOfTheRun'
  BY DEF ResultIsOfTheRun, TypeOK
<1>8. HandlersHoldTheirTask'
  BY DEF HandlersHoldTheirTask, TypeOK
<1>9. EvidenceIsOfTheRun'
  BY RecordFacts DEF EvidenceIsOfTheRun, TypeOK
<1>10. RunningRowIsWatched'
  BY DEF RunningRowIsWatched, TypeOK
<1>11. ReapingIsQuiet'
  BY DEF ReapingIsQuiet, TypeOK
<1>12. (CompletedIsEvidenced /\ OneExecution)'
  BY DEF CompletedIsEvidenced, OneExecution
<1>13. QED
  BY <1>1, <1>2, <1>3, <1>4, <1>5, <1>6, <1>7, <1>8, <1>9, <1>10, <1>11, <1>12

\* The death of the process between the two commits of a finalization.
LEMMA CrashInFinalizeKeeps ==
  ASSUME NEW t \in Trials, IndInv, CrashInFinalize(t)
  PROVE  IndInv'
<1> USE DEF IndInv, CrashInFinalize, LoseMemory, SetOutput, FinalResult
<1>1. TypeOK'
  BY RecordFacts, EmptySeq DEF TypeOK
<1>2. CompletedIsEvidenced'
  BY RecordFacts DEF CompletedIsEvidenced, TypeOK
<1>3. NoRunUnderTerminalRow'
  BY DEF NoRunUnderTerminalRow, TypeOK
<1>4. TombstonedIsTerminal'
  BY DEF TombstonedIsTerminal, TypeOK
<1>5. DispatchedIsRegistered'
  BY DEF DispatchedIsRegistered, TypeOK
<1>6. UntouchedBeforeStart'
  BY TrialsAssumption DEF UntouchedBeforeStart, TypeOK
<1>7. StagerIsAlone'
  BY RecordFacts DEF StagerIsAlone, TypeOK
<1>8. ResultIsOfTheRun'
  BY DEF ResultIsOfTheRun, TypeOK
<1>9. HandlersHoldTheirTask'
  BY DEF HandlersHoldTheirTask, TypeOK
<1>10. EvidenceIsOfTheRun'
  BY RecordFacts DEF EvidenceIsOfTheRun, TypeOK
<1>11. RunningRowIsWatched'
  BY DEF RunningRowIsWatched, TypeOK
<1>12. ReapingIsQuiet'
  BY DEF ReapingIsQuiet, TypeOK
<1>13. (OneExecution)'
  BY DEF OneExecution
<1>14. QED
  BY <1>1, <1>2, <1>3, <1>4, <1>5, <1>6, <1>7, <1>8, <1>9, <1>10, <1>11,
     <1>12, <1>13

\* The reaper, failing a row left running.
LEMMA ReapFailKeeps ==
  ASSUME NEW t \in Trials, IndInv, ReapFail(t)
  PROVE  IndInv'
<1> USE DEF IndInv, ReapFail, Fail, Legal, SetStatus
<1>1. TerminalStays
  BY DEF TypeOK, TerminalStays
<1>2. TypeOK'
  BY RecordFacts, EmptySeq DEF TypeOK
<1>3. CompletedIsEvidenced'
  BY RecordFacts DEF CompletedIsEvidenced, TypeOK
<1>4. NoRunUnderTerminalRow'
  BY DEF NoRunUnderTerminalRow, TypeOK, ReapingIsQuiet
<1>5. TombstonedIsTerminal'
  BY <1>1, OldTombstones
<1>6. DispatchedIsRegistered'
  BY DEF DispatchedIsRegistered, TypeOK
<1>7. UntouchedBeforeStart'
  BY TrialsAssumption DEF UntouchedBeforeStart, TypeOK
<1>8. HandlersHoldTheirTask'
  BY DEF HandlersHoldTheirTask, TypeOK
<1>9. RunningRowIsWatched'
  BY DEF RunningRowIsWatched, TypeOK
<1>10. ReapingIsQuiet'
  BY DEF ReapingIsQuiet, TypeOK
<1>11. (OneExecution /\ StagerIsAlone /\ ResultIsOfTheRun
        /\ EvidenceIsOfTheRun)'
  BY <1>1 DEF OneExecution, StagerIsAlone, ResultIsOfTheRun, EvidenceIsOfTheRun
<1>12. QED
  BY <1>2, <1>3, <1>4, <1>5, <1>6, <1>7, <1>8, <1>9, <1>10, <1>11

\* The reaper, overwriting the record of the row it has failed.
LEMMA ReapNoteKeeps ==
  ASSUME IndInv, ReapNote
  PROVE  IndInv'
<1> USE DEF IndInv, ReapNote, SetOutput
<1>1. noting \in Trials
  BY DEF TypeOK
<1>2. TypeOK'
  BY <1>1, RecordFacts, EmptySeq DEF TypeOK
<1>3. CompletedIsEvidenced'
  BY <1>1, RecordFacts DEF CompletedIsEvidenced, TypeOK, ReapingIsQuiet
<1>4. UntouchedBeforeStart'
  BY <1>1, TrialsAssumption DEF UntouchedBeforeStart, TypeOK, ReapingIsQuiet
<1>5. StagerIsAlone'
  BY <1>1, RecordFacts DEF StagerIsAlone, TypeOK
<1>6. EvidenceIsOfTheRun'
  BY <1>1, RecordFacts DEF EvidenceIsOfTheRun, TypeOK
<1>7. ReapingIsQuiet'
  BY <1>1 DEF ReapingIsQuiet, TypeOK
<1>8. (NoRunUnderTerminalRow /\ OneExecution /\ TombstonedIsTerminal
       /\ DispatchedIsRegistered /\ ResultIsOfTheRun
       /\ HandlersHoldTheirTask /\ RunningRowIsWatched)'
  BY <1>1
  DEF NoRunUnderTerminalRow, OneExecution, TombstonedIsTerminal,
      DispatchedIsRegistered, ResultIsOfTheRun, HandlersHoldTheirTask,
      RunningRowIsWatched
<1>9. QED
  BY <1>2, <1>3, <1>4, <1>5, <1>6, <1>7, <1>8

\* The end of the start, when no row is running any more.
LEMMA ServeKeeps ==
  ASSUME IndInv, Serve
  PROVE  IndInv'
<1> USE DEF IndInv, Serve
<1>1. TypeOK'
  BY RecordFacts, EmptySeq DEF TypeOK
<1>2. DispatchedIsRegistered'
  BY DEF DispatchedIsRegistered, TypeOK
<1>3. ReapingIsQuiet'
  BY DEF ReapingIsQuiet, TypeOK
<1>4. (CompletedIsEvidenced /\ NoRunUnderTerminalRow /\ OneExecution
       /\ TombstonedIsTerminal /\ UntouchedBeforeStart /\ StagerIsAlone
       /\ ResultIsOfTheRun /\ HandlersHoldTheirTask /\ EvidenceIsOfTheRun
       /\ RunningRowIsWatched)'
  BY DEF CompletedIsEvidenced, NoRunUnderTerminalRow, OneExecution,
         TombstonedIsTerminal, UntouchedBeforeStart, StagerIsAlone,
         ResultIsOfTheRun, HandlersHoldTheirTask, EvidenceIsOfTheRun,
         RunningRowIsWatched
<1>5. QED
  BY <1>1, <1>2, <1>3, <1>4

\* The code of a trial ending by itself or at its deadline.
LEMMA TaskFinishKeeps ==
  ASSUME NEW t \in Trials, IndInv, TaskFinish(t)
  PROVE  IndInv'
<1> USE DEF IndInv, TaskFinish
<1>1. TypeOK'
  BY RecordFacts, EmptySeq DEF TypeOK
<1>2. NoRunUnderTerminalRow'
  BY DEF NoRunUnderTerminalRow, TypeOK
<1>3. DispatchedIsRegistered'
  BY DEF DispatchedIsRegistered, TypeOK
<1>4. UntouchedBeforeStart'
  BY TrialsAssumption DEF UntouchedBeforeStart, TypeOK
<1>5. StagerIsAlone'
  BY RecordFacts DEF StagerIsAlone, TypeOK
<1>6. ResultIsOfTheRun'
  BY DEF ResultIsOfTheRun, TypeOK
<1>7. HandlersHoldTheirTask'
  BY DEF HandlersHoldTheirTask, TypeOK
<1>8. EvidenceIsOfTheRun'
  BY RecordFacts DEF EvidenceIsOfTheRun, TypeOK
<1>9. RunningRowIsWatched'
  BY DEF RunningRowIsWatched, TypeOK
<1>10. ReapingIsQuiet'
  BY DEF ReapingIsQuiet, TypeOK
<1>11. (CompletedIsEvidenced /\ OneExecution /\ TombstonedIsTerminal)'
  BY DEF CompletedIsEvidenced, OneExecution, TombstonedIsTerminal
<1>12. QED
  BY <1>1, <1>2, <1>3, <1>4, <1>5, <1>6, <1>7, <1>8, <1>9, <1>10, <1>11

\* The code of a trial dying of a cancellation.
LEMMA TaskCancelledKeeps ==
  ASSUME NEW t \in Trials, IndInv, TaskCancelled(t)
  PROVE  IndInv'
<1> USE DEF IndInv, TaskCancelled
<1>1. TypeOK'
  BY RecordFacts, EmptySeq DEF TypeOK
<1>2. NoRunUnderTerminalRow'
  BY DEF NoRunUnderTerminalRow, TypeOK
<1>3. DispatchedIsRegistered'
  BY DEF DispatchedIsRegistered, TypeOK
<1>4. UntouchedBeforeStart'
  BY TrialsAssumption DEF UntouchedBeforeStart, TypeOK
<1>5. StagerIsAlone'
  BY RecordFacts DEF StagerIsAlone, TypeOK
<1>6. ResultIsOfTheRun'
  BY DEF ResultIsOfTheRun, TypeOK
<1>7. HandlersHoldTheirTask'
  BY DEF HandlersHoldTheirTask, TypeOK
<1>8. EvidenceIsOfTheRun'
  BY RecordFacts DEF EvidenceIsOfTheRun, TypeOK
<1>9. RunningRowIsWatched'
  BY DEF RunningRowIsWatched, TypeOK
<1>10. ReapingIsQuiet'
  BY DEF ReapingIsQuiet, TypeOK
<1>11. (CompletedIsEvidenced /\ OneExecution /\ TombstonedIsTerminal)'
  BY DEF CompletedIsEvidenced, OneExecution, TombstonedIsTerminal
<1>12. QED
  BY <1>1, <1>2, <1>3, <1>4, <1>5, <1>6, <1>7, <1>8, <1>9, <1>10, <1>11

\* One poll of the auto-finalizer, or one get_trial_status.
LEMMA LateFinalizeKeeps ==
  ASSUME IndInv, NEW t \in Trials, FinalResult(t), Finalize(t, result[t]),
         poller' = poller \/ poller' = poller \ {t},
         UNCHANGED <<task, registered, result, tombstones, conv, life, hist>>
  PROVE  IndInv'
<1>1. /\ task[t] = "done" /\ status[t] \in Finished \cup {"running"}
      /\ result[t] \in RunResults
      /\ Settles(t, result[t])
  BY LateResult
<1>2. QED
  BY <1>1, LateResultKeeps DEF Settles

-----------------------------------------------------------------------------
(***************************************************************************)
(* IndInv is inductive, and what follows.                                  *)
(***************************************************************************)

\* An empty store and an idle server satisfy the invariant.
LEMMA InitIsInductive == Init => IndInv
<1> SUFFICES ASSUME Init PROVE IndInv
  OBVIOUS
<1> USE DEF Init, IndInv
<1>1. TypeOK
  BY RecordFacts, EmptySeq DEF TypeOK
<1>2. TombstonedIsTerminal
  BY EmptySeq DEF TombstonedIsTerminal
<1>3. CompletedIsEvidenced /\ NoRunUnderTerminalRow /\ OneExecution
  BY DEF CompletedIsEvidenced, NoRunUnderTerminalRow, OneExecution
<1>4. DispatchedIsRegistered /\ UntouchedBeforeStart /\ StagerIsAlone
  BY TrialsAssumption
  DEF DispatchedIsRegistered, UntouchedBeforeStart, StagerIsAlone
<1>5. ResultIsOfTheRun /\ HandlersHoldTheirTask /\ EvidenceIsOfTheRun
  BY RecordFacts
  DEF ResultIsOfTheRun, HandlersHoldTheirTask, EvidenceIsOfTheRun
<1>6. RunningRowIsWatched /\ ReapingIsQuiet
  BY DEF RunningRowIsWatched, ReapingIsQuiet
<1>7. QED
  BY <1>1, <1>2, <1>3, <1>4, <1>5, <1>6

\* A step that changes nothing keeps the invariant.
LEMMA StutterKeeps ==
  ASSUME IndInv, UNCHANGED vars
  PROVE  IndInv'
<1> USE DEF vars, IndInv
<1>1. (TypeOK /\ CompletedIsEvidenced /\ NoRunUnderTerminalRow)'
  BY DEF TypeOK, CompletedIsEvidenced, NoRunUnderTerminalRow
<1>2. (OneExecution /\ TombstonedIsTerminal /\ DispatchedIsRegistered)'
  BY DEF OneExecution, TombstonedIsTerminal, DispatchedIsRegistered
<1>3. (UntouchedBeforeStart /\ StagerIsAlone /\ ResultIsOfTheRun)'
  BY DEF UntouchedBeforeStart, StagerIsAlone, ResultIsOfTheRun
<1>4. (HandlersHoldTheirTask /\ EvidenceIsOfTheRun)'
  BY DEF HandlersHoldTheirTask, EvidenceIsOfTheRun
<1>5. (RunningRowIsWatched /\ ReapingIsQuiet)'
  BY DEF RunningRowIsWatched, ReapingIsQuiet
<1>6. QED
  BY <1>1, <1>2, <1>3, <1>4, <1>5

\* Every step of every handler, task, crash and restart keeps the invariant.
LEMMA StepKeeps == IndInv /\ [Next]_vars => IndInv'
<1> SUFFICES ASSUME IndInv, [Next]_vars PROVE IndInv'
  OBVIOUS
<1>1. ASSUME NEW c \in Callers, Handler(c) PROVE IndInv'
  BY <1>1, RunUnresolvedKeeps, RunUnstagedKeeps, RunLapsedKeeps,
     RunDispatchKeeps, RunDetachKeeps, RunConcludeKeeps, CancelSettleKeeps,
     RetrySettleKeeps
  DEF Handler, RunStage
<1>2. ASSUME NEW c \in Callers, NEW t \in Trials, Request(c, t) PROVE IndInv'
  BY <1>2, RunBeginKeeps, CancelDesignedKeeps, CancelNowKeeps, CancelKillKeeps,
     RetryNowKeeps, RetryKillKeeps
  DEF Request
<1>3. ASSUME NEW t \in Trials, Executor(t) PROVE IndInv'
  BY <1>3, TaskFinishKeeps, TaskCancelledKeeps DEF Executor
<1>4. ASSUME NEW t \in Trials, PollFinalize(t) PROVE IndInv'
  BY <1>4, LateFinalizeKeeps DEF PollFinalize
<1>5. ASSUME NEW t \in Trials, GetTrialStatus(t) PROVE IndInv'
  BY <1>5, LateFinalizeKeeps DEF GetTrialStatus
<1>6. ASSUME NEW t \in Trials, NEW to \in Finished, Correct(t, to)
      PROVE  IndInv'
  BY <1>6, CorrectKeeps
<1>7. ASSUME Reaper PROVE IndInv'
  BY <1>7, ReapFailKeeps, ReapNoteKeeps, ServeKeeps DEF Reaper
<1>8. ASSUME Crash PROVE IndInv'
  BY <1>8, CrashKeeps
<1>9. ASSUME NEW t \in Trials, CrashInFinalize(t) PROVE IndInv'
  BY <1>9, CrashInFinalizeKeeps
<1>10. CASE UNCHANGED vars
  BY <1>10, StutterKeeps
<1>11. QED
  BY <1>1, <1>2, <1>3, <1>4, <1>5, <1>6, <1>7, <1>8, <1>9, <1>10 DEF Next

\* The inductive invariant holds in every reachable state.
THEOREM Invariance == Spec => []IndInv
<1>1. QED
  BY InitIsInductive, StepKeeps, PTL DEF Spec

\* Every variable always holds a value of its kind.
THEOREM TypeCorrect == Spec => []TypeOK
<1>1. IndInv => TypeOK
  BY DEF IndInv
<1>2. QED
  BY <1>1, Invariance, PTL

\* Whatever late finalizers, receipts, corrections and the reaper write, a row
\* labelled `completed' holds a record of a completed run: the integrity check
\* mislabeled_outcome never fires.
THEOREM Evidence == Spec => []CompletedIsEvidenced
<1>1. IndInv => CompletedIsEvidenced
  BY DEF IndInv
<1>2. QED
  BY <1>1, Invariance, PTL

\* No trial code runs unasked under a row that is terminal: neither a dispatch
\* nor a finalization nor a cancellation can leave one behind.
THEOREM NoGhostRun == Spec => []NoRunUnderTerminalRow
<1>1. IndInv => NoRunUnderTerminalRow
  BY DEF IndInv
<1>2. QED
  BY <1>1, Invariance, PTL

\* However run_trial, cancel_trial, mark_retryable and restarts interleave, the
\* code of a trial is started at most once.
THEOREM AtMostOnce == Spec => []OneExecution
<1>1. IndInv => OneExecution
  BY DEF IndInv
<1>2. QED
  BY <1>1, Invariance, PTL

\* LocalExecutor refuses to start only trials whose row is already terminal,
\* whatever its cap.
THEOREM TombstonesAreSafe == Spec => []TombstonedIsTerminal
<1>1. IndInv => TombstonedIsTerminal
  BY DEF IndInv
<1>2. QED
  BY <1>1, Invariance, PTL

\* While the row of a dispatched trial is running, its id is in _running_tasks:
\* cancel_trial finds the task.
THEOREM Registration == Spec => []DispatchedIsRegistered
<1>1. IndInv => DispatchedIsRegistered
  BY DEF IndInv
<1>2. QED
  BY <1>1, Invariance, PTL

\* When a run has ended under a running row, a handler or a poller that will
\* label it still exists.
THEOREM NobodyIsForgotten == Spec => []EndedRunHasFinalizer
<1>1. IndInv => EndedRunHasFinalizer
  BY RecordFacts
  DEF IndInv, EndedRunHasFinalizer, RunningRowIsWatched, ResultIsOfTheRun,
      TaskDone, FinalResult
<1>2. QED
  BY <1>1, Invariance, PTL

\* A task exists for every registered id.
LEMMA RegisteredStep ==
  TypeOK /\ RegisteredHasTask /\ [Next]_vars => RegisteredHasTask'
<1>. SUFFICES ASSUME TypeOK, RegisteredHasTask, [Next]_vars
              PROVE RegisteredHasTask'
  OBVIOUS
<1>. USE DEF TypeOK, RegisteredHasTask
<1>1. ASSUME NEW c \in Callers, Handler(c) PROVE RegisteredHasTask'
  <2>1. CASE RunDispatch(c)
    BY <2>1 DEF RunDispatch
  <2>2. CASE RunUnresolved(c) \/ RunUnstaged(c) \/ RunLapsed(c) \/ RunDetach(c) \/ RunConclude(c)
    BY <2>2 DEF RunUnresolved, RunUnstaged, RunLapsed, RunDetach, RunConclude, exec
  <2>3. CASE CancelSettle(c) \/ RetrySettle(c)
    BY <2>3 DEF CancelSettle, RetrySettle, CancelAsyncEnds
  <2>4. QED
    BY <1>1, <2>1, <2>2, <2>3 DEF Handler, RunStage
<1>2. ASSUME NEW c \in Callers, NEW t \in Trials, Request(c, t)
      PROVE RegisteredHasTask'
  BY <1>2 DEF Request, RunBegin, CancelDesigned, CancelNow, CancelKill, RetryNow,
              RetryKill, CancelAsyncKills, exec
<1>3. ASSUME NEW t \in Trials, Executor(t) PROVE RegisteredHasTask'
  BY <1>3 DEF Executor, TaskFinish, TaskCancelled
<1>4. ASSUME NEW t \in Trials, PollFinalize(t) \/ GetTrialStatus(t)
      PROVE RegisteredHasTask'
  BY <1>4 DEF PollFinalize, GetTrialStatus, exec
<1>5. ASSUME NEW t \in Trials, NEW to \in Finished, Correct(t, to)
      PROVE RegisteredHasTask'
  BY <1>5 DEF Correct, exec
<1>6. ASSUME Reaper PROVE RegisteredHasTask'
  BY <1>6 DEF Reaper, ReapFail, ReapNote, Serve, exec
<1>7. ASSUME Crash \/ \E t \in Trials : CrashInFinalize(t) PROVE RegisteredHasTask'
  BY <1>7 DEF Crash, CrashInFinalize, LoseMemory
<1>8. CASE UNCHANGED vars
  BY <1>8 DEF vars, exec
<1>9. QED
  BY <1>1, <1>2, <1>3, <1>4, <1>5, <1>6, <1>7, <1>8 DEF Next

LEMMA Registered == Spec => []RegisteredHasTask
<1>1. Init => RegisteredHasTask
  BY DEF Init, RegisteredHasTask
<1>2. IndInv => TypeOK
  BY DEF IndInv
<1>3. QED
  BY <1>1, <1>2, Invariance, RegisteredStep, PTL DEF Spec

\* The audits of integrity/checks.py have no mislabelled trial to report, report
\* a live task only while it is being killed, and report every running row that
\* no poller and no handler will label.
THEOREM AuditsAreComplete == Spec => []AuditsSeeEveryLoss
<1>1. IndInv /\ RegisteredHasTask => AuditsSeeEveryLoss
  <2>. SUFFICES ASSUME IndInv, RegisteredHasTask PROVE AuditsSeeEveryLoss
    OBVIOUS
  <2>1. mislabeled_outcome = {}
    BY DEF IndInv, CompletedIsEvidenced, mislabeled_outcome
  <2>2. ASSUME NEW t \in terminal_with_live_executor PROVE task[t] = "cancelling"
    BY <2>2 DEF IndInv, NoRunUnderTerminalRow, terminal_with_live_executor, TaskLive
  <2>3. ASSUME NEW t \in Trials, status[t] = "running"
        PROVE  \/ t \in poller
               \/ \E c \in Callers : call[c].trial = t
               \/ t \in orphaned_running_trials
    <3>1. CASE task[t] = "none"
      BY <2>3, <3>1 DEF RegisteredHasTask, orphaned_running_trials
    <3>2. CASE task[t] # "none"
      <4>1. task[t] \in {"running", "done"} \/ task[t] \in {"cancelling", "cancelled"}
        BY <3>2 DEF IndInv, TypeOK
      <4>2. QED
        BY <2>3, <4>1 DEF IndInv, RunningRowIsWatched, On
    <3>3. QED
      BY <3>1, <3>2
  <2>4. QED
    BY <2>1, <2>2, <2>3 DEF AuditsSeeEveryLoss
<1>2. QED
  BY <1>1, Invariance, Registered, PTL

-----------------------------------------------------------------------------
(***************************************************************************)
(* The refinement of TrialRow: every step of every handler, of the         *)
(* executor, of the reaper and of a crash does to the rows what the row's  *)
(* own specification allows, or leaves them alone.  That the label of a    *)
(* terminal row is only ever changed by a recorded correction follows.     *)
(***************************************************************************)
RowStep == [Row!Next]_(Row!rowVars)

-----------------------------------------------------------------------------
(***************************************************************************)
(* The four kinds of step.                                                 *)
(***************************************************************************)

\* The instance reads records the way the module does.
LEMMA SameRecords ==
  /\ Row!Record = Record /\ Row!NoRecord = NoRecord /\ Row!Ends = Finished
  /\ \A s, r :
       Row!Supported(s, r) <=> (s = "completed" => EvidencesCompletion(r))
<1>1. \A r : Row!EvidencesCompletion(r) <=> EvidencesCompletion(r)
  BY DEF Row!EvidencesCompletion, EvidencesCompletion, Row!HasExecutorRecord,
         HasExecutorRecord, Row!HasRunArtifact, HasRunArtifact,
         Row!FailureSignal, FailureSignal
<1>2. Row!Record = Record /\ Row!NoRecord = NoRecord /\ Row!Ends = Finished
  BY DEF Row!Record, Record, Row!NoRecord, NoRecord, Row!Ends
<1>3. QED
  BY <1>1, <1>2 DEF Row!Supported

\* Leaving the rows alone.
LEMMA RowUntouched ==
  ASSUME UNCHANGED row
  PROVE  RowStep
BY DEF RowStep, Row!rowVars

\* Ending a running row, over its old record or a new one.
LEMMA RowSettles ==
  ASSUME NEW t \in Trials, NEW s \in Finished, NEW r \in Record,
         status[t] = "running",
         s = "completed" => EvidencesCompletion(r),
         status' = [status EXCEPT ![t] = s],
         \/ r = output[t] /\ UNCHANGED <<output, trail>>
         \/ /\ output' = [output EXCEPT ![t] = r]
            /\ trail' = [trail EXCEPT ![t] = << >>]
  PROVE  RowStep
<1>1. s \in Row!Ends /\ r \in Row!Record /\ Row!Supported(s, r)
  BY SameRecords
<1>2. Row!Settle(t)
  BY <1>1 DEF Row!Settle
<1>3. QED
  BY <1>2 DEF RowStep, Row!Next

\* Replacing the record of a row whose label still stands over the new one.
LEMMA RowIsRewritten ==
  ASSUME NEW t \in Trials, NEW r \in Record,
         status[t] \in Finished \cup {"running"},
         status[t] = "completed" => EvidencesCompletion(r),
         UNCHANGED status,
         output' = [output EXCEPT ![t] = r],
         trail' = [trail EXCEPT ![t] = << >>]
  PROVE  RowStep
<1>1. r \in Row!Record /\ Row!Supported(status[t], r)
  BY SameRecords
<1>2. status[t] \in Row!Ends \cup {"running"}
  BY SameRecords
<1>3. Row!Rewrite(t)
  BY <1>1, <1>2 DEF Row!Rewrite
<1>4. QED
  BY <1>3 DEF RowStep, Row!Next

\* A finalization is one of the two.
LEMMA SettlesIsARowStep ==
  ASSUME TypeOK, NEW t \in Trials, NEW r \in Record,
         status[t] \in Finished \cup {"running"}, Settles(t, r)
  PROVE  RowStep
<1>1. PICK s \in Finished :
        /\ status' = [status EXCEPT ![t] = s]
        /\ status[t] \in Finished => s = status[t]
        /\ s = "completed" => EvidencesCompletion(r)
  BY DEF Settles
<1>2. CASE status[t] = "running"
  BY <1>1, <1>2, RowSettles DEF Settles
<1>3. CASE status[t] \in Finished
  <2>1. status' = status
    BY <1>1, <1>3 DEF TypeOK
  <2>2. status[t] = "completed" => EvidencesCompletion(r)
    BY <1>1, <1>3
  <2>3. QED
    BY <1>3, <2>1, <2>2, RowIsRewritten DEF Settles
<1>4. QED
  BY <1>2, <1>3

-----------------------------------------------------------------------------
(***************************************************************************)
(* The actions.                                                            *)
(***************************************************************************)
LEMMA RunBeginRefines ==
  ASSUME IndInv, NEW c \in Callers, NEW t \in Trials, RunBegin(c, t)
  PROVE  RowStep
<1>1. status[t] = "designed"
  BY DEF RunBegin, Legal, Transitions, IndInv, TypeOK
<1>2. Row!Begin(t)
  BY <1>1 DEF RunBegin, SetStatus, Row!Begin
<1>3. QED
  BY <1>2 DEF RowStep, Row!Next

LEMMA RunStageRefines ==
  ASSUME IndInv, NEW c \in Callers, RunStage(c)
  PROVE  RowStep
<1>1. CASE RunUnresolved(c)
  BY <1>1, RowUntouched DEF RunUnresolved
<1>2. CASE RunLapsed(c)
  BY <1>2, RowUntouched DEF RunLapsed
<1>3. CASE RunUnstaged(c)
  <2>1. PICK t \in Trials : call[c] = [at |-> "staging", trial |-> t]
    BY <1>3 DEF RunUnstaged, IndInv, TypeOK
  <2>2. UNCHANGED <<output, trail>>
    BY <1>3 DEF RunUnstaged
  <2>3. CASE status[t] = "running"
    <3>1. status' = [status EXCEPT ![t] = "failed"]
      BY <1>3, <2>1, <2>3 DEF RunUnstaged, Fail, SetStatus
    <3>2. output[t] \in Record
      BY DEF IndInv, TypeOK
    <3>3. QED
      BY <2>2, <2>3, <3>1, <3>2, RowSettles
  <2>4. CASE status[t] # "running"
    BY <1>3, <2>1, <2>2, <2>4, RowUntouched DEF RunUnstaged
  <2>5. QED
    BY <2>3, <2>4
<1>4. CASE RunDispatch(c)
  BY <1>4, RunDispatchStarts, RowUntouched
<1>5. QED
  BY <1>1, <1>2, <1>3, <1>4 DEF RunStage

LEMMA RunConcludeRefines ==
  ASSUME IndInv, NEW c \in Callers, RunConclude(c)
  PROVE  RowStep
<1>1. PICK t \in Trials :
        \/ UNCHANGED row
        \/ \E r \in RunResults \cup {CancelReceipt} :
             status[t] = "running" /\ Settles(t, r)
  BY RunConcludeSettles
<1>2. QED
  BY <1>1, RowUntouched, SettlesIsARowStep, RecordFacts DEF IndInv

LEMMA CancelSettleRefines ==
  ASSUME IndInv, NEW c \in Callers, CancelSettle(c)
  PROVE  RowStep
<1>1. PICK t \in Trials :
        \/ UNCHANGED row
        \/ /\ status[t] = "running"
           /\ status' = [status EXCEPT ![t] = "failed"]
           /\ output' = [output EXCEPT ![t] = CancelReceipt]
           /\ trail' = [trail EXCEPT ![t] = << >>]
  BY CancelSettleRow
<1>2. QED
  BY <1>1, RowUntouched, RowSettles, RecordFacts

LEMMA RetrySettleRefines ==
  ASSUME IndInv, NEW c \in Callers, RetrySettle(c)
  PROVE  RowStep
<1>1. PICK t \in Trials :
        /\ task[t] = "cancelled" /\ status[t] \in Finished
        /\ ~EvidencesCompletion(output[t])
        /\ UNCHANGED status
        /\ \/ UNCHANGED <<output, trail>>
           \/ /\ output' = [output EXCEPT ![t] = CancelReceipt]
              /\ trail' = [trail EXCEPT ![t] = << >>]
  BY RetrySettleRow
<1>2. status[t] # "completed"
  BY <1>1 DEF IndInv, CompletedIsEvidenced
<1>3. QED
  BY <1>1, <1>2, RowUntouched, RowIsRewritten, RecordFacts

LEMMA HandlerRefines ==
  ASSUME IndInv, NEW c \in Callers, Handler(c)
  PROVE  RowStep
<1>1. CASE RunDetach(c)
  BY <1>1, RowUntouched DEF RunDetach
<1>2. QED
  BY <1>1, RunStageRefines, RunConcludeRefines, CancelSettleRefines,
     RetrySettleRefines
  DEF Handler

LEMMA RequestRefines ==
  ASSUME IndInv, NEW c \in Callers, NEW t \in Trials, Request(c, t)
  PROVE  RowStep
<1>1. CASE CancelDesigned(c, t)
  <2>1. Row!Abandon(t)
    BY <1>1 DEF CancelDesigned, SetStatus, Row!Abandon
  <2>2. QED
    BY <2>1 DEF RowStep, Row!Next
<1>2. CASE CancelNow(c, t)
  <2>1. PICK r \in {CancelReceipt, AlreadyFinished} :
          /\ status[t] = "running"
          /\ status' = [status EXCEPT ![t] = "failed"]
          /\ output' = [output EXCEPT ![t] = r]
          /\ trail' = [trail EXCEPT ![t] = << >>]
    BY <1>2 DEF CancelNow, Fail, SetStatus, SetOutput
  <2>2. QED
    BY <2>1, RowSettles, RecordFacts
<1>3. CASE CancelKill(c, t)
  BY <1>3, RowUntouched DEF CancelKill
<1>4. CASE RetryNow(c, t)
  <2>1. PICK r \in {CancelReceipt, AlreadyFinished} :
          /\ status[t] = "running"
          /\ status' = [status EXCEPT ![t] = "retryable"]
          /\ output' = [output EXCEPT ![t] = r]
          /\ trail' = [trail EXCEPT ![t] = << >>]
    BY <1>4 DEF RetryNow, SetStatus, SetOutput
  <2>2. QED
    BY <2>1, RowSettles, RecordFacts
<1>5. CASE RetryKill(c, t)
  <2>1. /\ status[t] = "running"
        /\ status' = [status EXCEPT ![t] = "retryable"]
        /\ UNCHANGED <<output, trail>>
    BY <1>5 DEF RetryKill, SetStatus
  <2>2. output[t] \in Record
    BY DEF IndInv, TypeOK
  <2>3. QED
    BY <2>1, <2>2, RowSettles
<1>6. QED
  BY <1>1, <1>2, <1>3, <1>4, <1>5, RunBeginRefines DEF Request

LEMMA LateFinalizeRefines ==
  ASSUME IndInv, NEW t \in Trials, FinalResult(t), Finalize(t, result[t])
  PROVE  RowStep
<1>1. /\ status[t] \in Finished \cup {"running"}
      /\ Settles(t, result[t])
      /\ result[t] \in RunResults
  BY LateResult
<1>2. QED
  BY <1>1, SettlesIsARowStep, RecordFacts DEF IndInv

LEMMA CorrectRefines ==
  ASSUME IndInv, NEW t \in Trials, NEW to \in Finished, Correct(t, to)
  PROVE  RowStep
<1>1. /\ status[t] \in Row!Ends /\ to \in Row!Ends
      /\ Row!Supported(to, output[t])
  BY SameRecords DEF Correct, MayCorrect
<1>2. /\ status' = [status EXCEPT ![t] = to]
      /\ trail' = [trail EXCEPT
                    ![t] = Append(@, [from |-> status[t], to |-> to])]
      /\ UNCHANGED output
  BY DEF Correct, SetStatus
<1>3. Row!Relabel(t)
  BY <1>1, <1>2 DEF Row!Relabel
<1>4. QED
  BY <1>3 DEF RowStep, Row!Next

LEMMA CrashInFinalizeRefines ==
  ASSUME IndInv, NEW t \in Trials, CrashInFinalize(t)
  PROVE  RowStep
<1>1. result[t] \in Record
  BY DEF IndInv, TypeOK
<1>2. QED
  BY <1>1, RowIsRewritten DEF CrashInFinalize, SetOutput

LEMMA ReaperRefines ==
  ASSUME IndInv, Reaper
  PROVE  RowStep
<1>1. ASSUME NEW t \in Trials, ReapFail(t) PROVE RowStep
  <2>1. output[t] \in Record
    BY DEF IndInv, TypeOK
  <2>2. /\ status[t] = "running"
        /\ status' = [status EXCEPT ![t] = "failed"]
        /\ UNCHANGED <<output, trail>>
    BY <1>1 DEF ReapFail, Fail, SetStatus
  <2>3. QED
    BY <2>1, <2>2, RowSettles
<1>2. CASE ReapNote
  <2>1. noting \in Trials /\ status[noting] = "failed"
    BY <1>2 DEF ReapNote, IndInv, TypeOK, ReapingIsQuiet
  <2>2. QED
    BY <1>2, <2>1, RowIsRewritten, RecordFacts DEF ReapNote, SetOutput
<1>3. CASE Serve
  BY <1>3, RowUntouched DEF Serve
<1>4. QED
  BY <1>1, <1>2, <1>3 DEF Reaper

LEMMA StepRefines == IndInv /\ [Next]_vars => RowStep
<1> SUFFICES ASSUME IndInv, [Next]_vars PROVE RowStep
  OBVIOUS
<1>1. ASSUME NEW t \in Trials, Executor(t) PROVE RowStep
  BY <1>1, RowUntouched DEF Executor, TaskFinish, TaskCancelled
<1>2. ASSUME NEW t \in Trials, PollFinalize(t) \/ GetTrialStatus(t)
      PROVE  RowStep
  BY <1>2, LateFinalizeRefines DEF PollFinalize, GetTrialStatus
<1>3. CASE Crash
  BY <1>3, RowUntouched DEF Crash
<1>4. CASE UNCHANGED vars
  BY <1>4, RowUntouched DEF vars
<1>5. QED
  BY <1>1, <1>2, <1>3, <1>4, HandlerRefines, RequestRefines, CorrectRefines,
     CrashInFinalizeRefines, ReaperRefines
  DEF Next

-----------------------------------------------------------------------------
\* Whatever the handlers, the executor, the reaper and a crash do to a row is
\* something the row's own specification allows.
THEOREM Refinement == Spec => ImplementsTrialRow
<1>1. Init => Row!Init
  BY SameRecords DEF Init, Row!Init
<1>2. IndInv /\ [Next]_vars => [Row!Next]_(Row!rowVars)
  BY StepRefines DEF RowStep
<1>3. QED
  BY <1>1, <1>2, Invariance, PTL DEF Spec, ImplementsTrialRow, Row!Spec

\* The label of a terminal row changes only in a step that records the change.
THEOREM NoSilentRelabel == Spec => TerminalChangesAreRecorded
<1> DEFINE Recorded == \A t \in Trials :
      status[t] \in Terminal /\ status'[t] # status[t] =>
        /\ status[t] # "abandoned"
        /\ trail'[t] = Append(trail[t],
                              [from |-> status[t], to |-> status'[t]])
<1>1. TypeOK /\ RowStep => Recorded
  <2> SUFFICES ASSUME TypeOK, RowStep, NEW t \in Trials,
                      status[t] \in Terminal, status'[t] # status[t]
               PROVE  /\ status[t] # "abandoned"
                      /\ trail'[t] = Append(trail[t],
                                       [from |-> status[t], to |-> status'[t]])
    OBVIOUS
  <2>1. PICK u \in Trials :
          \/ Row!Begin(u) \/ Row!Abandon(u) \/ Row!Settle(u)
          \/ Row!Rewrite(u) \/ Row!Relabel(u)
    BY DEF RowStep, Row!Next, Row!rowVars
  <2>2. Row!Relabel(u) /\ u = t
    BY <2>1
    DEF TypeOK, Row!Begin, Row!Abandon, Row!Settle, Row!Rewrite, Row!Relabel
  <2>3. QED
    BY <2>2 DEF TypeOK, Row!Relabel, Row!Ends
<1>2. IndInv /\ [Next]_vars => Recorded \/ UNCHANGED vars
  BY <1>1, StepRefines DEF IndInv
<1>3. QED
  BY <1>2, Invariance, PTL DEF Spec, TerminalChangesAreRecorded
=============================================================================
