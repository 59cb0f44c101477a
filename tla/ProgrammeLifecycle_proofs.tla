---------------------- MODULE ProgrammeLifecycle_proofs ----------------------
(***************************************************************************)
(* What ProgrammeLifecycle keeps however its calls overlap, for every set  *)
(* of ids, callers and verdicts and every limit.  IndInv is inductive.     *)
(*                                                                         *)
(* A step of a handler moves one handler and may write rows.  OthersKnow   *)
(* says when the others may go on relying on what they read: rows last     *)
(* (RowsLast), and what only a coroutine between two awaits relies on      *)
(* (LoopRowsLast) is disturbed by no other.  Steps that write nothing need *)
(* no more than what the handler that moves learns (ReadOnly).             *)
(*                                                                         *)
(* Then the gates.  Two are passed some steps before what they guard: the  *)
(* trial budget of design_experiment, which parallel calls overshoot by a  *)
(* known amount, and the evidence of conclude_hypothesis, which lasts      *)
(* until the conclusion is written unless a correction comes in between.   *)
(* Those of close_programme do what they are there for when no calls       *)
(* overlap.  The write gate never strands its own remedies.                *)
(*                                                                         *)
(* Last, the archive and the upgrade of the databases, which the model     *)
(* puts beside the programmes: ArchiveInv and UpgradeInv are inductive.    *)
(***************************************************************************)
EXTENDS GatedProgramme, MCProgrammeLifecycle, SequenceTheorems, FiniteSetTheorems, TLAPS

\* The commitments and the statements of the store are a line each, and they
\* are always expanded.
USE DEF HasTrials, HypothesisExists, HypothesisInProgramme, HypothesisTestable,
        BundleControlled, ObservationAllowed, InMemory, NotConcluded,
        BeliefRecorded, InsertProgramme, InsertHypothesis, InsertTrial,
        InsertBundle, InsertObservation, InsertBelief, InsertConclusion,
        SetHypothesis

-----------------------------------------------------------------------------
(***************************************************************************)
(* Handlers that look on.                                                  *)
(***************************************************************************)

\* One handler moves.
Moves(c) == \E s \in Calls : call' = [call EXCEPT ![c] = s]

\* A handler is on the event loop's turn only if it was, or if nobody was.
TakesTurn(c) ==
  call'[c].at \in LoopSteps => call[c].at \in LoopSteps \/ LoopFree

\* What a handler off the loop relies on of the rows.
RowsLast ==
  /\ \A p \in Programmes : programme[p] # "none" => programme'[p] # "none"
  /\ \A h \in Hypotheses : hypothesis[h] # "none" => hypothesis'[h] # "none"
  /\ \A t \in Trials : trial[t] # "none" => trial'[t] # "none"
  /\ \A h \in Hypotheses : TrialsFor(h) # {} => TrialsFor(h)' # {}
  /\ \A t \in Trials : bundles[t] > 0 => bundles'[t] > 0
  /\ \A x \in Hypotheses \cup Trials : DisposedOf(x) => DisposedOf(x)'

\* What only a handler on the loop relies on.
LoopRowsLast ==
  /\ \A p \in Programmes :
       programme'[p] = "active" =>
         programme[p] = "active" /\ goal'[p] = goal[p]
  /\ conclusions' = conclusions

USE DEF AboutProgramme, AboutHypothesis, AboutTrial, Concluding, Closing,
        LoopSteps

\* An idle handler relies on nothing.
LEMMA IdleKnows ==
  ASSUME NEW c \in Callers, call'[c] = Idle
  PROVE  Knows(call[c])'
BY DEF Idle, Suspended, Handler, Knows, SubjectExists, GoalIsFree,
       TrialIsDesigned, StillSealed, StillUnconcluded, RestIsDisposedOf

\* What a handler that stays where it is knows lasts.
LEMMA KnowledgeLasts ==
  ASSUME NEW d \in Callers, call[d] \in Calls, call'[d] = call[d],
         Knows(call[d]), RowsLast,
         call[d].at \in LoopSteps => LoopRowsLast
  PROVE  Knows(call[d])'
<1>1. SubjectExists(call[d])'
  BY DEF SubjectExists, Knows, RowsLast
<1>2. GoalIsFree(call[d])'
  BY DEF GoalIsFree, Knows, LoopRowsLast, Active
<1>3. TrialIsDesigned(call[d])'
  BY DEF TrialIsDesigned, Knows, RowsLast, SubjectExists, TrialsFor
<1>4. StillSealed(call[d])'
  BY DEF StillSealed, Knows, RowsLast, SubjectExists
<1>5. StillUnconcluded(call[d])'
  BY DEF StillUnconcluded, Knows, LoopRowsLast
<1>6. RestIsDisposedOf(call[d])'
  BY DEF RestIsDisposedOf, Knows, RowsLast, Calls, DisposedOf
<1>7. QED
  BY <1>1, <1>2, <1>3, <1>4, <1>5, <1>6 DEF Knows

\* When one handler moves and the rows last, every other one may go on.
LEMMA OthersKnow ==
  ASSUME IndInv, NEW c \in Callers, Moves(c), TakesTurn(c), RowsLast,
         call[c].at \in LoopSteps \/ LoopRowsLast,
         Knows(call[c])'
  PROVE  OneOnTheLoop' /\ \A d \in Callers : Knows(call[d])'
<1>1. call \in [Callers -> Calls]
  BY DEF IndInv, TypeOK
<1>2. \A d \in Callers \ {c} : call'[d] = call[d]
  BY <1>1 DEF Moves
<1>3. OneOnTheLoop'
  BY <1>2 DEF IndInv, OneOnTheLoop, TakesTurn, LoopFree
<1>4. ASSUME NEW d \in Callers \ {c}
      PROVE  Knows(call[d])'
  BY <1>1, <1>2, KnowledgeLasts DEF IndInv, OneOnTheLoop
<1>5. QED
  BY <1>3, <1>4

\* A step that writes nothing keeps the invariant when the handler that moves
\* knows what it should.
LEMMA ReadOnly ==
  ASSUME IndInv, NEW c \in Callers, UNCHANGED <<records, covered, bounds>>,
         Moves(c), TakesTurn(c), Knows(call[c])'
  PROVE  IndInv'
<1> USE DEF records, bounds
<1>1. TypeOK'
  BY DEF IndInv, TypeOK, Moves
<1>2. RowsLast
  BY DEF RowsLast, TrialsFor, DisposedOf
<1>3. LoopRowsLast
  BY DEF LoopRowsLast
<1>4. OneOnTheLoop' /\ \A d \in Callers : Knows(call[d])'
  BY <1>2, <1>3, OthersKnow
<1>5. /\ OneActivePerGoal' /\ OneConclusion' /\ VerdictIsConcluded'
      /\ UnderTestHasTrial' /\ RunIsSealed' /\ CoveredIsDisposedOf'
  BY DEF IndInv, OneActivePerGoal, OneConclusion, VerdictIsConcluded,
         UnderTestHasTrial, RunIsSealed, CoveredIsDisposedOf, Active,
         TrialsFor, DisposedOf
<1>6. QED
  BY <1>1, <1>4, <1>5 DEF IndInv

\* How Begin, Goto and Return move a handler.
LEMMA BeginMoves ==
  ASSUME TypeOK, NEW c \in Callers, NEW where \in Steps, NEW x \in Subjects,
         Begin(c, where, x), where \in LoopSteps => LoopFree
  PROVE  Moves(c) /\ TakesTurn(c) /\ call'[c] = Suspended(where, x)
BY DEF TypeOK, Begin, Moves, TakesTurn, Suspended, Handler, Calls

LEMMA GotoMoves ==
  ASSUME TypeOK, NEW c \in Callers, NEW where \in Steps, Goto(c, where),
         where \in LoopSteps => call[c].at \in LoopSteps
  PROVE  Moves(c) /\ TakesTurn(c) /\ call'[c] = Suspended(where, call[c].on)
BY DEF TypeOK, Goto, Moves, TakesTurn, Suspended, Handler, Calls

LEMMA ReturnMoves ==
  ASSUME TypeOK, NEW c \in Callers, Return(c)
  PROVE  Moves(c) /\ TakesTurn(c) /\ Knows(call[c])'
<1>1. Idle \in Calls /\ Idle.at \notin LoopSteps
  BY DEF Idle, Suspended, Handler, Calls, Steps, Subjects
<1>2. call'[c] = Idle
  BY DEF TypeOK, Return
<1>3. Moves(c) /\ TakesTurn(c)
  BY <1>1, <1>2 DEF Return, Moves, TakesTurn
<1>4. QED
  BY <1>2, <1>3, IdleKnows

\* A read-only step that returns.
LEMMA ReturnKeeps ==
  ASSUME IndInv, NEW c \in Callers, Return(c),
         UNCHANGED <<records, covered, bounds>>
  PROVE  IndInv'
BY ReturnMoves, ReadOnly DEF IndInv

-----------------------------------------------------------------------------
(***************************************************************************)
(* Calls that arrive, and steps that only check.                           *)
(***************************************************************************)
USE DEF Suspended, Handler, Knows, SubjectExists, GoalIsFree, TrialIsDesigned,
        StillSealed, StillUnconcluded, RestIsDisposedOf, Steps, Subjects

LEMMA CreateBeginKeeps ==
  ASSUME IndInv, NEW c \in Callers, NEW g \in Goals,
         CreateBegin(c, g)
  PROVE  IndInv'
<1>1. /\ Moves(c) /\ TakesTurn(c)
      /\ call'[c] = Suspended("create.insert", g)
  BY BeginMoves DEF CreateBegin, IndInv
<1>2. Knows(call[c])'
  BY <1>1 DEF CreateBegin, records, Active
<1>3. QED
  BY <1>1, <1>2, ReadOnly DEF CreateBegin

LEMMA FormulateBeginKeeps ==
  ASSUME IndInv, NEW c \in Callers, NEW p \in Programmes,
         FormulateBegin(c, p)
  PROVE  IndInv'
<1>1. /\ Moves(c) /\ TakesTurn(c)
      /\ call'[c] = Suspended("formulate.insert", p)
  BY BeginMoves DEF FormulateBegin, IndInv
<1>2. Knows(call[c])'
  BY <1>1 DEF FormulateBegin, records, Active
<1>3. QED
  BY <1>1, <1>2, ReadOnly DEF FormulateBegin

LEMMA AbandonBeginKeeps ==
  ASSUME IndInv, NEW c \in Callers, NEW h \in Hypotheses,
         AbandonBegin(c, h)
  PROVE  IndInv'
<1>1. /\ Moves(c) /\ TakesTurn(c)
      /\ call'[c] = Suspended("abandon.write", h)
  BY BeginMoves DEF AbandonBegin, IndInv
<1>2. Knows(call[c])'
  BY <1>1 DEF AbandonBegin, records, Active
<1>3. QED
  BY <1>1, <1>2, ReadOnly DEF AbandonBegin

LEMMA DesignBeginKeeps ==
  ASSUME IndInv, NEW c \in Callers, NEW h \in Hypotheses,
         DesignBegin(c, h)
  PROVE  IndInv'
<1>1. /\ Moves(c) /\ TakesTurn(c)
      /\ call'[c] = Suspended("design.active", h)
  BY BeginMoves DEF DesignBegin, IndInv
<1>2. Knows(call[c])'
  BY <1>1 DEF DesignBegin, records, Open
<1>3. QED
  BY <1>1, <1>2, ReadOnly DEF DesignBegin

LEMMA CaptureBeginKeeps ==
  ASSUME IndInv, NEW c \in Callers, NEW t \in Trials,
         CaptureBegin(c, t)
  PROVE  IndInv'
<1>1. /\ Moves(c) /\ TakesTurn(c)
      /\ call'[c] = Suspended("capture.active", t)
  BY BeginMoves DEF CaptureBegin, IndInv
<1>2. Knows(call[c])'
  BY <1>1 DEF CaptureBegin, records, Active
<1>3. QED
  BY <1>1, <1>2, ReadOnly DEF CaptureBegin

LEMMA RunBeginKeeps ==
  ASSUME IndInv, NEW c \in Callers, NEW t \in Trials,
         RunBegin(c, t)
  PROVE  IndInv'
<1>1. /\ Moves(c) /\ TakesTurn(c)
      /\ call'[c] = Suspended("run.active", t)
  BY BeginMoves DEF RunBegin, IndInv
<1>2. Knows(call[c])'
  BY <1>1 DEF RunBegin, records, Active
<1>3. QED
  BY <1>1, <1>2, ReadOnly DEF RunBegin

LEMMA ObserveBeginKeeps ==
  ASSUME IndInv, NEW c \in Callers, NEW t \in Trials,
         ObserveBegin(c, t)
  PROVE  IndInv'
<1>1. /\ Moves(c) /\ TakesTurn(c)
      /\ call'[c] = Suspended("observe.active", t)
  BY BeginMoves DEF ObserveBegin, IndInv
<1>2. Knows(call[c])'
  BY <1>1 DEF ObserveBegin, records, Active
<1>3. QED
  BY <1>1, <1>2, ReadOnly DEF ObserveBegin

LEMMA BeliefBeginKeeps ==
  ASSUME IndInv, NEW c \in Callers, NEW p \in Programmes,
         BeliefBegin(c, p)
  PROVE  IndInv'
<1>1. /\ Moves(c) /\ TakesTurn(c)
      /\ call'[c] = Suspended("belief.tell", p)
  BY BeginMoves DEF BeliefBegin, IndInv
<1>2. Knows(call[c])'
  BY <1>1 DEF BeliefBegin, records, Active
<1>3. QED
  BY <1>1, <1>2, ReadOnly DEF BeliefBegin

LEMMA ConcludeBeginKeeps ==
  ASSUME IndInv, NEW c \in Callers, NEW h \in Hypotheses, NEW v \in Verdicts,
         ConcludeBegin(c, h, v)
  PROVE  IndInv'
<1>1. /\ Moves(c) /\ TakesTurn(c)
      /\ call'[c] = Handler("conclude.evidence", h, v, {}, {})
  BY DEF ConcludeBegin, IndInv, TypeOK, Moves, TakesTurn, Calls
<1>2. Knows(call[c])'
  BY <1>1 DEF ConcludeBegin, records
<1>3. QED
  BY <1>1, <1>2, ReadOnly DEF ConcludeBegin

LEMMA CloseBeginKeeps ==
  ASSUME IndInv, NEW c \in Callers, NEW p \in Programmes,
         NEW how \in {"completed", "abandoned"},
         CloseBegin(c, p, how)
  PROVE  IndInv'
<1>1. /\ Moves(c) /\ TakesTurn(c)
      /\ call'[c] = Handler("close.trials", p, how, {}, {})
  BY DEF CloseBegin, IndInv, TypeOK, Moves, TakesTurn, Calls
<1>2. Knows(call[c])'
  BY <1>1 DEF CloseBegin, records, Active
<1>3. QED
  BY <1>1, <1>2, ReadOnly DEF CloseBegin

LEMMA DesignActiveKeeps ==
  ASSUME IndInv, NEW c \in Callers, DesignActive(c)
  PROVE  IndInv'
<1>1. CASE Goto(c, "design.budget")
  <2>1. /\ Moves(c) /\ TakesTurn(c)
        /\ call'[c] = Suspended("design.budget", call[c].on)
    BY <1>1, GotoMoves DEF DesignActive, At, IndInv
  <2>2. Knows(call[c])'
    BY <2>1 DEF DesignActive, At, records, IndInv
  <2>3. QED
    BY <2>1, <2>2, ReadOnly DEF DesignActive
<1>2. CASE Return(c)
  BY <1>2, ReturnKeeps DEF DesignActive
<1>3. QED
  BY <1>1, <1>2 DEF DesignActive, Check

LEMMA DesignBudgetKeeps ==
  ASSUME IndInv, NEW c \in Callers, DesignBudget(c)
  PROVE  IndInv'
<1>1. CASE Goto(c, "design.insert")
  <2>1. /\ Moves(c) /\ TakesTurn(c)
        /\ call'[c] = Suspended("design.insert", call[c].on)
    BY <1>1, GotoMoves DEF DesignBudget, At, IndInv
  <2>2. Knows(call[c])'
    BY <2>1 DEF DesignBudget, At, records, IndInv
  <2>3. QED
    BY <2>1, <2>2, ReadOnly DEF DesignBudget
<1>2. CASE Return(c)
  BY <1>2, ReturnKeeps DEF DesignBudget
<1>3. QED
  BY <1>1, <1>2 DEF DesignBudget, Check

LEMMA CaptureActiveKeeps ==
  ASSUME IndInv, NEW c \in Callers, CaptureActive(c)
  PROVE  IndInv'
<1>1. CASE Goto(c, "capture.link")
  <2>1. /\ Moves(c) /\ TakesTurn(c)
        /\ call'[c] = Suspended("capture.link", call[c].on)
    BY <1>1, GotoMoves DEF CaptureActive, At, IndInv
  <2>2. Knows(call[c])'
    BY <2>1 DEF CaptureActive, At, records, IndInv
  <2>3. QED
    BY <2>1, <2>2, ReadOnly DEF CaptureActive
<1>2. CASE Return(c)
  BY <1>2, ReturnKeeps DEF CaptureActive
<1>3. QED
  BY <1>1, <1>2 DEF CaptureActive, Check

LEMMA RunActiveKeeps ==
  ASSUME IndInv, NEW c \in Callers, RunActive(c)
  PROVE  IndInv'
<1>1. CASE Goto(c, "run.start")
  <2>1. /\ Moves(c) /\ TakesTurn(c)
        /\ call'[c] = Suspended("run.start", call[c].on)
    BY <1>1, GotoMoves DEF RunActive, At, IndInv
  <2>2. Knows(call[c])'
    BY <2>1 DEF RunActive, At, records, IndInv
  <2>3. QED
    BY <2>1, <2>2, ReadOnly DEF RunActive
<1>2. CASE Return(c)
  BY <1>2, ReturnKeeps DEF RunActive
<1>3. QED
  BY <1>1, <1>2 DEF RunActive, Check

LEMMA ObserveActiveKeeps ==
  ASSUME IndInv, NEW c \in Callers, ObserveActive(c)
  PROVE  IndInv'
<1>1. CASE Goto(c, "observe.insert")
  <2>1. /\ Moves(c) /\ TakesTurn(c)
        /\ call'[c] = Suspended("observe.insert", call[c].on)
    BY <1>1, GotoMoves DEF ObserveActive, At, IndInv
  <2>2. Knows(call[c])'
    BY <2>1 DEF ObserveActive, At, records, IndInv
  <2>3. QED
    BY <2>1, <2>2, ReadOnly DEF ObserveActive
<1>2. CASE Return(c)
  BY <1>2, ReturnKeeps DEF ObserveActive
<1>3. QED
  BY <1>1, <1>2 DEF ObserveActive, Check

\* A capture or the optimizer fails.
LEMMA FailuresKeep ==
  ASSUME IndInv, NEW c \in Callers, CaptureFail(c) \/ BeliefFail(c)
  PROVE  IndInv'
BY ReturnKeeps DEF CaptureFail, BeliefFail

LEMMA ConcludeEvidenceKeeps ==
  ASSUME IndInv, NEW c \in Callers, ConcludeEvidence(c)
  PROVE  IndInv'
<1>1. CASE ConcludeGoto(c, "conclude.recorded")
  <2>1. /\ Moves(c) /\ TakesTurn(c)
        /\ call'[c] =
             Handler("conclude.recorded", call[c].on, call[c].how, {}, {})
    BY <1>1 DEF ConcludeEvidence, ConcludeGoto, At, IndInv, TypeOK, Moves,
                TakesTurn, Calls
  <2>2. Knows(call[c])'
    BY <2>1 DEF ConcludeEvidence, At, records, IndInv
  <2>3. QED
    BY <2>1, <2>2, ReadOnly DEF ConcludeEvidence
<1>2. CASE Return(c)
  BY <1>2, ReturnKeeps DEF ConcludeEvidence
<1>3. QED
  BY <1>1, <1>2 DEF ConcludeEvidence

LEMMA ConcludeRecordedKeeps ==
  ASSUME IndInv, NEW c \in Callers, ConcludeRecorded(c)
  PROVE  IndInv'
<1>1. CASE ConcludeGoto(c, "conclude.insert")
  <2>1. /\ Moves(c) /\ TakesTurn(c)
        /\ call'[c] =
             Handler("conclude.insert", call[c].on, call[c].how, {}, {})
    BY <1>1 DEF ConcludeRecorded, ConcludeGoto, At, IndInv, TypeOK, Moves,
                TakesTurn, Calls
  <2>2. Knows(call[c])'
    BY <2>1 DEF ConcludeRecorded, At, records, IndInv
  <2>3. QED
    BY <2>1, <2>2, ReadOnly DEF ConcludeRecorded
<1>2. CASE Return(c)
  BY <1>2, ReturnKeeps DEF ConcludeRecorded
<1>3. QED
  BY <1>1, <1>2 DEF ConcludeRecorded

\* The trials a close goes on from are disposed of or it will sweep them.
LEMMA CloseListTrialsKeeps ==
  ASSUME IndInv, NEW c \in Callers, CloseListTrials(c)
  PROVE  IndInv'
<1> DEFINE listed == TrialsOf(call[c].on)
           todo == {t \in listed : trial[t] = "designed"}
<1>1. CASE Return(c)
  BY <1>1, ReturnKeeps DEF CloseListTrials
<1>2. CASE /\ \A t \in listed : trial[t] # "running"
           /\ call' = [call EXCEPT ![c] =
                Handler("close.hypotheses", call[c].on, call[c].how, todo,
                        listed)]
  <2>1. /\ Moves(c) /\ TakesTurn(c)
        /\ call'[c] = Handler("close.hypotheses", call[c].on, call[c].how,
                              todo, listed)
    BY <1>2 DEF TrialsOf, IndInv, TypeOK, Moves, TakesTurn, Calls
  <2>2. \A t \in listed \ todo : DisposedOf(t)
    BY <1>2, IdsAssumption
      DEF TrialsOf, HypothesesOf, DisposedOf, IndInv, TypeOK, Settled, Ends
  <2>3. Knows(call[c])'
    BY <2>1, <2>2 DEF CloseListTrials, At, records, IndInv, DisposedOf
  <2>4. QED
    BY <2>1, <2>3, ReadOnly DEF CloseListTrials
<1>3. QED
  BY <1>1, <1>2 DEF CloseListTrials

\* So are the hypotheses; of those under test there are none, or the sweep is
\* of them, too.
LEMMA CloseListHypothesesKeeps ==
  ASSUME IndInv, NEW c \in Callers, CloseListHypotheses(c)
  PROVE  IndInv'
<1> DEFINE listed == HypothesesOf(call[c].on)
           how == call[c].how
           swept == {h \in listed : hypothesis[h] \in Sweeps(how)}
           next == Handler("close.sweep", call[c].on, how,
                           call[c].todo \cup swept, call[c].seen \cup listed)
<1>1. CASE Return(c)
  BY <1>1, ReturnKeeps DEF CloseListHypotheses
<1>2. CASE /\ ~(how = "completed" /\ \E h \in listed :
                                        hypothesis[h] = "under_test")
           /\ call' = [call EXCEPT ![c] = next]
  <2>1. /\ Moves(c) /\ TakesTurn(c) /\ call'[c] = next
    BY <1>2 DEF HypothesesOf, IndInv, TypeOK, Moves, TakesTurn, Calls
  <2>2. call[c] \in Calls /\ Knows(call[c]) /\ At(c, "close.hypotheses")
    BY DEF CloseListHypotheses, IndInv, TypeOK
  <2>3. \A h \in listed \ swept : DisposedOf(h)
    BY <1>2, <2>2, IdsAssumption
      DEF HypothesesOf, DisposedOf, IndInv, TypeOK, Sweeps, Open, At
  <2>4. \A x \in next.seen \ next.todo : DisposedOf(x)
    BY <2>2, <2>3 DEF At
  <2>5. Knows(call[c])'
    BY <2>1, <2>2, <2>4 DEF CloseListHypotheses, At, records, DisposedOf
  <2>6. QED
    BY <2>1, <2>5, ReadOnly DEF CloseListHypotheses
<1>3. QED
  BY <1>1, <1>2 DEF CloseListHypotheses

-----------------------------------------------------------------------------
(***************************************************************************)
(* Steps that write.                                                       *)
(***************************************************************************)

\* What the rows keep on their own.
RowsOK ==
  /\ OneActivePerGoal
  /\ OneConclusion
  /\ VerdictIsConcluded
  /\ UnderTestHasTrial
  /\ RunIsSealed
  /\ CoveredIsDisposedOf

\* A step that writes and moves one handler.
LEMMA WriteKeeps ==
  ASSUME IndInv, NEW c \in Callers, Moves(c), TakesTurn(c), Knows(call[c])',
         RowsLast, call[c].at \in LoopSteps \/ LoopRowsLast, TypeOK', RowsOK'
  PROVE  IndInv'
<1>1. OneOnTheLoop' /\ \A d \in Callers : Knows(call[d])'
  BY OthersKnow
<1>2. QED
  BY <1>1 DEF IndInv, RowsOK

\* A step that writes and moves no handler.
LEMMA AsideKeeps ==
  ASSUME IndInv, UNCHANGED call, RowsLast, LoopRowsLast, TypeOK', RowsOK'
  PROVE  IndInv'
<1>1. OneOnTheLoop'
  BY DEF IndInv, OneOnTheLoop
<1>2. ASSUME NEW d \in Callers PROVE Knows(call[d])'
  BY KnowledgeLasts DEF IndInv, TypeOK
<1>3. QED
  BY <1>1, <1>2 DEF IndInv, RowsOK

\* The label of a trial changes.
LEMMA TrialLabel ==
  ASSUME IndInv, NEW t \in Trials, NEW s \in {"running"} \cup Settled,
         SetTrial(t, s), trial[t] # "none",
         trial[t] \in Settled => s \in Settled,
         s \in {"running"} \cup Ends => bundles[t] > 0,
         call' \in [Callers -> Calls], corrections' \in Nat,
         UNCHANGED <<covered, crashes>>
  PROVE  TypeOK' /\ RowsLast /\ LoopRowsLast /\ RowsOK'
<1> USE DEF SetTrial
<1>1. TypeOK'
  BY DEF IndInv, TypeOK, Settled, Ends
<1>2. RowsLast
  BY DEF RowsLast, IndInv, TypeOK, TrialsFor, DisposedOf, Settled, Ends
<1>3. LoopRowsLast
  BY DEF LoopRowsLast
<1>4. OneActivePerGoal' /\ OneConclusion' /\ VerdictIsConcluded'
  BY DEF IndInv, OneActivePerGoal, OneConclusion, VerdictIsConcluded, Active
<1>5. UnderTestHasTrial' /\ RunIsSealed'
  BY DEF IndInv, TypeOK, UnderTestHasTrial, RunIsSealed, TrialsFor
<1>6. CoveredIsDisposedOf'
  BY DEF IndInv, TypeOK, CoveredIsDisposedOf, DisposedOf
<1>7. QED
  BY <1>1, <1>2, <1>3, <1>4, <1>5, <1>6 DEF RowsOK

\* The label of a hypothesis that is still in the loop changes.
LEMMA HypothesisLabel ==
  ASSUME IndInv, NEW h \in Hypotheses,
         NEW s \in {"under_test", "abandoned"} \cup Verdicts,
         hypothesis' = [hypothesis EXCEPT ![h] = s], hypothesis[h] \in Open,
         s = "under_test" => TrialsFor(h) # {},
         s \in Verdicts => conclusions[h] = <<s>>,
         call' \in [Callers -> Calls],
         UNCHANGED <<programme, goal, programmeOf, trial, hypothesisOf,
                     bundles, observed, believed, conclusions, covered,
                     bounds>>
  PROVE  TypeOK' /\ RowsLast /\ LoopRowsLast /\ RowsOK'
<1> USE DEF bounds
<1>1. TypeOK'
  BY VerdictsAssumption DEF IndInv, TypeOK, Open
<1>2. RowsLast
  BY VerdictsAssumption, IdsAssumption
    DEF RowsLast, IndInv, TypeOK, TrialsFor, DisposedOf, Open
<1>3. LoopRowsLast
  BY DEF LoopRowsLast
<1>4. OneActivePerGoal' /\ OneConclusion' /\ RunIsSealed'
  BY DEF IndInv, OneActivePerGoal, OneConclusion, RunIsSealed, Active
<1>5. VerdictIsConcluded'
  BY VerdictsAssumption DEF IndInv, TypeOK, VerdictIsConcluded
<1>6. UnderTestHasTrial'
  BY DEF IndInv, TypeOK, UnderTestHasTrial, TrialsFor
<1>7. CoveredIsDisposedOf'
  BY VerdictsAssumption, IdsAssumption
    DEF IndInv, TypeOK, CoveredIsDisposedOf, DisposedOf, Open
<1>8. QED
  BY <1>1, <1>2, <1>3, <1>4, <1>5, <1>6, <1>7 DEF RowsOK

\* A programme is closed or archived over rows that are disposed of.
LEMMA ProgrammeLabel ==
  ASSUME IndInv, NEW p \in Programmes, NEW s \in Closed, SetProgramme(p, s),
         programme[p] # "none",
         covered' \in [Programmes -> SUBSET (Hypotheses \cup Trials)],
         \A q \in Programmes \ {p} : covered'[q] = covered[q],
         \A x \in covered'[p] : DisposedOf(x),
         call' \in [Callers -> Calls], UNCHANGED bounds
  PROVE  TypeOK' /\ RowsLast /\ LoopRowsLast /\ RowsOK'
<1> USE DEF SetProgramme, bounds
<1>1. TypeOK'
  BY DEF IndInv, TypeOK
<1>2. RowsLast
  BY DEF RowsLast, IndInv, TypeOK, TrialsFor, DisposedOf, Closed
<1>3. LoopRowsLast
  BY DEF LoopRowsLast, IndInv, TypeOK, Closed
<1>4. OneActivePerGoal'
  BY DEF IndInv, TypeOK, OneActivePerGoal, Active, Closed
<1>5. /\ OneConclusion' /\ VerdictIsConcluded' /\ UnderTestHasTrial'
      /\ RunIsSealed'
  BY DEF IndInv, OneConclusion, VerdictIsConcluded, UnderTestHasTrial,
         RunIsSealed, TrialsFor
<1>6. CoveredIsDisposedOf'
  BY DEF IndInv, TypeOK, CoveredIsDisposedOf, DisposedOf
<1>7. QED
  BY <1>1, <1>2, <1>3, <1>4, <1>5, <1>6 DEF RowsOK

\* Inserts.  The goal of a new programme was free when the handler last looked,
\* and nobody else is on the loop.
LEMMA CreateInsertKeeps ==
  ASSUME IndInv, NEW c \in Callers, CreateInsert(c)
  PROVE  IndInv'
<1>1. Moves(c) /\ TakesTurn(c) /\ Knows(call[c])'
  BY ReturnMoves DEF CreateInsert, IndInv
<1>2. PICK p \in Programmes :
        /\ programme[p] = "none"
        /\ programme' = [programme EXCEPT ![p] = "active"]
        /\ goal' = [goal EXCEPT ![p] = call[c].on]
  BY DEF CreateInsert
<1>3. /\ call[c].at = "create.insert" /\ Knows(call[c])
      /\ call' \in [Callers -> Calls]
  BY <1>1 DEF CreateInsert, At, IndInv, TypeOK, Moves
<1>4. TypeOK'
  BY <1>2, <1>3 DEF CreateInsert, IndInv, TypeOK, bounds
<1>5. RowsLast
  BY <1>2 DEF CreateInsert, RowsLast, IndInv, TypeOK, TrialsFor, DisposedOf
<1>6. OneActivePerGoal'
  BY <1>2, <1>3 DEF IndInv, TypeOK, OneActivePerGoal, Active
<1>7. CoveredIsDisposedOf'
  BY <1>2 DEF CreateInsert, IndInv, TypeOK, CoveredIsDisposedOf, DisposedOf,
              Closed
<1>8. RowsOK'
  BY <1>6, <1>7 DEF CreateInsert, IndInv, RowsOK, OneConclusion,
       VerdictIsConcluded, UnderTestHasTrial, RunIsSealed, TrialsFor
<1>9. QED
  BY <1>1, <1>3, <1>4, <1>5, <1>8, WriteKeeps

LEMMA FormulateInsertKeeps ==
  ASSUME IndInv, NEW c \in Callers, FormulateInsert(c)
  PROVE  IndInv'
<1>1. Moves(c) /\ TakesTurn(c) /\ Knows(call[c])'
  BY ReturnMoves DEF FormulateInsert, IndInv
<1>2. PICK h \in Hypotheses :
        /\ hypothesis[h] = "none"
        /\ hypothesis' = [hypothesis EXCEPT ![h] = "proposed"]
        /\ programmeOf' = [programmeOf EXCEPT ![h] = call[c].on]
  BY DEF FormulateInsert
<1>3. /\ call[c].on \in Programmes /\ call' \in [Callers -> Calls]
      /\ call[c].on # Nobody
  BY <1>1, IdsAssumption DEF FormulateInsert, At, IndInv, TypeOK, Moves
<1>4. TypeOK'
  BY <1>2, <1>3 DEF FormulateInsert, IndInv, TypeOK, bounds, Open
<1>5. RowsLast
  BY <1>2, IdsAssumption
    DEF FormulateInsert, RowsLast, IndInv, TypeOK, TrialsFor, DisposedOf
<1>6. LoopRowsLast
  BY DEF FormulateInsert, LoopRowsLast
<1>7. VerdictIsConcluded' /\ UnderTestHasTrial'
  BY <1>2, VerdictsAssumption
    DEF FormulateInsert, IndInv, TypeOK, VerdictIsConcluded, UnderTestHasTrial,
        TrialsFor
<1>8. CoveredIsDisposedOf'
  BY <1>2, IdsAssumption
    DEF FormulateInsert, IndInv, TypeOK, CoveredIsDisposedOf, DisposedOf
<1>9. RowsOK'
  BY <1>7, <1>8 DEF FormulateInsert, IndInv, RowsOK, OneActivePerGoal, Active,
       OneConclusion, RunIsSealed
<1>10. QED
  BY <1>1, <1>4, <1>5, <1>6, <1>9, WriteKeeps

\* The trial exists before its hypothesis is promoted.
LEMMA DesignInsertKeeps ==
  ASSUME IndInv, NEW c \in Callers, DesignInsert(c)
  PROVE  IndInv'
<1>1. /\ Moves(c) /\ TakesTurn(c)
      /\ call'[c] = Suspended("design.promote", call[c].on)
  BY GotoMoves DEF DesignInsert, IndInv
<1>2. PICK t \in Trials :
        /\ trial[t] = "none"
        /\ trial' = [trial EXCEPT ![t] = "designed"]
        /\ hypothesisOf' = [hypothesisOf EXCEPT ![t] = call[c].on]
  BY DEF DesignInsert
<1>3. /\ call[c].on \in Hypotheses /\ call' \in [Callers -> Calls]
      /\ call[c].on # Nobody /\ hypothesis[call[c].on] # "none"
  BY <1>1, IdsAssumption DEF DesignInsert, At, IndInv, TypeOK, Moves
<1>4. \A h \in Hypotheses : TrialsFor(h) \subseteq TrialsFor(h)'
  BY <1>2, IdsAssumption DEF IndInv, TypeOK, TrialsFor
<1>5. t \in TrialsFor(call[c].on)'
  BY <1>1, <1>2 DEF IndInv, TypeOK, TrialsFor
<1>6. Knows(call[c])'
  BY <1>1, <1>3, <1>5 DEF DesignInsert, IndInv, TypeOK, TrialsFor
<1>7. TypeOK'
  BY <1>2, <1>3 DEF DesignInsert, IndInv, TypeOK, bounds
<1>8. RowsLast
  BY <1>2, <1>4
    DEF DesignInsert, RowsLast, IndInv, TypeOK, DisposedOf, Settled, Ends
<1>9. LoopRowsLast
  BY DEF DesignInsert, LoopRowsLast
<1>10. UnderTestHasTrial'
  BY <1>4 DEF DesignInsert, IndInv, UnderTestHasTrial
<1>11. RunIsSealed'
  BY <1>2 DEF DesignInsert, IndInv, TypeOK, RunIsSealed, Ends
<1>12. CoveredIsDisposedOf'
  BY <1>2 DEF DesignInsert, IndInv, TypeOK, CoveredIsDisposedOf, DisposedOf,
              Settled, Ends
<1>13. RowsOK'
  BY <1>10, <1>11, <1>12 DEF DesignInsert, IndInv, RowsOK, OneActivePerGoal,
       Active, OneConclusion, VerdictIsConcluded
<1>14. QED
  BY <1>1, <1>6, <1>7, <1>8, <1>9, <1>13, WriteKeeps

LEMMA CaptureLinkKeeps ==
  ASSUME IndInv, NEW c \in Callers, CaptureLink(c)
  PROVE  IndInv'
<1>1. Moves(c) /\ TakesTurn(c) /\ Knows(call[c])'
  BY ReturnMoves DEF CaptureLink, IndInv
<1>2. /\ bundles' \in [Trials -> Nat]
      /\ \A t \in Trials : bundles'[t] >= bundles[t]
  <2>1. PICK t \in Trials : bundles' = [bundles EXCEPT ![t] = bundles[t] + 1]
    BY DEF CaptureLink, At, IndInv
  <2>2. bundles \in [Trials -> Nat]
    BY DEF IndInv, TypeOK
  <2>3. QED
    BY <2>1, <2>2
<1>3. TypeOK'
  <2>1. call' \in [Callers -> Calls]
    BY <1>1 DEF IndInv, TypeOK, Moves
  <2>2. QED
    BY <1>2, <2>1 DEF CaptureLink, IndInv, TypeOK, bounds
<1>4. RowsLast
  BY <1>2 DEF CaptureLink, RowsLast, IndInv, TypeOK, TrialsFor, DisposedOf
<1>5. LoopRowsLast
  BY DEF CaptureLink, LoopRowsLast
<1>6. RunIsSealed'
  BY <1>2 DEF CaptureLink, IndInv, TypeOK, RunIsSealed
<1>7. RowsOK'
  BY <1>6 DEF CaptureLink, IndInv, RowsOK, OneActivePerGoal, Active,
       OneConclusion, VerdictIsConcluded, UnderTestHasTrial, TrialsFor,
       CoveredIsDisposedOf, DisposedOf
<1>8. QED
  BY <1>1, <1>3, <1>4, <1>5, <1>7, WriteKeeps

LEMMA ObserveInsertKeeps ==
  ASSUME IndInv, NEW c \in Callers, ObserveInsert(c)
  PROVE  IndInv'
<1>1. Moves(c) /\ TakesTurn(c) /\ Knows(call[c])'
  BY ReturnMoves DEF ObserveInsert, IndInv
<1>2. TypeOK'
  BY <1>1 DEF ObserveInsert, At, IndInv, TypeOK, bounds, Moves
<1>3. RowsLast /\ LoopRowsLast
  BY DEF ObserveInsert, RowsLast, LoopRowsLast, TrialsFor, DisposedOf
<1>4. RowsOK'
  BY DEF ObserveInsert, IndInv, RowsOK, OneActivePerGoal, Active,
       OneConclusion, VerdictIsConcluded, UnderTestHasTrial, TrialsFor,
       RunIsSealed, CoveredIsDisposedOf, DisposedOf
<1>5. QED
  BY <1>1, <1>2, <1>3, <1>4, WriteKeeps

LEMMA BeliefInsertKeeps ==
  ASSUME IndInv, NEW c \in Callers, BeliefInsert(c)
  PROVE  IndInv'
<1>1. Moves(c) /\ TakesTurn(c) /\ Knows(call[c])'
  BY ReturnMoves DEF BeliefInsert, IndInv
<1>2. TypeOK'
  BY <1>1 DEF BeliefInsert, At, IndInv, TypeOK, bounds, Moves
<1>3. RowsLast /\ LoopRowsLast
  BY DEF BeliefInsert, RowsLast, LoopRowsLast, TrialsFor, DisposedOf
<1>4. RowsOK'
  BY DEF BeliefInsert, IndInv, RowsOK, OneActivePerGoal, Active, OneConclusion,
       VerdictIsConcluded, UnderTestHasTrial, TrialsFor, RunIsSealed,
       CoveredIsDisposedOf, DisposedOf
<1>5. QED
  BY <1>1, <1>2, <1>3, <1>4, WriteKeeps

\* The hypothesis had no conclusion when the handler last looked, and nobody
\* else is on the loop.
LEMMA ConcludeInsertKeeps ==
  ASSUME IndInv, NEW c \in Callers, ConcludeInsert(c)
  PROVE  IndInv'
<1> DEFINE h == call[c].on
           how == call[c].how
<1>1. /\ call[c] \in Calls /\ call[c].at = "conclude.insert"
      /\ h \in Hypotheses /\ hypothesis[h] # "none"
      /\ how \in Verdicts /\ conclusions[h] = << >>
  BY DEF ConcludeInsert, At, IndInv, TypeOK
<1>2. /\ Moves(c) /\ TakesTurn(c)
      /\ call'[c] = Handler("conclude.label", h, how, {}, {})
      /\ call' \in [Callers -> Calls]
  BY <1>1 DEF ConcludeInsert, ConcludeGoto, IndInv, TypeOK, Moves, TakesTurn,
              Calls
<1>3. conclusions' = [conclusions EXCEPT ![h] = <<how>>]
  BY <1>1 DEF ConcludeInsert
<1>4. Knows(call[c])'
  BY <1>1, <1>2, <1>3 DEF ConcludeInsert, IndInv, TypeOK
<1>5. <<how>> \in Seq(Verdicts)
  BY <1>1
<1>6. TypeOK'
  BY <1>1, <1>2, <1>3, <1>5 DEF ConcludeInsert, IndInv, TypeOK, bounds
<1>7. RowsLast
  BY DEF ConcludeInsert, RowsLast, TrialsFor, DisposedOf
<1>8. OneConclusion' /\ VerdictIsConcluded'
  BY <1>1, <1>3 DEF ConcludeInsert, IndInv, TypeOK, OneConclusion,
                    VerdictIsConcluded
<1>9. RowsOK'
  BY <1>8 DEF ConcludeInsert, IndInv, RowsOK, OneActivePerGoal, Active,
       UnderTestHasTrial, TrialsFor, RunIsSealed, CoveredIsDisposedOf,
       DisposedOf
<1>10. QED
  BY <1>1, <1>2, <1>4, <1>6, <1>7, <1>9, WriteKeeps

\* Labels of hypotheses.
LEMMA AbandonWriteKeeps ==
  ASSUME IndInv, NEW c \in Callers, AbandonWrite(c)
  PROVE  IndInv'
<1>1. Moves(c) /\ TakesTurn(c) /\ Knows(call[c])'
  BY ReturnMoves DEF AbandonWrite, IndInv
<1>2. call' \in [Callers -> Calls]
  BY <1>1 DEF Moves, IndInv, TypeOK
<1>3. CASE hypothesis[call[c].on] \in Open
  <2>1. PICK h \in Hypotheses,
             s \in {"under_test", "abandoned"} \cup Verdicts :
          /\ hypothesis' = [hypothesis EXCEPT ![h] = s]
          /\ hypothesis[h] \in Open
          /\ s = "under_test" => TrialsFor(h) # {}
          /\ s \in Verdicts => conclusions[h] = <<s>>
    BY <1>3, VerdictsAssumption DEF AbandonWrite, At, IndInv, Open, Abandoned
  <2>2. TypeOK' /\ RowsLast /\ LoopRowsLast /\ RowsOK'
    BY <1>2, <2>1, HypothesisLabel DEF AbandonWrite
  <2>3. QED
    BY <1>1, <2>2, WriteKeeps
<1>4. CASE ~(hypothesis[call[c].on] \in Open)
  BY <1>1, <1>4, ReadOnly DEF AbandonWrite, records
<1>5. QED
  BY <1>3, <1>4

LEMMA DesignPromoteKeeps ==
  ASSUME IndInv, NEW c \in Callers, DesignPromote(c)
  PROVE  IndInv'
<1>1. Moves(c) /\ TakesTurn(c) /\ Knows(call[c])'
  BY ReturnMoves DEF DesignPromote, IndInv
<1>2. call' \in [Callers -> Calls]
  BY <1>1 DEF Moves, IndInv, TypeOK
<1>3. CASE hypothesis[call[c].on] = "proposed"
  <2>1. PICK h \in Hypotheses,
             s \in {"under_test", "abandoned"} \cup Verdicts :
          /\ hypothesis' = [hypothesis EXCEPT ![h] = s]
          /\ hypothesis[h] \in Open
          /\ s = "under_test" => TrialsFor(h) # {}
          /\ s \in Verdicts => conclusions[h] = <<s>>
    BY <1>3, VerdictsAssumption DEF DesignPromote, At, IndInv, Open, Abandoned
  <2>2. TypeOK' /\ RowsLast /\ LoopRowsLast /\ RowsOK'
    BY <1>2, <2>1, HypothesisLabel DEF DesignPromote
  <2>3. QED
    BY <1>1, <2>2, WriteKeeps
<1>4. CASE ~(hypothesis[call[c].on] = "proposed")
  BY <1>1, <1>4, ReadOnly DEF DesignPromote, records
<1>5. QED
  BY <1>3, <1>4

LEMMA ConcludeLabelKeeps ==
  ASSUME IndInv, NEW c \in Callers, ConcludeLabel(c)
  PROVE  IndInv'
<1>1. Moves(c) /\ TakesTurn(c) /\ Knows(call[c])'
  BY ReturnMoves DEF ConcludeLabel, IndInv
<1>2. call' \in [Callers -> Calls]
  BY <1>1 DEF Moves, IndInv, TypeOK
<1>3. CASE hypothesis[call[c].on] = "under_test"
  <2>1. PICK h \in Hypotheses,
             s \in {"under_test", "abandoned"} \cup Verdicts :
          /\ hypothesis' = [hypothesis EXCEPT ![h] = s]
          /\ hypothesis[h] \in Open
          /\ s = "under_test" => TrialsFor(h) # {}
          /\ s \in Verdicts => conclusions[h] = <<s>>
    BY <1>3, VerdictsAssumption DEF ConcludeLabel, At, IndInv, Open, Abandoned
  <2>2. TypeOK' /\ RowsLast /\ LoopRowsLast /\ RowsOK'
    BY <1>2, <2>1, HypothesisLabel DEF ConcludeLabel
  <2>3. QED
    BY <1>1, <2>2, WriteKeeps
<1>4. CASE ~(hypothesis[call[c].on] = "under_test")
  BY <1>1, <1>4, ReadOnly DEF ConcludeLabel, records
<1>5. QED
  BY <1>3, <1>4

\* Labels of trials.
LEMMA RunStartKeeps ==
  ASSUME IndInv, NEW c \in Callers, RunStart(c)
  PROVE  IndInv'
<1>1. Moves(c) /\ TakesTurn(c) /\ Knows(call[c])'
  BY ReturnMoves DEF RunStart, IndInv
<1>2. call' \in [Callers -> Calls]
  BY <1>1 DEF Moves, IndInv, TypeOK
<1>3. CASE trial[call[c].on] = "designed"
  <2>1. TypeOK' /\ RowsLast /\ LoopRowsLast /\ RowsOK'
    BY <1>2, <1>3, TrialLabel
      DEF RunStart, At, IndInv, TypeOK, bounds, Settled, Ends
  <2>2. QED
    BY <1>1, <2>1, WriteKeeps
<1>4. CASE trial[call[c].on] # "designed"
  BY <1>1, <1>4, ReadOnly DEF RunStart
<1>5. QED
  BY <1>3, <1>4

LEMMA TrialEndKeeps ==
  ASSUME IndInv, NEW t \in Trials, TrialEnd(t)
  PROVE  IndInv'
<1>1. PICK s \in Ends : SetTrial(t, s)
  BY DEF TrialEnd
<1>2. bundles[t] > 0
  BY DEF TrialEnd, IndInv, RunIsSealed
<1>3. TypeOK' /\ RowsLast /\ LoopRowsLast /\ RowsOK'
  BY <1>1, <1>2, TrialLabel DEF TrialEnd, IndInv, TypeOK, bounds, Settled, Ends
<1>4. QED
  BY <1>3, AsideKeeps DEF TrialEnd

LEMMA CancelDesignedKeeps ==
  ASSUME IndInv, NEW c \in Callers, NEW t \in Trials, CancelDesigned(c, t)
  PROVE  IndInv'
<1>1. TypeOK' /\ RowsLast /\ LoopRowsLast /\ RowsOK'
  BY TrialLabel DEF CancelDesigned, IndInv, TypeOK, bounds, Settled, Ends
<1>2. QED
  BY <1>1, AsideKeeps DEF CancelDesigned

LEMMA CorrectTrialKeeps ==
  ASSUME IndInv, NEW c \in Callers, NEW t \in Trials, CorrectTrial(c, t)
  PROVE  IndInv'
<1>1. PICK s \in Ends : SetTrial(t, s)
  BY DEF CorrectTrial
<1>2. bundles[t] > 0
  BY DEF CorrectTrial, IndInv, RunIsSealed
<1>3. TypeOK' /\ RowsLast /\ LoopRowsLast /\ RowsOK'
  BY <1>1, <1>2, TrialLabel DEF CorrectTrial, IndInv, TypeOK, Settled, Ends
<1>4. QED
  BY <1>3, AsideKeeps DEF CorrectTrial

\* A sweep abandons a row and goes on, or meets one that has moved on and
\* returns.
LEMMA SweptMoves ==
  ASSUME IndInv, NEW c \in Callers, NEW x \in call[c].todo, Swept(c, x)
  PROVE  /\ Moves(c) /\ TakesTurn(c) /\ call' \in [Callers -> Calls]
         /\ call'[c] = Handler("close.sweep", call[c].on, call[c].how,
                               call[c].todo \ {x}, call[c].seen)
<1> DEFINE next == Handler("close.sweep", call[c].on, call[c].how,
                           call[c].todo \ {x}, call[c].seen)
<1>1. next \in Calls /\ next.at \notin LoopSteps
  BY DEF IndInv, TypeOK, Calls
<1>2. call' = [call EXCEPT ![c] = next] /\ call \in [Callers -> Calls]
  BY DEF Swept, IndInv, TypeOK
<1> HIDE DEF next
<1>3. /\ Moves(c) /\ TakesTurn(c) /\ call' \in [Callers -> Calls]
      /\ call'[c] = next
  BY <1>1, <1>2 DEF Moves, TakesTurn
<1>4. QED
  BY <1>3 DEF next

LEMMA SweptKeeps ==
  ASSUME IndInv, NEW c \in Callers, NEW x \in call[c].todo, Swept(c, x),
         At(c, "close.sweep"), DisposedOf(x)', RowsLast, LoopRowsLast,
         TypeOK', RowsOK'
  PROVE  IndInv'
<1>1. call[c] \in Calls /\ Knows(call[c])
  BY DEF IndInv, TypeOK
<1>2. \A y \in call[c].seen \ call[c].todo : DisposedOf(y)'
  BY <1>1 DEF At, RowsLast, Calls
<1>3. \A y \in call[c].seen \ (call[c].todo \ {x}) : DisposedOf(y)'
  BY <1>2
<1>4. /\ call'[c].at = "close.sweep"
      /\ call'[c].on = call[c].on /\ call'[c].how = call[c].how
      /\ call'[c].todo = call[c].todo \ {x} /\ call'[c].seen = call[c].seen
  <2>1. call'[c] = Handler("close.sweep", call[c].on, call[c].how,
                           call[c].todo \ {x}, call[c].seen)
    BY SweptMoves
  <2>2. QED
    BY <1>1, <2>1 DEF At
<1>5. SubjectExists(call[c])'
  BY <1>1, <1>4 DEF At, RowsLast
<1>6. RestIsDisposedOf(call[c])'
  BY <1>3, <1>4 DEF DisposedOf
<1>7. Knows(call[c])'
  BY <1>4, <1>5, <1>6
<1>8. QED
  BY <1>7, SweptMoves, WriteKeeps

LEMMA CloseSweepHypothesisKeeps ==
  ASSUME IndInv, NEW c \in Callers, CloseSweepHypothesis(c)
  PROVE  IndInv'
<1>1. PICK h \in call[c].todo \cap Hypotheses :
        IF hypothesis[h] \in Open THEN Abandoned(h) /\ Swept(c, h)
        ELSE Return(c) /\ UNCHANGED hypothesis
  BY DEF CloseSweepHypothesis
<1>2. CASE hypothesis[h] \in Open
  <2>1. call' \in [Callers -> Calls]
    BY <1>1, <1>2, SweptMoves
  <2>2. TypeOK' /\ RowsLast /\ LoopRowsLast /\ RowsOK'
    BY <1>1, <1>2, <2>1, VerdictsAssumption, HypothesisLabel
      DEF CloseSweepHypothesis, Abandoned
  <2>3. DisposedOf(h)'
    BY <1>1, <1>2, IdsAssumption
      DEF Abandoned, DisposedOf, Open, IndInv, TypeOK
  <2>4. QED
    BY <1>1, <1>2, <2>2, <2>3, SweptKeeps DEF CloseSweepHypothesis
<1>3. CASE hypothesis[h] \notin Open
  BY <1>1, <1>3, ReturnKeeps DEF CloseSweepHypothesis, records
<1>4. QED
  BY <1>2, <1>3

LEMMA CloseSweepTrialKeeps ==
  ASSUME IndInv, NEW c \in Callers, CloseSweepTrial(c)
  PROVE  IndInv'
<1>1. PICK t \in call[c].todo \cap Trials :
        IF trial[t] = "designed" THEN SetTrial(t, "abandoned") /\ Swept(c, t)
        ELSE Return(c) /\ UNCHANGED records
  BY DEF CloseSweepTrial
<1>2. CASE trial[t] = "designed"
  <2>1. call' \in [Callers -> Calls]
    BY <1>1, <1>2, SweptMoves
  <2>2. TypeOK' /\ RowsLast /\ LoopRowsLast /\ RowsOK'
    BY <1>1, <1>2, <2>1, TrialLabel
      DEF CloseSweepTrial, IndInv, TypeOK, bounds, Settled, Ends
  <2>3. DisposedOf(t)'
    BY <1>1, <1>2, IdsAssumption
      DEF SetTrial, DisposedOf, Settled, IndInv, TypeOK
  <2>4. QED
    BY <1>1, <1>2, <2>2, <2>3, SweptKeeps DEF CloseSweepTrial
<1>3. CASE trial[t] # "designed"
  BY <1>1, <1>3, ReturnKeeps DEF CloseSweepTrial
<1>4. QED
  BY <1>2, <1>3

\* Labels of programmes.  What the close has seen is what it covers.
LEMMA CloseCommitKeeps ==
  ASSUME IndInv, NEW c \in Callers, CloseCommit(c)
  PROVE  IndInv'
<1> DEFINE p == call[c].on
<1>1. /\ call[c] \in Calls /\ Knows(call[c]) /\ call[c].at = "close.sweep"
      /\ p \in Programmes /\ programme[p] # "none"
      /\ call[c].how \in Closed
  BY DEF CloseCommit, At, IndInv, TypeOK, Closed
<1>2. CASE Active(p)
  <2>1. /\ Moves(c) /\ TakesTurn(c)
        /\ call'[c] = Suspended("close.archive", p)
    BY <1>2, GotoMoves DEF CloseCommit, IndInv
  <2>2. call' \in [Callers -> Calls]
    BY <2>1 DEF Moves, IndInv, TypeOK
  <2>3. PICK q \in Programmes, s \in Closed :
          /\ q = p /\ programme[q] # "none" /\ SetProgramme(q, s)
          /\ covered' = [covered EXCEPT ![q] = call[c].seen]
    BY <1>1, <1>2 DEF CloseCommit
  <2>4. \A x \in call[c].seen : DisposedOf(x)
    BY <1>1 DEF CloseCommit
  <2>5. /\ covered' \in [Programmes -> SUBSET (Hypotheses \cup Trials)]
        /\ \A r \in Programmes \ {q} : covered'[r] = covered[r]
        /\ \A x \in covered'[q] : DisposedOf(x)
    BY <1>1, <2>3, <2>4 DEF IndInv, TypeOK, Calls
  <2>6. TypeOK' /\ RowsLast /\ LoopRowsLast /\ RowsOK'
    BY <2>2, <2>3, <2>5, ProgrammeLabel DEF CloseCommit
  <2>7. Knows(call[c])'
    BY <1>1, <2>1, <2>6 DEF RowsLast
  <2>8. QED
    BY <2>1, <2>6, <2>7, WriteKeeps
<1>3. CASE ~Active(p)
  BY <1>3, ReturnKeeps DEF CloseCommit
<1>4. QED
  BY <1>2, <1>3

LEMMA ArchivedKeeps ==
  ASSUME IndInv, NEW p \in Programmes, Archivable(p),
         SetProgramme(p, "archived"), call' \in [Callers -> Calls],
         UNCHANGED <<covered, bounds>>
  PROVE  TypeOK' /\ RowsLast /\ LoopRowsLast /\ RowsOK'
<1>1. programme[p] \in Closed
  BY DEF Archivable, Closed
<1>2. \A x \in covered'[p] : DisposedOf(x)
  BY <1>1 DEF IndInv, CoveredIsDisposedOf
<1>3. QED
  BY <1>1, <1>2, ProgrammeLabel DEF Closed, IndInv, TypeOK

LEMMA CloseArchiveKeeps ==
  ASSUME IndInv, NEW c \in Callers, CloseArchive(c)
  PROVE  IndInv'
<1>1. Moves(c) /\ TakesTurn(c) /\ Knows(call[c])'
  BY ReturnMoves DEF CloseArchive, IndInv
<1>2. CASE UNCHANGED records
  BY <1>2, ReturnKeeps DEF CloseArchive
<1>3. CASE Archivable(call[c].on) /\ SetProgramme(call[c].on, "archived")
  <2>1. call' \in [Callers -> Calls]
    BY <1>1 DEF Moves, IndInv, TypeOK
  <2>2. PICK p \in Programmes : Archivable(p) /\ SetProgramme(p, "archived")
    BY <1>3 DEF CloseArchive, At, IndInv
  <2>3. TypeOK' /\ RowsLast /\ LoopRowsLast /\ RowsOK'
    BY <2>1, <2>2, ArchivedKeeps DEF CloseArchive
  <2>4. QED
    BY <1>1, <2>3, WriteKeeps
<1>4. QED
  BY <1>2, <1>3 DEF CloseArchive

LEMMA ArchivePendingKeeps ==
  ASSUME IndInv, NEW c \in Callers, NEW p \in Programmes,
         ArchivePending(c, p)
  PROVE  IndInv'
<1>1. TypeOK' /\ RowsLast /\ LoopRowsLast /\ RowsOK'
  BY ArchivedKeeps DEF ArchivePending, IndInv, TypeOK
<1>2. QED
  BY <1>1, AsideKeeps DEF ArchivePending

\* A death: nobody knows anything, and what ran is failed.
LEMMA CrashKeeps == ASSUME IndInv, Crash PROVE IndInv'
<1>1. Idle \in Calls /\ Idle.at \notin LoopSteps
  BY DEF Idle, Calls
<1>2. \A c \in Callers : call'[c] = Idle
  BY DEF Crash
<1>3. TypeOK'
  BY <1>1 DEF Crash, IndInv, TypeOK, Settled, Ends
<1>4. OneOnTheLoop'
  BY <1>1, <1>2 DEF OneOnTheLoop
<1>5. \A c \in Callers : Knows(call[c])'
  BY <1>2, IdleKnows
<1>6. RunIsSealed' /\ UnderTestHasTrial'
  BY DEF Crash, IndInv, TypeOK, RunIsSealed, UnderTestHasTrial, TrialsFor
<1>7. CoveredIsDisposedOf'
  BY DEF Crash, IndInv, TypeOK, CoveredIsDisposedOf, DisposedOf, Settled, Ends
<1>8. OneActivePerGoal' /\ OneConclusion' /\ VerdictIsConcluded'
  BY DEF Crash, IndInv, OneActivePerGoal, Active, OneConclusion,
         VerdictIsConcluded
<1>9. QED
  BY <1>3, <1>4, <1>5, <1>6, <1>7, <1>8 DEF IndInv

-----------------------------------------------------------------------------
(***************************************************************************)
(* The invariant, and what follows.                                        *)
(***************************************************************************)
LEMMA InitIsInductive == ASSUME Init PROVE IndInv
<1>1. Idle \in Calls /\ Idle.at \notin LoopSteps
  BY DEF Idle, Calls
<1>2. << >> \in Seq(Verdicts) /\ Len(<< >>) = 0
  BY EmptySeq
<1>3. TypeOK
  BY <1>1, <1>2, LimitsAssumption DEF Init, TypeOK
<1>4. OneOnTheLoop
  BY <1>1 DEF Init, OneOnTheLoop
<1>5. \A c \in Callers : Knows(call[c])
  BY DEF Init, Idle
<1>6. OneActivePerGoal /\ UnderTestHasTrial /\ RunIsSealed
  BY DEF Init, OneActivePerGoal, Active, UnderTestHasTrial, RunIsSealed, Ends
<1>7. OneConclusion /\ VerdictIsConcluded
  BY <1>2, VerdictsAssumption DEF Init, OneConclusion, VerdictIsConcluded
<1>8. CoveredIsDisposedOf
  BY DEF Init, CoveredIsDisposedOf
<1>9. QED
  BY <1>3, <1>4, <1>5, <1>6, <1>7, <1>8 DEF IndInv

LEMMA ArrivalKeeps ==
  ASSUME IndInv, NEW c \in Callers, Arrival(c)
  PROVE  IndInv'
BY CreateBeginKeeps, FormulateBeginKeeps, BeliefBeginKeeps, CloseBeginKeeps,
   ArchivePendingKeeps, AbandonBeginKeeps, DesignBeginKeeps,
   ConcludeBeginKeeps, CaptureBeginKeeps, RunBeginKeeps, CancelDesignedKeeps,
   CorrectTrialKeeps, ObserveBeginKeeps
  DEF Arrival

LEMMA HandlerKeeps ==
  ASSUME IndInv, NEW c \in Callers, Step(c)
  PROVE  IndInv'
BY CreateInsertKeeps, FormulateInsertKeeps, AbandonWriteKeeps,
   DesignActiveKeeps, DesignBudgetKeeps, DesignInsertKeeps,
   DesignPromoteKeeps, CaptureActiveKeeps, FailuresKeep, CaptureLinkKeeps,
   RunActiveKeeps, RunStartKeeps, ObserveActiveKeeps, ObserveInsertKeeps,
   BeliefInsertKeeps, ConcludeEvidenceKeeps, ConcludeRecordedKeeps,
   ConcludeInsertKeeps, ConcludeLabelKeeps, CloseListTrialsKeeps,
   CloseListHypothesesKeeps, CloseSweepHypothesisKeeps, CloseSweepTrialKeeps,
   CloseCommitKeeps, CloseArchiveKeeps
  DEF Step

LEMMA StutterKeeps == ASSUME IndInv, UNCHANGED vars PROVE IndInv'
<1> USE DEF vars, records, bounds
<1>1. TypeOK'
  BY DEF IndInv, TypeOK
<1>2. RowsLast /\ LoopRowsLast
  BY DEF RowsLast, LoopRowsLast, TrialsFor, DisposedOf
<1>3. RowsOK'
  BY DEF IndInv, RowsOK, OneActivePerGoal, Active, OneConclusion,
         VerdictIsConcluded, UnderTestHasTrial, TrialsFor, RunIsSealed,
         CoveredIsDisposedOf, DisposedOf
<1>4. QED
  BY <1>1, <1>2, <1>3, AsideKeeps

LEMMA NextKeeps == ASSUME IndInv, [Next]_vars PROVE IndInv'
<1>1. ASSUME NEW c \in Callers, Arrival(c) \/ Step(c) PROVE IndInv'
  BY <1>1, ArrivalKeeps, HandlerKeeps
<1>2. ASSUME NEW t \in Trials, TrialEnd(t) PROVE IndInv'
  BY <1>2, TrialEndKeeps
<1>3. CASE Crash
  BY <1>3, CrashKeeps
<1>4. CASE UNCHANGED vars
  BY <1>4, StutterKeeps
<1>5. QED
  BY <1>1, <1>2, <1>3, <1>4 DEF Next

\* The invariant holds however calls overlap, and wherever the process dies.
THEOREM Invariance == Spec => []IndInv
<1>1. Init => IndInv
  BY InitIsInductive
<1>2. IndInv /\ [Next]_vars => IndInv'
  BY NextKeeps
<1>3. QED
  BY <1>1, <1>2, PTL DEF Spec

\* Every row and every handler is of its kind.
THEOREM TypeCorrect == Spec => []TypeOK
<1>1. IndInv => TypeOK
  BY DEF IndInv
<1>2. QED
  BY <1>1, Invariance, PTL

\* create_programme never lets two active programmes have one goal.
THEOREM GoalsAreExclusive == Spec => []OneActivePerGoal
<1>1. IndInv => OneActivePerGoal
  BY DEF IndInv
<1>2. QED
  BY <1>1, Invariance, PTL

\* conclude_hypothesis concludes a hypothesis once at most.
THEOREM ConcludedOnce == Spec => []OneConclusion
<1>1. IndInv => OneConclusion
  BY DEF IndInv
<1>2. QED
  BY <1>1, Invariance, PTL

\* A hypothesis is labelled with the verdict of its conclusion.
THEOREM LabelFollowsConclusion == Spec => []VerdictIsConcluded
<1>1. IndInv => VerdictIsConcluded
  BY DEF IndInv
<1>2. QED
  BY <1>1, Invariance, PTL

\* design_experiment promotes only what has a trial.
THEOREM TestsHaveTrials == Spec => []UnderTestHasTrial
<1>1. IndInv => UnderTestHasTrial
  BY DEF IndInv
<1>2. QED
  BY <1>1, Invariance, PTL

\* run_trial starts only what capture_bundle has sealed.
THEOREM SealedBeforeRun == Spec => []RunIsSealed
<1>1. IndInv => RunIsSealed
  BY DEF IndInv
<1>2. QED
  BY <1>1, Invariance, PTL

\* Of what close_programme listed nothing is open once the programme is closed.
THEOREM CloseIsThorough == Spec => []ClosedCoversListed
<1>1. IndInv => ClosedCoversListed
  BY DEF IndInv, CoveredIsDisposedOf, DisposedOf, ClosedCoversListed
<1>2. QED
  BY <1>1, Invariance, PTL

-----------------------------------------------------------------------------
(***************************************************************************)
(* The gates: from here on the rows and handlers are looked at again, and  *)
(* what a handler relies on no more than where it is said.                 *)
(***************************************************************************)
HIDE DEF AboutProgramme, AboutHypothesis, AboutTrial, Concluding, Closing, LoopSteps,
         Suspended, Handler, Knows, SubjectExists, GoalIsFree, TrialIsDesigned,
         StillSealed, StillUnconcluded, RestIsDisposedOf, Steps, Subjects

-----------------------------------------------------------------------------
(***************************************************************************)
(* Where a step can take a handler.                                        *)
(***************************************************************************)

\* Where a gate has been passed.
Passed == {"design.insert", "conclude.recorded", "conclude.insert"}

\* Handler c comes to a place where no gate has been passed, or none moves.
MovesAside(c) ==
  \A d \in Callers :
    call'[d] = call[d] \/ (d = c /\ call'[d].at \notin Passed)

USE DEF Suspended, Handler, Passed

LEMMA BeginMovesAside ==
  ASSUME TypeOK, NEW c \in Callers, NEW where \in Steps \ Passed, NEW x,
         Begin(c, where, x)
  PROVE  MovesAside(c)
BY DEF TypeOK, Begin, MovesAside

LEMMA GotoMovesAside ==
  ASSUME TypeOK, NEW c \in Callers, NEW where \in Steps \ Passed,
         Goto(c, where)
  PROVE  MovesAside(c)
BY DEF TypeOK, Goto, MovesAside

LEMMA ReturnMovesAside ==
  ASSUME TypeOK, NEW c \in Callers, Return(c)
  PROVE  MovesAside(c)
BY DEF TypeOK, Return, MovesAside, Idle

LEMMA CheckMovesAside ==
  ASSUME TypeOK, NEW c \in Callers, NEW where \in Steps \ Passed, NEW holds,
         Check(c, holds, where)
  PROVE  MovesAside(c)
BY GotoMovesAside, ReturnMovesAside DEF Check

LEMMA ArrivalMovesAside ==
  ASSUME TypeOK, NEW c \in Callers, Arrival(c)
  PROVE  MovesAside(c)
<1> USE DEF Steps, LoopSteps
<1>1. ASSUME NEW g \in Goals, CreateBegin(c, g) PROVE MovesAside(c)
  BY <1>1, BeginMovesAside DEF CreateBegin
<1>2. ASSUME NEW p \in Programmes, FormulateBegin(c, p) \/ BeliefBegin(c, p)
      PROVE  MovesAside(c)
  BY <1>2, BeginMovesAside DEF FormulateBegin, BeliefBegin
<1>3. ASSUME NEW p \in Programmes, NEW how, CloseBegin(c, p, how)
      PROVE  MovesAside(c)
  BY <1>3 DEF CloseBegin, TypeOK, MovesAside
<1>4. ASSUME NEW p \in Programmes, ArchivePending(c, p) PROVE MovesAside(c)
  BY <1>4 DEF ArchivePending, MovesAside
<1>5. ASSUME NEW h \in Hypotheses, AbandonBegin(c, h) \/ DesignBegin(c, h)
      PROVE  MovesAside(c)
  BY <1>5, BeginMovesAside DEF AbandonBegin, DesignBegin
<1>6. ASSUME NEW h \in Hypotheses, NEW v, ConcludeBegin(c, h, v)
      PROVE  MovesAside(c)
  BY <1>6 DEF ConcludeBegin, TypeOK, MovesAside
<1>7. ASSUME NEW t \in Trials,
             CaptureBegin(c, t) \/ RunBegin(c, t) \/ ObserveBegin(c, t)
      PROVE  MovesAside(c)
  BY <1>7, BeginMovesAside DEF CaptureBegin, RunBegin, ObserveBegin
<1>8. ASSUME NEW t \in Trials, CancelDesigned(c, t) \/ CorrectTrial(c, t)
      PROVE  MovesAside(c)
  BY <1>8 DEF CancelDesigned, CorrectTrial, MovesAside
<1>9. QED
  BY <1>1, <1>2, <1>3, <1>4, <1>5, <1>6, <1>7, <1>8 DEF Arrival

\* Only three steps pass a gate.
LEMMA StepMovesAside ==
  ASSUME TypeOK, NEW c \in Callers, Step(c)
  PROVE  \/ DesignBudget(c) \/ ConcludeEvidence(c) \/ ConcludeRecorded(c)
         \/ MovesAside(c)
<1> USE DEF Steps, LoopSteps
<1>1. ASSUME \/ CreateInsert(c) \/ FormulateInsert(c) \/ AbandonWrite(c)
             \/ DesignPromote(c) \/ CaptureFail(c) \/ CaptureLink(c)
             \/ RunStart(c) \/ ObserveInsert(c) \/ BeliefFail(c)
             \/ BeliefInsert(c) \/ ConcludeLabel(c) \/ CloseArchive(c)
      PROVE  MovesAside(c)
  BY <1>1, ReturnMovesAside
    DEF CreateInsert, FormulateInsert, AbandonWrite, DesignPromote,
        CaptureFail, CaptureLink, RunStart, ObserveInsert, BeliefFail,
        BeliefInsert, ConcludeLabel, CloseArchive
<1>2. ASSUME \/ DesignActive(c) \/ CaptureActive(c) \/ RunActive(c)
             \/ ObserveActive(c)
      PROVE  MovesAside(c)
  <2>1. CASE DesignActive(c)
    BY <2>1, CheckMovesAside DEF DesignActive
  <2>2. CASE CaptureActive(c)
    BY <2>2, CheckMovesAside DEF CaptureActive
  <2>3. CASE RunActive(c)
    BY <2>3, CheckMovesAside DEF RunActive
  <2>4. CASE ObserveActive(c)
    BY <2>4, CheckMovesAside DEF ObserveActive
  <2>5. QED
    BY <1>2, <2>1, <2>2, <2>3, <2>4
<1>3. CASE DesignInsert(c)
  BY <1>3, GotoMovesAside DEF DesignInsert
<1>4. CASE CloseCommit(c)
  BY <1>4, GotoMovesAside, ReturnMovesAside DEF CloseCommit
<1>5. CASE ConcludeInsert(c)
  BY <1>5 DEF ConcludeInsert, ConcludeGoto, TypeOK, MovesAside
<1>6. CASE CloseListTrials(c)
  BY <1>6, ReturnMovesAside DEF CloseListTrials, TypeOK, MovesAside
<1>7. CASE CloseListHypotheses(c)
  BY <1>7, ReturnMovesAside DEF CloseListHypotheses, TypeOK, MovesAside
<1>8. CASE CloseSweepHypothesis(c)
  BY <1>8, ReturnMovesAside DEF CloseSweepHypothesis, Swept, TypeOK, MovesAside
<1>9. CASE CloseSweepTrial(c)
  BY <1>9, ReturnMovesAside DEF CloseSweepTrial, Swept, TypeOK, MovesAside
<1>10. QED
  BY <1>1, <1>2, <1>3, <1>4, <1>5, <1>6, <1>7, <1>8, <1>9 DEF Step

-----------------------------------------------------------------------------
(***************************************************************************)
(* The trial budget.  A handler past the check is an insert to come; the   *)
(* trials a programme has and those to come together stay within bounds.   *)
(***************************************************************************)

\* The rows that say which trials a programme has.
parents == <<programmeOf, hypothesisOf>>

\* The handlers that are about to insert a trial of programme p.
Inserters(p) ==
  {c \in Callers : At(c, "design.insert") /\ programmeOf[call[c].on] = p}

Spent(p) ==
  /\ IsFiniteSet(TrialsOf(p))
  /\ Cardinality(TrialsOf(p)) + Cardinality(Inserters(p))
       <= Budget + Cardinality(Callers) - 1

\* A trial's hypothesis has a programme.
ParentsHaveParents ==
  \A t \in Trials :
    hypothesisOf[t] \in Hypotheses => programmeOf[hypothesisOf[t]] # Nobody

BudgetInv == ParentsHaveParents /\ \A p \in Programmes : Spent(p)

LEMMA CallersAreFinite ==
  /\ Cardinality(Callers) \in Nat \ {0}
  /\ \A S \in SUBSET Callers :
       /\ IsFiniteSet(S) /\ Cardinality(S) \in Nat
       /\ Cardinality(S) <= Cardinality(Callers)
<1>1. Cardinality(Callers) \in Nat /\ Cardinality(Callers) # 0
  BY CallersAssumption, FS_CardinalityType, FS_EmptySet
<1>2. QED
  BY <1>1, CallersAssumption, FS_Subset, FS_CardinalityType

\* No trial is added and nobody new is about to add one.
LEMMA SpendsNothing ==
  ASSUME NEW p \in Programmes, Spent(p), TrialsOf(p)' = TrialsOf(p),
         Inserters(p)' \subseteq Inserters(p)
  PROVE  Spent(p)'
<1>1. /\ IsFiniteSet(Inserters(p)) /\ Cardinality(Inserters(p)) \in Nat
      /\ Cardinality(Inserters(p)') \in Nat
  BY CallersAreFinite DEF Inserters
<1>2. Cardinality(Inserters(p)') <= Cardinality(Inserters(p))
  BY <1>1, FS_Subset
<1>3. Cardinality(TrialsOf(p)) \in Nat
  BY FS_CardinalityType DEF Spent
<1>4. QED
  BY <1>1, <1>2, <1>3, CallersAreFinite, LimitsAssumption DEF Spent

LEMMA AsideSpendsNothing ==
  ASSUME BudgetInv, UNCHANGED parents,
         \A d \in Callers :
           call'[d] = call[d] \/ call'[d].at # "design.insert"
  PROVE  BudgetInv'
<1> USE DEF parents
<1>1. ParentsHaveParents'
  BY DEF BudgetInv, ParentsHaveParents
<1>2. ASSUME NEW p \in Programmes PROVE Spent(p)'
  <2>1. TrialsOf(p)' = TrialsOf(p)
    BY DEF TrialsOf, HypothesesOf
  <2>2. Inserters(p)' \subseteq Inserters(p)
    BY DEF Inserters, At
  <2>3. QED
    BY <2>1, <2>2, SpendsNothing DEF BudgetInv
<1>3. QED
  BY <1>1, <1>2 DEF BudgetInv

LEMMA FormulateSpendsNothing ==
  ASSUME IndInv, BudgetInv, NEW c \in Callers, FormulateInsert(c)
  PROVE  BudgetInv'
<1>1. PICK h \in Hypotheses :
        /\ hypothesis[h] = "none"
        /\ programmeOf' = [programmeOf EXCEPT ![h] = call[c].on]
  BY DEF FormulateInsert
<1>2. /\ call[c].on \in Programmes /\ call[c].on # Nobody
      /\ programmeOf[h] = Nobody
      /\ programmeOf \in [Hypotheses -> Programmes \cup {Nobody}]
      /\ hypothesisOf' = hypothesisOf
  BY <1>1, IdsAssumption
    DEF FormulateInsert, IndInv, TypeOK, Knows, SubjectExists, At,
        AboutProgramme
<1>3. MovesAside(c)
  BY ReturnMovesAside DEF FormulateInsert, IndInv
<1>4. ParentsHaveParents'
  BY <1>1, <1>2 DEF BudgetInv, ParentsHaveParents
<1>5. ASSUME NEW p \in Programmes PROVE Spent(p)'
  <2>1. p # Nobody
    BY IdsAssumption
  <2>2. TrialsOf(p)' = TrialsOf(p)
    BY <1>1, <1>2, <2>1
      DEF TrialsOf, HypothesesOf, BudgetInv, ParentsHaveParents
  <2>3. Inserters(p)' \subseteq Inserters(p)
    <3>1. ASSUME NEW d \in Callers, call[d].at = "design.insert"
          PROVE  call[d].on \in Hypotheses /\ call[d].on # h
      BY <1>1, <3>1 DEF IndInv, Knows, SubjectExists, AboutHypothesis
    <3>2. QED
      BY <1>1, <1>2, <1>3, <3>1 DEF Inserters, At, MovesAside
  <2>4. QED
    BY <2>2, <2>3, SpendsNothing DEF BudgetInv
<1>6. QED
  BY <1>4, <1>5 DEF BudgetInv

\* A handler that passes the check found the budget unspent; the others that
\* passed it are fewer than all callers.
LEMMA CheckSpends ==
  ASSUME IndInv, BudgetInv, NEW c \in Callers, DesignBudget(c)
  PROVE  BudgetInv'
<1>1. CASE Return(c)
  <2>1. MovesAside(c)
    BY <1>1, ReturnMovesAside DEF IndInv
  <2>2. QED
    BY <2>1, AsideSpendsNothing
      DEF DesignBudget, MovesAside, records, parents
<1>2. CASE Goto(c, "design.insert") /\ WithinBudget(programmeOf[call[c].on])
  <2>1. ParentsHaveParents'
    BY DEF BudgetInv, ParentsHaveParents, DesignBudget, records
  <2>2. ASSUME NEW p \in Programmes PROVE Spent(p)'
    <3>1. TrialsOf(p)' = TrialsOf(p)
      BY DEF TrialsOf, HypothesesOf, DesignBudget, records
    <3>2. CASE p = programmeOf[call[c].on]
      <4>1. /\ Cardinality(TrialsOf(p)) \in Nat /\ IsFiniteSet(TrialsOf(p))
            /\ Cardinality(TrialsOf(p)) < Budget
        BY <1>2, <3>2, FS_CardinalityType DEF BudgetInv, Spent, WithinBudget
      <4>2. /\ Cardinality(Inserters(p)') \in Nat
            /\ Cardinality(Inserters(p)') <= Cardinality(Callers)
        BY CallersAreFinite DEF Inserters
      <4>3. QED
        BY <3>1, <4>1, <4>2, CallersAreFinite, LimitsAssumption DEF Spent
    <3>3. CASE p # programmeOf[call[c].on]
      <4>1. \A d \in Callers : call'[d].on = call[d].on
        BY <1>2 DEF Goto, IndInv, TypeOK
      <4>2. \A d \in Callers \ {c} : call'[d] = call[d]
        BY <1>2 DEF Goto, IndInv, TypeOK
      <4>3. Inserters(p)' \subseteq Inserters(p)
        BY <3>3, <4>1, <4>2 DEF Inserters, At, DesignBudget, records
      <4>4. QED
        BY <3>1, <4>3, SpendsNothing DEF BudgetInv
    <3>4. QED
      BY <3>2, <3>3
  <2>3. QED
    BY <2>1, <2>2 DEF BudgetInv
<1>3. QED
  BY <1>1, <1>2 DEF DesignBudget, Check

\* An insert to come becomes a trial.
LEMMA InsertSpends ==
  ASSUME IndInv, BudgetInv, NEW c \in Callers, DesignInsert(c)
  PROVE  BudgetInv'
<1>1. PICK t \in Trials :
        /\ trial[t] = "none"
        /\ hypothesisOf' = [hypothesisOf EXCEPT ![t] = call[c].on]
  BY DEF DesignInsert
<1> DEFINE h == call[c].on
<1>2. /\ h \in Hypotheses /\ h # Nobody /\ programmeOf[h] # Nobody
      /\ hypothesisOf[t] = Nobody /\ programmeOf' = programmeOf
      /\ hypothesisOf \in [Trials -> Hypotheses \cup {Nobody}]
  BY <1>1, IdsAssumption
    DEF DesignInsert, IndInv, TypeOK, Knows, SubjectExists, At,
        AboutHypothesis
<1>3. MovesAside(c) /\ call'[c].at # "design.insert"
  BY GotoMovesAside DEF DesignInsert, IndInv, TypeOK, Steps, Goto
<1>4. ParentsHaveParents'
  BY <1>1, <1>2 DEF BudgetInv, ParentsHaveParents
<1>5. ASSUME NEW p \in Programmes PROVE Spent(p)'
  <2>1. CASE p = programmeOf[h]
    <3>1. TrialsOf(p)' = TrialsOf(p) \cup {t} /\ t \notin TrialsOf(p)
      BY <1>1, <1>2, <2>1, IdsAssumption DEF TrialsOf, HypothesesOf
    <3>2. /\ IsFiniteSet(TrialsOf(p)) /\ Cardinality(TrialsOf(p)) \in Nat
          /\ IsFiniteSet(TrialsOf(p)')
          /\ Cardinality(TrialsOf(p)') = Cardinality(TrialsOf(p)) + 1
      BY <3>1, FS_AddElement, FS_CardinalityType DEF BudgetInv, Spent
    <3>3. c \in Inserters(p)
      BY <2>1 DEF Inserters, DesignInsert
    <3>4. Inserters(p)' \subseteq Inserters(p) \ {c}
      BY <1>2, <1>3 DEF Inserters, At, MovesAside
    <3>5. /\ IsFiniteSet(Inserters(p)) /\ Cardinality(Inserters(p)) \in Nat
          /\ Cardinality(Inserters(p)') \in Nat
      BY CallersAreFinite DEF Inserters
    <3>6. /\ IsFiniteSet(Inserters(p) \ {c})
          /\ Cardinality(Inserters(p) \ {c}) = Cardinality(Inserters(p)) - 1
      BY <3>3, <3>5, FS_RemoveElement
    <3>7. Cardinality(Inserters(p)') <= Cardinality(Inserters(p)) - 1
      BY <3>4, <3>6, FS_Subset
    <3>8. QED
      BY <3>2, <3>5, <3>7, CallersAreFinite, LimitsAssumption
        DEF BudgetInv, Spent
  <2>2. CASE p # programmeOf[h]
    <3>1. TrialsOf(p)' = TrialsOf(p)
      BY <1>1, <1>2, <2>2, IdsAssumption DEF TrialsOf, HypothesesOf
    <3>2. Inserters(p)' \subseteq Inserters(p)
      BY <1>2, <1>3 DEF Inserters, At, MovesAside
    <3>3. QED
      BY <3>1, <3>2, SpendsNothing DEF BudgetInv
  <2>3. QED
    BY <2>1, <2>2
<1>6. QED
  BY <1>4, <1>5 DEF BudgetInv

\* Rows are inserted by two steps only.
LEMMA ArrivalKeepsParents ==
  ASSUME NEW c \in Callers, Arrival(c)
  PROVE  UNCHANGED parents
BY DEF Arrival, CreateBegin, FormulateBegin, BeliefBegin, CloseBegin,
       ArchivePending, SetProgramme, AbandonBegin, DesignBegin, ConcludeBegin,
       CaptureBegin, RunBegin, CancelDesigned, CorrectTrial, SetTrial,
       ObserveBegin, records, parents

LEMMA StepKeepsParents ==
  ASSUME NEW c \in Callers, Step(c), ~FormulateInsert(c), ~DesignInsert(c)
  PROVE  UNCHANGED parents
<1> USE DEF records, parents, SetTrial, SetProgramme
<1>1. ASSUME \/ CreateInsert(c) \/ AbandonWrite(c) \/ DesignActive(c)
             \/ DesignBudget(c) \/ DesignPromote(c) \/ CaptureActive(c)
             \/ CaptureFail(c) \/ CaptureLink(c)
      PROVE  UNCHANGED parents
  BY <1>1 DEF CreateInsert, AbandonWrite, DesignActive, DesignBudget,
              DesignPromote, CaptureActive, CaptureFail, CaptureLink
<1>2. ASSUME \/ RunActive(c) \/ RunStart(c) \/ ObserveActive(c)
             \/ ObserveInsert(c) \/ BeliefFail(c) \/ BeliefInsert(c)
      PROVE  UNCHANGED parents
  BY <1>2 DEF RunActive, RunStart, ObserveActive, ObserveInsert, BeliefFail,
              BeliefInsert
<1>3. ASSUME \/ ConcludeEvidence(c) \/ ConcludeRecorded(c)
             \/ ConcludeInsert(c) \/ ConcludeLabel(c)
      PROVE  UNCHANGED parents
  BY <1>3 DEF ConcludeEvidence, ConcludeRecorded, ConcludeInsert,
              ConcludeLabel
<1>4. ASSUME \/ CloseListTrials(c) \/ CloseListHypotheses(c)
             \/ CloseSweepHypothesis(c) \/ CloseSweepTrial(c)
             \/ CloseCommit(c) \/ CloseArchive(c)
      PROVE  UNCHANGED parents
  BY <1>4 DEF CloseListTrials, CloseListHypotheses, CloseSweepHypothesis,
              CloseSweepTrial, CloseCommit, CloseArchive
<1>5. QED
  BY <1>1, <1>2, <1>3, <1>4 DEF Step

\* What a gate that is passed says does not concern the other gate.
LEMMA ConcludeIsNoDesign ==
  ASSUME TypeOK, NEW c \in Callers,
         ConcludeEvidence(c) \/ ConcludeRecorded(c)
  PROVE  \A d \in Callers :
           call'[d] = call[d] \/ call'[d].at # "design.insert"
BY DEF ConcludeEvidence, ConcludeRecorded, ConcludeGoto, Return, Idle, TypeOK

LEMMA BudgetStep == ASSUME IndInv, BudgetInv, [Next]_vars PROVE BudgetInv'
<1>1. ASSUME NEW c \in Callers, Arrival(c) PROVE BudgetInv'
  BY <1>1, ArrivalMovesAside, ArrivalKeepsParents, AsideSpendsNothing
    DEF IndInv, MovesAside
<1>2. ASSUME NEW c \in Callers, Step(c) PROVE BudgetInv'
  <2>1. CASE FormulateInsert(c)
    BY <2>1, FormulateSpendsNothing
  <2>2. CASE DesignInsert(c)
    BY <2>2, InsertSpends
  <2>3. CASE DesignBudget(c)
    BY <2>3, CheckSpends
  <2>4. CASE ~FormulateInsert(c) /\ ~DesignInsert(c) /\ ~DesignBudget(c)
    <3>1. UNCHANGED parents
      BY <1>2, <2>4, StepKeepsParents
    <3>2. \A d \in Callers :
            call'[d] = call[d] \/ call'[d].at # "design.insert"
      BY <1>2, <2>4, StepMovesAside, ConcludeIsNoDesign DEF IndInv, MovesAside
    <3>3. QED
      BY <3>1, <3>2, AsideSpendsNothing
  <2>5. QED
    BY <2>1, <2>2, <2>3, <2>4
<1>3. ASSUME NEW t \in Trials, TrialEnd(t) PROVE BudgetInv'
  BY <1>3, AsideSpendsNothing DEF TrialEnd, SetTrial, parents
<1>4. CASE Crash
  BY <1>4, AsideSpendsNothing DEF Crash, Idle, parents
<1>5. CASE UNCHANGED vars
  BY <1>5, AsideSpendsNothing DEF vars, records, parents
<1>6. QED
  BY <1>1, <1>2, <1>3, <1>4, <1>5 DEF Next

LEMMA BudgetInit == ASSUME Init PROVE BudgetInv
<1>1. ParentsHaveParents
  BY IdsAssumption DEF Init, ParentsHaveParents
<1>2. ASSUME NEW p \in Programmes PROVE Spent(p)
  <2>1. TrialsOf(p) = {} /\ Inserters(p) = {}
    BY IdsAssumption DEF Init, TrialsOf, HypothesesOf, Inserters, At, Idle
  <2>2. QED
    BY <2>1, FS_EmptySet, CallersAreFinite, LimitsAssumption DEF Spent
<1>3. QED
  BY <1>1, <1>2 DEF BudgetInv

\* design_experiment: parallel calls overshoot budget_max_trials by at most one
\* trial for every other call.
THEOREM Overshoot == Spec => []OvershootBounded
<1>1. Init => IndInv /\ BudgetInv
  BY InitIsInductive, BudgetInit
<1>2. IndInv /\ BudgetInv /\ [Next]_vars => (IndInv /\ BudgetInv)'
  BY NextKeeps, BudgetStep
<1>3. BudgetInv => OvershootBounded
  <2>1. ASSUME BudgetInv, NEW p \in Programmes
        PROVE  Cardinality(TrialsOf(p)) <= Budget + Cardinality(Callers) - 1
    <3>1. Cardinality(TrialsOf(p)) \in Nat
      BY <2>1, FS_CardinalityType DEF BudgetInv, Spent
    <3>2. Cardinality(Inserters(p)) \in Nat
      BY CallersAreFinite DEF Inserters
    <3>3. QED
      BY <2>1, <3>1, <3>2, CallersAreFinite, LimitsAssumption
        DEF BudgetInv, Spent
  <2>2. QED
    BY <2>1 DEF OvershootBounded
<1>4. QED
  BY <1>1, <1>2, <1>3, PTL DEF Spec

-----------------------------------------------------------------------------
(***************************************************************************)
(* The evidence for a conclusion.  Between its gates and the conclusion    *)
(* the handler keeps the event loop, where trials start, end and are       *)
(* observed; what threads do meanwhile does not touch the evidence, unless *)
(* they correct a trial's label.                                           *)
(***************************************************************************)
GatesHold(c) ==
  /\ At(c, "conclude.recorded") \/ At(c, "conclude.insert") =>
       Completed(call[c].on) # {}
  /\ At(c, "conclude.insert") =>
       /\ Completed(call[c].on) \subseteq observed
       /\ \A t \in TrialsFor(call[c].on) : trial[t] # "running"

AllGatesHold == \A c \in Callers : GatesHold(c)

\* What the gates asked for is not disturbed.
EvidenceRests ==
  /\ \A h \in Hypotheses : Completed(h)' = Completed(h)
  /\ \A t \in Trials : trial'[t] = "running" =>
       trial[t] = "running" /\ hypothesisOf'[t] = hypothesisOf[t]
  /\ observed \subseteq observed'

LEMMA GatesLast ==
  ASSUME IndInv, NEW d \in Callers, call'[d] = call[d], GatesHold(d),
         EvidenceRests
  PROVE  GatesHold(d)'
<1>1. CASE At(d, "conclude.recorded") \/ At(d, "conclude.insert")
  <2>1. PICK h \in Hypotheses : h = call[d].on /\ h = call'[d].on
    BY <1>1 DEF IndInv, Knows, SubjectExists, AboutHypothesis, At
  <2>2. Completed(call[d].on)' = Completed(call[d].on)
    BY <2>1 DEF EvidenceRests, Completed, TrialsFor
  <2>3. At(d, "conclude.insert") =>
          \A t \in TrialsFor(call[d].on)' : trial'[t] # "running"
    BY <2>1 DEF GatesHold, EvidenceRests, TrialsFor
  <2>4. QED
    BY <2>2, <2>3 DEF GatesHold, EvidenceRests, At
<1>2. CASE ~(At(d, "conclude.recorded") \/ At(d, "conclude.insert"))
  BY <1>2 DEF GatesHold, At
<1>3. QED
  BY <1>1, <1>2

LEMMA AsideKeepsGates ==
  ASSUME IndInv, AllGatesHold, EvidenceRests, NEW c \in Callers, MovesAside(c)
  PROVE  AllGatesHold'
<1>1. ASSUME NEW d \in Callers PROVE GatesHold(d)'
  <2>1. CASE call'[d] = call[d]
    BY <2>1, GatesLast DEF AllGatesHold
  <2>2. CASE call'[d].at \notin Passed
    BY <2>2 DEF GatesHold, At
  <2>3. QED
    BY <2>1, <2>2 DEF MovesAside
<1>2. QED
  BY <1>1 DEF AllGatesHold

\* A handler that passes a gate has just seen what the gate asks for.
LEMMA GatesAreChecked ==
  ASSUME IndInv, AllGatesHold, NEW c \in Callers,
         ConcludeEvidence(c) \/ ConcludeRecorded(c)
  PROVE  AllGatesHold'
<1>1. EvidenceRests
  BY DEF ConcludeEvidence, ConcludeRecorded, records, EvidenceRests,
         Completed, TrialsFor
<1>2. CASE Return(c)
  BY <1>1, <1>2, ReturnMovesAside, AsideKeepsGates DEF IndInv
<1>3. CASE ~Return(c)
  <2>1. \A d \in Callers \ {c} : call'[d] = call[d]
    BY <1>3 DEF ConcludeEvidence, ConcludeRecorded, ConcludeGoto, IndInv,
                TypeOK
  <2>2. ASSUME NEW d \in Callers \ {c} PROVE GatesHold(d)'
    BY <1>1, <2>1, GatesLast DEF AllGatesHold
  <2>3. GatesHold(c)'
    <3>1. call'[c].on = call[c].on
      BY <1>3 DEF ConcludeEvidence, ConcludeRecorded, ConcludeGoto, IndInv,
                  TypeOK
    <3>2. CASE ConcludeEvidence(c)
      BY <1>3, <3>1, <3>2
        DEF ConcludeEvidence, ConcludeGoto, IndInv, TypeOK, GatesHold, At,
            records, Completed, TrialsFor
    <3>3. CASE ConcludeRecorded(c)
      <4>1. /\ MayConclude(call[c].on) /\ Completed(call[c].on) # {}
        BY <1>3, <3>3 DEF ConcludeRecorded, AllGatesHold, GatesHold
      <4>2. QED
        BY <3>1, <3>3, <4>1 DEF ConcludeRecorded, MayConclude, GatesHold, At,
                                records, Completed, TrialsFor
    <3>4. QED
      BY <3>2, <3>3
  <2>4. QED
    BY <2>2, <2>3 DEF AllGatesHold
<1>4. QED
  BY <1>2, <1>3

\* While nobody is on the loop, nobody is between a gate and the conclusion.
LEMMA NobodyConcludes ==
  ASSUME LoopFree
  PROVE  \A c \in Callers : call[c].at \notin Passed \ {"design.insert"}
BY DEF LoopFree, LoopSteps

LEMMA ArrivalKeepsGates ==
  ASSUME IndInv, AllGatesHold, NEW c \in Callers, Arrival(c),
         MaxCorrections = 0
  PROVE  AllGatesHold'
<1>1. EvidenceRests
  <2>1. CASE UNCHANGED <<trial, hypothesisOf, observed>>
    BY <2>1 DEF EvidenceRests, Completed, TrialsFor
  <2>2. ASSUME NEW t \in Trials, CancelDesigned(c, t) PROVE EvidenceRests
    BY <2>2 DEF CancelDesigned, SetTrial, IndInv, TypeOK, EvidenceRests,
                Completed, TrialsFor
  <2>3. ASSUME NEW t \in Trials, CorrectTrial(c, t) PROVE FALSE
    BY <2>3 DEF CorrectTrial, IndInv, TypeOK
  <2>4. QED
    BY <2>1, <2>2, <2>3
      DEF Arrival, CreateBegin, FormulateBegin, BeliefBegin, CloseBegin,
          ArchivePending, SetProgramme, AbandonBegin, DesignBegin,
          ConcludeBegin, CaptureBegin, RunBegin, ObserveBegin, records
<1>2. QED
  BY <1>1, ArrivalMovesAside, AsideKeepsGates DEF IndInv

LEMMA StepLeavesEvidence ==
  ASSUME IndInv, NEW c \in Callers, Step(c), ~RunStart(c)
  PROVE  EvidenceRests
<1> USE DEF records, SetTrial, SetProgramme
<1>1. CASE UNCHANGED <<trial, hypothesisOf, observed>>
  BY <1>1 DEF EvidenceRests, Completed, TrialsFor
<1>2. CASE DesignInsert(c)
  BY <1>2 DEF DesignInsert, IndInv, TypeOK, EvidenceRests, Completed,
              TrialsFor
<1>3. CASE ObserveInsert(c)
  BY <1>3 DEF ObserveInsert, EvidenceRests, Completed, TrialsFor
<1>4. CASE CloseSweepTrial(c)
  <2>1. PICK t \in Trials :
          \/ trial[t] = "designed" /\ SetTrial(t, "abandoned")
          \/ UNCHANGED records
    BY <1>4 DEF CloseSweepTrial
  <2>2. QED
    BY <2>1 DEF IndInv, TypeOK, EvidenceRests, Completed, TrialsFor
<1>5. ASSUME \/ CreateInsert(c) \/ FormulateInsert(c) \/ AbandonWrite(c)
             \/ DesignActive(c) \/ DesignBudget(c) \/ DesignPromote(c)
             \/ CaptureActive(c) \/ CaptureFail(c) \/ CaptureLink(c)
      PROVE  UNCHANGED <<trial, hypothesisOf, observed>>
  BY <1>5 DEF CreateInsert, FormulateInsert, AbandonWrite, DesignActive,
              DesignBudget, DesignPromote, CaptureActive, CaptureFail,
              CaptureLink
<1>6. ASSUME \/ RunActive(c) \/ ObserveActive(c) \/ BeliefFail(c)
             \/ BeliefInsert(c) \/ ConcludeEvidence(c) \/ ConcludeRecorded(c)
             \/ ConcludeInsert(c) \/ ConcludeLabel(c)
      PROVE  UNCHANGED <<trial, hypothesisOf, observed>>
  BY <1>6 DEF RunActive, ObserveActive, BeliefFail, BeliefInsert,
              ConcludeEvidence, ConcludeRecorded, ConcludeInsert,
              ConcludeLabel
<1>7. ASSUME \/ CloseListTrials(c) \/ CloseListHypotheses(c)
             \/ CloseSweepHypothesis(c) \/ CloseCommit(c) \/ CloseArchive(c)
      PROVE  UNCHANGED <<trial, hypothesisOf, observed>>
  BY <1>7 DEF CloseListTrials, CloseListHypotheses, CloseSweepHypothesis,
              CloseCommit, CloseArchive
<1>8. QED
  BY <1>1, <1>2, <1>3, <1>4, <1>5, <1>6, <1>7 DEF Step

LEMMA StepKeepsGates ==
  ASSUME IndInv, AllGatesHold, NEW c \in Callers, Step(c)
  PROVE  AllGatesHold'
<1>1. CASE RunStart(c)
  <2>1. MovesAside(c)
    BY <1>1, ReturnMovesAside DEF RunStart, IndInv
  <2>2. call'[c].at \notin Passed
    BY <1>1 DEF RunStart, Return, Idle, IndInv, TypeOK
  <2>3. \A d \in Callers \ {c} : call[d].at \notin LoopSteps
    BY <1>1 DEF RunStart, At, IndInv, OneOnTheLoop, LoopSteps
  <2>4. QED
    BY <2>1, <2>2, <2>3 DEF MovesAside, AllGatesHold, GatesHold, At, LoopSteps
<1>2. CASE ConcludeEvidence(c) \/ ConcludeRecorded(c)
  BY <1>2, GatesAreChecked
<1>3. CASE DesignBudget(c)
  <2>1. \A d \in Callers :
          call'[d] = call[d] \/ call'[d].at \in {"design.insert", "idle"}
    BY <1>3 DEF DesignBudget, Check, Goto, Return, Idle, IndInv, TypeOK
  <2>2. EvidenceRests
    BY <1>3, StepLeavesEvidence
       DEF DesignBudget, records, EvidenceRests, Completed, TrialsFor
  <2>3. ASSUME NEW d \in Callers PROVE GatesHold(d)'
    <3>1. CASE call'[d] = call[d]
      BY <2>2, <3>1, GatesLast DEF AllGatesHold
    <3>2. CASE call'[d].at \in {"design.insert", "idle"}
      BY <3>2 DEF GatesHold, At
    <3>3. QED
      BY <2>1, <3>1, <3>2
  <2>4. QED
    BY <2>3 DEF AllGatesHold
<1>4. CASE ~RunStart(c) /\ MovesAside(c)
  BY <1>4, StepLeavesEvidence, AsideKeepsGates
<1>5. QED
  BY <1>1, <1>2, <1>3, <1>4, StepMovesAside DEF IndInv

LEMMA GatesStep ==
  ASSUME IndInv, AllGatesHold, [Next]_vars, MaxCorrections = 0
  PROVE  AllGatesHold'
<1>1. ASSUME NEW c \in Callers, Arrival(c) \/ Step(c) PROVE AllGatesHold'
  BY <1>1, ArrivalKeepsGates, StepKeepsGates
<1>2. ASSUME NEW t \in Trials, TrialEnd(t) PROVE AllGatesHold'
  BY <1>2, NobodyConcludes DEF TrialEnd, AllGatesHold, GatesHold, At
<1>3. CASE Crash
  BY <1>3 DEF Crash, Idle, AllGatesHold, GatesHold, At
<1>4. CASE UNCHANGED vars
  BY <1>4 DEF vars, records, AllGatesHold, GatesHold, At, Completed, TrialsFor
<1>5. QED
  BY <1>1, <1>2, <1>3, <1>4 DEF Next

\* Conclusions are written by one step only.
LEMMA OthersConcludeNothing ==
  ASSUME [Next]_vars, \A c \in Callers : ~ConcludeInsert(c)
  PROVE  UNCHANGED conclusions
<1> USE DEF records, SetTrial, SetProgramme
<1>1. ASSUME NEW c \in Callers, Arrival(c) PROVE UNCHANGED conclusions
  BY <1>1
    DEF Arrival, CreateBegin, FormulateBegin, BeliefBegin, CloseBegin,
        ArchivePending, AbandonBegin, DesignBegin, ConcludeBegin,
        CaptureBegin, RunBegin, CancelDesigned, CorrectTrial, ObserveBegin
<1>2. ASSUME NEW c \in Callers,
             \/ CreateInsert(c) \/ FormulateInsert(c) \/ AbandonWrite(c)
             \/ DesignActive(c) \/ DesignBudget(c) \/ DesignInsert(c)
             \/ DesignPromote(c) \/ CaptureActive(c) \/ CaptureFail(c)
             \/ CaptureLink(c) \/ RunActive(c) \/ RunStart(c)
      PROVE  UNCHANGED conclusions
  BY <1>2 DEF CreateInsert, FormulateInsert, AbandonWrite, DesignActive,
              DesignBudget, DesignInsert, DesignPromote, CaptureActive,
              CaptureFail, CaptureLink, RunActive, RunStart
<1>3. ASSUME NEW c \in Callers,
             \/ ObserveActive(c) \/ ObserveInsert(c) \/ BeliefFail(c)
             \/ BeliefInsert(c) \/ ConcludeEvidence(c)
             \/ ConcludeRecorded(c) \/ ConcludeLabel(c)
             \/ CloseListTrials(c) \/ CloseListHypotheses(c)
             \/ CloseSweepHypothesis(c) \/ CloseSweepTrial(c)
             \/ CloseCommit(c) \/ CloseArchive(c)
      PROVE  UNCHANGED conclusions
  BY <1>3 DEF ObserveActive, ObserveInsert, BeliefFail, BeliefInsert,
              ConcludeEvidence, ConcludeRecorded, ConcludeLabel,
              CloseListTrials, CloseListHypotheses, CloseSweepHypothesis,
              CloseSweepTrial, CloseCommit, CloseArchive
<1>4. ASSUME NEW c \in Callers, Step(c) PROVE UNCHANGED conclusions
  BY <1>2, <1>3, <1>4 DEF Step
<1>5. ASSUME NEW t \in Trials, TrialEnd(t) PROVE UNCHANGED conclusions
  BY <1>5 DEF TrialEnd
<1>6. CASE Crash
  BY <1>6 DEF Crash
<1>7. CASE UNCHANGED vars
  BY <1>7 DEF vars
<1>8. QED
  BY <1>1, <1>4, <1>5, <1>6, <1>7 DEF Next

LEMMA ConclusionStep ==
  ASSUME IndInv, AllGatesHold, [Next]_vars, NEW h \in Hypotheses,
         conclusions'[h] # conclusions[h]
  PROVE  /\ Completed(h) # {}
         /\ Completed(h) \subseteq observed
         /\ \A t \in TrialsFor(h) : trial[t] # "running"
<1>1. PICK c \in Callers : ConcludeInsert(c)
  BY OthersConcludeNothing
<1>2. call[c].on = h
  BY <1>1 DEF ConcludeInsert, IndInv, TypeOK
<1>3. QED
  BY <1>1, <1>2 DEF ConcludeInsert, AllGatesHold, GatesHold

\* conclude_hypothesis: while nobody corrects a trial's label, a conclusion is
\* written over a completed trial, with every completed one observed and none
\* running, however long ago the handler looked.
THEOREM Grounded ==
  ASSUME MaxCorrections = 0
  PROVE  Spec => ConclusionIsGrounded
<1>1. Init => IndInv /\ AllGatesHold
  BY InitIsInductive DEF Init, AllGatesHold, GatesHold, At, Idle
<1>2. IndInv /\ AllGatesHold /\ [Next]_vars => (IndInv /\ AllGatesHold)'
  BY NextKeeps, GatesStep
<1>3. IndInv /\ AllGatesHold /\ [Next]_vars =>
        [\A h \in Hypotheses : conclusions'[h] # conclusions[h] =>
           /\ Completed(h) # {}
           /\ Completed(h) \subseteq observed
           /\ \A t \in TrialsFor(h) : trial[t] # "running"]_vars
  BY ConclusionStep
<1>4. QED
  BY <1>1, <1>2, <1>3, PTL DEF Spec, ConclusionIsGrounded

-----------------------------------------------------------------------------
(***************************************************************************)
(* Calls that do not overlap.  With one caller the programme a handler is  *)
(* about stays active while it works, so that nothing is written to a      *)
(* closed one; and what a close has listed is still all there is when it   *)
(* commits, so that everything is disposed of.                             *)
(***************************************************************************)

\* What a handler has seen of its programme is still so.
AboutActive(s) ==
  /\ s.at \in AboutProgramme \ {"close.archive"} => Active(s.on)
  /\ s.at \in AboutHypothesis => Active(programmeOf[s.on])
  /\ s.at \in AboutTrial \ {"observe.active"} => Active(programmeOf[hypothesisOf[s.on]])

\* A close has seen all there is.
SeenAll(s) ==
  /\ s.at \in {"close.hypotheses", "close.sweep"} => TrialsOf(s.on) \subseteq s.seen
  /\ s.at = "close.sweep" => HypothesesOf(s.on) \subseteq s.seen

ParentsExist ==
  /\ \A h \in Hypotheses : programmeOf[h] # Nobody => programme[programmeOf[h]] # "none"
  /\ \A t \in Trials : hypothesisOf[t] # Nobody => programmeOf[hypothesisOf[t]] # Nobody

SerialInv ==
  /\ ParentsExist
  /\ ClosedHasNoOpenWork
  /\ \A c \in Callers : AboutActive(call[c]) /\ SeenAll(call[c])

\* Nothing of programme p changes, save which of the two ends a trial came to.
SameTrial(t) ==
  /\ hypothesisOf'[t] = hypothesisOf[t]
  /\ trial'[t] = trial[t] \/ (trial[t] \in Ends /\ trial'[t] \in Ends)
  /\ bundles'[t] = bundles[t]
  /\ t \in observed' <=> t \in observed

SameHypothesis(h) ==
  /\ programmeOf'[h] = programmeOf[h]
  /\ hypothesis'[h] = hypothesis[h]
  /\ conclusions'[h] = conclusions[h]

Untouched(p) ==
  /\ HypothesesOf(p)' = HypothesesOf(p)
  /\ TrialsOf(p)' = TrialsOf(p)
  /\ \A h \in HypothesesOf(p) : SameHypothesis(h)
  /\ \A t \in TrialsOf(p) : SameTrial(t)
  /\ p \in believed' <=> p \in believed
  /\ programme'[p] \in {programme[p], "archived"}

ClosedUntouched == \A p \in Programmes : programme[p] \in Closed => Untouched(p)

\* The rows below an open programme, or below none, may change.
OpenTrial(t) == hypothesisOf[t] = Nobody \/ Active(programmeOf[hypothesisOf[t]])
OpenHypothesis(h) == programmeOf[h] = Nobody \/ Active(programmeOf[h])

\* Whoever changes only those, and gives new rows an active parent, leaves the
\* closed programmes alone.
Considerate ==
  /\ \A h \in Hypotheses :
       \/ SameHypothesis(h)
       \/ OpenHypothesis(h) /\ programmeOf'[h] = programmeOf[h]
       \/ OpenHypothesis(h) /\ Active(programmeOf'[h])
  /\ \A t \in Trials :
       \/ SameTrial(t)
       \/ OpenTrial(t) /\ hypothesisOf'[t] = hypothesisOf[t]
       \/ OpenTrial(t) /\ hypothesisOf'[t] \in Hypotheses /\ Active(programmeOf[hypothesisOf'[t]])
  /\ \A p \in Programmes :
       programme[p] \in Closed => programme'[p] \in {programme[p], "archived"}
  /\ believed \subseteq believed' /\ \A p \in believed' \ believed : Active(p)

LEMMA ConsiderateLeaves ==
  ASSUME TypeOK, Considerate
  PROVE  ClosedUntouched
<1> SUFFICES ASSUME NEW p \in Programmes, programme[p] \in Closed
             PROVE  Untouched(p)
  BY DEF ClosedUntouched
<1>1. p # Nobody /\ ~Active(p) /\ p \in Programmes
  BY IdsAssumption DEF Active, Closed
<1>2. \A h \in HypothesesOf(p) : h \in Hypotheses /\ SameHypothesis(h)
  BY <1>1 DEF Considerate, OpenHypothesis, HypothesesOf
<1>3. HypothesesOf(p) \subseteq HypothesesOf(p)'
  BY <1>2 DEF HypothesesOf, SameHypothesis
<1>4. HypothesesOf(p)' \subseteq HypothesesOf(p)
  <2> SUFFICES ASSUME NEW h \in Hypotheses, programmeOf'[h] = p
               PROVE  programmeOf[h] = p
    BY DEF HypothesesOf
  <2> QED
    BY <1>1 DEF Considerate, SameHypothesis
<1>5. HypothesesOf(p)' = HypothesesOf(p)
  BY <1>3, <1>4
<1>6. \A t \in TrialsOf(p) : t \in Trials /\ SameTrial(t)
  <2> SUFFICES ASSUME NEW t \in Trials, hypothesisOf[t] \in HypothesesOf(p)
               PROVE  SameTrial(t)
    BY DEF TrialsOf
  <2>1. ~OpenTrial(t)
    BY <1>1, IdsAssumption DEF OpenTrial, HypothesesOf
  <2> QED
    BY <2>1 DEF Considerate
<1>7. TrialsOf(p) \subseteq TrialsOf(p)'
  BY <1>5, <1>6 DEF TrialsOf, SameTrial
<1>8. TrialsOf(p)' \subseteq TrialsOf(p)
  <2> SUFFICES ASSUME NEW t \in Trials, hypothesisOf'[t] \in HypothesesOf(p)
               PROVE  hypothesisOf[t] \in HypothesesOf(p)
    BY <1>5 DEF TrialsOf
  <2>1. ~Active(programmeOf[hypothesisOf'[t]])
    BY <1>1 DEF HypothesesOf
  <2> QED
    BY <2>1 DEF Considerate, SameTrial
<1>9. /\ p \in believed' <=> p \in believed
      /\ programme'[p] \in {programme[p], "archived"}
  BY <1>1 DEF Considerate
<1> QED
  BY <1>2, <1>5, <1>6, <1>7, <1>8, <1>9 DEF Untouched

\* Nothing is written.
LEMMA ReadsAreConsiderate ==
  ASSUME IndInv, SerialInv, UNCHANGED records
  PROVE  /\ Considerate /\ ParentsExist'
         /\ \A p \in Programmes : programme'[p] \in Closed => programme[p] \in Closed
BY DEF records, Considerate, SameHypothesis, SameTrial, SerialInv, ParentsExist

\* A programme that is closed with this step has no open work.
LEMMA SerialStep ==
  ASSUME IndInv, SerialInv, Considerate, ParentsExist',
         \A p \in Programmes : programme'[p] \in Closed => programme[p] \in Closed,
         \A c \in Callers : AboutActive(call[c])' /\ SeenAll(call[c])'
  PROVE  ClosedUntouched /\ SerialInv'
<1>1. ClosedUntouched
  BY ConsiderateLeaves DEF IndInv
<1>2. ClosedHasNoOpenWork'
  <2> SUFFICES ASSUME NEW p \in Programmes, programme'[p] \in Closed
               PROVE  /\ \A h \in HypothesesOf(p)' : hypothesis'[h] \notin Open
                      /\ \A t \in TrialsOf(p)' : trial'[t] \in Settled
    BY DEF ClosedHasNoOpenWork
  <2>1. Untouched(p)
    BY <1>1 DEF ClosedUntouched
  <2>2. /\ \A h \in HypothesesOf(p) : hypothesis[h] \notin Open
        /\ \A t \in TrialsOf(p) : trial[t] \in Settled
    BY DEF SerialInv, ClosedHasNoOpenWork
  <2> QED
    BY <2>1, <2>2 DEF Untouched, SameHypothesis, SameTrial, Settled
<1> QED
  BY <1>1, <1>2 DEF SerialInv

LEMMA IdleIsSerial ==
  ASSUME NEW c \in Callers, call'[c] = Idle
  PROVE  AboutActive(call[c])' /\ SeenAll(call[c])'
BY DEF Idle, AboutActive, SeenAll, AboutProgramme, AboutHypothesis, AboutTrial

\* The parents of a row that is there.
LEMMA Parents ==
  ASSUME IndInv, SerialInv
  PROVE  /\ \A h \in Hypotheses : hypothesis[h] # "none" =>
              /\ programmeOf[h] \in Programmes
              /\ programme[programmeOf[h]] \in {"active"} \cup Closed
              /\ hypothesis[h] \in Open => Active(programmeOf[h])
         /\ \A t \in Trials : trial[t] # "none" =>
              /\ hypothesisOf[t] \in Hypotheses
              /\ trial[t] \notin Settled =>
                   Active(programmeOf[hypothesisOf[t]])
<1>1. TypeOK /\ ParentsExist /\ ClosedHasNoOpenWork
  BY DEF IndInv, SerialInv
<1>2. ASSUME NEW h \in Hypotheses, hypothesis[h] # "none"
      PROVE  /\ programmeOf[h] \in Programmes
             /\ programme[programmeOf[h]] \in {"active"} \cup Closed
             /\ hypothesis[h] \in Open => Active(programmeOf[h])
  <2>1. programmeOf[h] \in Programmes
    BY <1>1, <1>2 DEF TypeOK
  <2>2. programme[programmeOf[h]] \in {"active"} \cup Closed
    BY <1>1, <2>1, IdsAssumption DEF TypeOK, ParentsExist
  <2>3. h \in HypothesesOf(programmeOf[h])
    BY DEF HypothesesOf
  <2> QED
    BY <1>1, <2>1, <2>2, <2>3 DEF ClosedHasNoOpenWork, Active
<1>3. ASSUME NEW t \in Trials, trial[t] # "none"
      PROVE  /\ hypothesisOf[t] \in Hypotheses
             /\ trial[t] \notin Settled =>
                  Active(programmeOf[hypothesisOf[t]])
  <2>1. hypothesisOf[t] \in Hypotheses
    BY <1>1, <1>3 DEF TypeOK
  <2>2. ASSUME trial[t] \notin Settled
        PROVE  Active(programmeOf[hypothesisOf[t]])
    <3>1. hypothesis[hypothesisOf[t]] # "none"
      BY <1>1, <1>3, <2>1 DEF TypeOK, ParentsExist
    <3>2. /\ programmeOf[hypothesisOf[t]] \in Programmes
          /\ programme[programmeOf[hypothesisOf[t]]] \in {"active"} \cup Closed
      BY <1>2, <2>1, <3>1
    <3>3. t \in TrialsOf(programmeOf[hypothesisOf[t]])
      BY <2>1 DEF TrialsOf, HypothesesOf
    <3> QED
      BY <1>1, <2>2, <3>2, <3>3 DEF ClosedHasNoOpenWork, Active
  <2> QED
    BY <2>1, <2>2
<1> QED
  BY <1>2, <1>3

\* The calls arrive.
LEMMA BeginSerial ==
  ASSUME IndInv, SerialInv, NEW c \in Callers, Callers = {c},
         UNCHANGED records, AboutActive(call'[c]), SeenAll(call'[c])
  PROVE  ClosedUntouched /\ SerialInv'
<1>1. AboutActive(call[c])' /\ SeenAll(call[c])'
  BY DEF records, AboutActive, SeenAll, Active, TrialsOf, HypothesesOf
<1> QED
  BY <1>1, ReadsAreConsiderate, SerialStep

\* A handler that answers leaves nothing behind.
LEMMA ReturnSerial ==
  ASSUME IndInv, SerialInv, NEW c \in Callers, Callers = {c}, call'[c] = Idle,
         Considerate, ParentsExist',
         \A p \in Programmes : programme'[p] \in Closed => programme[p] \in Closed
  PROVE  ClosedUntouched /\ SerialInv'
BY IdleIsSerial, SerialStep

USE DEF AboutProgramme, AboutHypothesis, AboutTrial, Concluding, Closing,
        LoopSteps

LEMMA ArrivalReadsSerial ==
  ASSUME IndInv, SerialInv, NEW c \in Callers, Callers = {c}
  PROVE  /\ \A g \in Goals : CreateBegin(c, g) => ClosedUntouched /\ SerialInv'
         /\ \A p \in Programmes : FormulateBegin(c, p) \/ BeliefBegin(c, p) =>
              ClosedUntouched /\ SerialInv'
         /\ \A p \in Programmes, how \in {"completed", "abandoned"} :
              CloseBegin(c, p, how) => ClosedUntouched /\ SerialInv'
         /\ \A h \in Hypotheses : AbandonBegin(c, h) \/ DesignBegin(c, h) =>
              ClosedUntouched /\ SerialInv'
         /\ \A h \in Hypotheses, v \in Verdicts : ConcludeBegin(c, h, v) => ClosedUntouched /\ SerialInv'
         /\ \A t \in Trials : CaptureBegin(c, t) \/ RunBegin(c, t) \/ ObserveBegin(c, t) =>
              ClosedUntouched /\ SerialInv'
<1>1. call \in [Callers -> Calls]
  BY DEF IndInv, TypeOK
<1>2. ASSUME NEW g \in Goals, CreateBegin(c, g) PROVE ClosedUntouched /\ SerialInv'
  BY <1>1, <1>2, BeginSerial DEF CreateBegin, Begin, AboutActive, SeenAll
<1>3. ASSUME NEW p \in Programmes, FormulateBegin(c, p) \/ BeliefBegin(c, p)
      PROVE  ClosedUntouched /\ SerialInv'
  BY <1>1, <1>3, BeginSerial DEF FormulateBegin, BeliefBegin, Begin, AboutActive, SeenAll
<1>4. ASSUME NEW p \in Programmes, NEW how, CloseBegin(c, p, how)
      PROVE  ClosedUntouched /\ SerialInv'
  BY <1>1, <1>4, BeginSerial DEF CloseBegin, AboutActive, SeenAll
<1>5. ASSUME NEW h \in Hypotheses, AbandonBegin(c, h) \/ DesignBegin(c, h)
      PROVE  ClosedUntouched /\ SerialInv'
  <2>1. Active(programmeOf[h])
    BY <1>5, Parents DEF AbandonBegin, DesignBegin, Open
  <2> QED
    BY <1>1, <1>5, <2>1, BeginSerial DEF AbandonBegin, DesignBegin, Begin, AboutActive, SeenAll
<1>6. ASSUME NEW h \in Hypotheses, NEW v, ConcludeBegin(c, h, v)
      PROVE  ClosedUntouched /\ SerialInv'
  BY <1>1, <1>6, BeginSerial DEF ConcludeBegin, AboutActive, SeenAll
<1>7. ASSUME NEW t \in Trials, CaptureBegin(c, t) \/ RunBegin(c, t)
      PROVE  ClosedUntouched /\ SerialInv'
  <2>1. Active(programmeOf[hypothesisOf[t]])
    BY <1>7, Parents DEF CaptureBegin, RunBegin, Settled, Ends
  <2> QED
    BY <1>1, <1>7, <2>1, BeginSerial DEF CaptureBegin, RunBegin, Begin, AboutActive, SeenAll
<1>8. ASSUME NEW t \in Trials, ObserveBegin(c, t)
      PROVE  ClosedUntouched /\ SerialInv'
  BY <1>1, <1>8, BeginSerial DEF ObserveBegin, Begin, AboutActive, SeenAll
<1> QED
  BY <1>2, <1>3, <1>4, <1>5, <1>6, <1>7, <1>8

\* The handlers look at the rows again.
LEMMA ChecksSerial ==
  ASSUME IndInv, SerialInv, NEW c \in Callers, Callers = {c},
         \/ DesignActive(c) \/ DesignBudget(c) \/ CaptureActive(c) \/ CaptureFail(c)
         \/ RunActive(c) \/ ObserveActive(c) \/ BeliefFail(c)
         \/ ConcludeEvidence(c) \/ ConcludeRecorded(c)
  PROVE  ClosedUntouched /\ SerialInv'
<1>1. call \in [Callers -> Calls] /\ AboutActive(call[c])
  BY DEF IndInv, TypeOK, SerialInv
<1>2. UNCHANGED records
  BY DEF DesignActive, DesignBudget, CaptureActive, CaptureFail, RunActive,
         ObserveActive, BeliefFail, ConcludeEvidence, ConcludeRecorded
<1>3. CASE Return(c)
  <2>1. call'[c] = Idle
    BY <1>1, <1>3 DEF Return
  <2> QED
    BY <1>2, <2>1, ReadsAreConsiderate, ReturnSerial
<1>4. CASE DesignActive(c)
  BY <1>1, <1>2, <1>3, <1>4, BeginSerial DEF DesignActive, Check, Goto, At, AboutActive, SeenAll
<1>5. CASE DesignBudget(c)
  BY <1>1, <1>2, <1>3, <1>5, BeginSerial DEF DesignBudget, Check, Goto, At, AboutActive, SeenAll
<1>6. CASE CaptureActive(c)
  BY <1>1, <1>2, <1>3, <1>6, BeginSerial DEF CaptureActive, Check, Goto, At, AboutActive, SeenAll
<1>7. CASE RunActive(c)
  BY <1>1, <1>2, <1>3, <1>7, BeginSerial DEF RunActive, Check, Goto, At, AboutActive, SeenAll
<1>8. CASE ObserveActive(c)
  BY <1>1, <1>2, <1>3, <1>8, BeginSerial DEF ObserveActive, Check, Goto, At, AboutActive, SeenAll
<1>9. CASE ConcludeEvidence(c)
  BY <1>1, <1>2, <1>3, <1>9, BeginSerial DEF ConcludeEvidence, ConcludeGoto, At, AboutActive, SeenAll
<1>10. CASE ConcludeRecorded(c)
  BY <1>1, <1>2, <1>3, <1>10, BeginSerial DEF ConcludeRecorded, ConcludeGoto, At, AboutActive, SeenAll
<1>11. CASE CaptureFail(c) \/ BeliefFail(c)
  BY <1>3, <1>11 DEF CaptureFail, BeliefFail
<1> QED
  BY <1>4, <1>5, <1>6, <1>7, <1>8, <1>9, <1>10, <1>11

\* The parents of all rows and the labels of the programmes stay; what is below
\* an open programme may change.
LEMMA LabelsSerial ==
  ASSUME IndInv, SerialInv, NEW c \in Callers, Callers = {c},
         UNCHANGED <<programme, programmeOf, hypothesisOf, believed>>,
         \A h \in Hypotheses : SameHypothesis(h) \/ OpenHypothesis(h),
         \A t \in Trials : SameTrial(t) \/ OpenTrial(t),
         \/ call'[c] = Idle
         \/ AboutActive(call'[c]) /\ SeenAll(call'[c])
  PROVE  ClosedUntouched /\ SerialInv'
<1>1. Considerate
  BY DEF Considerate
<1>2. ParentsExist'
  BY DEF SerialInv, ParentsExist
<1>3. AboutActive(call[c])' /\ SeenAll(call[c])'
  BY IdleIsSerial DEF AboutActive, SeenAll, Active, TrialsOf, HypothesesOf
<1> QED
  BY <1>1, <1>2, <1>3, SerialStep

\* A row is labelled, sealed, observed or concluded.
LEMMA WritesSerial ==
  ASSUME IndInv, SerialInv, NEW c \in Callers, Callers = {c},
         \/ AbandonWrite(c) \/ DesignPromote(c) \/ ConcludeInsert(c) \/ ConcludeLabel(c)
         \/ CaptureLink(c) \/ RunStart(c) \/ ObserveInsert(c)
  PROVE  ClosedUntouched /\ SerialInv'
<1>1. call \in [Callers -> Calls] /\ AboutActive(call[c]) /\ TypeOK
      /\ SubjectExists(call[c])
  BY DEF IndInv, TypeOK, SerialInv, Knows
<1>2. UNCHANGED <<programme, programmeOf, hypothesisOf, believed>>
  BY DEF AbandonWrite, DesignPromote, ConcludeInsert, ConcludeLabel, CaptureLink,
         RunStart, ObserveInsert, SetTrial, records
<1>3. CASE AbandonWrite(c) \/ DesignPromote(c) \/ ConcludeInsert(c) \/ ConcludeLabel(c)
  <2>1. call[c].on \in Hypotheses /\ OpenHypothesis(call[c].on)
    BY <1>1, <1>3 DEF AbandonWrite, DesignPromote, ConcludeInsert, ConcludeLabel,
       At, AboutActive, OpenHypothesis, SubjectExists
  <2>2. \A h \in Hypotheses : SameHypothesis(h) \/ OpenHypothesis(h)
    BY <1>1, <1>2, <1>3, <2>1
      DEF AbandonWrite, DesignPromote, ConcludeInsert, ConcludeLabel, Abandoned,
          SameHypothesis, TypeOK
  <2>3. \A t \in Trials : SameTrial(t)
    BY <1>2, <1>3 DEF AbandonWrite, DesignPromote, ConcludeInsert, ConcludeLabel, SameTrial
  <2>4. \/ call'[c] = Idle
        \/ AboutActive(call'[c]) /\ SeenAll(call'[c])
    <3>1. CASE AbandonWrite(c) \/ DesignPromote(c) \/ ConcludeLabel(c)
      BY <1>1, <3>1 DEF AbandonWrite, DesignPromote, ConcludeLabel, Return
    <3>2. CASE ConcludeInsert(c)
      <4>1. call'[c] = Handler("conclude.label", call[c].on, call[c].how, {}, {})
        BY <1>1, <3>2 DEF ConcludeInsert, ConcludeGoto
      <4>2. Active(programmeOf[call[c].on])
        BY <1>1, <3>2 DEF ConcludeInsert, At, AboutActive
      <4> QED
        BY <4>1, <4>2 DEF AboutActive, SeenAll
    <3> QED
      BY <1>3, <3>1, <3>2
  <2> QED
    BY <1>2, <2>2, <2>3, <2>4, LabelsSerial
<1>4. CASE CaptureLink(c) \/ RunStart(c) \/ ObserveInsert(c)
  <2>1. call[c].on \in Trials /\ OpenTrial(call[c].on)
    BY <1>1, <1>4 DEF CaptureLink, RunStart, ObserveInsert,
       At, AboutActive, OpenTrial, SubjectExists
  <2>2. \A t \in Trials : SameTrial(t) \/ OpenTrial(t)
    BY <1>1, <1>2, <1>4, <2>1
      DEF CaptureLink, RunStart, ObserveInsert, SetTrial, records, SameTrial, TypeOK
  <2>3. \A h \in Hypotheses : SameHypothesis(h)
    BY <1>2, <1>4 DEF CaptureLink, RunStart, ObserveInsert, SetTrial, records, SameHypothesis
  <2>4. call'[c] = Idle
    BY <1>1, <1>4 DEF CaptureLink, RunStart, ObserveInsert, Return
  <2> QED
    BY <1>2, <2>2, <2>3, <2>4, LabelsSerial
<1> QED
  BY <1>3, <1>4

LEMMA CreateInsertSerial ==
  ASSUME IndInv, SerialInv, NEW c \in Callers, Callers = {c}, CreateInsert(c)
  PROVE  ClosedUntouched /\ SerialInv'
<1>1. call'[c] = Idle /\ TypeOK
  BY DEF CreateInsert, Return, IndInv, TypeOK
<1>2. \A p \in Programmes :
        \/ programme'[p] = programme[p]
        \/ programme[p] = "none" /\ programme'[p] = "active"
  <2>1. PICK p \in Programmes :
          programme[p] = "none" /\ programme' = [programme EXCEPT ![p] = "active"]
    BY DEF CreateInsert
  <2> QED
    BY <1>1, <2>1 DEF TypeOK
<1>3. Considerate
  BY <1>2 DEF CreateInsert, Considerate, SameHypothesis, SameTrial, Closed
<1>4. ParentsExist'
  BY <1>1, <1>2 DEF CreateInsert, SerialInv, ParentsExist, TypeOK
<1> QED
  BY <1>1, <1>2, <1>3, <1>4, ReturnSerial DEF Closed

LEMMA FormulateInsertSerial ==
  ASSUME IndInv, SerialInv, NEW c \in Callers, Callers = {c}, FormulateInsert(c)
  PROVE  ClosedUntouched /\ SerialInv'
<1>1. call'[c] = Idle /\ TypeOK
  BY DEF FormulateInsert, Return, IndInv, TypeOK
<1>2. call[c].on \in Programmes /\ Active(call[c].on)
  BY DEF FormulateInsert, At, IndInv, Knows, SubjectExists, SerialInv, AboutActive
<1>3. PICK h \in Hypotheses :
        /\ hypothesis[h] = "none"
        /\ hypothesis' = [hypothesis EXCEPT ![h] = "proposed"]
        /\ programmeOf' = [programmeOf EXCEPT ![h] = call[c].on]
  BY DEF FormulateInsert
<1>4. programmeOf[h] = Nobody /\ programmeOf'[h] = call[c].on /\ programmeOf'[h] # Nobody
  BY <1>1, <1>2, <1>3, IdsAssumption DEF TypeOK
<1>5. \A g \in Hypotheses \ {h} : SameHypothesis(g)
  BY <1>1, <1>3 DEF FormulateInsert, SameHypothesis, TypeOK
<1>6. Considerate
  BY <1>2, <1>4, <1>5 DEF FormulateInsert, Considerate, OpenHypothesis, SameTrial
<1>7. ParentsExist'
  BY <1>2, <1>4, <1>5 DEF FormulateInsert, SerialInv, ParentsExist, SameHypothesis, Active,
     TypeOK
<1> QED
  BY <1>1, <1>6, <1>7, ReturnSerial DEF FormulateInsert

LEMMA DesignInsertSerial ==
  ASSUME IndInv, SerialInv, NEW c \in Callers, Callers = {c}, DesignInsert(c)
  PROVE  ClosedUntouched /\ SerialInv'
<1>1. TypeOK /\ call'[c] = Suspended("design.promote", call[c].on)
  BY DEF DesignInsert, Goto, IndInv, TypeOK
<1>2. call[c].on \in Hypotheses /\ Active(programmeOf[call[c].on])
      /\ hypothesis[call[c].on] # "none"
  BY DEF DesignInsert, At, IndInv, Knows, SubjectExists, SerialInv, AboutActive
<1>3. PICK t \in Trials :
        /\ trial[t] = "none"
        /\ trial' = [trial EXCEPT ![t] = "designed"]
        /\ hypothesisOf' = [hypothesisOf EXCEPT ![t] = call[c].on]
  BY DEF DesignInsert
<1>4. hypothesisOf[t] = Nobody /\ hypothesisOf'[t] = call[c].on
  BY <1>1, <1>2, <1>3 DEF TypeOK
<1>5. \A u \in Trials \ {t} : SameTrial(u)
  BY <1>1, <1>3 DEF DesignInsert, SameTrial, TypeOK
<1>6. Considerate
  BY <1>2, <1>4, <1>5 DEF DesignInsert, Considerate, OpenTrial, SameHypothesis
<1>7. programmeOf[call[c].on] # Nobody
  BY <1>1, <1>2 DEF TypeOK
<1>8. ParentsExist'
  BY <1>4, <1>5, <1>7 DEF DesignInsert, SerialInv, ParentsExist, SameTrial
<1>9. AboutActive(call[c])' /\ SeenAll(call[c])'
  BY <1>1, <1>2 DEF DesignInsert, AboutActive, SeenAll, Active
<1> QED
  BY <1>6, <1>8, <1>9, SerialStep DEF DesignInsert

LEMMA BeliefInsertSerial ==
  ASSUME IndInv, SerialInv, NEW c \in Callers, Callers = {c}, BeliefInsert(c)
  PROVE  ClosedUntouched /\ SerialInv'
<1>1. call'[c] = Idle
  BY DEF BeliefInsert, Return, IndInv, TypeOK
<1>2. Active(call[c].on)
  BY DEF BeliefInsert, At, SerialInv, AboutActive
<1>3. Considerate
  BY <1>2 DEF BeliefInsert, Considerate, SameHypothesis, SameTrial
<1>4. ParentsExist'
  BY DEF BeliefInsert, SerialInv, ParentsExist
<1> QED
  BY <1>1, <1>3, <1>4, ReturnSerial DEF BeliefInsert

\* Trials that nobody handles.
LEMMA TrialsSerial ==
  ASSUME IndInv, SerialInv, NEW c \in Callers, Callers = {c}, NEW t \in Trials,
         TrialEnd(t) \/ CancelDesigned(c, t) \/ CorrectTrial(c, t)
  PROVE  ClosedUntouched /\ SerialInv'
<1>1. TypeOK /\ UNCHANGED <<programme, programmeOf, hypothesisOf, believed, call>>
      /\ \A h \in Hypotheses : SameHypothesis(h)
  BY DEF TrialEnd, CancelDesigned, CorrectTrial, SetTrial, IndInv, SameHypothesis
<1>2. \A u \in Trials : SameTrial(u) \/ OpenTrial(u)
  <2>1. \A u \in Trials \ {t} : SameTrial(u)
    BY <1>1 DEF TrialEnd, CancelDesigned, CorrectTrial, SetTrial, SameTrial, TypeOK
  <2>2. CASE TrialEnd(t) \/ CancelDesigned(c, t)
    <3>1. OpenTrial(t)
      BY <2>2, Parents DEF TrialEnd, CancelDesigned, OpenTrial, Settled, Ends
    <3> QED
      BY <2>1, <3>1
  <2>3. CASE CorrectTrial(c, t)
    <3>1. SameTrial(t)
      BY <1>1, <2>3 DEF CorrectTrial, SetTrial, SameTrial, TypeOK
    <3> QED
      BY <2>1, <3>1
  <2> QED
    BY <2>2, <2>3
<1>3. AboutActive(call'[c]) /\ SeenAll(call'[c])
  BY <1>1 DEF SerialInv
<1> QED
  BY <1>1, <1>2, <1>3, LabelsSerial

LEMMA CrashSerial ==
  ASSUME IndInv, SerialInv, NEW c \in Callers, Callers = {c}, Crash
  PROVE  ClosedUntouched /\ SerialInv'
<1>1. call'[c] = Idle /\ UNCHANGED <<programme, programmeOf, hypothesisOf, believed>>
      /\ \A h \in Hypotheses : SameHypothesis(h)
  BY DEF Crash, SameHypothesis
<1>2. \A u \in Trials : SameTrial(u) \/ OpenTrial(u)
  BY Parents DEF Crash, SameTrial, OpenTrial, Settled, Ends
<1> QED
  BY <1>1, <1>2, LabelsSerial

-----------------------------------------------------------------------------
\* A close lists, sweeps and commits.
LEMMA CloseListsSerial ==
  ASSUME IndInv, SerialInv, NEW c \in Callers, Callers = {c},
         CloseListTrials(c) \/ CloseListHypotheses(c)
  PROVE  ClosedUntouched /\ SerialInv'
<1>1. call \in [Callers -> Calls] /\ AboutActive(call[c]) /\ SeenAll(call[c])
      /\ UNCHANGED records
  BY DEF IndInv, TypeOK, SerialInv, CloseListTrials, CloseListHypotheses
<1>2. CASE Return(c)
  <2>1. call'[c] = Idle
    BY <1>1, <1>2 DEF Return
  <2> QED
    BY <1>1, <2>1, ReadsAreConsiderate, ReturnSerial
<1>3. CASE CloseListTrials(c)
  BY <1>1, <1>2, <1>3, BeginSerial DEF CloseListTrials, At, AboutActive, SeenAll
<1>4. CASE CloseListHypotheses(c)
  BY <1>1, <1>2, <1>4, BeginSerial DEF CloseListHypotheses, At, AboutActive, SeenAll
<1> QED
  BY <1>3, <1>4

LEMMA CloseSweepsSerial ==
  ASSUME IndInv, SerialInv, NEW c \in Callers, Callers = {c},
         CloseSweepHypothesis(c) \/ CloseSweepTrial(c)
  PROVE  ClosedUntouched /\ SerialInv'
<1>1. TypeOK /\ call \in [Callers -> Calls] /\ AboutActive(call[c]) /\ SeenAll(call[c])
      /\ At(c, "close.sweep")
  BY DEF IndInv, TypeOK, SerialInv, CloseSweepHypothesis, CloseSweepTrial
<1>2. UNCHANGED <<programme, programmeOf, hypothesisOf, believed>>
  BY DEF CloseSweepHypothesis, CloseSweepTrial, SetTrial, records
<1>3. \A x : Swept(c, x) => AboutActive(call'[c]) /\ SeenAll(call'[c])
  BY <1>1 DEF Swept, At, AboutActive, SeenAll
<1>4. Return(c) => call'[c] = Idle
  BY <1>1 DEF Return
<1>5. CASE CloseSweepHypothesis(c)
  <2>1. PICK h \in Hypotheses :
          IF hypothesis[h] \in Open
          THEN Abandoned(h) /\ Swept(c, h)
          ELSE Return(c) /\ UNCHANGED hypothesis
    BY <1>5 DEF CloseSweepHypothesis
  <2>2. UNCHANGED <<trial, bundles, observed, conclusions>>
    BY <1>5 DEF CloseSweepHypothesis
  <2>3. \A g \in Hypotheses : SameHypothesis(g) \/ OpenHypothesis(g)
    BY <1>1, <1>2, <2>1, <2>2, Parents DEF Abandoned, SameHypothesis, OpenHypothesis, Open, TypeOK
  <2>4. \A t \in Trials : SameTrial(t)
    BY <1>2, <2>2 DEF SameTrial
  <2> QED
    BY <1>2, <1>3, <1>4, <2>1, <2>3, <2>4, LabelsSerial
<1>6. CASE CloseSweepTrial(c)
  <2>1. PICK t \in Trials :
          IF trial[t] = "designed"
          THEN SetTrial(t, "abandoned") /\ Swept(c, t)
          ELSE Return(c) /\ UNCHANGED records
    BY <1>6 DEF CloseSweepTrial
  <2>2. \A u \in Trials : SameTrial(u) \/ OpenTrial(u)
    BY <1>1, <1>2, <2>1, Parents
      DEF SetTrial, records, SameTrial, OpenTrial, Settled, Ends, TypeOK
  <2>3. \A h \in Hypotheses : SameHypothesis(h)
    BY <2>1 DEF SetTrial, records, SameHypothesis
  <2> QED
    BY <1>2, <1>3, <1>4, <2>1, <2>2, <2>3, LabelsSerial
<1> QED
  BY <1>5, <1>6

\* A programme is archived.
LEMMA ArchiveSerial ==
  ASSUME IndInv, SerialInv, NEW c \in Callers, Callers = {c},
         CloseArchive(c) \/ \E p \in Programmes : ArchivePending(c, p)
  PROVE  ClosedUntouched /\ SerialInv'
<1>1. TypeOK /\ call'[c] = Idle
  BY DEF CloseArchive, ArchivePending, Return, IndInv, TypeOK
<1>2. /\ UNCHANGED <<programmeOf, hypothesisOf, trial, bundles, observed, believed,
                     hypothesis, conclusions>>
      /\ \A p \in Programmes :
           \/ programme'[p] = programme[p]
           \/ programme[p] \in {"completed", "abandoned"} /\ programme'[p] = "archived"
  BY <1>1 DEF CloseArchive, ArchivePending, Archivable, SetProgramme, records, TypeOK
<1>3. Considerate
  BY <1>2 DEF Considerate, SameHypothesis, SameTrial, Closed
<1>4. ParentsExist'
  BY <1>1, <1>2 DEF SerialInv, ParentsExist, TypeOK
<1> QED
  BY <1>1, <1>2, <1>3, <1>4, ReturnSerial DEF Closed

LEMMA CloseCommitSerial ==
  ASSUME IndInv, SerialInv, NEW c \in Callers, Callers = {c}, CloseCommit(c)
  PROVE  ClosedUntouched /\ SerialInv'
<1> DEFINE p == call[c].on
<1>1. /\ TypeOK /\ At(c, "close.sweep") /\ call[c].todo = {}
      /\ p \in Programmes /\ Active(p)
      /\ TrialsOf(p) \subseteq call[c].seen /\ HypothesesOf(p) \subseteq call[c].seen
      /\ call[c].how \in {"completed", "abandoned"}
  BY DEF CloseCommit, At, IndInv, Knows, SubjectExists, SerialInv, AboutActive, SeenAll
<1>2. /\ SetProgramme(p, call[c].how)
      /\ call' = [call EXCEPT ![c] = Suspended("close.archive", p)]
  BY <1>1 DEF CloseCommit, Goto
<1>3. /\ programme'[p] = call[c].how
      /\ \A q \in Programmes \ {p} : programme'[q] = programme[q]
      /\ call'[c] = Suspended("close.archive", p)
  BY <1>1, <1>2 DEF SetProgramme, TypeOK
<1>4. UNCHANGED <<programmeOf, hypothesisOf, trial, bundles, observed, believed,
                  hypothesis, conclusions>>
  BY <1>2 DEF SetProgramme
<1>5. programme[p] \notin Closed
  BY <1>1 DEF Active, Closed
<1>6. Considerate
  BY <1>3, <1>4, <1>5 DEF Considerate, SameHypothesis, SameTrial
<1>7. ClosedUntouched
  BY <1>1, <1>6, ConsiderateLeaves
<1>8. ParentsExist'
  BY <1>1, <1>3, <1>4 DEF SerialInv, ParentsExist, TypeOK
<1>9. AboutActive(call[c])' /\ SeenAll(call[c])'
  BY <1>3 DEF AboutActive, SeenAll
<1>10. \A x \in call[c].seen : DisposedOf(x)
  BY <1>1 DEF At, IndInv, Knows, RestIsDisposedOf
<1>11. ClosedHasNoOpenWork'
  <2> SUFFICES ASSUME NEW q \in Programmes, programme'[q] \in Closed
               PROVE  /\ \A h \in HypothesesOf(q) : hypothesis[h] \notin Open
                      /\ \A t \in TrialsOf(q) : trial[t] \in Settled
    BY <1>4 DEF ClosedHasNoOpenWork, HypothesesOf, TrialsOf
  <2>1. CASE q = p
    BY <1>1, <1>10, <2>1 DEF DisposedOf, HypothesesOf, TrialsOf
  <2>2. CASE q # p
    BY <1>3, <2>2 DEF SerialInv, ClosedHasNoOpenWork
  <2> QED
    BY <2>1, <2>2
<1> QED
  BY <1>7, <1>8, <1>9, <1>11 DEF SerialInv

-----------------------------------------------------------------------------
LEMMA SerialNext ==
  ASSUME IndInv, SerialInv, NEW c \in Callers, Callers = {c}, [Next]_vars
  PROVE  ClosedUntouched /\ SerialInv'
<1>1. CASE Arrival(c)
  BY <1>1, ArrivalReadsSerial, TrialsSerial, ArchiveSerial DEF Arrival
<1>2. CASE Step(c)
  BY <1>2, ChecksSerial, WritesSerial, CreateInsertSerial, FormulateInsertSerial,
     DesignInsertSerial, BeliefInsertSerial, CloseListsSerial, CloseSweepsSerial,
     CloseCommitSerial, ArchiveSerial DEF Step
<1>3. ASSUME NEW t \in Trials, TrialEnd(t) PROVE ClosedUntouched /\ SerialInv'
  BY <1>3, TrialsSerial
<1>4. CASE Crash
  BY <1>4, CrashSerial
<1>5. CASE UNCHANGED vars
  <2>1. UNCHANGED records /\ call' = call
    BY <1>5 DEF vars
  <2> QED
    BY <2>1, BeginSerial DEF SerialInv
<1> QED
  BY <1>1, <1>2, <1>3, <1>4, <1>5 DEF Next

LEMMA SerialInit == ASSUME Init PROVE SerialInv
<1>1. \A c \in Callers : call[c] = Idle
  BY DEF Init
<1>2. \A c \in Callers : AboutActive(call[c]) /\ SeenAll(call[c])
  BY <1>1 DEF Idle, AboutActive, SeenAll
<1>3. ParentsExist /\ ClosedHasNoOpenWork
  BY DEF Init, ParentsExist, ClosedHasNoOpenWork, Closed
<1> QED
  BY <1>2, <1>3 DEF SerialInv

\* close_programme, with calls that do not overlap: a closed programme has no
\* work left open, also after calls that were refused half way or cut off.
THEOREM NothingIsLeftOpen ==
  ASSUME NEW one, Callers = {one}
  PROVE  Spec => []ClosedHasNoOpenWork
<1>1. Init => IndInv /\ SerialInv
  BY InitIsInductive, SerialInit
<1>2. IndInv /\ SerialInv /\ [Next]_vars => (IndInv /\ SerialInv)'
  BY NextKeeps, SerialNext
<1>3. SerialInv => ClosedHasNoOpenWork
  BY DEF SerialInv
<1> QED
  BY <1>1, <1>2, <1>3, PTL DEF Spec

LEMMA UntouchedContents ==
  ASSUME NEW p \in Programmes, Untouched(p)
  PROVE  Contents(p)' = Contents(p)
<1>1. HypothesesOf(p)' = HypothesesOf(p) /\ TrialsOf(p)' = TrialsOf(p)
  BY DEF Untouched
<1>2. [h \in HypothesesOf(p) |-> <<hypothesis[h], conclusions[h]>>]' =
        [h \in HypothesesOf(p) |-> <<hypothesis[h], conclusions[h]>>]
  BY <1>1 DEF Untouched, SameHypothesis
<1>3. \A t \in TrialsOf(p) :
        (IF trial'[t] \in Ends THEN "ended" ELSE trial'[t]) =
        (IF trial[t] \in Ends THEN "ended" ELSE trial[t])
  BY DEF Untouched, SameTrial
<1>4. [t \in TrialsOf(p) |-> <<IF trial[t] \in Ends THEN "ended" ELSE trial[t],
                               bundles[t], t \in observed>>]' =
        [t \in TrialsOf(p) |-> <<IF trial[t] \in Ends THEN "ended" ELSE trial[t],
                               bundles[t], t \in observed>>]
  BY <1>1, <1>3 DEF Untouched, SameTrial
<1>5. (p \in believed)' = (p \in believed)
  BY DEF Untouched
<1> QED
  BY <1>2, <1>4, <1>5 DEF Contents

\* "A closed programme is immutable", with calls that do not overlap: nothing of
\* it is added, started, sealed, observed, believed or concluded.
THEOREM ClosedStaysAsItIs ==
  ASSUME NEW one, Callers = {one}
  PROVE  Spec => ClosedIsImmutable
<1>1. Init => IndInv /\ SerialInv
  BY InitIsInductive, SerialInit
<1>2. IndInv /\ SerialInv /\ [Next]_vars => (IndInv /\ SerialInv)'
  BY NextKeeps, SerialNext
<1>3. IndInv /\ SerialInv /\ [Next]_vars =>
        [\A p \in Programmes : programme[p] \in Closed =>
           /\ Contents(p)' = Contents(p)
           /\ programme'[p] \in {programme[p], "archived"}]_vars
  <2> SUFFICES ASSUME IndInv, SerialInv, [Next]_vars, NEW p \in Programmes,
                      programme[p] \in Closed
               PROVE  /\ Contents(p)' = Contents(p)
                      /\ programme'[p] \in {programme[p], "archived"}
    OBVIOUS
  <2>1. Untouched(p)
    BY SerialNext DEF ClosedUntouched
  <2> QED
    BY <2>1, UntouchedContents DEF Untouched
<1> QED
  BY <1>1, <1>2, <1>3, PTL DEF Spec, ClosedIsImmutable

-----------------------------------------------------------------------------
(***************************************************************************)
(* Behind the write gate.  Every step there is a step of the loop or       *)
(* leaves its variables alone, so that the theorems about the loop hold of *)
(* the gated server as well.                                               *)
(***************************************************************************)
LEMMA GatedStep == ASSUME [GatedNext]_gatedVars PROVE [Next]_vars
<1>1. ASSUME NEW c \in Callers, GatedArrival(c) PROVE Arrival(c)
  BY <1>1 DEF GatedArrival, Arrival
<1>2. CASE Call
  BY <1>1, <1>2 DEF Call, Next
<1>3. ASSUME NEW t \in Trials, RunEnds(t) \/ Ages(t) PROVE [Next]_vars
  BY <1>3 DEF RunEnds, Ages, Next
<1>4. CASE SweepRead \/ SweepLogged \/ Acknowledge
  BY <1>4 DEF SweepRead, SweepLogged, Acknowledge
<1>5. CASE Restart
  BY <1>5 DEF Restart, Next
<1>6. CASE UNCHANGED gatedVars
  BY <1>6 DEF gatedVars
<1> QED
  BY <1>2, <1>3, <1>4, <1>5, <1>6 DEF GatedNext

\* check_no_open_violations and the monitor only restrict what the handlers do.
THEOREM GateIsTransparent == GatedSpec => Spec
<1>1. GatedInit => Init
  BY DEF GatedInit
<1>2. [GatedNext]_gatedVars => [Next]_vars
  BY GatedStep
<1> QED
  BY <1>1, <1>2, PTL DEF GatedSpec, Spec

AgedAreTrials == aged \subseteq Trials

LEMMA AgedStep == ASSUME AgedAreTrials, [GatedNext]_gatedVars PROVE AgedAreTrials'
BY DEF GatedNext, gatedVars, Call, RunEnds, Ages, SweepRead, SweepLogged,
       Acknowledge, Restart, AgedAreTrials

\* A tool that remedies an open finding passes the gate.
LEMMA RemedyPasses ==
  ASSUME NEW v \in Gate!Open(Now), NEW tool \in Remedies[v[1]]
  PROVE  Passes(tool)
BY DEF Passes, Gate!Refused

\* "A gate must never strand its own remedy": of whatever finding holds and gates
\* the writes, one remedy passes the gate, and its handler accepts the flagged
\* row as soon as what runs has ended.
THEOREM RemediesReachable == GatedSpec => []GateLeavesAnExit
<1>1. GatedInit => AgedAreTrials
  BY DEF GatedInit, AgedAreTrials
<1>2. AgedAreTrials /\ [GatedNext]_gatedVars => AgedAreTrials'
  BY AgedStep
<1>3. IndInv /\ AgedAreTrials => GateLeavesAnExit
  <2> SUFFICES ASSUME IndInv, AgedAreTrials, NEW v \in Gate!Open(Now) \cap Now
               PROVE  \/ \E tool \in Remedies[v[1]] : Passes(tool) /\ Accepts(tool, v[2])
                      \/ \E t \in Trials : trial[t] = "running"
    BY DEF GateLeavesAnExit
  <2>1. ASSUME NEW p \in BudgetExceeded, v = <<"budget_exceeded", p>>
        PROVE  \/ \E tool \in Remedies[v[1]] : Passes(tool) /\ Accepts(tool, v[2])
               \/ \E t \in Trials : trial[t] = "running"
    <3>1. "close_programme" \in Remedies[v[1]] /\ p \in Programmes
      BY <2>1 DEF Remedies, BudgetExceeded
    <3>2. Passes("close_programme")
      BY <3>1, RemedyPasses
    <3> QED
      BY <2>1, <3>1, <3>2 DEF Accepts, TrialsOf
  <2>2. ASSUME NEW t \in CompletedWithoutObservation,
               v = <<"completed_without_observation", t>>
        PROVE  \E tool \in Remedies[v[1]] : Passes(tool) /\ Accepts(tool, v[2])
    <3>1. "record_observation" \in Remedies[v[1]] /\ t \in Trials /\ trial[t] = "completed"
      BY <2>2 DEF Remedies, CompletedWithoutObservation, AgedAreTrials
    <3>2. Passes("record_observation")
      BY <3>1, RemedyPasses
    <3>3. bundles[t] > 0
      BY <3>1 DEF IndInv, RunIsSealed, Ends
    <3> QED
      BY <2>2, <3>1, <3>2, <3>3 DEF Accepts
  <2>3. StuckHypotheses = {}
    BY DEF StuckHypotheses, IndInv, UnderTestHasTrial
  <2> QED
    BY <2>1, <2>2, <2>3 DEF Now
<1> QED
  BY <1>1, <1>2, <1>3, GateIsTransparent, Invariance, PTL DEF GatedSpec
-----------------------------------------------------------------------------
(***************************************************************************)
(* The archiving of closed programmes, whatever archivings overlap or die. *)
(* Each of them relies on what it has read some steps ago: that the file   *)
(* it chose is registered, that the copy it verified is in that file, that *)
(* nobody else has entered the programme it has marked (Sound).  Files     *)
(* agree with the registry at every step (FilesAgree), the count of a file *)
(* lags its entries by those that are between their two commits (Counted), *)
(* and while a start is at work it is alone and knows all that is closed   *)
(* (Starting), so that none of its archivings fails.                       *)
(***************************************************************************)
Archivings == {"begin", "find", "register", "copy", "verify", "mark", "enter", "count", "full",
               "hash", "seal", "lock"}
Filing == Archivings \ {"begin", "find", "register"}
WorkSteps == Archivings \cup {"idle", "known", "list", "repair", "restore"}
Works == [step : WorkSteps, by : {"nobody", "close", "pending", "startup"},
          programme : Filed \cup {Nobody}, archive : Files \cup {Nobody},
          hash : (SUBSET Filed) \cup {Nobody},
          todo : SUBSET Filed, known : SUBSET Filed]

ArchiveTypes == Archiving!TypeOK /\ archiving \in [Archiving!Actors -> Works]

FilesAgree ==
  /\ \A a \in Files : contents[a] # {} => a \in Archiving!Range(registry)
  /\ \A p \in Filed : status[p] = "archived" => \E a \in Files : p \in contents[a]
  /\ \A a \in Files : Archiving!EnteredIn(a) \subseteq contents[a]
  /\ \A a \in Files : Archiving!Sealed(a) => a \in Archiving!Range(registry)
  /\ \A a \in readonly : Archiving!Sealed(a)
  /\ \A p \in Filed : status[p] \in {"active", "closed"} => p \in whole
  /\ Archiving!OneEntry

Sound(c) ==
  /\ Archiving!At(c, "idle") => archiving[c] = Archiving!Idle
  /\ archiving[c].step \in Archivings \cup {"restore"} => archiving[c].programme \in Filed
  /\ archiving[c].step \in Filing => archiving[c].archive \in Archiving!Range(registry)
  /\ Archiving!At(c, "register") => archiving[c].archive \in Files \ Archiving!Range(registry)
  /\ Archiving!At(c, "seal") => archiving[c].hash \in SUBSET Filed
  /\ Archiving!At(c, "lock") => Archiving!Sealed(archiving[c].archive)
  /\ archiving[c].known \subseteq Archiving!Entered
  /\ archiving[c].step \in {"mark", "enter"} => archiving[c].programme \in contents[archiving[c].archive]
  /\ Archiving!At(c, "enter") => archiving[c].programme \notin Archiving!Entered /\ status[archiving[c].programme] = "archived"
  /\ c \in Callers => archiving[c].by # "startup" /\ archiving[c].step \notin {"repair", "restore"}

Apart ==
  \A c, d \in Archiving!Actors :
    /\ Archiving!At(c, "register") /\ Archiving!At(d, "register") /\ c # d => archiving[c].archive # archiving[d].archive
    /\ Archiving!At(c, "enter") /\ Archiving!At(d, "enter") /\ c # d => archiving[c].programme # archiving[d].programme

Counting(a) == {c \in Archiving!Actors : Archiving!At(c, "count") /\ archiving[c].archive = a}
Counted ==
  outages = 0 => \A a \in Files : Len(entries[a]) = filed[a] + Cardinality(Counting(a))

Mended ==
  archiving[Startup].step \notin {"repair", "restore"} => \A p \in Archiving!Entered : status[p] = "archived"

ClosedNow == {p \in Filed : status[p] = "closed"}
InHand(c) == IF archiving[c].step \in {"begin", "find", "register", "copy", "verify", "mark"}
               THEN {archiving[c].programme} ELSE {}
Underway ==
  /\ archiving[Startup].by = "startup"
  /\ archiving[Startup].step \notin {"repair", "restore"} =>
       /\ ClosedNow = archiving[Startup].todo \cup InHand(Startup)
       /\ archiving[Startup].todo \cap InHand(Startup) = {}
  /\ Archiving!At(Startup, "copy") => archiving[Startup].archive \notin readonly
  /\ Archiving!At(Startup, "verify") => archiving[Startup].programme \in contents[archiving[Startup].archive]
Starting == ~Archiving!Serving => Underway /\ \A c \in Callers : archiving[c] = Archiving!Idle

ArchiveInv ==
  ArchiveTypes /\ FilesAgree /\ (\A c \in Archiving!Actors : Sound(c)) /\ Apart /\ Counted /\ Mended /\ Starting

-----------------------------------------------------------------------------
LEMMA Appended ==
  ASSUME NEW S, NEW s \in Seq(S), NEW x \in S
  PROVE  /\ Archiving!Range(Append(s, x)) = Archiving!Range(s) \cup {x}
         /\ Archiving!IsInjective(s) /\ x \notin Archiving!Range(s) => Archiving!IsInjective(Append(s, x))
<1>1. /\ Append(s, x) \in Seq(S) /\ Len(Append(s, x)) = Len(s) + 1
      /\ \A i \in 1..Len(s) : Append(s, x)[i] = s[i]
      /\ Append(s, x)[Len(s) + 1] = x
      /\ DOMAIN s = 1..Len(s) /\ DOMAIN Append(s, x) = 1..(Len(s) + 1)
  BY AppendProperties
<1>2. Len(s) \in Nat
  OBVIOUS
<1>3. Archiving!Range(Append(s, x)) = Archiving!Range(s) \cup {x}
  BY <1>1, <1>2 DEF Archiving!Range
<1>4. ASSUME Archiving!IsInjective(s), x \notin Archiving!Range(s) PROVE Archiving!IsInjective(Append(s, x))
  <2>1. ASSUME NEW i \in 1..(Len(s) + 1), NEW j \in 1..(Len(s) + 1), Append(s, x)[i] = Append(s, x)[j]
        PROVE  i = j
    BY <1>1, <1>2, <1>4, <2>1 DEF Archiving!Range, Archiving!IsInjective
  <2> QED BY <1>1, <2>1 DEF Archiving!IsInjective
<1> QED BY <1>3, <1>4

-----------------------------------------------------------------------------
Moved(c) ==
  /\ archiving' \in [Archiving!Actors -> Works]
  /\ \A d \in Archiving!Actors \ {c} : archiving'[d] = archiving[d]

KeepsWork(c) ==
  /\ archiving'[c].by = archiving[c].by /\ archiving'[c].todo = archiving[c].todo /\ archiving'[c].known = archiving[c].known

LEMMA WorkGoes ==
  ASSUME ArchiveTypes, NEW c \in Archiving!Actors, NEW s \in WorkSteps, Archiving!Goto(c, s)
  PROVE  /\ Moved(c) /\ KeepsWork(c)
         /\ archiving'[c].step = s /\ archiving'[c].programme = archiving[c].programme
         /\ archiving'[c].archive = archiving[c].archive /\ archiving'[c].hash = archiving[c].hash
BY DEF ArchiveTypes, Archiving!Goto, Moved, KeepsWork, Works

LEMMA ListingIsWork ==
  ASSUME ArchiveTypes, NEW c \in Archiving!Actors
  PROVE  /\ Archiving!Listing(c) \in Works /\ Archiving!Listing(c).step = "list" /\ Archiving!Listing(c).by = archiving[c].by
         /\ Archiving!Listing(c).todo = archiving[c].todo /\ Archiving!Listing(c).known = archiving[c].known
BY DEF ArchiveTypes, Archiving!Listing, Archiving!Work, Works, WorkSteps

LEMMA IdleIsWork == Archiving!Idle \in Works /\ Archiving!Idle.step = "idle" /\ Archiving!Idle.known = {}
BY DEF Archiving!Idle, Archiving!Work, Works, WorkSteps

LEMMA ListingMoves ==
  ASSUME ArchiveTypes, NEW c \in Archiving!Actors, archiving' = [archiving EXCEPT ![c] = Archiving!Listing(c)]
  PROVE  Moved(c) /\ KeepsWork(c) /\ archiving'[c].step = "list"
BY ListingIsWork DEF ArchiveTypes, Moved, KeepsWork

\* An actor that goes on with another archive.
LEMMA ChoosesMoves ==
  ASSUME ArchiveTypes, NEW c \in Archiving!Actors, NEW s \in WorkSteps, NEW a \in Files,
         archiving' = [archiving EXCEPT ![c].step = s, ![c].archive = a]
  PROVE  /\ Moved(c) /\ KeepsWork(c) /\ archiving'[c].step = s /\ archiving'[c].programme = archiving[c].programme
         /\ archiving'[c].archive = a
<1> DEFINE w == [archiving[c] EXCEPT !.step = s, !.archive = a]
<1>1. archiving[c] \in Works
  BY DEF ArchiveTypes
<1>2. /\ w \in Works /\ w.step = s /\ w.archive = a /\ w.programme = archiving[c].programme
      /\ w.by = archiving[c].by /\ w.todo = archiving[c].todo /\ w.known = archiving[c].known
  BY <1>1 DEF Works
<1>3. archiving' = [archiving EXCEPT ![c] = w]
  OBVIOUS
<1> HIDE DEF w
<1>4. Moved(c) /\ archiving'[c] = w
  BY <1>2, <1>3 DEF ArchiveTypes, Moved
<1> QED BY <1>2, <1>4 DEF KeepsWork

LEMMA ChoiceSteps == {"copy", "register"} \subseteq WorkSteps
BY DEF WorkSteps, Archivings

LEMMA IdleMoves ==
  ASSUME ArchiveTypes, NEW c \in Archiving!Actors, archiving' = [archiving EXCEPT ![c] = Archiving!Idle]
  PROVE  Moved(c) /\ archiving'[c] = Archiving!Idle
BY IdleIsWork DEF ArchiveTypes, Moved

LEMMA CallersAreActors == Callers \subseteq Archiving!Actors /\ Startup \in Archiving!Actors /\ Startup \notin Callers
BY ArchivingAssumption DEF Archiving!NamesAssumption, Archiving!Actors

\* What a row-changing step may do to rows the others rely on.
Grown ==
  /\ Archiving!Range(registry) \subseteq Archiving!Range(registry)' /\ Archiving!Entered \subseteq Archiving!Entered'
  /\ \A a \in Files : contents[a] \subseteq contents'[a] /\ (Archiving!Sealed(a) => Archiving!Sealed(a)')
  /\ \A p \in Filed : status[p] = "archived" => status'[p] = "archived"

LEMMA ApartStays ==
  ASSUME Apart, NEW c \in Archiving!Actors, Moved(c), archiving'[c].step \notin {"register", "enter"}
  PROVE  Apart'
BY DEF Apart, Moved, Archiving!At

LEMMA CountedStays ==
  ASSUME Counted, NEW c \in Archiving!Actors, Moved(c), UNCHANGED <<entries, filed, outages>>,
         archiving[c].step # "count", archiving'[c].step # "count"
  PROVE  Counted'
<1>1. \A a \in Files : Counting(a)' = Counting(a)
  BY DEF Counting, Archiving!At, Moved
<1> QED BY <1>1 DEF Counted

\* An actor that is at work takes a step.
LEMMA Resumes ==
  ASSUME ArchiveInv, NEW c \in Archiving!Actors, archiving[c] # Archiving!Idle, Moved(c), Grown,
         ArchiveTypes', FilesAgree', Sound(c)', Apart', Counted',
         \A d \in Archiving!Actors \ {c} : Archiving!At(d, "register") => archiving[d].archive \notin Archiving!Range(registry)',
         \A d \in Archiving!Actors \ {c} : Archiving!At(d, "enter") => archiving[d].programme \notin Archiving!Entered',
         \A p \in Archiving!Entered' \ Archiving!Entered : status'[p] = "archived",
         c = Startup => archiving[c].step \notin {"repair", "restore"} /\ (Underway \/ Archiving!Serving)'
  PROVE  ArchiveInv'
<1> USE DEF ArchiveInv
<1>1. \A d \in Archiving!Actors : Sound(d)'
  <2> SUFFICES ASSUME NEW d \in Archiving!Actors \ {c} PROVE Sound(d)'
    OBVIOUS
  <2>1. archiving'[d] = archiving[d] /\ Sound(d)
    BY DEF Moved
  <2>2. archiving[d] \in Works
    BY DEF ArchiveTypes
  <2>3. archiving[d].step \in {"mark", "enter"} => archiving[d].archive \in Files
    BY <2>1 DEF Sound, Filing, Archivings, ArchiveTypes, Archiving!TypeOK, Archiving!Range
  <2>4. Archiving!At(d, "lock") => archiving[d].archive \in Files
    BY <2>1 DEF Sound, Filing, Archivings, ArchiveTypes, Archiving!TypeOK, Archiving!Range, Archiving!At
  <2> QED BY <2>1, <2>2, <2>3, <2>4 DEF Sound, Grown, Archiving!At, Archivings
<1>2. Mended'
  <2>1. archiving[Startup].step \notin {"repair", "restore"}
    BY CallersAreActors, IdleIsWork DEF Starting, Archiving!Serving, Archiving!Actors
  <2>2. Archiving!Entered \subseteq Filed
    BY DEF Archiving!Entered, ArchiveTypes, Archiving!TypeOK, Archiving!EnteredIn, Archiving!Range
  <2> QED BY <2>1, <2>2 DEF Mended, Grown
<1>3. Starting'
  <2>1. CASE c \in Callers
    BY <2>1, CallersAreActors DEF Moved, Archiving!Serving, Starting
  <2>2. CASE c = Startup
    <3>1. \A d \in Callers : archiving'[d] = Archiving!Idle
      BY <2>2, CallersAreActors DEF Moved, Starting, Archiving!Serving
    <3> QED BY <2>2, <3>1 DEF Starting
  <2> QED BY <2>1, <2>2 DEF Archiving!Actors
<1> QED BY <1>1, <1>2, <1>3

\* ... that changes no row.
LEMMA OnlyMoves ==
  ASSUME ArchiveInv, NEW c \in Archiving!Actors, archiving[c] # Archiving!Idle, Moved(c), UNCHANGED <<Archiving!live, Archiving!ledger, Archiving!files, outages>>,
         Sound(c)', {archiving[c].step, archiving'[c].step} \cap {"count"} = {},
         archiving'[c].step \notin {"register", "enter"},
         c = Startup => archiving[c].step \notin {"repair", "restore"} /\ (Underway \/ Archiving!Serving)'
  PROVE  ArchiveInv'
<1> USE DEF Archiving!live, Archiving!ledger, Archiving!files
<1>1. ArchiveTypes'
  BY DEF ArchiveInv, ArchiveTypes, Archiving!TypeOK, Moved
<1>2. FilesAgree'
  BY DEF ArchiveInv, FilesAgree, Archiving!EnteredIn, Archiving!Sealed, Archiving!OneEntry
<1>3. Grown /\ Archiving!Entered' = Archiving!Entered /\ Archiving!Range(registry)' = Archiving!Range(registry)
  BY DEF Grown, Archiving!Entered, Archiving!EnteredIn, Archiving!Sealed
<1>4. Apart' /\ Counted'
  BY ApartStays, CountedStays DEF ArchiveInv
<1>5. \A d \in Archiving!Actors : Sound(d)
  BY DEF ArchiveInv
<1> QED BY <1>1, <1>2, <1>3, <1>4, <1>5, Resumes DEF Sound

-----------------------------------------------------------------------------
LEMMA WorkIsWork ==
  ASSUME NEW s \in WorkSteps, NEW by \in {"nobody", "close", "pending", "startup"},
         NEW p \in Filed \cup {Nobody}, NEW todo \in SUBSET Filed,
         NEW known \in SUBSET Filed
  PROVE  /\ Archiving!Work(s, by, p, todo, known) \in Works
         /\ Archiving!Work(s, by, p, todo, known).step = s /\ Archiving!Work(s, by, p, todo, known).by = by
         /\ Archiving!Work(s, by, p, todo, known).programme = p
         /\ Archiving!Work(s, by, p, todo, known).todo = todo /\ Archiving!Work(s, by, p, todo, known).known = known
BY DEF Archiving!Work, Works

LEMMA WorkMoves ==
  ASSUME ArchiveTypes, NEW c \in Archiving!Actors, NEW w \in Works, archiving' = [archiving EXCEPT ![c] = w]
  PROVE  Moved(c) /\ archiving'[c] = w
BY DEF ArchiveTypes, Moved

LEMMA EnteredAreProgrammes == Archiving!TypeOK => Archiving!Entered \subseteq Filed
<1> SUFFICES ASSUME Archiving!TypeOK, NEW a \in Files, NEW p \in Archiving!EnteredIn(a) PROVE p \in Filed
  BY DEF Archiving!Entered
<1> QED BY DEF Archiving!TypeOK, Archiving!EnteredIn, Archiving!Range

\* The fields of what an actor is at, and that it is at work.
LEMMA WorkFields ==
  ASSUME ArchiveInv, NEW c \in Archiving!Actors
  PROVE  /\ archiving[c].by \in {"nobody", "close", "pending", "startup"} /\ archiving[c].step \in WorkSteps
         /\ archiving[c].todo \in SUBSET Filed /\ archiving[c].known \in SUBSET Filed
         /\ archiving[c].step # "idle" => archiving[c] # Archiving!Idle
         /\ Sound(c) /\ (c = Startup /\ archiving[c] # Archiving!Idle => Underway)
         /\ archiving[c].step \in Filing => archiving[c].archive \in Files
<1>1. archiving[c] \in Works
  BY DEF ArchiveInv, ArchiveTypes
<1>2. Sound(c) /\ (c = Startup /\ archiving[c] # Archiving!Idle => Underway)
  BY DEF ArchiveInv, Starting, Archiving!Serving
<1>3. archiving[c].step \in Filing => archiving[c].archive \in Files
  BY <1>2 DEF Sound, ArchiveInv, ArchiveTypes, Archiving!TypeOK, Archiving!Range
<1> QED BY <1>1, <1>2, <1>3, IdleIsWork DEF Works

LEMMA PendingScanStep ==
  ASSUME ArchiveInv, NEW c \in Callers, Archiving!PendingScan(c)
  PROVE  ArchiveInv'
<1> USE CallersAreActors
<1>1. /\ Moved(c) /\ archiving'[c].step = "known" /\ archiving'[c].by = "pending" /\ archiving'[c].known = {}
  <2>1. /\ ClosedNow \in SUBSET Filed /\ "known" \in WorkSteps
        /\ archiving' = [archiving EXCEPT ![c] = Archiving!Work("known", "pending", Nobody, ClosedNow, {})]
    BY DEF ClosedNow, WorkSteps, Archiving!PendingScan
  <2>2. Archiving!Work("known", "pending", Nobody, ClosedNow, {}) \in Works
    BY <2>1, WorkIsWork
  <2>3. Moved(c) /\ archiving'[c] = Archiving!Work("known", "pending", Nobody, ClosedNow, {})
    BY <2>1, <2>2, WorkMoves DEF ArchiveInv
  <2> QED BY <2>3 DEF Archiving!Work
<1>2. /\ archiving[c].step = "idle" /\ Archiving!Serving
  BY IdleIsWork DEF Archiving!PendingScan
<1>3. Sound(c)'
  BY <1>1 DEF Sound, Archiving!At, Archivings, Filing
<1> USE DEF Archiving!PendingScan, Archiving!live, Archiving!ledger, Archiving!files
<1>4. ArchiveTypes' /\ FilesAgree'
  BY <1>1 DEF ArchiveInv, ArchiveTypes, Archiving!TypeOK, Moved, FilesAgree, Archiving!EnteredIn,
     Archiving!Sealed, Archiving!OneEntry
<1>5. \A d \in Archiving!Actors : Sound(d)'
  BY <1>1, <1>3 DEF ArchiveInv, Moved, Sound, Archiving!At, Archiving!Sealed, Archiving!Entered,
     Archiving!EnteredIn
<1>6. Apart' /\ Counted'
  BY <1>1, <1>2, ApartStays, CountedStays DEF ArchiveInv
<1>7. Mended' /\ Starting'
  BY <1>1, <1>2 DEF ArchiveInv, Mended, Moved, Archiving!Entered, Archiving!EnteredIn, Starting,
     Archiving!Serving
<1> QED BY <1>4, <1>5, <1>6, <1>7 DEF ArchiveInv

LEMMA PendingKnownStep ==
  ASSUME ArchiveInv, NEW c \in Archiving!Actors, Archiving!PendingKnown(c)
  PROVE  ArchiveInv'
<1> USE WorkFields
<1>1. /\ Moved(c) /\ archiving'[c].step = "list" /\ archiving'[c].by = archiving[c].by
      /\ archiving'[c].known = Archiving!Entered /\ archiving'[c].todo = archiving[c].todo
  <2>1. "list" \in WorkSteps /\ Archiving!Entered \in SUBSET Filed
    BY EnteredAreProgrammes DEF WorkSteps, ArchiveInv, ArchiveTypes
  <2>2. Archiving!Work("list", archiving[c].by, Nobody, archiving[c].todo, Archiving!Entered) \in Works
    BY <2>1, WorkIsWork
  <2>3. Moved(c) /\ archiving'[c] = Archiving!Work("list", archiving[c].by, Nobody, archiving[c].todo, Archiving!Entered)
    BY <2>2, WorkMoves DEF ArchiveInv, Archiving!PendingKnown
  <2> QED BY <2>3 DEF Archiving!Work
<1>2. Archiving!Entered' = Archiving!Entered /\ ClosedNow' = ClosedNow
  BY DEF Archiving!PendingKnown, Archiving!live, Archiving!ledger, Archiving!Entered,
     Archiving!EnteredIn, ClosedNow
<1>3. Sound(c)'
  BY <1>1, <1>2 DEF Sound, Archiving!At, Archivings, Filing, Archiving!PendingKnown
<1>4. c = Startup => Underway'
  BY <1>1, <1>2 DEF Underway, InHand, Archiving!At, Archiving!PendingKnown
<1> QED BY <1>1, <1>3, <1>4, OnlyMoves DEF Archiving!PendingKnown, Archiving!At

LEMMA PendingEndStep ==
  ASSUME ArchiveInv, NEW c \in Archiving!Actors, Archiving!PendingEnd(c)
  PROVE  ArchiveInv'
<1>1. Moved(c) /\ archiving'[c] = Archiving!Idle
  BY IdleMoves DEF Archiving!PendingEnd, ArchiveInv
<1>2. Sound(c)'
  BY <1>1, IdleIsWork DEF Sound, Archiving!At, Archivings, Filing, Archiving!Idle, Archiving!Work
<1> QED BY <1>1, <1>2, IdleIsWork, OnlyMoves, WorkFields DEF Archiving!PendingEnd, Archiving!At,
   Archiving!Serving

LEMMA PendingTakeStep ==
  ASSUME ArchiveInv, NEW c \in Archiving!Actors, Archiving!PendingTake(c)
  PROVE  ArchiveInv'
<1> USE WorkFields
<1> PICK p \in archiving[c].todo \ archiving[c].known :
      archiving' = [archiving EXCEPT ![c] = Archiving!Work("begin", archiving[c].by, p, archiving[c].todo \ {p}, archiving[c].known)]
  BY DEF Archiving!PendingTake
<1>1. /\ Moved(c) /\ archiving'[c].step = "begin" /\ archiving'[c].by = archiving[c].by
      /\ archiving'[c].known = archiving[c].known /\ archiving'[c].todo = archiving[c].todo \ {p}
      /\ archiving'[c].programme = p /\ p \in Filed
  <2>1. "begin" \in WorkSteps /\ p \in Filed
    BY DEF WorkSteps, Archivings
  <2>2. Archiving!Work("begin", archiving[c].by, p, archiving[c].todo \ {p}, archiving[c].known) \in Works
    BY <2>1, WorkIsWork
  <2>3. Moved(c) /\ archiving'[c] = Archiving!Work("begin", archiving[c].by, p, archiving[c].todo \ {p}, archiving[c].known)
    BY <2>2, WorkMoves DEF ArchiveInv
  <2> QED BY <2>1, <2>3 DEF Archiving!Work
<1>2. Archiving!Entered' = Archiving!Entered /\ ClosedNow' = ClosedNow
  BY DEF Archiving!PendingTake, Archiving!live, Archiving!ledger, Archiving!Entered,
     Archiving!EnteredIn, ClosedNow
<1>3. Sound(c)'
  BY <1>1, <1>2 DEF Sound, Archiving!At, Archivings, Filing
<1>4. c = Startup => Underway'
  <2> HAVE c = Startup
  <2>1. Underway /\ archiving[c].step = "list"
    BY DEF Archiving!PendingTake, Archiving!At
  <2>2. ClosedNow = archiving[c].todo /\ archiving[c].by = "startup"
    BY <2>1 DEF Underway, InHand
  <2>3. InHand(c)' = {p}
    BY <1>1 DEF InHand
  <2> QED BY <1>1, <1>2, <2>2, <2>3 DEF Underway, Archiving!At
<1> QED BY <1>1, <1>3, <1>4, OnlyMoves DEF Archiving!PendingTake, Archiving!At

\* An archiving that has failed; a start's never does.
LEMMA FailedStep ==
  ASSUME ArchiveInv, NEW c \in Archiving!Actors, Archiving!Failed(c), archiving[c].step \in Archivings \ {"count"}, c # Startup,
         UNCHANGED <<Archiving!live, Archiving!ledger, Archiving!files, outages>>
  PROVE  ArchiveInv'
<1> USE WorkFields
<1>1. CASE archiving[c].by = "pending"
  <2>1. Moved(c) /\ KeepsWork(c) /\ archiving'[c].step = "list"
    BY <1>1, ListingMoves DEF Archiving!Failed, ArchiveInv
  <2>2. Sound(c)'
    BY <2>1 DEF Sound, Archiving!At, Archivings, Filing, KeepsWork, Archiving!ledger,
       Archiving!Entered, Archiving!EnteredIn
  <2> QED BY <2>1, <2>2, OnlyMoves, IdleIsWork DEF Archivings
<1>2. CASE archiving[c].by # "pending"
  <2>1. Moved(c) /\ archiving'[c] = Archiving!Idle
    BY <1>2, IdleMoves DEF Archiving!Failed, ArchiveInv
  <2>2. Sound(c)'
    BY <2>1, IdleIsWork DEF Sound, Archiving!At, Archivings, Filing, Archiving!Idle, Archiving!Work
  <2> QED BY <2>1, <2>2, OnlyMoves, IdleIsWork DEF Archivings
<1> QED BY <1>1, <1>2

LEMMA ArchiveBeginStep ==
  ASSUME ArchiveInv, NEW c \in Archiving!Actors, Archiving!ArchiveBegin(c)
  PROVE  ArchiveInv'
<1> USE WorkFields
<1>1. CASE Archiving!Goto(c, "find")
  <2>1. Moved(c) /\ KeepsWork(c) /\ archiving'[c].step = "find" /\ archiving'[c].programme = archiving[c].programme
    BY <1>1, WorkGoes DEF ArchiveInv, WorkSteps, Archivings
  <2>2. Archiving!Entered' = Archiving!Entered /\ ClosedNow' = ClosedNow
    BY DEF Archiving!ArchiveBegin, Archiving!live, Archiving!ledger, Archiving!Entered,
       Archiving!EnteredIn, ClosedNow
  <2>3. Sound(c)'
    BY <2>1, <2>2 DEF Sound, Archiving!At, Archivings, Filing, KeepsWork, Archiving!ArchiveBegin
  <2>4. c = Startup => Underway'
    BY <2>1, <2>2 DEF Underway, InHand, Archiving!At, KeepsWork, Archiving!ArchiveBegin
  <2> QED BY <2>1, <2>3, <2>4, OnlyMoves DEF Archiving!ArchiveBegin, Archiving!At
<1>2. CASE status[archiving[c].programme] # "closed" \/ Archiving!Serving
  <2>1. c # Startup
    BY <1>2 DEF Archiving!ArchiveBegin, Underway, ClosedNow, InHand, Archiving!At, Archiving!Serving
  <2> QED BY <1>2, <2>1, <1>1, FailedStep DEF Archiving!ArchiveBegin, Archiving!At, Archivings
<1> QED BY <1>1, <1>2 DEF Archiving!ArchiveBegin

LEMMA ArchiveVerifyStep ==
  ASSUME ArchiveInv, NEW c \in Archiving!Actors, Archiving!ArchiveVerify(c)
  PROVE  ArchiveInv'
<1> USE WorkFields
<1>1. CASE Archiving!Verified(archiving[c].archive, archiving[c].programme)
  <2>1. /\ Moved(c) /\ KeepsWork(c) /\ archiving'[c].step = "mark" /\ archiving'[c].programme = archiving[c].programme
        /\ archiving'[c].archive = archiving[c].archive
    BY <1>1, WorkGoes DEF Archiving!ArchiveVerify, ArchiveInv, WorkSteps, Archivings
  <2>2. Archiving!Entered' = Archiving!Entered /\ ClosedNow' = ClosedNow
    BY DEF Archiving!ArchiveVerify, Archiving!live, Archiving!ledger, Archiving!Entered,
       Archiving!EnteredIn, ClosedNow
  <2>3. Sound(c)'
    BY <1>1, <2>1, <2>2 DEF Sound, Archiving!At, Archivings, Filing, KeepsWork,
       Archiving!ArchiveVerify, Archiving!Verified, Archiving!ledger, Archiving!files
  <2>4. c = Startup => Underway'
    BY <2>1, <2>2 DEF Underway, InHand, Archiving!At, KeepsWork, Archiving!ArchiveVerify
  <2> QED BY <2>1, <2>3, <2>4, OnlyMoves DEF Archiving!ArchiveVerify, Archiving!At
<1>2. CASE ~Archiving!Verified(archiving[c].archive, archiving[c].programme)
  <2>1. c # Startup
    BY <1>2 DEF Archiving!ArchiveVerify, Underway, Archiving!At, Archiving!Verified
  <2> QED BY <1>2, <2>1, FailedStep DEF Archiving!ArchiveVerify, Archiving!At, Archivings
<1> QED BY <1>1, <1>2

LEMMA ArchiveFullStep ==
  ASSUME ArchiveInv, NEW c \in Archiving!Actors, Archiving!ArchiveFull(c)
  PROVE  ArchiveInv'
<1> USE WorkFields
<1>0. Archiving!Entered' = Archiving!Entered /\ ClosedNow' = ClosedNow
  BY DEF Archiving!ArchiveFull, Archiving!live, Archiving!ledger, Archiving!Entered,
     Archiving!EnteredIn, ClosedNow
<1>1. CASE filed[archiving[c].archive] >= BatchSize
  <2>1. /\ Moved(c) /\ KeepsWork(c) /\ archiving'[c].step = "hash" /\ archiving'[c].programme = archiving[c].programme
        /\ archiving'[c].archive = archiving[c].archive
    BY <1>1, WorkGoes DEF Archiving!ArchiveFull, ArchiveInv, WorkSteps, Archivings
  <2>3. Sound(c)'
    BY <1>0, <2>1 DEF Sound, Archiving!At, Archivings, Filing, KeepsWork, Archiving!ArchiveFull,
       Archiving!ledger
  <2>4. c = Startup => Underway'
    BY <1>0, <2>1 DEF Underway, InHand, Archiving!At, KeepsWork, Archiving!ArchiveFull
  <2> QED BY <2>1, <2>3, <2>4, OnlyMoves DEF Archiving!ArchiveFull, Archiving!At
<1>2. CASE ~(filed[archiving[c].archive] >= BatchSize) /\ archiving[c].by # "close"
  <2>1. Moved(c) /\ KeepsWork(c) /\ archiving'[c].step = "list"
    BY <1>2, ListingMoves DEF Archiving!ArchiveFull, Archiving!Done, ArchiveInv
  <2>3. Sound(c)'
    BY <1>0, <2>1 DEF Sound, Archiving!At, Archivings, Filing, KeepsWork
  <2>4. c = Startup => Underway'
    BY <1>0, <2>1 DEF Underway, InHand, Archiving!At, KeepsWork, Archiving!ArchiveFull
  <2> QED BY <2>1, <2>3, <2>4, OnlyMoves DEF Archiving!ArchiveFull, Archiving!At
<1>3. CASE ~(filed[archiving[c].archive] >= BatchSize) /\ archiving[c].by = "close"
  <2>1. Moved(c) /\ archiving'[c] = Archiving!Idle
    BY <1>3, IdleMoves DEF Archiving!ArchiveFull, Archiving!Done, ArchiveInv
  <2>2. Sound(c)'
    BY <2>1, IdleIsWork DEF Sound, Archiving!At, Archivings, Filing, Archiving!Idle, Archiving!Work
  <2>3. c # Startup
    BY <1>3 DEF Underway, Archiving!ArchiveFull, Archiving!At
  <2> QED BY <2>1, <2>2, <2>3, OnlyMoves, IdleIsWork DEF Archiving!ArchiveFull, Archiving!At
<1> QED BY <1>1, <1>2, <1>3

LEMMA SealHashStep ==
  ASSUME ArchiveInv, NEW c \in Archiving!Actors, Archiving!SealHash(c)
  PROVE  ArchiveInv'
<1> USE WorkFields
<1>1. archiving[c].archive \in Archiving!Range(registry) /\ archiving[c].archive \in Files
  BY DEF Archiving!SealHash, Archiving!At, Sound, Filing, Archivings
<1>2. contents[archiving[c].archive] \in SUBSET Filed
  BY <1>1 DEF ArchiveInv, ArchiveTypes, Archiving!TypeOK
<1>3. /\ Moved(c) /\ KeepsWork(c) /\ archiving'[c].step = "seal" /\ archiving'[c].programme = archiving[c].programme
      /\ archiving'[c].archive = archiving[c].archive /\ archiving'[c].hash = contents[archiving[c].archive]
  BY <1>2 DEF Archiving!SealHash, ArchiveInv, ArchiveTypes, Works, Moved, KeepsWork, WorkSteps,
     Archivings
<1>4. Archiving!Entered' = Archiving!Entered /\ ClosedNow' = ClosedNow
  BY DEF Archiving!SealHash, Archiving!live, Archiving!ledger, Archiving!Entered,
     Archiving!EnteredIn, ClosedNow
<1>5. Sound(c)'
  BY <1>1, <1>2, <1>3, <1>4 DEF Sound, Archiving!At, Archivings, Filing, KeepsWork,
     Archiving!SealHash, Archiving!ledger
<1>6. c = Startup => Underway'
  BY <1>3, <1>4 DEF Underway, InHand, Archiving!At, KeepsWork, Archiving!SealHash
<1> QED BY <1>3, <1>5, <1>6, OnlyMoves DEF Archiving!SealHash, Archiving!At

LEMMA PendingMarkStep ==
  ASSUME ArchiveInv, NEW c \in Archiving!Actors, Archiving!PendingMark(c)
  PROVE  ArchiveInv'
<1> USE WorkFields
<1> PICK p \in archiving[c].todo \cap archiving[c].known :
      /\ status' = IF status[p] = "closed" THEN [status EXCEPT ![p] = "archived"] ELSE status
      /\ archiving' = [archiving EXCEPT ![c] = [Archiving!Listing(c) EXCEPT !.todo = @ \ {p}]]
  BY DEF Archiving!PendingMark
<1>1. /\ Moved(c) /\ archiving'[c].step = "list" /\ archiving'[c].by = archiving[c].by
      /\ archiving'[c].known = archiving[c].known /\ archiving'[c].todo = archiving[c].todo \ {p}
  BY ListingIsWork DEF ArchiveInv, ArchiveTypes, Works, Moved
<1>2. p \in Archiving!Entered /\ p \in Filed
  BY DEF Sound
<1>3. UNCHANGED <<whole, Archiving!ledger, Archiving!files, outages>> /\ Archiving!Entered' = Archiving!Entered /\ ClosedNow' = ClosedNow \ {p}
  BY DEF Archiving!PendingMark, Archiving!ledger, Archiving!files, Archiving!Entered,
     Archiving!EnteredIn, ClosedNow, ArchiveInv, ArchiveTypes, Archiving!TypeOK
<1>4. ArchiveTypes'
  BY <1>1, <1>3 DEF ArchiveInv, ArchiveTypes, Archiving!TypeOK, Moved, Archiving!ledger, Archiving!files
<1>5. FilesAgree'
  <2>1. PICK a \in Files : p \in Archiving!EnteredIn(a)
    BY <1>2 DEF Archiving!Entered
  <2>2. p \in contents[a]
    BY <2>1 DEF ArchiveInv, FilesAgree
  <2> QED BY <1>2, <1>3, <2>2 DEF ArchiveInv, FilesAgree, ArchiveTypes, Archiving!TypeOK,
     Archiving!EnteredIn, Archiving!Sealed, Archiving!OneEntry, Archiving!ledger, Archiving!files
<1>6. Sound(c)'
  BY <1>1, <1>3 DEF Sound, Archiving!At, Archivings, Filing
<1>7. c = Startup => Underway'
  BY <1>1, <1>3 DEF Underway, InHand, Archiving!At, Archiving!PendingMark
<1>8. Grown /\ Archiving!Range(registry)' = Archiving!Range(registry)
  BY <1>2, <1>3 DEF Grown, ArchiveInv, ArchiveTypes, Archiving!TypeOK, Archiving!ledger,
     Archiving!files, Archiving!Sealed
<1>9. Apart' /\ Counted'
  BY <1>1, <1>3, ApartStays, CountedStays DEF ArchiveInv, Archiving!ledger, Archiving!PendingMark,
     Archiving!At
<1>10. \A d \in Archiving!Actors : Sound(d)
  BY DEF ArchiveInv
<1> QED BY <1>1, <1>3, <1>4, <1>5, <1>6, <1>7, <1>8, <1>9, <1>10, Resumes
   DEF Archiving!PendingMark, Archiving!At, Sound

LEMMA ArchiveFindStep ==
  ASSUME ArchiveInv, NEW c \in Archiving!Actors, Archiving!ArchiveFind(c)
  PROVE  ArchiveInv'
<1> USE WorkFields
<1>0. UNCHANGED <<Archiving!live, Archiving!ledger, readonly, outages>> /\ archiving[c].programme \in Filed
      /\ Archiving!Entered' = Archiving!Entered /\ ClosedNow' = ClosedNow
  BY DEF Archiving!ArchiveFind, Archiving!At, Sound, Archivings, Archiving!Entered,
     Archiving!EnteredIn, Archiving!ledger, ClosedNow, Archiving!live
<1>1. CASE \E i \in DOMAIN registry :
             /\ Archiving!OldestOpen(i)
             /\ archiving' = [archiving EXCEPT ![c].step = "copy", ![c].archive = registry[i]]
             /\ UNCHANGED contents
  <2> PICK i \in DOMAIN registry :
        /\ Archiving!OldestOpen(i)
        /\ archiving' = [archiving EXCEPT ![c].step = "copy", ![c].archive = registry[i]]
        /\ UNCHANGED contents
    BY <1>1
  <2> PICK a : a = registry[i]
    OBVIOUS
  <2>1. a \in Files /\ a \in Archiving!Range(registry)
    BY DEF ArchiveInv, ArchiveTypes, Archiving!TypeOK, Archiving!Range
  <2>2. /\ Moved(c) /\ KeepsWork(c) /\ archiving'[c].step = "copy" /\ archiving'[c].programme = archiving[c].programme
        /\ archiving'[c].archive = a
    <3>1. /\ ArchiveTypes /\ "copy" \in WorkSteps
          /\ archiving' = [archiving EXCEPT ![c].step = "copy", ![c].archive = a]
      BY ChoiceSteps DEF ArchiveInv
    <3> QED BY ONLY <2>1, <3>1, ChoosesMoves, c \in Archiving!Actors
  <2>3. Sound(c)'
    BY <1>0, <2>1, <2>2 DEF Sound, Archiving!At, Archivings, Filing, KeepsWork, Archiving!ledger
  <2>4. c = Startup => Underway'
    BY <1>0, <2>1, <2>2 DEF Underway, InHand, Archiving!At, KeepsWork, Archiving!ArchiveFind,
       Archiving!OldestOpen, ArchiveInv, FilesAgree
  <2> QED BY <1>0, <2>2, <2>3, <2>4, OnlyMoves DEF Archiving!ArchiveFind, Archiving!At, Archiving!files
<1>2. CASE \E a \in Files :
             /\ ~Archiving!Used(a)
             /\ contents' = [contents EXCEPT ![a] = Archiving!NewFile]
             /\ archiving' = [archiving EXCEPT ![c].step = "register", ![c].archive = a]
  <2> PICK a \in Files :
        /\ ~Archiving!Used(a)
        /\ contents' = [contents EXCEPT ![a] = Archiving!NewFile]
        /\ archiving' = [archiving EXCEPT ![c].step = "register", ![c].archive = a]
    BY <1>2
  <2>1. /\ Moved(c) /\ KeepsWork(c) /\ archiving'[c].step = "register" /\ archiving'[c].programme = archiving[c].programme
        /\ archiving'[c].archive = a
    <3>1. /\ ArchiveTypes /\ "register" \in WorkSteps
          /\ archiving' = [archiving EXCEPT ![c].step = "register", ![c].archive = a]
      BY ChoiceSteps DEF ArchiveInv
    <3> QED BY ONLY <3>1, ChoosesMoves, c \in Archiving!Actors, a \in Files
  <2>2. contents[a] = {} /\ contents' = contents
    BY DEF ArchiveInv, FilesAgree, ArchiveTypes, Archiving!TypeOK, Archiving!Used, Archiving!NewFile
  <2>3. ArchiveTypes'
    BY <1>0, <2>1, <2>2 DEF ArchiveInv, ArchiveTypes, Archiving!TypeOK, Moved, Archiving!live,
       Archiving!ledger
  <2>4. FilesAgree' /\ Grown /\ Archiving!Range(registry)' = Archiving!Range(registry)
    BY <1>0, <2>2 DEF ArchiveInv, FilesAgree, Grown, Archiving!EnteredIn, Archiving!Sealed,
       Archiving!OneEntry, Archiving!live, Archiving!ledger
  <2>5. Sound(c)'
    BY <1>0, <2>1 DEF Sound, Archiving!At, Archivings, Filing, KeepsWork, Archiving!ledger,
       Archiving!Used
  <2>6. Apart'
    BY <2>1 DEF ArchiveInv, Apart, Moved, Archiving!At, Archiving!Used
  <2>7. Counted'
    BY <1>0, <2>1, CountedStays DEF ArchiveInv, Archiving!ledger, Archiving!ArchiveFind, Archiving!At
  <2>8. c = Startup => Underway'
    BY <1>0, <2>1 DEF Underway, InHand, Archiving!At, KeepsWork, Archiving!ArchiveFind
  <2>9. \A d \in Archiving!Actors : Sound(d)
    BY DEF ArchiveInv
  <2> QED BY <1>0, <2>1, <2>3, <2>4, <2>5, <2>6, <2>7, <2>8, <2>9, Resumes
     DEF Archiving!ArchiveFind, Archiving!At, Sound
<1> QED BY <1>1, <1>2 DEF Archiving!ArchiveFind

LEMMA ArchiveRegisterStep ==
  ASSUME ArchiveInv, NEW c \in Archiving!Actors, Archiving!ArchiveRegister(c)
  PROVE  ArchiveInv'
<1> USE WorkFields
<1>0. /\ UNCHANGED <<Archiving!live, filed, sealHash, entries, Archiving!files, outages>> /\ archiving[c].programme \in Filed
      /\ archiving[c].archive \in Files \ Archiving!Range(registry)
      /\ Archiving!Entered' = Archiving!Entered /\ ClosedNow' = ClosedNow /\ (\A a \in Files : Archiving!Sealed(a)' = Archiving!Sealed(a))
  BY DEF Archiving!ArchiveRegister, Archiving!At, Sound, Archivings, Archiving!Entered,
     Archiving!EnteredIn, ClosedNow, Archiving!live, Archiving!Sealed
<1>1. /\ Moved(c) /\ KeepsWork(c) /\ archiving'[c].step = "copy" /\ archiving'[c].programme = archiving[c].programme
      /\ archiving'[c].archive = archiving[c].archive
  BY WorkGoes DEF Archiving!ArchiveRegister, ArchiveInv, WorkSteps, Archivings
<1>2. /\ Archiving!Range(registry') = Archiving!Range(registry) \cup {archiving[c].archive} /\ Archiving!IsInjective(registry')
      /\ registry' \in Seq(Files)
  BY <1>0, Appended DEF Archiving!ArchiveRegister, ArchiveInv, ArchiveTypes, Archiving!TypeOK
<1>3. ArchiveTypes'
  BY <1>0, <1>1, <1>2 DEF ArchiveInv, ArchiveTypes, Archiving!TypeOK, Moved, Archiving!live,
     Archiving!files
<1>4. FilesAgree' /\ Grown
  <2>1. /\ status' = status /\ whole' = whole /\ contents' = contents /\ readonly' = readonly
        /\ entries' = entries /\ sealHash' = sealHash
    BY <1>0 DEF Archiving!live, Archiving!files
  <2>2. Archiving!Range(registry) \subseteq Archiving!Range(registry)'
    BY <1>2
  <2>3. Archiving!OneEntry' /\ \A a \in Files : Archiving!EnteredIn(a)' = Archiving!EnteredIn(a)
    BY <2>1 DEF ArchiveInv, FilesAgree, Archiving!OneEntry, Archiving!EnteredIn
  <2>4. FilesAgree'
    BY <1>0, <2>1, <2>2, <2>3 DEF ArchiveInv, FilesAgree, ArchiveTypes, Archiving!TypeOK
  <2> QED BY <1>0, <2>1, <2>2, <2>4 DEF Grown
<1>5. Sound(c)'
  BY <1>0, <1>1, <1>2 DEF Sound, Archiving!At, Archivings, Filing, KeepsWork
<1>6. Apart'
  BY <1>1, ApartStays DEF ArchiveInv
<1>7. Counted'
  BY <1>0, <1>1, CountedStays DEF ArchiveInv, Archiving!ArchiveRegister, Archiving!At
<1>8. c = Startup => Underway'
  BY <1>0, <1>1 DEF Underway, InHand, Archiving!At, KeepsWork, Archiving!ArchiveRegister,
     ArchiveInv, FilesAgree, Archiving!files
<1>9. \A d \in Archiving!Actors \ {c} : Archiving!At(d, "register") => archiving[d].archive \notin Archiving!Range(registry')
  BY <1>2 DEF ArchiveInv, Apart, Sound, Archiving!At, Archiving!ArchiveRegister
<1>10. \A d \in Archiving!Actors : Sound(d)
  BY DEF ArchiveInv
<1> QED BY <1>0, <1>1, <1>3, <1>4, <1>5, <1>6, <1>7, <1>8, <1>9, <1>10, Resumes
        DEF Archiving!ArchiveRegister, Archiving!At, Sound

LEMMA ArchiveCopyStep ==
  ASSUME ArchiveInv, NEW c \in Archiving!Actors, Archiving!ArchiveCopy(c)
  PROVE  ArchiveInv'
<1> USE WorkFields
<1>0. /\ UNCHANGED <<Archiving!live, Archiving!ledger, readonly, outages>> /\ archiving[c].programme \in Filed
      /\ archiving[c].archive \in Archiving!Range(registry) /\ archiving[c].archive \in Files
      /\ Archiving!Entered' = Archiving!Entered /\ ClosedNow' = ClosedNow
  BY DEF Archiving!ArchiveCopy, Archiving!At, Sound, Archivings, Filing, Archiving!Entered,
     Archiving!EnteredIn, Archiving!ledger, ClosedNow, Archiving!live
<1>1. CASE archiving[c].archive \in readonly
  <2>1. c # Startup
    BY <1>1 DEF Underway, Archiving!ArchiveCopy, Archiving!At
  <2> QED BY <1>0, <1>1, <2>1, FailedStep DEF Archiving!ArchiveCopy, Archiving!At, Archivings,
     Archiving!files
<1>2. CASE archiving[c].archive \notin readonly
  <2>1. /\ Moved(c) /\ KeepsWork(c) /\ archiving'[c].step = "verify" /\ archiving'[c].programme = archiving[c].programme
        /\ archiving'[c].archive = archiving[c].archive
    BY <1>2, WorkGoes DEF Archiving!ArchiveCopy, ArchiveInv, WorkSteps, Archivings
  <2>2. contents' = [contents EXCEPT ![archiving[c].archive] =
                       contents[archiving[c].archive] \cup Archiving!Collected(archiving[c].programme)]
    BY <1>2 DEF Archiving!ArchiveCopy
  <2>3. ArchiveTypes'
    BY <1>0, <2>1, <2>2 DEF ArchiveInv, ArchiveTypes, Archiving!TypeOK, Moved, Archiving!live,
       Archiving!ledger, Archiving!Collected
  <2>4. contents' \in [Files -> SUBSET Filed] /\ \A a \in Files : contents[a] \subseteq contents'[a]
    BY <2>2, <2>3 DEF ArchiveInv, ArchiveTypes, Archiving!TypeOK
  <2>5. FilesAgree'
    BY <1>0, <2>2, <2>4 DEF ArchiveInv, ArchiveTypes, Archiving!TypeOK, FilesAgree,
       Archiving!EnteredIn, Archiving!Sealed, Archiving!OneEntry, Archiving!live, Archiving!ledger
  <2>6. Grown /\ Archiving!Range(registry)' = Archiving!Range(registry)
    BY <1>0, <2>4 DEF Grown, Archiving!Sealed, Archiving!live, Archiving!ledger
  <2>7. Sound(c)'
    BY <1>0, <2>1 DEF Sound, Archiving!At, Archivings, Filing, KeepsWork, Archiving!ledger
  <2>8. Apart' /\ Counted'
    BY <1>0, <2>1, ApartStays, CountedStays DEF ArchiveInv, Archiving!ledger,
       Archiving!ArchiveCopy, Archiving!At
  <2>9. c = Startup => Underway'
    <3> HAVE c = Startup
    <3>1. status[archiving[c].programme] = "closed" /\ archiving[c].programme \in whole
      BY DEF Underway, ClosedNow, InHand, Archiving!At, Archiving!ArchiveCopy, ArchiveInv, FilesAgree
    <3>2. archiving[c].programme \in contents'[archiving[c].archive]
      BY <1>0, <2>2, <3>1 DEF Archiving!Collected, ArchiveInv, ArchiveTypes, Archiving!TypeOK
    <3> QED BY <1>0, <2>1, <3>2 DEF Underway, InHand, Archiving!At, KeepsWork, Archiving!ArchiveCopy
  <2>10. \A d \in Archiving!Actors : Sound(d)
    BY DEF ArchiveInv
  <2> QED BY <1>0, <2>1, <2>3, <2>5, <2>6, <2>7, <2>8, <2>9, <2>10, Resumes
     DEF Archiving!ArchiveCopy, Archiving!At, Sound
<1> QED BY <1>1, <1>2

LEMMA ArchiveMarkStep ==
  ASSUME ArchiveInv, NEW c \in Archiving!Actors, Archiving!ArchiveMark(c)
  PROVE  ArchiveInv'
<1> USE WorkFields
<1>0. /\ UNCHANGED <<whole, Archiving!ledger, Archiving!files, outages>> /\ archiving[c].programme \in Filed
      /\ archiving[c].archive \in Archiving!Range(registry) /\ archiving[c].archive \in Files
      /\ Archiving!Entered' = Archiving!Entered /\ archiving[c].programme \in contents[archiving[c].archive]
  BY DEF Archiving!ArchiveMark, Archiving!At, Sound, Archivings, Filing, Archiving!Entered,
     Archiving!EnteredIn, Archiving!ledger
<1>1. CASE status[archiving[c].programme] # "closed"
  <2>1. c # Startup
    BY <1>1 DEF Underway, Archiving!ArchiveMark, Archiving!At, ClosedNow, InHand
  <2> QED BY <1>0, <1>1, <2>1, FailedStep DEF Archiving!ArchiveMark, Archiving!At, Archivings,
     Archiving!live
<1>2. CASE status[archiving[c].programme] = "closed"
  <2>1. /\ Moved(c) /\ KeepsWork(c) /\ archiving'[c].step = "enter" /\ archiving'[c].programme = archiving[c].programme
        /\ archiving'[c].archive = archiving[c].archive
    BY <1>2, WorkGoes DEF Archiving!ArchiveMark, ArchiveInv, WorkSteps, Archivings
  <2>2. status' = [status EXCEPT ![archiving[c].programme] = "archived"]
    BY <1>2 DEF Archiving!ArchiveMark
  <2>3. ArchiveTypes'
    BY <1>0, <2>1, <2>2 DEF ArchiveInv, ArchiveTypes, Archiving!TypeOK, Moved, Archiving!ledger,
       Archiving!files
  <2>4. FilesAgree'
    BY <1>0, <2>2 DEF ArchiveInv, ArchiveTypes, Archiving!TypeOK, FilesAgree, Archiving!EnteredIn,
       Archiving!Sealed, Archiving!OneEntry, Archiving!ledger, Archiving!files
  <2>5. Grown /\ Archiving!Range(registry)' = Archiving!Range(registry)
    BY <1>0, <2>2 DEF Grown, Archiving!Sealed, Archiving!ledger, Archiving!files, ArchiveInv,
       ArchiveTypes, Archiving!TypeOK
  <2>6. archiving[c].programme \notin Archiving!Entered
    <3>1. archiving[Startup].step \notin {"repair", "restore"}
      BY IdleIsWork, CallersAreActors DEF Archiving!ArchiveMark, Archiving!At, ArchiveInv,
         Starting, Archiving!Serving, Archiving!Actors
    <3> QED BY <1>2, <3>1 DEF ArchiveInv, Mended
  <2>7. Sound(c)'
    BY <1>0, <2>1, <2>2, <2>6 DEF Sound, Archiving!At, Archivings, Filing, KeepsWork,
       Archiving!ledger, Archiving!files, ArchiveInv, ArchiveTypes, Archiving!TypeOK
  <2>8. Apart'
    BY <1>2, <2>1 DEF ArchiveInv, Apart, Moved, Archiving!At, Sound
  <2>9. Counted'
    BY <1>0, <2>1, CountedStays DEF ArchiveInv, Archiving!ledger, Archiving!ArchiveMark, Archiving!At
  <2>10. c = Startup => Underway'
    <3> HAVE c = Startup
    <3>1. ClosedNow' = ClosedNow \ {archiving[c].programme}
      BY <1>0, <2>2 DEF ClosedNow, ArchiveInv, ArchiveTypes, Archiving!TypeOK
    <3>2. /\ archiving[c].step = "mark" /\ ClosedNow = archiving[c].todo \cup {archiving[c].programme}
          /\ archiving[c].by = "startup"
      BY DEF Archiving!ArchiveMark, Archiving!At, Underway, InHand
    <3>3. archiving[c].programme \notin archiving[c].todo
      BY DEF Archiving!ArchiveMark, Archiving!At, Underway, InHand
    <3>4. ClosedNow' = archiving'[c].todo /\ InHand(c)' = {}
      BY <2>1, <3>1, <3>2, <3>3 DEF InHand, KeepsWork
    <3> QED BY <2>1, <3>2, <3>4 DEF Underway, Archiving!At, KeepsWork
  <2>11. \A d \in Archiving!Actors : Sound(d)
    BY DEF ArchiveInv
  <2> QED BY <1>0, <2>1, <2>3, <2>4, <2>5, <2>7, <2>8, <2>9, <2>10, <2>11, Resumes
          DEF Archiving!ArchiveMark, Archiving!At, Sound
<1> QED BY <1>1, <1>2

LEMMA ArchiveEnterStep ==
  ASSUME ArchiveInv, NEW c \in Archiving!Actors, Archiving!ArchiveEnter(c)
  PROVE  ArchiveInv'
<1> USE WorkFields
<1> PICK a, p : a = archiving[c].archive /\ p = archiving[c].programme
  OBVIOUS
<1>0. /\ UNCHANGED <<Archiving!live, registry, filed, sealHash, Archiving!files, outages>> /\ p \in Filed
      /\ a \in Archiving!Range(registry) /\ a \in Files /\ p \notin Archiving!Entered
      /\ p \in contents[a] /\ status[p] = "archived" /\ ClosedNow' = ClosedNow
      /\ (\A b \in Files : Archiving!Sealed(b)' = Archiving!Sealed(b))
  BY DEF Archiving!ArchiveEnter, Archiving!At, Sound, Archivings, Filing, Archiving!live,
     ClosedNow, Archiving!Sealed
<1>1. /\ Moved(c) /\ KeepsWork(c) /\ archiving'[c].step = "count" /\ archiving'[c].programme = p
      /\ archiving'[c].archive = a
  BY WorkGoes DEF Archiving!ArchiveEnter, ArchiveInv, WorkSteps, Archivings
<1>2. /\ entries' = [entries EXCEPT ![a] = Append(entries[a], p)]
      /\ entries \in [Files -> Seq(Filed)] /\ entries[a] \in Seq(Filed)
  BY <1>0 DEF Archiving!ArchiveEnter, ArchiveInv, ArchiveTypes, Archiving!TypeOK
<1>3. /\ Archiving!EnteredIn(a)' = Archiving!EnteredIn(a) \cup {p} /\ p \notin Archiving!EnteredIn(a)
      /\ Archiving!IsInjective(entries'[a]) /\ entries'[a] \in Seq(Filed)
      /\ Len(entries'[a]) = Len(entries[a]) + 1
  <2>1. p \notin Archiving!Range(entries[a]) /\ Archiving!IsInjective(entries[a])
    BY <1>0 DEF Archiving!Entered, Archiving!EnteredIn, ArchiveInv, FilesAgree, Archiving!OneEntry
  <2>2. entries'[a] = Append(entries[a], p)
    BY <1>0, <1>2
  <2>3. Append(entries[a], p) \in Seq(Filed) /\ Len(Append(entries[a], p)) = Len(entries[a]) + 1
    BY <1>0, <1>2
  <2>4. /\ Archiving!Range(Append(entries[a], p)) = Archiving!Range(entries[a]) \cup {p}
        /\ Archiving!IsInjective(Append(entries[a], p))
    BY <1>0, <1>2, <2>1, Appended
  <2> QED BY <2>1, <2>2, <2>3, <2>4 DEF Archiving!EnteredIn
<1>4. \A b \in Files \ {a} : entries'[b] = entries[b] /\ Archiving!EnteredIn(b)' = Archiving!EnteredIn(b)
  BY <1>2 DEF Archiving!EnteredIn
<1>5. Archiving!Entered' = Archiving!Entered \cup {p}
  BY <1>0, <1>3, <1>4 DEF Archiving!Entered
<1>6. ArchiveTypes'
  <2>1. entries' \in [Files -> Seq(Filed)]
    BY <1>2, <1>3
  <2> QED BY <1>0, <1>1, <2>1 DEF ArchiveInv, ArchiveTypes, Archiving!TypeOK, Moved,
     Archiving!live, Archiving!files
<1>7. FilesAgree'
  <2>1. \A b \in Files : Archiving!EnteredIn(b)' \subseteq contents'[b]
    BY <1>0, <1>3, <1>4 DEF ArchiveInv, FilesAgree, Archiving!files
  <2>2. \A b \in Files : Archiving!IsInjective(entries'[b])
    BY <1>3, <1>4 DEF ArchiveInv, FilesAgree, Archiving!OneEntry
  <2>3. \A b, d \in Files : b # d => Archiving!EnteredIn(b)' \cap Archiving!EnteredIn(d)' = {}
    BY <1>0, <1>3, <1>4 DEF ArchiveInv, FilesAgree, Archiving!OneEntry, Archiving!Entered
  <2>4. /\ status' = status /\ whole' = whole /\ contents' = contents /\ readonly' = readonly
        /\ registry' = registry /\ sealHash' = sealHash
    BY <1>0 DEF Archiving!live, Archiving!files
  <2>5. Archiving!OneEntry'
    BY <2>2, <2>3 DEF Archiving!OneEntry
  <2> QED BY <2>1, <2>4, <2>5 DEF ArchiveInv, FilesAgree, Archiving!Sealed
<1>8. Grown /\ Archiving!Range(registry)' = Archiving!Range(registry)
  BY <1>0, <1>5 DEF Grown, Archiving!live, Archiving!files
<1>9. Sound(c)'
  BY <1>0, <1>1, <1>5 DEF Sound, Archiving!At, Archivings, Filing, KeepsWork
<1>10. Apart'
  BY <1>1, ApartStays DEF ArchiveInv
<1>11. Counted'
  <2> SUFFICES ASSUME outages = 0, NEW b \in Files
               PROVE  Len(entries'[b]) = filed[b] + Cardinality(Counting(b)')
    BY <1>0 DEF Counted
  <2>1. Len(entries[b]) = filed[b] + Cardinality(Counting(b))
    BY DEF ArchiveInv, Counted
  <2>2. CASE b # a
    <3>1. Counting(b)' = Counting(b)
      BY <1>1, <2>2 DEF Counting, Archiving!At, Moved, Archiving!ArchiveEnter
    <3> QED BY <1>4, <2>1, <2>2, <3>1
  <2>3. CASE b = a
    <3>1. Counting(b)' = Counting(b) \cup {c} /\ c \notin Counting(b)
      BY <1>1, <2>3 DEF Counting, Archiving!At, Moved, Archiving!ArchiveEnter
    <3>2. IsFiniteSet(Counting(b))
      <4>1. IsFiniteSet(Archiving!Actors)
        BY CallersAssumption, FS_Union, FS_Singleton DEF Archiving!Actors
      <4> QED BY <4>1, FS_Subset DEF Counting
    <3>3. Cardinality(Counting(b)') = Cardinality(Counting(b)) + 1 /\ Cardinality(Counting(b)) \in Nat
      BY <3>1, <3>2, FS_AddElement, FS_CardinalityType
    <3>4. filed[b] \in Nat
      BY DEF ArchiveInv, ArchiveTypes, Archiving!TypeOK
    <3>5. Len(entries[b]) \in Nat /\ Len(entries'[b]) = Len(entries[b]) + 1
      BY <1>2, <1>3, <2>3
    <3> QED BY <2>1, <3>3, <3>4, <3>5
  <2> QED BY <2>2, <2>3
<1>12. c = Startup => Underway'
  BY <1>0, <1>1 DEF Underway, InHand, Archiving!At, KeepsWork, Archiving!ArchiveEnter
<1>13. \A d \in Archiving!Actors \ {c} : Archiving!At(d, "enter") => archiving[d].programme \notin Archiving!Entered'
  BY <1>5 DEF ArchiveInv, Apart, Sound, Archiving!At, Archiving!ArchiveEnter
<1>14. \A d \in Archiving!Actors : Sound(d)
  BY DEF ArchiveInv
<1>15. \A q \in Archiving!Entered' \ Archiving!Entered : status'[q] = "archived"
  BY <1>0, <1>5 DEF Archiving!live
<1> QED BY <1>0, <1>1, <1>6, <1>7, <1>8, <1>9, <1>10, <1>11, <1>12, <1>13, <1>14, <1>15, Resumes
        DEF Archiving!ArchiveEnter, Archiving!At, Sound

LEMMA ArchiveCountStep ==
  ASSUME ArchiveInv, NEW c \in Archiving!Actors, Archiving!ArchiveCount(c)
  PROVE  ArchiveInv'
<1> USE WorkFields
<1> PICK a : a = archiving[c].archive
  OBVIOUS
<1>0. /\ UNCHANGED <<Archiving!live, registry, sealHash, entries, Archiving!files, outages>>
      /\ archiving[c].programme \in Filed
      /\ a \in Archiving!Range(registry) /\ a \in Files
      /\ Archiving!Entered' = Archiving!Entered /\ ClosedNow' = ClosedNow /\ (\A b \in Files : Archiving!Sealed(b)' = Archiving!Sealed(b))
  BY DEF Archiving!ArchiveCount, Archiving!At, Sound, Archivings, Filing, Archiving!live,
     ClosedNow, Archiving!Sealed, Archiving!Entered, Archiving!EnteredIn
<1>1. /\ Moved(c) /\ KeepsWork(c) /\ archiving'[c].step = "full" /\ archiving'[c].programme = archiving[c].programme
      /\ archiving'[c].archive = a
  BY WorkGoes DEF Archiving!ArchiveCount, ArchiveInv, WorkSteps, Archivings
<1>2. filed' = [filed EXCEPT ![a] = filed[a] + 1] /\ filed \in [Files -> Nat]
  BY DEF Archiving!ArchiveCount, ArchiveInv, ArchiveTypes, Archiving!TypeOK
<1>3. ArchiveTypes'
  <2>1. filed' \in [Files -> Nat]
    BY <1>0, <1>2
  <2> QED BY <1>0, <1>1, <2>1 DEF ArchiveInv, ArchiveTypes, Archiving!TypeOK, Moved,
     Archiving!live, Archiving!files
<1>4. FilesAgree' /\ Grown /\ Archiving!Range(registry)' = Archiving!Range(registry)
  <2>1. FilesAgree'
    BY <1>0 DEF ArchiveInv, FilesAgree, Archiving!EnteredIn, Archiving!Sealed, Archiving!OneEntry,
       Archiving!live, Archiving!files
  <2> QED BY <1>0, <2>1 DEF Grown, Archiving!live, Archiving!files
<1>5. Sound(c)'
  BY <1>0, <1>1 DEF Sound, Archiving!At, Archivings, Filing, KeepsWork
<1>6. Apart'
  BY <1>1, ApartStays DEF ArchiveInv
<1>7. Counted'
  <2> SUFFICES ASSUME outages = 0, NEW b \in Files
               PROVE  Len(entries[b]) = filed'[b] + Cardinality(Counting(b)')
    BY <1>0 DEF Counted
  <2>1. Len(entries[b]) = filed[b] + Cardinality(Counting(b))
    BY DEF ArchiveInv, Counted
  <2>2. CASE b # a
    <3>1. Counting(b)' = Counting(b)
      BY <1>1, <2>2 DEF Counting, Archiving!At, Moved
    <3> QED BY <1>2, <2>1, <2>2, <3>1
  <2>3. CASE b = a
    <3>1. Counting(b)' = Counting(b) \ {c} /\ c \in Counting(b)
      BY <1>1, <2>3 DEF Counting, Archiving!At, Moved, Archiving!ArchiveCount
    <3>2. IsFiniteSet(Counting(b))
      <4>1. IsFiniteSet(Archiving!Actors)
        BY CallersAssumption, FS_Union, FS_Singleton DEF Archiving!Actors
      <4> QED BY <4>1, FS_Subset DEF Counting
    <3>3. Cardinality(Counting(b)') = Cardinality(Counting(b)) - 1 /\ Cardinality(Counting(b)) \in Nat
      BY <3>1, <3>2, FS_RemoveElement, FS_CardinalityType
    <3>4. filed[b] \in Nat /\ filed'[b] = filed[b] + 1
      BY <1>2, <2>3
    <3> QED BY <2>1, <3>3, <3>4
  <2> QED BY <2>2, <2>3
<1>8. c = Startup => Underway'
  BY <1>0, <1>1 DEF Underway, InHand, Archiving!At, KeepsWork, Archiving!ArchiveCount
<1>9. \A d \in Archiving!Actors : Sound(d)
  BY DEF ArchiveInv
<1> QED BY <1>0, <1>1, <1>3, <1>4, <1>5, <1>6, <1>7, <1>8, <1>9, Resumes
        DEF Archiving!ArchiveCount, Archiving!At, Sound

LEMMA SealRecordStep ==
  ASSUME ArchiveInv, NEW c \in Archiving!Actors, Archiving!SealRecord(c)
  PROVE  ArchiveInv'
<1> USE WorkFields
<1> PICK a : a = archiving[c].archive
  OBVIOUS
<1>0. /\ UNCHANGED <<Archiving!live, registry, filed, entries, Archiving!files, outages>>
      /\ archiving[c].programme \in Filed
      /\ a \in Archiving!Range(registry) /\ a \in Files
      /\ archiving[c].hash \in SUBSET Filed
      /\ Archiving!Entered' = Archiving!Entered /\ ClosedNow' = ClosedNow
  BY DEF Archiving!SealRecord, Archiving!At, Sound, Archivings, Filing, Archiving!live, ClosedNow,
     Archiving!Entered, Archiving!EnteredIn
<1>1. /\ Moved(c) /\ KeepsWork(c) /\ archiving'[c].step = "lock" /\ archiving'[c].programme = archiving[c].programme
      /\ archiving'[c].archive = a
  BY WorkGoes DEF Archiving!SealRecord, ArchiveInv, WorkSteps, Archivings
<1>2. sealHash' = [sealHash EXCEPT ![a] = archiving[c].hash]
  BY DEF Archiving!SealRecord
<1>3. ArchiveTypes'
  BY <1>0, <1>1, <1>2 DEF ArchiveInv, ArchiveTypes, Archiving!TypeOK, Moved, Archiving!live,
     Archiving!files
<1>4. /\ Archiving!Sealed(a)'
      /\ \A b \in Files \ {a} : Archiving!Sealed(b)' = Archiving!Sealed(b)
  BY <1>0, <1>2, ArchivingAssumption DEF Archiving!Sealed, Archiving!NamesAssumption, ArchiveInv,
     ArchiveTypes, Archiving!TypeOK
<1>5. FilesAgree'
  <2>1. /\ \A b \in Files : Archiving!Sealed(b)' => b \in Archiving!Range(registry)
        /\ \A b \in readonly : Archiving!Sealed(b)'
    BY <1>0, <1>4 DEF ArchiveInv, FilesAgree, ArchiveTypes, Archiving!TypeOK
  <2> QED BY <1>0, <2>1 DEF ArchiveInv, FilesAgree, Archiving!EnteredIn, Archiving!OneEntry,
     Archiving!live, Archiving!files
<1>6. Grown /\ Archiving!Range(registry)' = Archiving!Range(registry)
  BY <1>0, <1>4 DEF Grown, Archiving!live, Archiving!files
<1>7. Sound(c)'
  BY <1>0, <1>1, <1>4 DEF Sound, Archiving!At, Archivings, Filing, KeepsWork
<1>8. Apart' /\ Counted'
  BY <1>0, <1>1, ApartStays, CountedStays DEF ArchiveInv, Archiving!SealRecord, Archiving!At
<1>9. c = Startup => Underway'
  BY <1>0, <1>1 DEF Underway, InHand, Archiving!At, KeepsWork, Archiving!SealRecord
<1>10. \A d \in Archiving!Actors : Sound(d)
  BY DEF ArchiveInv
<1> QED BY <1>0, <1>1, <1>3, <1>5, <1>6, <1>7, <1>8, <1>9, <1>10, Resumes
        DEF Archiving!SealRecord, Archiving!At, Sound

LEMMA SealLockStep ==
  ASSUME ArchiveInv, NEW c \in Archiving!Actors, Archiving!SealLock(c)
  PROVE  ArchiveInv'
<1> USE WorkFields
<1> PICK a : a = archiving[c].archive
  OBVIOUS
<1>0. /\ UNCHANGED <<Archiving!live, Archiving!ledger, contents, outages>>
      /\ readonly' = readonly \cup {a} /\ a \in Files /\ Archiving!Sealed(a)
      /\ Archiving!Entered' = Archiving!Entered /\ ClosedNow' = ClosedNow /\ (\A b \in Files : Archiving!Sealed(b)' = Archiving!Sealed(b))
  BY DEF Archiving!SealLock, Archiving!At, Sound, Archivings, Filing, Archiving!live, ClosedNow,
     Archiving!Entered, Archiving!EnteredIn, Archiving!ledger, Archiving!Sealed
<1>1. /\ Moved(c) /\ archiving'[c].step \in {"idle", "list"} /\ archiving'[c].known \subseteq Archiving!Entered
      /\ archiving'[c].step = "idle" => archiving'[c] = Archiving!Idle
      /\ archiving[c].by # "close" => KeepsWork(c) /\ archiving'[c].step = "list"
      /\ archiving'[c].by \in {archiving[c].by, "nobody"}
  <2>1. CASE archiving[c].by = "close"
    <3>1. Moved(c) /\ archiving'[c] = Archiving!Idle
      BY <2>1, IdleMoves DEF Archiving!SealLock, Archiving!Done, ArchiveInv
    <3> QED BY <2>1, <3>1, IdleIsWork DEF Archiving!Idle, Archiving!Work
  <2>2. CASE archiving[c].by # "close"
    BY <2>2, ListingMoves DEF Archiving!SealLock, Archiving!Done, ArchiveInv, KeepsWork, Sound
  <2> QED BY <2>1, <2>2
<1>3. ArchiveTypes'
  BY <1>0, <1>1 DEF ArchiveInv, ArchiveTypes, Archiving!TypeOK, Moved, Archiving!live, Archiving!ledger
<1>4. FilesAgree' /\ Grown /\ Archiving!Range(registry)' = Archiving!Range(registry)
  <2>1. \A b \in readonly' : Archiving!Sealed(b)'
    BY <1>0 DEF ArchiveInv, FilesAgree, ArchiveTypes, Archiving!TypeOK
  <2>2. FilesAgree'
    BY <1>0, <2>1 DEF ArchiveInv, FilesAgree, Archiving!EnteredIn, Archiving!Sealed,
       Archiving!OneEntry, Archiving!live, Archiving!ledger
  <2> QED BY <1>0, <2>2 DEF Grown, Archiving!live, Archiving!ledger
<1>5. Sound(c)'
  BY <1>0, <1>1 DEF Sound, Archiving!At, Archivings, Filing
<1>6. Apart' /\ Counted'
  BY <1>0, <1>1, ApartStays, CountedStays DEF ArchiveInv, Archiving!SealLock, Archiving!At,
     Archiving!ledger
<1>7. c = Startup => Underway'
  BY <1>0, <1>1 DEF Underway, InHand, Archiving!At, KeepsWork, Archiving!SealLock
<1>8. \A d \in Archiving!Actors : Sound(d)
  BY DEF ArchiveInv
<1> QED BY <1>0, <1>1, <1>3, <1>4, <1>5, <1>6, <1>7, <1>8, Resumes DEF Archiving!SealLock,
   Archiving!At, Sound

LEMMA CloseStep ==
  ASSUME ArchiveInv, NEW c \in Callers, NEW p \in Filed, Archiving!Close(c, p)
  PROVE  ArchiveInv'
<1> USE CallersAreActors
<1>1. /\ Moved(c) /\ archiving'[c].step = "begin" /\ archiving'[c].by = "close" /\ archiving'[c].known = {}
      /\ archiving'[c].programme = p
  <2>1. /\ "begin" \in WorkSteps
        /\ archiving' = [archiving EXCEPT ![c] = Archiving!Work("begin", "close", p, {}, {})]
    BY DEF WorkSteps, Archivings, Archiving!Close
  <2>2. Archiving!Work("begin", "close", p, {}, {}) \in Works
    BY <2>1, WorkIsWork
  <2>3. Moved(c) /\ archiving'[c] = Archiving!Work("begin", "close", p, {}, {})
    BY <2>1, <2>2, WorkMoves DEF ArchiveInv
  <2> QED BY <2>3 DEF Archiving!Work
<1>2. archiving[c].step = "idle" /\ Archiving!Serving /\ status[p] = "active"
  BY IdleIsWork DEF Archiving!Close
<1>3. /\ UNCHANGED <<whole, Archiving!ledger, Archiving!files, outages>> /\ Archiving!Entered' = Archiving!Entered
      /\ status' = [status EXCEPT ![p] = "closed"] /\ (\A a \in Files : Archiving!Sealed(a)' = Archiving!Sealed(a))
  BY DEF Archiving!Close, Archiving!ledger, Archiving!Entered, Archiving!EnteredIn, Archiving!Sealed
<1>4. p \notin Archiving!Entered
  BY <1>2, IdleIsWork DEF ArchiveInv, Mended, Archiving!Serving
<1>5. ArchiveTypes'
  BY <1>1, <1>3 DEF ArchiveInv, ArchiveTypes, Archiving!TypeOK, Moved, Archiving!ledger, Archiving!files
<1>6. FilesAgree'
  BY <1>2, <1>3 DEF ArchiveInv, ArchiveTypes, Archiving!TypeOK, FilesAgree, Archiving!EnteredIn,
     Archiving!Sealed, Archiving!OneEntry, Archiving!ledger, Archiving!files
<1>7. Sound(c)'
  BY <1>1 DEF Sound, Archiving!At, Archivings, Filing
<1>8. ASSUME NEW d \in Archiving!Actors \ {c} PROVE Sound(d)'
  <2>1. archiving'[d] = archiving[d] /\ Sound(d)
    BY <1>1 DEF Moved, ArchiveInv
  <2>2. Archiving!At(d, "lock") => archiving[d].archive \in Files
    BY <2>1 DEF Sound, Filing, Archivings, ArchiveInv, ArchiveTypes, Archiving!TypeOK,
       Archiving!Range, Archiving!At
  <2>3. status[archiving[d].programme] = "archived" /\ Archiving!At(d, "enter") => status'[archiving[d].programme] = "archived"
    BY <1>2, <1>3, <2>1 DEF ArchiveInv, ArchiveTypes, Archiving!TypeOK, Sound, Archivings, Archiving!At
  <2> QED BY <1>3, <2>1, <2>2, <2>3 DEF Sound, Archiving!At, Archiving!ledger, Archiving!files
<1>9. Apart' /\ Counted'
  BY <1>1, <1>2, <1>3, ApartStays, CountedStays DEF ArchiveInv, Archiving!ledger
<1>10. Mended'
  <2>1. \A q \in Archiving!Entered : status'[q] = status[q]
    BY <1>3, <1>4, EnteredAreProgrammes DEF ArchiveInv, ArchiveTypes, Archiving!TypeOK
  <2> QED BY <1>1, <1>3, <2>1 DEF ArchiveInv, Mended, Moved
<1>11. Starting'
  BY <1>1, <1>2 DEF Starting, Archiving!Serving, Moved
<1> QED BY <1>5, <1>6, <1>7, <1>8, <1>9, <1>10, <1>11 DEF ArchiveInv

\* While a start repairs, nobody else is at work.
LEMMA Alone ==
  ASSUME ArchiveInv, archiving[Startup].step \in {"repair", "restore"}
  PROVE  /\ \A c \in Callers : archiving[c] = Archiving!Idle
         /\ archiving[Startup] # Archiving!Idle /\ ~Archiving!Serving /\ Underway /\ Startup \in Archiving!Actors
BY IdleIsWork, CallersAreActors DEF ArchiveInv, Starting, Archiving!Serving

\* ... and its steps keep what they do not touch.
LEMMA Repairs ==
  ASSUME ArchiveInv, archiving[Startup].step \in {"repair", "restore"}, Moved(Startup),
         UNCHANGED <<Archiving!ledger, Archiving!files, outages>>,
         ArchiveTypes', FilesAgree', Sound(Startup)', Mended', Underway',
         archiving'[Startup].step \notin {"register", "enter", "count"}
  PROVE  ArchiveInv'
<1>1. \A c \in Callers : archiving'[c] = Archiving!Idle
  BY Alone, CallersAreActors DEF Moved
<1>2. \A c \in Callers : Sound(c)'
  BY <1>1, IdleIsWork DEF Sound, Archiving!At, Archivings, Filing, Archiving!Idle, Archiving!Work
<1>3. Apart' /\ Counted'
  BY Alone, ApartStays, CountedStays DEF ArchiveInv, Archiving!ledger
<1> QED BY <1>1, <1>2, <1>3 DEF ArchiveInv, Starting, Archiving!Actors

\* A programme with an entry is held by the file that its entry names.
LEMMA DamagedIsHeld ==
  ASSUME ArchiveInv, NEW p \in Archiving!Damaged
  PROVE  p \in Filed /\ p \in Archiving!Entered /\ \E a \in Files : p \in contents[a]
<1>1. PICK a \in Files : p \in Archiving!EnteredIn(a)
  BY DEF Archiving!Damaged, Archiving!Entered
<1> QED BY <1>1, EnteredAreProgrammes DEF ArchiveInv, FilesAgree, ArchiveTypes, Archiving!Damaged

LEMMA RepairStatusStep == ArchiveInv /\ Archiving!RepairStatus => ArchiveInv'
<1> SUFFICES ASSUME ArchiveInv, Archiving!RepairStatus PROVE ArchiveInv'
  OBVIOUS
<1> PICK p \in Archiving!Damaged : status[p] # "absent" /\ status' = [status EXCEPT ![p] = "archived"]
  BY DEF Archiving!RepairStatus
<1>1. /\ UNCHANGED <<whole, Archiving!ledger, Archiving!files, archiving, outages>> /\ archiving[Startup].step = "repair"
      /\ Archiving!Entered' = Archiving!Entered
  BY DEF Archiving!RepairStatus, Archiving!At, Archiving!ledger, Archiving!Entered, Archiving!EnteredIn
<1>2. Moved(Startup)
  BY <1>1 DEF Moved, ArchiveInv, ArchiveTypes
<1>3. ArchiveTypes'
  BY <1>1, DamagedIsHeld DEF ArchiveInv, ArchiveTypes, Archiving!TypeOK, Archiving!ledger,
     Archiving!files
<1>4. FilesAgree'
  BY <1>1, DamagedIsHeld DEF ArchiveInv, ArchiveTypes, Archiving!TypeOK, FilesAgree,
     Archiving!EnteredIn, Archiving!Sealed, Archiving!OneEntry, Archiving!ledger, Archiving!files
<1>5. Sound(Startup) /\ Underway
  BY <1>1, Alone DEF ArchiveInv
<1>6. Sound(Startup)'
  BY <1>1, <1>5 DEF Sound, Archiving!At, Archivings, Filing
<1>7. Mended' /\ Underway'
  BY <1>1, <1>5 DEF Mended, Underway, Archiving!At
<1> QED BY <1>1, <1>2, <1>3, <1>4, <1>6, <1>7, Repairs

LEMMA RestoreBeginStep == ArchiveInv /\ Archiving!RestoreBegin => ArchiveInv'
<1> SUFFICES ASSUME ArchiveInv, Archiving!RestoreBegin PROVE ArchiveInv'
  OBVIOUS
<1> PICK p \in Archiving!Damaged :
      /\ status[p] = "absent"
      /\ status' = [status EXCEPT ![p] = "archived"]
      /\ archiving' = [archiving EXCEPT ![Startup].step = "restore", ![Startup].programme = p]
  BY DEF Archiving!RestoreBegin
<1>1. /\ UNCHANGED <<whole, Archiving!ledger, Archiving!files, outages>> /\ archiving[Startup].step = "repair"
      /\ Archiving!Entered' = Archiving!Entered
  BY DEF Archiving!RestoreBegin, Archiving!At, Archiving!ledger, Archiving!Entered, Archiving!EnteredIn
<1>2. /\ Moved(Startup) /\ KeepsWork(Startup) /\ archiving'[Startup].step = "restore"
      /\ archiving'[Startup].programme = p
  <2> DEFINE w == [archiving[Startup] EXCEPT !.step = "restore", !.programme = p]
  <2>1. archiving[Startup] \in Works
    BY <1>1, Alone DEF ArchiveInv, ArchiveTypes
  <2>2. /\ w \in Works /\ w.step = "restore" /\ w.programme = p
        /\ w.by = archiving[Startup].by /\ w.todo = archiving[Startup].todo /\ w.known = archiving[Startup].known
    BY <2>1, DamagedIsHeld DEF Works, WorkSteps
  <2>3. archiving' = [archiving EXCEPT ![Startup] = w]
    OBVIOUS
  <2> HIDE DEF w
  <2>4. Moved(Startup) /\ archiving'[Startup] = w
    BY <1>1, <2>2, <2>3, Alone DEF Moved, ArchiveInv, ArchiveTypes
  <2> QED BY <2>2, <2>4 DEF KeepsWork
<1>3. ArchiveTypes'
  BY <1>1, <1>2, DamagedIsHeld DEF ArchiveInv, ArchiveTypes, Archiving!TypeOK, Moved,
     Archiving!ledger, Archiving!files
<1>4. FilesAgree'
  BY <1>1, DamagedIsHeld DEF ArchiveInv, ArchiveTypes, Archiving!TypeOK, FilesAgree,
     Archiving!EnteredIn, Archiving!Sealed, Archiving!OneEntry, Archiving!ledger, Archiving!files
<1>5. Sound(Startup) /\ Underway
  BY <1>1, Alone DEF ArchiveInv
<1>6. Sound(Startup)'
  BY <1>1, <1>2, <1>5, DamagedIsHeld DEF Sound, Archiving!At, Archivings, Filing, KeepsWork,
     Archiving!Actors
<1>7. Mended' /\ Underway'
  BY <1>1, <1>2, <1>5 DEF Mended, Underway, Archiving!At, KeepsWork
<1> QED BY <1>1, <1>2, <1>3, <1>4, <1>6, <1>7, Repairs

LEMMA BootIsWork ==
  Archiving!Boot \in Works /\ Archiving!Boot.step = "repair" /\ Archiving!Boot.by = "startup" /\ Archiving!Boot.known = {}
<1>1. "repair" \in WorkSteps
  BY DEF WorkSteps
<1> QED BY <1>1, WorkIsWork DEF Archiving!Boot

LEMMA RestoreRestStep == ArchiveInv /\ Archiving!RestoreRest => ArchiveInv'
<1> SUFFICES ASSUME ArchiveInv, Archiving!RestoreRest PROVE ArchiveInv'
  OBVIOUS
<1>1. /\ UNCHANGED <<status, Archiving!ledger, Archiving!files, outages>> /\ archiving[Startup].step = "restore"
      /\ Archiving!Entered' = Archiving!Entered /\ archiving' = [archiving EXCEPT ![Startup] = Archiving!Boot]
  BY DEF Archiving!RestoreRest, Archiving!At, Archiving!ledger, Archiving!Entered, Archiving!EnteredIn
<1>2. Moved(Startup) /\ archiving'[Startup] = Archiving!Boot
  BY <1>1, Alone, BootIsWork, WorkMoves DEF ArchiveInv
<1>3. whole \subseteq whole' /\ whole' \subseteq Filed
  BY DEF Archiving!RestoreRest, ArchiveInv, ArchiveTypes, Archiving!TypeOK
<1>4. ArchiveTypes'
  BY <1>1, <1>2, <1>3 DEF ArchiveInv, ArchiveTypes, Archiving!TypeOK, Moved, Archiving!ledger,
     Archiving!files
<1>5. FilesAgree'
  BY <1>1, <1>3 DEF ArchiveInv, ArchiveTypes, Archiving!TypeOK, FilesAgree, Archiving!EnteredIn,
     Archiving!Sealed, Archiving!OneEntry, Archiving!ledger, Archiving!files
<1>6. Sound(Startup)'
  BY <1>2, BootIsWork, CallersAreActors DEF Sound, Archiving!At, Archivings, Filing
<1>7. Mended' /\ Underway'
  BY <1>2, BootIsWork DEF Mended, Underway, Archiving!At
<1> QED BY <1>1, <1>2, <1>4, <1>5, <1>6, <1>7, BootIsWork, Repairs

LEMMA StartupScanStep == ArchiveInv /\ Archiving!StartupScan => ArchiveInv'
<1> SUFFICES ASSUME ArchiveInv, Archiving!StartupScan PROVE ArchiveInv'
  OBVIOUS
<1>1. /\ UNCHANGED <<Archiving!live, Archiving!ledger, Archiving!files, outages>> /\ archiving[Startup].step = "repair"
      /\ Archiving!Entered' = Archiving!Entered /\ ClosedNow' = ClosedNow /\ ClosedNow \in SUBSET Filed /\ Archiving!Damaged = {}
      /\ archiving' = [archiving EXCEPT ![Startup] = Archiving!Work("known", "startup", Nobody, ClosedNow, {})]
  BY DEF Archiving!StartupScan, Archiving!At, Archiving!ledger, Archiving!live, Archiving!Entered,
     Archiving!EnteredIn, ClosedNow
<1>2. /\ Moved(Startup) /\ archiving'[Startup].step = "known" /\ archiving'[Startup].by = "startup"
      /\ archiving'[Startup].todo = ClosedNow /\ archiving'[Startup].known = {}
  <2>1. "known" \in WorkSteps
    BY DEF WorkSteps
  <2>2. Archiving!Work("known", "startup", Nobody, ClosedNow, {}) \in Works
    BY <1>1, <2>1, WorkIsWork
  <2>3. Moved(Startup) /\ archiving'[Startup] = Archiving!Work("known", "startup", Nobody, ClosedNow, {})
    BY <1>1, <2>2, Alone, WorkMoves DEF ArchiveInv
  <2> QED BY <2>3 DEF Archiving!Work
<1>3. ArchiveTypes'
  BY <1>1, <1>2 DEF ArchiveInv, ArchiveTypes, Archiving!TypeOK, Moved, Archiving!live,
     Archiving!ledger, Archiving!files
<1>4. FilesAgree'
  BY <1>1 DEF ArchiveInv, FilesAgree, Archiving!EnteredIn, Archiving!Sealed, Archiving!OneEntry,
     Archiving!live, Archiving!ledger, Archiving!files
<1>5. Sound(Startup)'
  BY <1>2, CallersAreActors DEF Sound, Archiving!At, Archivings, Filing
<1>6. Mended' /\ Underway'
  BY <1>1, <1>2 DEF Mended, Underway, Archiving!At, Archiving!Damaged, InHand, Archiving!live
<1> QED BY <1>1, <1>2, <1>3, <1>4, <1>5, <1>6, Repairs DEF Archiving!live

LEMMA ArchiveCrashStep == ArchiveInv /\ Archiving!Crash => ArchiveInv'
<1> SUFFICES ASSUME ArchiveInv, Archiving!Crash PROVE ArchiveInv'
  OBVIOUS
<1>1. /\ UNCHANGED <<Archiving!live, Archiving!ledger, Archiving!files>> /\ outages' = outages + 1
      /\ archiving' = [c \in Archiving!Actors |-> IF c = Startup THEN Archiving!Boot ELSE Archiving!Idle]
  BY DEF Archiving!Crash
<1>2. outages' # 0 /\ outages' \in Nat
  BY <1>1 DEF ArchiveInv, ArchiveTypes, Archiving!TypeOK
<1>3. /\ archiving' \in [Archiving!Actors -> Works] /\ archiving'[Startup] = Archiving!Boot /\ \A c \in Callers : archiving'[c] = Archiving!Idle
  BY <1>1, BootIsWork, IdleIsWork, CallersAreActors
<1>4. ArchiveTypes'
  BY <1>1, <1>2, <1>3 DEF ArchiveInv, ArchiveTypes, Archiving!TypeOK, Archiving!live,
     Archiving!ledger, Archiving!files
<1>5. FilesAgree'
  BY <1>1 DEF ArchiveInv, FilesAgree, Archiving!EnteredIn, Archiving!Sealed, Archiving!OneEntry,
     Archiving!live, Archiving!ledger, Archiving!files
<1>6. \A c \in Archiving!Actors : Sound(c)'
  <2>1. \A c \in Callers : Sound(c)'
    BY <1>3, IdleIsWork DEF Sound, Archiving!At, Archivings, Filing, Archiving!Idle, Archiving!Work
  <2>2. Sound(Startup)'
    BY <1>3, BootIsWork, CallersAreActors DEF Sound, Archiving!At, Archivings, Filing
  <2> QED BY <2>1, <2>2 DEF Archiving!Actors
<1>7. Apart'
  BY <1>3, BootIsWork, IdleIsWork DEF Apart, Archiving!At, Archiving!Actors
<1>8. Counted' /\ Mended' /\ Starting'
  BY <1>2, <1>3, BootIsWork DEF Counted, Mended, Starting, Underway, Archiving!At
<1> QED BY <1>4, <1>5, <1>6, <1>7, <1>8 DEF ArchiveInv

LEMMA ArchiveBegins == Archiving!Init => ArchiveInv
<1> SUFFICES ASSUME Archiving!Init PROVE ArchiveInv
  OBVIOUS
<1>1. PICK old \in Archiving!Inherited, a \in Files, was \in {"absent", "active", "closed"} :
    /\ status = [p \in Filed |-> IF p \in Archiving!Range(old) THEN was ELSE "active"]
    /\ whole = IF was = "absent" THEN Filed \ Archiving!Range(old) ELSE Filed
    /\ registry = IF old = <<>> THEN <<>> ELSE <<a>>
    /\ entries = [b \in Files |-> IF b = a THEN old ELSE <<>>]
    /\ contents = [b \in Files |-> IF b = a THEN Archiving!Range(old) ELSE {}]
    /\ filed = [b \in Files |-> IF b = a THEN Len(old) ELSE 0]
    /\ sealHash = [b \in Files |->
                     IF filed[b] >= BatchSize THEN contents[b] ELSE Nobody]
    /\ readonly = {b \in Files : Archiving!Sealed(b)}
    /\ archiving = [c \in Archiving!Actors |-> IF c = Startup THEN Archiving!Boot ELSE Archiving!Idle]
    /\ outages = 0
  BY DEF Archiving!Init
<1>2. old \in Seq(Filed) /\ Archiving!IsInjective(old) /\ Archiving!Range(old) \subseteq Filed
      /\ (old = <<>> => Archiving!Range(old) = {} /\ Len(old) = 0) /\ Len(old) \in Nat
  <2>1. PICK n \in 0..MaxInherited : old \in [1..n -> Filed]
    BY DEF Archiving!Inherited
  <2>2. old \in Seq(Filed) /\ Archiving!IsInjective(old)
    BY <2>1, ArchivingAssumption DEF Archiving!Inherited, Archiving!BoundsAssumption
  <2> QED BY <2>2 DEF Archiving!Range
<1>3. /\ <<>> \in Seq(Filed) /\ Archiving!Range(<<>>) = {} /\ Archiving!IsInjective(<<>>) /\ Len(<<>>) = 0
      /\ <<a>> \in Seq(Files) /\ Archiving!Range(<<a>>) = {a} /\ Archiving!IsInjective(<<a>>) /\ <<>> \in Seq(Files)
  BY DEF Archiving!Range, Archiving!IsInjective
<1>4. /\ archiving \in [Archiving!Actors -> Works] /\ archiving[Startup] = Archiving!Boot /\ \A c \in Callers : archiving[c] = Archiving!Idle
  BY <1>1, BootIsWork, IdleIsWork, CallersAreActors
<1>5. Archiving!TypeOK
  <2>1. status \in [Filed -> {"absent", "active", "closed", "archived"}] /\ whole \subseteq Filed
    BY <1>1
  <2>2. registry \in Seq(Files) /\ Archiving!IsInjective(registry)
    BY <1>1, <1>3
  <2>3. filed \in [Files -> Nat] /\ entries \in [Files -> Seq(Filed)]
    BY <1>1, <1>2, <1>3
  <2>4. contents \in [Files -> SUBSET Filed]
    BY <1>1, <1>2
  <2>5. sealHash \in [Files -> {Nobody} \cup SUBSET Filed]
    BY <1>1, <2>4
  <2> QED BY <1>1, <2>1, <2>2, <2>3, <2>4, <2>5 DEF Archiving!TypeOK
<1>6. \A b \in Files : Archiving!Sealed(b) => b = a /\ old # <<>>
  BY <1>1, <1>2, ArchivingAssumption DEF Archiving!Sealed, Archiving!BoundsAssumption
<1>7. FilesAgree
  <2>1. \A b \in Files : contents[b] # {} \/ Archiving!Sealed(b) => b \in Archiving!Range(registry)
    BY <1>1, <1>2, <1>3, <1>6
  <2>2. \A b \in Files : Archiving!EnteredIn(b) \subseteq contents[b] /\ Archiving!IsInjective(entries[b])
    BY <1>1, <1>2, <1>3 DEF Archiving!EnteredIn
  <2>3. \A b, d \in Files : b # d => Archiving!EnteredIn(b) \cap Archiving!EnteredIn(d) = {}
    BY <1>1, <1>3 DEF Archiving!EnteredIn
  <2>4. /\ \A p \in Filed : status[p] # "archived"
        /\ \A p \in Filed : status[p] \in {"active", "closed"} => p \in whole
        /\ \A b \in readonly : Archiving!Sealed(b)
    BY <1>1
  <2> QED BY <2>1, <2>2, <2>3, <2>4 DEF FilesAgree, Archiving!OneEntry
<1>8. \A c \in Archiving!Actors : Sound(c)
  BY <1>4, BootIsWork, IdleIsWork, CallersAreActors DEF Sound, Archiving!At, Archivings, Filing,
     Archiving!Actors, Archiving!Idle, Archiving!Work
<1>9. Apart
  BY <1>4, BootIsWork, IdleIsWork DEF Apart, Archiving!At, Archiving!Actors
<1>10. Counted
  <2>1. \A b \in Files : Counting(b) = {}
    BY <1>4, BootIsWork, IdleIsWork DEF Counting, Archiving!At, Archiving!Actors
  <2>2. ASSUME NEW b \in Files PROVE Len(entries[b]) = filed[b] + Cardinality(Counting(b))
    <3>1. Cardinality(Counting(b)) = 0
      BY <2>1, FS_EmptySet
    <3>2. Len(entries[b]) = filed[b] /\ filed[b] \in Nat
      BY <1>1, <1>2, <1>3
    <3> QED BY <3>1, <3>2
  <2> QED BY <2>2 DEF Counted
<1>11. Mended /\ Starting
  BY <1>4, BootIsWork DEF Mended, Starting, Underway, Archiving!At
<1> QED BY <1>4, <1>5, <1>7, <1>8, <1>9, <1>10, <1>11 DEF ArchiveInv, ArchiveTypes

LEMMA ArchiveSteadiness == ArchiveInv /\ [Archiving!Next]_(Archiving!vars) => ArchiveInv'
<1> SUFFICES ASSUME ArchiveInv, [Archiving!Next]_(Archiving!vars) PROVE ArchiveInv'
  OBVIOUS
<1>1. CASE \E c \in Callers : Archiving!PendingScan(c) \/ \E p \in Filed : Archiving!Close(c, p)
  BY <1>1, PendingScanStep, CloseStep
<1>2. CASE \E c \in Archiving!Actors : Archiving!Archiving(c)
  BY <1>2, PendingKnownStep, PendingEndStep, PendingTakeStep, PendingMarkStep, ArchiveBeginStep,
     ArchiveFindStep, ArchiveRegisterStep, ArchiveCopyStep, ArchiveVerifyStep, ArchiveMarkStep,
     ArchiveEnterStep, ArchiveCountStep, ArchiveFullStep, SealHashStep, SealRecordStep, SealLockStep
     DEF Archiving!Archiving
<1>3. CASE Archiving!RepairStatus \/ Archiving!RestoreBegin \/ Archiving!RestoreRest \/ Archiving!StartupScan \/ Archiving!Crash
  BY <1>3, RepairStatusStep, RestoreBeginStep, RestoreRestStep, StartupScanStep, ArchiveCrashStep
<1>4. CASE UNCHANGED Archiving!vars
  <2>1. UNCHANGED <<status, whole, registry, filed, sealHash, entries, contents, readonly, archiving, outages>>
    BY <1>4 DEF Archiving!vars, Archiving!live, Archiving!ledger, Archiving!files
  <2>2. ArchiveTypes' /\ FilesAgree'
    BY <2>1 DEF ArchiveInv, ArchiveTypes, Archiving!TypeOK, FilesAgree, Archiving!EnteredIn,
       Archiving!Sealed, Archiving!OneEntry
  <2>3. Archiving!Entered' = Archiving!Entered /\ ClosedNow' = ClosedNow /\ (\A a \in Files : Counting(a)' = Counting(a))
    BY <2>1 DEF Archiving!Entered, Archiving!EnteredIn, ClosedNow, Counting, Archiving!At
  <2>4. \A c \in Archiving!Actors : Sound(c)'
    BY <2>1, <2>3 DEF ArchiveInv, Sound, Archiving!At, Archiving!Sealed
  <2>5. Apart' /\ Counted' /\ Mended' /\ Starting'
    BY <2>1, <2>3 DEF ArchiveInv, Apart, Archiving!At, Counted, Mended, Starting,
       Archiving!Serving, Underway, InHand
  <2> QED BY <2>2, <2>4, <2>5 DEF ArchiveInv
<1> QED BY <1>1, <1>2, <1>3, <1>4 DEF Archiving!Next


LEMMA ArchiveInvCopies == ArchiveInv => Archiving!ArchivedIsCopied
<1> SUFFICES ASSUME ArchiveInv PROVE Archiving!ArchivedIsCopied
  OBVIOUS
<1>1. ASSUME outages = 0, \A c \in Archiving!Actors : archiving[c] = Archiving!Idle, NEW a \in Files, ~Archiving!Sealed(a)
      PROVE  Archiving!VerifyArchive(a)
  <2>1. Counting(a) = {}
    BY <1>1, IdleIsWork DEF Counting, Archiving!At
  <2>2. filed[a] \in Nat
    BY DEF ArchiveInv, ArchiveTypes, Archiving!TypeOK
  <2>3. Cardinality(Counting(a)) = 0
    BY <2>1, FS_EmptySet
  <2>4. Len(entries[a]) = filed[a] + Cardinality(Counting(a))
    BY <1>1 DEF ArchiveInv, Counted
  <2> QED BY <1>1, <2>2, <2>3, <2>4 DEF Archiving!VerifyArchive
<1> QED BY <1>1 DEF Archiving!ArchivedIsCopied, Archiving!ArchivedProgramme, ArchiveInv, FilesAgree

\* No archiving of a start fails: the only way from its work to serving is to
\* find nothing left in its list.
LEMMA StartEndsItsList ==
  ASSUME ArchiveInv, ~Archiving!Serving, Archiving!Archiving(Startup), archiving'[Startup] = Archiving!Idle
  PROVE  Archiving!PendingEnd(Startup)
<1>1. /\ Underway /\ archiving[Startup].by = "startup" /\ archiving[Startup] \in Works
      /\ Startup \in Archiving!Actors /\ archiving \in [Archiving!Actors -> Works] /\ ArchiveTypes
  BY CallersAreActors DEF ArchiveInv, Starting, Underway, ArchiveTypes
<1>2. ASSUME NEW t \in WorkSteps \ {"idle"} PROVE ~Archiving!Goto(Startup, t)
  BY <1>1, <1>2, WorkGoes, IdleIsWork
<1>3. ~Archiving!Done(Startup)
  BY <1>1, ListingMoves, IdleIsWork DEF Archiving!Done
<1>4. {"find", "copy", "register", "verify", "mark", "enter", "count", "full", "hash", "seal", "lock",
       "list", "known", "begin"} \subseteq WorkSteps \ {"idle"}
  BY DEF WorkSteps, Archivings
<1>5. ~Archiving!PendingKnown(Startup) /\ ~Archiving!PendingTake(Startup)
  BY <1>1, IdleIsWork DEF Archiving!PendingKnown, Archiving!PendingTake, Archiving!Work
<1>6. ~Archiving!PendingMark(Startup)
  <2> SUFFICES ASSUME NEW p,
                      archiving' = [archiving EXCEPT ![Startup] = [Archiving!Listing(Startup) EXCEPT !.todo = @ \ {p}]]
               PROVE  FALSE
    BY DEF Archiving!PendingMark
  <2>1. Archiving!Listing(Startup) \in Works /\ Archiving!Listing(Startup).step = "list"
    BY <1>1, ListingIsWork
  <2>2. archiving'[Startup].step = "list"
    BY <1>1, <2>1 DEF Works
  <2> QED BY <2>2, IdleIsWork
<1>7. ~Archiving!ArchiveBegin(Startup)
  BY <1>1, <1>2, <1>4 DEF Archiving!ArchiveBegin, Underway, Archiving!At, InHand, ClosedNow
<1>8. ~Archiving!ArchiveFind(Startup) /\ ~Archiving!SealHash(Startup)
  <2>1. ASSUME NEW a, NEW t \in {"copy", "register"},
               archiving' = [archiving EXCEPT ![Startup].step = t, ![Startup].archive = a]
        PROVE  FALSE
    <3>1. archiving'[Startup].step = t
      BY <1>1, <2>1 DEF Works
    <3> QED BY <3>1, IdleIsWork
  <2>2. ~Archiving!SealHash(Startup)
    <3> SUFFICES ASSUME NEW a, archiving' = [archiving EXCEPT ![Startup].step = "seal", ![Startup].hash = a]
                 PROVE  FALSE
      BY DEF Archiving!SealHash
    <3>1. archiving'[Startup].step = "seal"
      BY <1>1 DEF Works
    <3> QED BY <3>1, IdleIsWork
  <2> QED BY <2>1, <2>2 DEF Archiving!ArchiveFind
<1>9. ~Archiving!ArchiveCopy(Startup) /\ ~Archiving!ArchiveVerify(Startup)
  BY <1>1, <1>2, <1>4 DEF Archiving!ArchiveCopy, Archiving!ArchiveVerify, Underway, Archiving!At,
     Archiving!Verified
<1>10. ~Archiving!ArchiveMark(Startup)
  BY <1>1, <1>2, <1>4 DEF Archiving!ArchiveMark, Underway, Archiving!At, InHand, ClosedNow
<1>11. /\ ~Archiving!ArchiveRegister(Startup) /\ ~Archiving!ArchiveEnter(Startup) /\ ~Archiving!ArchiveCount(Startup)
       /\ ~Archiving!ArchiveFull(Startup) /\ ~Archiving!SealRecord(Startup) /\ ~Archiving!SealLock(Startup)
  BY <1>2, <1>3, <1>4 DEF Archiving!ArchiveRegister, Archiving!ArchiveEnter,
     Archiving!ArchiveCount, Archiving!ArchiveFull, Archiving!SealRecord, Archiving!SealLock
<1> QED BY <1>5, <1>6, <1>7, <1>8, <1>9, <1>10, <1>11 DEF Archiving!Archiving

LEMMA StartHasArchived ==
  ArchiveInv /\ [Archiving!Next]_(Archiving!vars) =>
    (~Archiving!Serving /\ Archiving!Serving' =>
       \A p \in Filed :
         /\ status'[p] # "closed"
         /\ p \in Archiving!Entered' => status'[p] = "archived")
<1> SUFFICES ASSUME ArchiveInv, [Archiving!Next]_(Archiving!vars), ~Archiving!Serving, Archiving!Serving', NEW p \in Filed
             PROVE  status'[p] # "closed" /\ (p \in Archiving!Entered' => status'[p] = "archived")
  OBVIOUS
<1>1. ArchiveInv'
  BY ArchiveSteadiness
<1>2. p \in Archiving!Entered' => status'[p] = "archived"
  BY <1>1, IdleIsWork DEF ArchiveInv, Mended, Archiving!Serving
<1>3. status'[p] # "closed"
  <2>1. Underway /\ archiving[Startup] # Archiving!Idle /\ archiving'[Startup] = Archiving!Idle
    BY DEF ArchiveInv, Starting, Archiving!Serving
  <2>2. \A c \in Callers : archiving[c] = Archiving!Idle
    BY DEF ArchiveInv, Starting
  <2>3. ~UNCHANGED Archiving!vars
    BY <2>1 DEF Archiving!vars
  <2>4. ~Archiving!Crash
    BY <2>1, CallersAreActors, BootIsWork, IdleIsWork DEF Archiving!Crash
  <2>5. ~(\E c \in Callers : Archiving!PendingScan(c) \/ \E q \in Filed : Archiving!Close(c, q))
    BY DEF Archiving!PendingScan, Archiving!Close
  <2>6. ~Archiving!RepairStatus /\ ~Archiving!RestoreBegin /\ ~Archiving!RestoreRest /\ ~Archiving!StartupScan
    <3>1. Startup \in Archiving!Actors /\ archiving \in [Archiving!Actors -> Works] /\ archiving[Startup] \in Works
      BY CallersAreActors DEF ArchiveInv, ArchiveTypes
    <3>2. ~Archiving!RepairStatus /\ ~Archiving!RestoreRest
      BY <2>1, <3>1, BootIsWork, IdleIsWork DEF Archiving!RepairStatus, Archiving!RestoreRest
    <3>3. ~Archiving!RestoreBegin /\ ~Archiving!StartupScan
      BY <2>1, <3>1, IdleIsWork DEF Archiving!RestoreBegin, Archiving!StartupScan, Archiving!Work, Works
    <3> QED BY <3>2, <3>3
  <2>7. \A c \in Callers : ~Archiving!Archiving(c)
    BY <2>2, IdleIsWork DEF Archiving!Archiving, Archiving!PendingKnown, Archiving!PendingEnd,
       Archiving!PendingTake, Archiving!PendingMark, Archiving!ArchiveBegin,
       Archiving!ArchiveFind, Archiving!ArchiveRegister, Archiving!ArchiveCopy, Archiving!ArchiveVerify, Archiving!ArchiveMark, Archiving!ArchiveEnter,
       Archiving!ArchiveCount, Archiving!ArchiveFull, Archiving!SealHash, Archiving!SealRecord, Archiving!SealLock, Archiving!At
  <2>8. Archiving!PendingEnd(Startup)
    BY <2>1, <2>3, <2>4, <2>5, <2>6, <2>7, StartEndsItsList DEF Archiving!Next, Archiving!Actors
  <2>9. ClosedNow = {} /\ status' = status
    BY <2>1, <2>8 DEF Archiving!PendingEnd, Archiving!At, Underway, InHand, Archiving!live
  <2> QED BY <2>9 DEF ClosedNow
<1> QED BY <1>2, <1>3

-----------------------------------------------------------------------------
(***************************************************************************)
(* The upgrade of a database.  What was accepted is in a table or in its   *)
(* copy, on disk and over the connection (RowsKept); a transaction is open *)
(* only where a server's order of work lets a statement open it            *)
(* (OpenIsExpected); the table that is rebuilt is as far as the step says  *)
(* (RebuildStage); and what is no longer due has been done (Upgraded).     *)
(***************************************************************************)
TableKinds == [shape : {"none", "legacy", "current"}, rows : SUBSET Rows, copy : {Nobody} \cup SUBSET Rows]
Databases == [table : [Upgrade!Tables -> TableKinds], columns : SUBSET Columns,
              stamp : {"closed_at", "abandoned_at"}, edge : {"external", "internal"}, row : Upgrade!Written]
RebuildSteps == {"create", "copy", "drop", "rename", "swapped"}

\* What is left of a start's work.
WorkLists ==
  [episteme |-> {Upgrade!EpistemeOrder, <<"columns", "programmes">>, <<"programmes">>, <<>>},
   zetesis |-> {Upgrade!ZetesisOrder, <<"findings", "stamps", "columns", "schema">>,
                <<"stamps", "columns", "schema">>, <<"columns", "schema">>, <<"schema">>, <<>>},
   arete |-> {Upgrade!AreteOrder, <<"columns">>, <<>>},
   anamnesis |-> {Upgrade!AnamnesisOrder, <<"columns", "claims", "commit", "edges">>,
                  <<"claims", "commit", "edges">>, <<"commit", "edges">>, <<"edges">>, <<>>}]
Among(what, l) == \E i \in 1..Len(l) : l[i] = what
Due(what) == Among(what, left)

UpgradeTypes ==
  /\ db \in Databases /\ disk \in Databases
  /\ open \in BOOLEAN /\ server \in Upgrade!Servers /\ left \in WorkLists[server]
  /\ step \in {"down", "start", "serving"} \cup RebuildSteps
  /\ seen \in SUBSET Columns
  /\ accepted \in [Upgrade!Tables -> SUBSET Rows]

CopyIn(d, t) == IF d.table[t].copy = Nobody THEN {} ELSE d.table[t].copy
RowsKept(d) == \A t \in Upgrade!Tables : accepted[t] \subseteq d.table[t].rows \cup CopyIn(d, t)

OpenIsExpected ==
  /\ ~open => disk = db
  /\ open => \/ server = "zetesis" /\ step = "start" /\ left = <<"columns", "schema">>
             \/ /\ server = "anamnesis" /\ step \in {"drop", "rename", "swapped"}
                /\ left = <<"claims", "commit", "edges">>
             \/ server = "anamnesis" /\ step = "start" /\ left = <<"commit", "edges">>

RebuildStage ==
  /\ step \in {"down", "serving"} => left = <<>>
  /\ step \in RebuildSteps =>
       /\ left # <<>> /\ Head(left) \in Upgrade!Mine
       /\ step = "copy" => db.table[Head(left)].copy = {}
       /\ step \in {"drop", "rename"} =>
            db.table[Head(left)].copy # Nobody /\ accepted[Head(left)] \subseteq db.table[Head(left)].copy
       /\ step = "swapped" => db.table[Head(left)].shape = "current"

Upgraded ==
  step # "down" =>
    /\ seen \subseteq db.columns
    /\ ~Due("columns") => db.columns = Columns
    /\ \A t \in Upgrade!Mine :
         /\ ~Due(t) => db.table[t].shape # "legacy"
         /\ ~Due("schema") /\ db.table[t].shape = "none" => step = "rename" /\ Head(left) = t
    /\ server = "episteme" /\ ~Due("programmes") => db.row = Upgrade!Right
    /\ server = "zetesis" /\ ~Due("stamps") => db.stamp = "abandoned_at"
    /\ server = "anamnesis" /\ ~Due("edges") => db.edge = "internal"

RowRight == server # "episteme" => db.row = Upgrade!Right /\ disk.row = Upgrade!Right

UpgradeInv == UpgradeTypes /\ RowsKept(db) /\ RowsKept(disk) /\ OpenIsExpected /\ RebuildStage /\ Upgraded /\ RowRight

-----------------------------------------------------------------------------
LEMMA RestOfFive ==
  ASSUME NEW a, NEW b, NEW c, NEW d, NEW e, a \notin {b, c, d, e}
  PROVE  /\ Tail(<<a, b, c, d, e>>) = <<b, c, d, e>>
         /\ \A w : Among(w, <<a, b, c, d, e>>) <=> w = Head(<<a, b, c, d, e>>) \/ Among(w, <<b, c, d, e>>)
         /\ ~Among(Head(<<a, b, c, d, e>>), <<b, c, d, e>>)
BY DEF Among

LEMMA RestOfFour ==
  ASSUME NEW a, NEW b, NEW c, NEW d, a \notin {b, c, d}
  PROVE  /\ Tail(<<a, b, c, d>>) = <<b, c, d>>
         /\ \A w : Among(w, <<a, b, c, d>>) <=> w = Head(<<a, b, c, d>>) \/ Among(w, <<b, c, d>>)
         /\ ~Among(Head(<<a, b, c, d>>), <<b, c, d>>)
BY DEF Among

LEMMA RestOfThree ==
  ASSUME NEW a, NEW b, NEW c, a \notin {b, c}
  PROVE  /\ Tail(<<a, b, c>>) = <<b, c>>
         /\ \A w : Among(w, <<a, b, c>>) <=> w = Head(<<a, b, c>>) \/ Among(w, <<b, c>>)
         /\ ~Among(Head(<<a, b, c>>), <<b, c>>)
BY DEF Among

LEMMA RestOfTwo ==
  ASSUME NEW a, NEW b, a # b
  PROVE  /\ Tail(<<a, b>>) = <<b>>
         /\ \A w : Among(w, <<a, b>>) <=> w = Head(<<a, b>>) \/ Among(w, <<b>>)
         /\ ~Among(Head(<<a, b>>), <<b>>)
<1>1. \A w : Among(w, <<a, b>>) <=> w = a \/ w = b
  BY DEF Among
<1>2. \A w : Among(w, <<b>>) <=> w = b
  BY DEF Among
<1>3. Head(<<a, b>>) = a /\ Tail(<<a, b>>) = <<b>>
  OBVIOUS
<1> QED BY <1>1, <1>2, <1>3

\* The first of what is left, and what is left after it.
Shrinks(l) ==
  /\ Tail(l) \in WorkLists[server]
  /\ \A w : Among(w, l) <=> w = Head(l) \/ Among(w, Tail(l))
  /\ ~Among(Head(l), Tail(l))
LEMMA RestOfList ==
  ASSUME server \in Upgrade!Servers, NEW l \in WorkLists[server], l # <<>>
  PROVE  Shrinks(l)
<1> USE DEF Shrinks
<1>1. CASE server = "episteme"
  <2>0. WorkLists[server] = {<<"schema", "columns", "programmes">>,
                       <<"columns", "programmes">>,
                       <<"programmes">>,
                       <<>>}
    BY <1>1 DEF WorkLists, Upgrade!EpistemeOrder
  <2>1. Shrinks(<<"schema", "columns", "programmes">>)
    <3>1. Tail(<<"schema", "columns", "programmes">>) = <<"columns", "programmes">> /\ <<"columns", "programmes">> \in WorkLists[server]
      BY <2>0
    <3>2. "schema" \notin {"columns", "programmes"}
      OBVIOUS
    <3> QED BY ONLY <3>1, <3>2, RestOfThree DEF Shrinks
  <2>2. Shrinks(<<"columns", "programmes">>)
    <3>1. Tail(<<"columns", "programmes">>) = <<"programmes">> /\ <<"programmes">> \in WorkLists[server]
      BY <2>0
    <3>2. "columns" \notin {"programmes"}
      OBVIOUS
    <3> QED BY ONLY <3>1, <3>2, RestOfTwo DEF Shrinks
  <2>3. Shrinks(<<"programmes">>)
    <3>1. Tail(<<"programmes">>) = <<>> /\ <<>> \in WorkLists[server]
      BY <2>0
    <3> QED BY <3>1 DEF Among
  <2> HIDE DEF Shrinks
  <2> QED BY <2>0, <2>1, <2>2, <2>3
<1>2. CASE server = "zetesis"
  <2>0. WorkLists[server] = {<<"evidence_refs", "findings", "stamps", "columns", "schema">>,
                       <<"findings", "stamps", "columns", "schema">>,
                       <<"stamps", "columns", "schema">>,
                       <<"columns", "schema">>,
                       <<"schema">>,
                       <<>>}
    BY <1>2 DEF WorkLists, Upgrade!ZetesisOrder
  <2>1. Shrinks(<<"evidence_refs", "findings", "stamps", "columns", "schema">>)
    <3>1. Tail(<<"evidence_refs", "findings", "stamps", "columns", "schema">>) = <<"findings", "stamps", "columns", "schema">> /\ <<"findings", "stamps", "columns", "schema">> \in WorkLists[server]
      BY <2>0
    <3>2. "evidence_refs" \notin {"findings", "stamps", "columns", "schema"}
      OBVIOUS
    <3> QED BY ONLY <3>1, <3>2, RestOfFive DEF Shrinks
  <2>2. Shrinks(<<"findings", "stamps", "columns", "schema">>)
    <3>1. Tail(<<"findings", "stamps", "columns", "schema">>) = <<"stamps", "columns", "schema">> /\ <<"stamps", "columns", "schema">> \in WorkLists[server]
      BY <2>0
    <3>2. "findings" \notin {"stamps", "columns", "schema"}
      OBVIOUS
    <3> QED BY ONLY <3>1, <3>2, RestOfFour DEF Shrinks
  <2>3. Shrinks(<<"stamps", "columns", "schema">>)
    <3>1. Tail(<<"stamps", "columns", "schema">>) = <<"columns", "schema">> /\ <<"columns", "schema">> \in WorkLists[server]
      BY <2>0
    <3>2. "stamps" \notin {"columns", "schema"}
      OBVIOUS
    <3> QED BY ONLY <3>1, <3>2, RestOfThree DEF Shrinks
  <2>4. Shrinks(<<"columns", "schema">>)
    <3>1. Tail(<<"columns", "schema">>) = <<"schema">> /\ <<"schema">> \in WorkLists[server]
      BY <2>0
    <3>2. "columns" \notin {"schema"}
      OBVIOUS
    <3> QED BY ONLY <3>1, <3>2, RestOfTwo DEF Shrinks
  <2>5. Shrinks(<<"schema">>)
    <3>1. Tail(<<"schema">>) = <<>> /\ <<>> \in WorkLists[server]
      BY <2>0
    <3> QED BY <3>1 DEF Among
  <2> HIDE DEF Shrinks
  <2> QED BY <2>0, <2>1, <2>2, <2>3, <2>4, <2>5
<1>3. CASE server = "arete"
  <2>0. WorkLists[server] = {<<"schema", "columns">>,
                       <<"columns">>,
                       <<>>}
    BY <1>3 DEF WorkLists, Upgrade!AreteOrder
  <2>1. Shrinks(<<"schema", "columns">>)
    <3>1. Tail(<<"schema", "columns">>) = <<"columns">> /\ <<"columns">> \in WorkLists[server]
      BY <2>0
    <3>2. "schema" \notin {"columns"}
      OBVIOUS
    <3> QED BY ONLY <3>1, <3>2, RestOfTwo DEF Shrinks
  <2>2. Shrinks(<<"columns">>)
    <3>1. Tail(<<"columns">>) = <<>> /\ <<>> \in WorkLists[server]
      BY <2>0
    <3> QED BY <3>1 DEF Among
  <2> HIDE DEF Shrinks
  <2> QED BY <2>0, <2>1, <2>2
<1>4. CASE server = "anamnesis"
  <2>0. WorkLists[server] = {<<"schema", "columns", "claims", "commit", "edges">>,
                       <<"columns", "claims", "commit", "edges">>,
                       <<"claims", "commit", "edges">>,
                       <<"commit", "edges">>,
                       <<"edges">>,
                       <<>>}
    BY <1>4 DEF WorkLists, Upgrade!AnamnesisOrder
  <2>1. Shrinks(<<"schema", "columns", "claims", "commit", "edges">>)
    <3>1. Tail(<<"schema", "columns", "claims", "commit", "edges">>) = <<"columns", "claims", "commit", "edges">> /\ <<"columns", "claims", "commit", "edges">> \in WorkLists[server]
      BY <2>0
    <3>2. "schema" \notin {"columns", "claims", "commit", "edges"}
      OBVIOUS
    <3> QED BY ONLY <3>1, <3>2, RestOfFive DEF Shrinks
  <2>2. Shrinks(<<"columns", "claims", "commit", "edges">>)
    <3>1. Tail(<<"columns", "claims", "commit", "edges">>) = <<"claims", "commit", "edges">> /\ <<"claims", "commit", "edges">> \in WorkLists[server]
      BY <2>0
    <3>2. "columns" \notin {"claims", "commit", "edges"}
      OBVIOUS
    <3> QED BY ONLY <3>1, <3>2, RestOfFour DEF Shrinks
  <2>3. Shrinks(<<"claims", "commit", "edges">>)
    <3>1. Tail(<<"claims", "commit", "edges">>) = <<"commit", "edges">> /\ <<"commit", "edges">> \in WorkLists[server]
      BY <2>0
    <3>2. "claims" \notin {"commit", "edges"}
      OBVIOUS
    <3> QED BY ONLY <3>1, <3>2, RestOfThree DEF Shrinks
  <2>4. Shrinks(<<"commit", "edges">>)
    <3>1. Tail(<<"commit", "edges">>) = <<"edges">> /\ <<"edges">> \in WorkLists[server]
      BY <2>0
    <3>2. "commit" \notin {"edges"}
      OBVIOUS
    <3> QED BY ONLY <3>1, <3>2, RestOfTwo DEF Shrinks
  <2>5. Shrinks(<<"edges">>)
    <3>1. Tail(<<"edges">>) = <<>> /\ <<>> \in WorkLists[server]
      BY <2>0
    <3> QED BY <3>1 DEF Among
  <2> HIDE DEF Shrinks
  <2> QED BY <2>0, <2>1, <2>2, <2>3, <2>4, <2>5
<1> HIDE DEF Shrinks
<1> QED BY <1>1, <1>2, <1>3, <1>4 DEF Upgrade!Servers

\* What each server has to do is on its list, and when.
LEMMA OrderOf ==
  ASSUME server \in Upgrade!Servers
  PROVE  /\ Upgrade!Order \in WorkLists[server] /\ <<>> \in WorkLists[server]
         /\ Among("schema", Upgrade!Order) /\ Among("columns", Upgrade!Order) /\ \A t \in Upgrade!Mine : Among(t, Upgrade!Order)
         /\ server = "episteme" => Among("programmes", Upgrade!Order)
         /\ server = "zetesis" => Among("stamps", Upgrade!Order)
         /\ server = "anamnesis" => Among("edges", Upgrade!Order)
         /\ \A w : ~Among(w, <<>>)
<1>1. \A w, a, b, c, d, e :
        /\ Among(w, <<a, b, c, d, e>>) <=> w \in {a, b, c, d, e}
        /\ Among(w, <<a, b, c>>) <=> w \in {a, b, c}
        /\ Among(w, <<a, b>>) <=> w \in {a, b}
        /\ Among(w, <<>>) <=> FALSE
  BY DEF Among
<1>2. CASE server = "episteme"
  BY <1>1, <1>2 DEF Upgrade!Order, WorkLists, Upgrade!EpistemeOrder, Upgrade!Mine
<1>3. CASE server = "zetesis"
  <2>1. /\ Upgrade!Order = <<"evidence_refs", "findings", "stamps", "columns", "schema">>
        /\ Upgrade!Mine = {"evidence_refs", "findings"} /\ Upgrade!Order \in WorkLists[server] /\ <<>> \in WorkLists[server]
    BY <1>3 DEF Upgrade!Order, WorkLists, Upgrade!ZetesisOrder, Upgrade!Mine
  <2>2. \A w : Among(w, Upgrade!Order) <=> w \in {"evidence_refs", "findings", "stamps", "columns", "schema"}
    BY <1>1, <2>1
  <2> QED BY <1>1, <1>3, <2>1, <2>2
<1>4. CASE server = "arete"
  BY <1>1, <1>4 DEF Upgrade!Order, WorkLists, Upgrade!AreteOrder, Upgrade!Mine
<1>5. CASE server = "anamnesis"
  <2>1. /\ Upgrade!Order = <<"schema", "columns", "claims", "commit", "edges">>
        /\ Upgrade!Mine = {"claims"} /\ Upgrade!Order \in WorkLists[server] /\ <<>> \in WorkLists[server]
    BY <1>5 DEF Upgrade!Order, WorkLists, Upgrade!AnamnesisOrder, Upgrade!Mine
  <2> QED BY <1>1, <1>5, <2>1
<1> QED BY <1>2, <1>3, <1>4, <1>5 DEF Upgrade!Servers

\* Which work comes when, as far as a transaction may be open over it.
LEMMA Places ==
  ASSUME server \in Upgrade!Servers, left \in WorkLists[server], left # <<>>
  PROVE  /\ Head(left) \in Upgrade!Tables => Head(left) \in Upgrade!Mine
         /\ server = "zetesis" /\ Head(left) = "stamps" => Tail(left) = <<"columns", "schema">>
         /\ Head(left) = "claims" => server = "anamnesis" /\ left = <<"claims", "commit", "edges">>
                                     /\ Tail(left) = <<"commit", "edges">>
         /\ Head(left) = "stamps" => server = "zetesis"
         /\ Head(left) = "edges" => server = "anamnesis"
         /\ Head(left) = "programmes" => server = "episteme"
<1>1. CASE server = "episteme"
  <2>0. WorkLists[server] = {<<"schema", "columns", "programmes">>,
                       <<"columns", "programmes">>,
                       <<"programmes">>,
                       <<>>}
    BY <1>1 DEF WorkLists, Upgrade!EpistemeOrder
  <2>1. /\ Head(<<"schema", "columns", "programmes">>) = "schema"
        /\ Head(<<"columns", "programmes">>) = "columns"
        /\ Head(<<"programmes">>) = "programmes"
        /\ Tail(<<"claims", "commit", "edges">>) = <<"commit", "edges">>
    OBVIOUS
  <2> QED BY <1>1, <2>0, <2>1 DEF Upgrade!Mine, Upgrade!Tables
<1>2. CASE server = "zetesis"
  <2>0. WorkLists[server] = {<<"evidence_refs", "findings", "stamps", "columns", "schema">>,
                       <<"findings", "stamps", "columns", "schema">>,
                       <<"stamps", "columns", "schema">>,
                       <<"columns", "schema">>,
                       <<"schema">>,
                       <<>>}
    BY <1>2 DEF WorkLists, Upgrade!ZetesisOrder
  <2>1. /\ Head(<<"evidence_refs", "findings", "stamps", "columns", "schema">>) = "evidence_refs"
        /\ Head(<<"findings", "stamps", "columns", "schema">>) = "findings"
        /\ Head(<<"stamps", "columns", "schema">>) = "stamps"
        /\ Head(<<"columns", "schema">>) = "columns"
        /\ Head(<<"schema">>) = "schema"
        /\ Tail(<<"stamps", "columns", "schema">>) = <<"columns", "schema">>
    OBVIOUS
  <2> QED BY <1>2, <2>0, <2>1 DEF Upgrade!Mine, Upgrade!Tables
<1>3. CASE server = "arete"
  <2>0. WorkLists[server] = {<<"schema", "columns">>,
                       <<"columns">>,
                       <<>>}
    BY <1>3 DEF WorkLists, Upgrade!AreteOrder
  <2>1. /\ Head(<<"schema", "columns">>) = "schema"
        /\ Head(<<"columns">>) = "columns"
        /\ Tail(<<"claims", "commit", "edges">>) = <<"commit", "edges">>
    OBVIOUS
  <2> QED BY <1>3, <2>0, <2>1 DEF Upgrade!Mine, Upgrade!Tables
<1>4. CASE server = "anamnesis"
  <2>0. WorkLists[server] = {<<"schema", "columns", "claims", "commit", "edges">>,
                       <<"columns", "claims", "commit", "edges">>,
                       <<"claims", "commit", "edges">>,
                       <<"commit", "edges">>,
                       <<"edges">>,
                       <<>>}
    BY <1>4 DEF WorkLists, Upgrade!AnamnesisOrder
  <2>1. /\ Head(<<"schema", "columns", "claims", "commit", "edges">>) = "schema"
        /\ Head(<<"columns", "claims", "commit", "edges">>) = "columns"
        /\ Head(<<"claims", "commit", "edges">>) = "claims"
        /\ Head(<<"commit", "edges">>) = "commit"
        /\ Head(<<"edges">>) = "edges"
        /\ Tail(<<"claims", "commit", "edges">>) = <<"commit", "edges">>
    OBVIOUS
  <2> QED BY <1>4, <2>0, <2>1 DEF Upgrade!Mine, Upgrade!Tables
<1> QED BY <1>1, <1>2, <1>3, <1>4 DEF Upgrade!Servers

-----------------------------------------------------------------------------
LEMMA DDLWrites ==
  ASSUME open \in BOOLEAN, NEW rows, Upgrade!DDL(rows)
  PROVE  db' = rows /\ open' = open /\ disk' = IF open THEN disk ELSE rows
BY DEF Upgrade!DDL, Upgrade!Conn!Exec, Upgrade!Conn!Save

LEMMA PutWrites ==
  ASSUME db \in Databases, NEW t \in Upgrade!Tables, NEW k \in TableKinds
  PROVE  /\ Upgrade!Put(t, k) \in Databases /\ Upgrade!Put(t, k).table[t] = k
         /\ \A u \in Upgrade!Tables \ {t} : Upgrade!Put(t, k).table[u] = db.table[u]
         /\ Upgrade!Put(t, k).columns = db.columns /\ Upgrade!Put(t, k).row = db.row
         /\ Upgrade!Put(t, k).stamp = db.stamp /\ Upgrade!Put(t, k).edge = db.edge
BY DEF Upgrade!Put, Databases

\* A piece of a start's work is done.
LEMMA GoesOn ==
  ASSUME UpgradeTypes, left # <<>>, Upgrade!Next1, server' = server
  PROVE  /\ step' = "start" /\ left' \in WorkLists[server'] /\ left' = Tail(left)
         /\ \A w : Due(w)' <=> Due(w) /\ w # Head(left)
         /\ Due(Head(left)) /\ RebuildStage' /\ Upgrade!Mine' = Upgrade!Mine
<1>1. Shrinks(left) /\ left' = Tail(left) /\ step' = "start" /\ Upgrade!Mine' = Upgrade!Mine
  BY RestOfList DEF UpgradeTypes, Upgrade!Next1, Upgrade!Mine
<1> QED BY <1>1 DEF Shrinks, Due, RebuildStage, RebuildSteps

\* A statement within it.
LEMMA StaysOn ==
  ASSUME UNCHANGED <<left, server>>
  PROVE  (\A w : Due(w)' <=> Due(w)) /\ Upgrade!Mine' = Upgrade!Mine
BY DEF Due, Upgrade!Mine

\* The fields of a table of a database.
LEMMA KindOfTable ==
  ASSUME NEW d \in Databases, NEW t \in Upgrade!Tables
  PROVE  /\ d.table[t] \in TableKinds /\ d.table[t].shape \in {"none", "legacy", "current"}
         /\ d.table[t].rows \in SUBSET Rows /\ d.table[t].copy \in {Nobody} \cup SUBSET Rows
BY DEF Databases, TableKinds

\* What a statement that keeps the rows of every table keeps.
SameRows ==
  \A t \in Upgrade!Tables : db'.table[t].rows = db.table[t].rows /\ db'.table[t].copy = db.table[t].copy
LEMMA RowsAreKept ==
  ASSUME RowsKept(db), SameRows, accepted' = accepted
  PROVE  RowsKept(db)'
BY DEF RowsKept, SameRows, CopyIn

LEMMA DiskIsKept ==
  ASSUME RowsKept(disk), RowsKept(db)', accepted' = accepted, disk' \in {disk, db'}
  PROVE  RowsKept(disk)'
<1>1. CASE disk' = disk
  BY <1>1 DEF RowsKept, CopyIn
<1>2. CASE disk' = db'
  BY <1>2 DEF RowsKept, CopyIn
<1> QED BY <1>1, <1>2

LEMMA UpgradeStartStep ==
  ASSUME UpgradeInv, Upgrade!Start
  PROVE  UpgradeInv'
<1>1. /\ step = "down" /\ step' = "start" /\ left' = Upgrade!Order /\ seen' = db.columns
      /\ UNCHANGED <<db, disk, open, server, accepted, starts>> /\ Upgrade!Mine' = Upgrade!Mine
  BY DEF Upgrade!Start, Upgrade!Mine
<1>2. UpgradeTypes'
  BY <1>1, OrderOf DEF UpgradeInv, UpgradeTypes, Databases
<1>3. RowsKept(db)' /\ RowsKept(disk)'
  BY <1>1 DEF UpgradeInv, RowsKept, CopyIn
<1>4. OpenIsExpected' /\ RebuildStage'
  BY <1>1 DEF UpgradeInv, OpenIsExpected, RebuildStage, RebuildSteps
<1>5. Upgraded'
  BY <1>1, OrderOf DEF UpgradeInv, UpgradeTypes, Upgraded, Due
<1>6. RowRight'
  BY <1>1 DEF UpgradeInv, RowRight
<1> QED BY <1>2, <1>3, <1>4, <1>5, <1>6 DEF UpgradeInv

LEMMA SchemaStep ==
  ASSUME UpgradeInv, Upgrade!Schema
  PROVE  UpgradeInv'
<1>1. /\ step = "start" /\ left # <<>> /\ Head(left) = "schema" /\ Upgrade!Next1
      /\ UNCHANGED <<server, seen, enforced, accepted, starts>>
      /\ db' = [db EXCEPT !.table = [t \in Upgrade!Tables |->
           IF db.table[t].shape = "none" THEN [db.table[t] EXCEPT !.shape = "current"]
           ELSE db.table[t]]]
      /\ disk' = db' /\ open' = FALSE
  BY DEF Upgrade!Schema, Upgrade!Now, Upgrade!Conn!Save
<1>2. /\ step' = "start" /\ left' \in WorkLists[server'] /\ left' = Tail(left)
      /\ (\A w : Due(w)' <=> Due(w) /\ w # "schema")
      /\ RebuildStage' /\ Upgrade!Mine' = Upgrade!Mine
  BY <1>1, GoesOn DEF UpgradeInv
<1>3. /\ db' \in Databases /\ SameRows
      /\ (\A t \in Upgrade!Tables : db'.table[t].shape =
            IF db.table[t].shape = "none" THEN "current" ELSE db.table[t].shape)
      /\ db'.columns = db.columns /\ db'.row = db.row /\ db'.stamp = db.stamp /\ db'.edge = db.edge
  BY <1>1 DEF UpgradeInv, UpgradeTypes, Databases, TableKinds, SameRows
<1>4. UpgradeTypes'
  BY <1>1, <1>2, <1>3 DEF UpgradeInv, UpgradeTypes
<1>5. RowsKept(db)' /\ RowsKept(disk)'
  BY <1>1, <1>3, RowsAreKept, DiskIsKept DEF UpgradeInv
<1>6. OpenIsExpected'
  BY <1>1 DEF OpenIsExpected
<1>7. Upgrade!Mine \subseteq Upgrade!Tables /\ "schema" \notin Upgrade!Mine
  BY DEF Upgrade!Mine, Upgrade!Tables
<1>8. Upgraded'
  BY <1>1, <1>2, <1>3, <1>7 DEF UpgradeInv, Upgraded
<1>9. RowRight'
  BY <1>1, <1>3 DEF UpgradeInv, RowRight
<1> QED BY <1>2, <1>4, <1>5, <1>6, <1>8, <1>9 DEF UpgradeInv

LEMMA AddColumnStep ==
  ASSUME UpgradeInv, Upgrade!AddColumn
  PROVE  UpgradeInv'
<1>0. /\ step = "start" /\ left # <<>> /\ Head(left) = "columns"
      /\ UNCHANGED <<server, seen, enforced, accepted, starts>>
  BY DEF Upgrade!AddColumn, Upgrade!Now
<1>1. CASE Columns \ (seen \cup db.columns) # {}
  <2>1. PICK c \in Columns : Upgrade!DDL([db EXCEPT !.columns = @ \cup {c}]) /\ UNCHANGED <<left, step>>
    BY <1>1 DEF Upgrade!AddColumn
  <2>2. /\ db' = [db EXCEPT !.columns = db.columns \cup {c}] /\ open' = open /\ disk' \in {disk, db'}
        /\ (~open => disk' = db')
    BY <2>1, DDLWrites DEF UpgradeInv, UpgradeTypes
  <2>3. /\ db' \in Databases /\ db'.table = db.table /\ db.columns \subseteq db'.columns
        /\ db'.columns \subseteq Columns
        /\ db'.row = db.row /\ db'.stamp = db.stamp /\ db'.edge = db.edge
    BY <2>2 DEF UpgradeInv, UpgradeTypes, Databases
  <2>4. UpgradeTypes'
    BY <1>0, <2>1, <2>2, <2>3 DEF UpgradeInv, UpgradeTypes
  <2>5. RowsKept(db)' /\ RowsKept(disk)'
    BY <1>0, <2>2, <2>3, RowsAreKept, DiskIsKept DEF UpgradeInv, SameRows
  <2>6. OpenIsExpected' /\ RebuildStage'
    BY <1>0, <2>1, <2>2 DEF UpgradeInv, OpenIsExpected, RebuildStage, RebuildSteps
  <2>7. Upgraded'
    BY <1>0, <2>1, <2>3, StaysOn DEF UpgradeInv, Upgraded
  <2>8. RowRight'
    BY <1>0, <2>2, <2>3 DEF UpgradeInv, RowRight
  <2> QED BY <2>4, <2>5, <2>6, <2>7, <2>8 DEF UpgradeInv
<1>2. CASE Columns \ (seen \cup db.columns) = {}
  <2>1. db' = db /\ disk' = db /\ open' = FALSE /\ Upgrade!Next1
    BY <1>2 DEF Upgrade!AddColumn, Upgrade!Conn!Commit
  <2>2. /\ step' = "start" /\ left' \in WorkLists[server'] /\ left' = Tail(left)
        /\ (\A w : Due(w)' <=> Due(w) /\ w # "columns")
        /\ RebuildStage' /\ Upgrade!Mine' = Upgrade!Mine
    BY <1>0, <2>1, GoesOn DEF UpgradeInv
  <2>3. UpgradeTypes'
    BY <1>0, <2>1, <2>2 DEF UpgradeInv, UpgradeTypes
  <2>4. RowsKept(db)' /\ RowsKept(disk)'
    BY <1>0, <2>1, RowsAreKept, DiskIsKept DEF UpgradeInv, SameRows
  <2>5. db.columns = Columns /\ "columns" \notin Upgrade!Mine
    BY <1>0, <1>2 DEF UpgradeInv, Upgraded, UpgradeTypes, Databases, Upgrade!Mine
  <2>6. Upgraded'
    BY <1>0, <2>1, <2>2, <2>5 DEF UpgradeInv, Upgraded
  <2>7. RowRight' /\ OpenIsExpected'
    BY <1>0, <2>1 DEF UpgradeInv, RowRight, OpenIsExpected
  <2> QED BY <2>2, <2>3, <2>4, <2>6, <2>7 DEF UpgradeInv
<1> QED BY <1>1, <1>2

\* A start's work that only writes and commits, or commits.
LEMMA CommitAllStep ==
  ASSUME UpgradeInv, Upgrade!CommitAll
  PROVE  UpgradeInv'
<1>1. /\ step = "start" /\ left # <<>> /\ Head(left) = "commit" /\ Upgrade!Next1
      /\ UNCHANGED <<server, seen, enforced, accepted, starts>>
      /\ db' = db /\ disk' = db /\ open' = FALSE
  BY DEF Upgrade!CommitAll, Upgrade!Now, Upgrade!Conn!Commit
<1>2. /\ step' = "start" /\ left' \in WorkLists[server'] /\ left' = Tail(left)
      /\ (\A w : Due(w)' <=> Due(w) /\ w # "commit")
      /\ RebuildStage' /\ Upgrade!Mine' = Upgrade!Mine
  BY <1>1, GoesOn DEF UpgradeInv
<1>3. UpgradeTypes'
  BY <1>1, <1>2 DEF UpgradeInv, UpgradeTypes
<1>4. RowsKept(db)' /\ RowsKept(disk)'
  BY <1>1, RowsAreKept, DiskIsKept DEF UpgradeInv, SameRows
<1>5. "commit" \notin Upgrade!Mine
  BY DEF Upgrade!Mine
<1>6. Upgraded'
  BY <1>1, <1>2, <1>5 DEF UpgradeInv, Upgraded
<1>7. RowRight' /\ OpenIsExpected'
  BY <1>1 DEF UpgradeInv, RowRight, OpenIsExpected
<1> QED BY <1>2, <1>3, <1>4, <1>6, <1>7 DEF UpgradeInv

LEMMA FirstIs ==
  ASSUME NEW l, NEW set, NEW default, NEW i \in 1..3, l[i] \in set, \A j \in 1..3 \ {i} : l[j] \notin set
  PROVE  Upgrade!First(l, set, default) = l[i]
BY DEF Upgrade!First

LEMMA RepairedIsRight == ASSUME NEW row \in Upgrade!Written PROVE Upgrade!Repaired(row) = Upgrade!Right
<1>1. /\ "active" \in Upgrade!Statuses /\ "minimize" \notin Upgrade!Statuses /\ Upgrade!Created \notin Upgrade!Statuses
      /\ "minimize" \in Upgrade!Directions /\ "active" \notin Upgrade!Directions /\ Upgrade!Created \notin Upgrade!Directions
      /\ "active" # Upgrade!Created /\ "minimize" # Upgrade!Created
  BY DEF Upgrade!Statuses, Upgrade!Directions, Upgrade!Created
<1>2. PICK i \in 1..3, j \in 1..3, k \in 1..3 :
        /\ i # j /\ i # k /\ j # k
        /\ row[i] = "active" /\ row[j] = "minimize" /\ row[k] = Upgrade!Created
  <2>1. CASE row = <<"active", "minimize", Upgrade!Created>>
    BY <2>1
  <2>2. CASE row = <<"minimize", Upgrade!Created, "active">>
    BY <2>2
  <2>3. CASE row = <<Upgrade!Created, "minimize", "active">>
    BY <2>3
  <2> QED BY <2>1, <2>2, <2>3 DEF Upgrade!Written, Upgrade!Right
<1>3. \A n \in 1..3 : n = i \/ n = j \/ n = k
  BY <1>2
<1>4. Upgrade!Instants(row) = {Upgrade!Created}
  <2>1. {row[n] : n \in 1..3} = {"active", "minimize", Upgrade!Created}
    BY <1>2, <1>3
  <2> QED BY <2>1 DEF Upgrade!Instants, Upgrade!Statuses, Upgrade!Directions, Upgrade!Created
<1>5. Upgrade!First(row, Upgrade!Statuses, "active") = "active"
  BY <1>1, <1>2, <1>3, FirstIs
<1>6. Upgrade!First(row, Upgrade!Directions, "maximize") = "minimize"
  BY <1>1, <1>2, <1>3, FirstIs
<1>7. Upgrade!First(row, Upgrade!Instants(row), row[3]) = Upgrade!Created
  BY <1>1, <1>2, <1>3, <1>4, FirstIs
<1> QED BY <1>5, <1>6, <1>7 DEF Upgrade!Repaired, Upgrade!Right

LEMMA RepairProgrammesStep ==
  ASSUME UpgradeInv, Upgrade!RepairProgrammes
  PROVE  UpgradeInv'
<1>1. /\ step = "start" /\ left # <<>> /\ Head(left) = "programmes" /\ Upgrade!Next1
      /\ UNCHANGED <<server, seen, enforced, accepted, starts>>
      /\ db' = [db EXCEPT !.row = Upgrade!Repaired(db.row)] /\ disk' = db' /\ open' = FALSE
  BY DEF Upgrade!RepairProgrammes, Upgrade!Now, Upgrade!Conn!Save
<1>2. /\ step' = "start" /\ left' \in WorkLists[server'] /\ left' = Tail(left)
      /\ (\A w : Due(w)' <=> Due(w) /\ w # "programmes")
      /\ RebuildStage' /\ Upgrade!Mine' = Upgrade!Mine
  BY <1>1, GoesOn DEF UpgradeInv
<1>3. Upgrade!Repaired(db.row) = Upgrade!Right /\ Upgrade!Right \in Upgrade!Written
  BY RepairedIsRight DEF UpgradeInv, UpgradeTypes, Databases, Upgrade!Written
<1>4. /\ db' \in Databases /\ SameRows /\ db'.table = db.table /\ db'.columns = db.columns
      /\ db'.row = Upgrade!Right /\ db'.stamp = db.stamp /\ db'.edge = db.edge
  BY <1>1, <1>3 DEF UpgradeInv, UpgradeTypes, Databases, SameRows
<1>5. UpgradeTypes'
  BY <1>1, <1>2, <1>4 DEF UpgradeInv, UpgradeTypes
<1>6. RowsKept(db)' /\ RowsKept(disk)'
  BY <1>1, <1>4, RowsAreKept, DiskIsKept DEF UpgradeInv
<1>7. "programmes" \notin Upgrade!Mine
  BY DEF Upgrade!Mine
<1>8. Upgraded'
  BY <1>1, <1>2, <1>4, <1>7 DEF UpgradeInv, Upgraded
<1>9. RowRight' /\ OpenIsExpected'
  BY <1>1, <1>4 DEF RowRight, OpenIsExpected
<1> QED BY <1>2, <1>5, <1>6, <1>8, <1>9 DEF UpgradeInv

LEMMA MoveStampsStep ==
  ASSUME UpgradeInv, Upgrade!MoveStamps
  PROVE  UpgradeInv'
<1>1. /\ step = "start" /\ left # <<>> /\ Head(left) = "stamps" /\ Upgrade!Next1
      /\ UNCHANGED <<server, seen, enforced, accepted, starts>>
      /\ db' = [db EXCEPT !.stamp = IF db.stamp = "closed_at" THEN "abandoned_at" ELSE db.stamp]
      /\ disk' = disk /\ open' = TRUE
  BY DEF Upgrade!MoveStamps, Upgrade!Now, Upgrade!Conn!Exec
<1>2. /\ step' = "start" /\ left' \in WorkLists[server'] /\ left' = Tail(left)
      /\ (\A w : Due(w)' <=> Due(w) /\ w # "stamps")
      /\ RebuildStage' /\ Upgrade!Mine' = Upgrade!Mine
  BY <1>1, GoesOn DEF UpgradeInv
<1>4. /\ db' \in Databases /\ SameRows /\ db'.table = db.table /\ db'.columns = db.columns
      /\ db'.row = db.row /\ db'.stamp = "abandoned_at" /\ db'.edge = db.edge
  BY <1>1 DEF UpgradeInv, UpgradeTypes, Databases, SameRows
<1>5. UpgradeTypes'
  BY <1>1, <1>2, <1>4 DEF UpgradeInv, UpgradeTypes
<1>6. RowsKept(db)' /\ RowsKept(disk)'
  BY <1>1, <1>4, RowsAreKept, DiskIsKept DEF UpgradeInv
<1>7. "stamps" \notin Upgrade!Mine /\ server = "zetesis" /\ Tail(left) = <<"columns", "schema">>
  BY <1>1, Places DEF Upgrade!Mine, UpgradeInv, UpgradeTypes
<1>8. Upgraded'
  BY <1>1, <1>2, <1>4, <1>7 DEF UpgradeInv, Upgraded
<1>9. RowRight' /\ OpenIsExpected'
  BY <1>1, <1>2, <1>4, <1>7 DEF UpgradeInv, RowRight, OpenIsExpected
<1> QED BY <1>2, <1>5, <1>6, <1>8, <1>9 DEF UpgradeInv

LEMMA RetypeEdgesStep ==
  ASSUME UpgradeInv, Upgrade!RetypeEdges
  PROVE  UpgradeInv'
<1>1. /\ step = "start" /\ left # <<>> /\ Head(left) = "edges" /\ Upgrade!Next1
      /\ UNCHANGED <<server, seen, enforced, accepted, starts>>
      /\ db' = [db EXCEPT !.edge = IF db.edge = "external" THEN "internal" ELSE db.edge]
      /\ disk' = db' /\ open' = FALSE
  BY DEF Upgrade!RetypeEdges, Upgrade!Now, Upgrade!Conn!Save
<1>2. /\ step' = "start" /\ left' \in WorkLists[server'] /\ left' = Tail(left)
      /\ (\A w : Due(w)' <=> Due(w) /\ w # "edges")
      /\ RebuildStage' /\ Upgrade!Mine' = Upgrade!Mine
  BY <1>1, GoesOn DEF UpgradeInv
<1>4. /\ db' \in Databases /\ SameRows /\ db'.table = db.table /\ db'.columns = db.columns
      /\ db'.row = db.row /\ db'.stamp = db.stamp /\ db'.edge = "internal"
  BY <1>1 DEF UpgradeInv, UpgradeTypes, Databases, SameRows
<1>5. UpgradeTypes'
  BY <1>1, <1>2, <1>4 DEF UpgradeInv, UpgradeTypes
<1>6. RowsKept(db)' /\ RowsKept(disk)'
  BY <1>1, <1>4, RowsAreKept, DiskIsKept DEF UpgradeInv
<1>7. "edges" \notin Upgrade!Mine
  BY DEF Upgrade!Mine
<1>8. Upgraded'
  BY <1>1, <1>2, <1>4, <1>7 DEF UpgradeInv, Upgraded
<1>9. RowRight' /\ OpenIsExpected'
  BY <1>1, <1>4 DEF UpgradeInv, RowRight, OpenIsExpected
<1> QED BY <1>2, <1>5, <1>6, <1>8, <1>9 DEF UpgradeInv

LEMMA LookStep ==
  ASSUME UpgradeInv, NEW t \in Upgrade!Tables, Upgrade!Look(t)
  PROVE  UpgradeInv'
<1>1. /\ step = "start" /\ left # <<>> /\ Head(left) = t
      /\ UNCHANGED <<db, disk, open, server, seen, accepted, starts>>
  BY DEF Upgrade!Look, Upgrade!Now
<1>2. t \in Upgrade!Mine
  BY <1>1, Places DEF UpgradeInv, UpgradeTypes
<1>3. RowsKept(db)' /\ RowsKept(disk)' /\ RowRight'
  BY <1>1 DEF UpgradeInv, RowsKept, CopyIn, RowRight
<1>4. CASE db.table[t].shape = "legacy"
  <2>1. step' = "create" /\ left' = left /\ Upgrade!Mine' = Upgrade!Mine
    BY <1>1, <1>4 DEF Upgrade!Look, Upgrade!Goto, Upgrade!Mine
  <2>2. UpgradeTypes' /\ RebuildStage'
    BY <1>1, <1>2, <2>1 DEF UpgradeInv, UpgradeTypes, RebuildSteps, RebuildStage
  <2>3. ~open
    BY <1>1, <1>2 DEF UpgradeInv, OpenIsExpected, Upgrade!Mine
  <2>4. OpenIsExpected'
    BY <1>1, <2>1, <2>3 DEF UpgradeInv, OpenIsExpected
  <2>5. Upgraded'
    BY <1>1, <2>1, StaysOn DEF UpgradeInv, Upgraded
  <2> QED BY <1>3, <2>2, <2>4, <2>5 DEF UpgradeInv
<1>5. CASE db.table[t].shape # "legacy"
  <2>1. Upgrade!Next1
    BY <1>5 DEF Upgrade!Look
  <2>2. /\ step' = "start" /\ left' \in WorkLists[server'] /\ left' = Tail(left)
        /\ (\A w : Due(w)' <=> Due(w) /\ w # t)
        /\ RebuildStage' /\ Upgrade!Mine' = Upgrade!Mine
    BY <1>1, <2>1, GoesOn DEF UpgradeInv
  <2>3. UpgradeTypes'
    BY <1>1, <2>2 DEF UpgradeInv, UpgradeTypes
  <2>4. ~open
    BY <1>1, <1>2 DEF UpgradeInv, OpenIsExpected, Upgrade!Mine
  <2>5. OpenIsExpected'
    BY <1>1, <2>4 DEF UpgradeInv, OpenIsExpected
  <2>6. Upgraded'
    <3>1. t \notin {"columns", "schema", "programmes", "stamps", "edges"}
      BY DEF Upgrade!Tables
    <3> QED BY <1>1, <1>5, <2>2, <3>1 DEF UpgradeInv, Upgraded
  <2> QED BY <1>3, <2>2, <2>3, <2>5, <2>6 DEF UpgradeInv
<1> QED BY <1>4, <1>5

\* A statement of a rebuild, with what it makes of the table.
LEMMA RebuildStatement ==
  ASSUME UpgradeInv, NEW t \in Upgrade!Tables, step \in RebuildSteps, left # <<>>, Head(left) = t, NEW k \in TableKinds,
         db' = Upgrade!Put(t, k), disk' \in {disk, db'}, ~open' => disk' = db',
         NEW next \in RebuildSteps, Upgrade!Goto(next), UNCHANGED <<server, seen, accepted, starts>>,
         open' \in BOOLEAN,
         open' => t = "claims" /\ next \in {"drop", "rename", "swapped"},
         k.shape = "none" => next = "rename" \/ (db.table[t].shape = "none" /\ step # "rename"),
         accepted[t] \subseteq k.rows \cup (IF k.copy = Nobody THEN {} ELSE k.copy),
         next = "copy" => k.copy = {},
         next \in {"drop", "rename"} => k.copy # Nobody /\ accepted[t] \subseteq k.copy,
         next = "swapped" => k.shape = "current"
  PROVE  UpgradeInv'
<1>1. /\ db' \in Databases /\ db'.table[t] = k
      /\ (\A u \in Upgrade!Tables \ {t} : db'.table[u] = db.table[u])
      /\ db'.columns = db.columns /\ db'.row = db.row /\ db'.stamp = db.stamp /\ db'.edge = db.edge
  BY PutWrites DEF UpgradeInv, UpgradeTypes
<1>2. step' = next /\ left' = left /\ Upgrade!Mine' = Upgrade!Mine
  BY DEF Upgrade!Goto, Upgrade!Mine
<1>3. t \in Upgrade!Mine /\ Upgrade!Mine \subseteq Upgrade!Tables
  BY Places DEF UpgradeInv, UpgradeTypes, Upgrade!Mine, Upgrade!Tables
<1>4. UpgradeTypes'
  BY <1>1, <1>2 DEF UpgradeInv, UpgradeTypes
<1>5. RowsKept(db)'
  BY <1>1 DEF UpgradeInv, RowsKept, CopyIn
<1>6. RowsKept(disk)'
  BY <1>5, DiskIsKept DEF UpgradeInv
<1>7. OpenIsExpected'
  BY <1>2, Places DEF UpgradeInv, UpgradeTypes, OpenIsExpected
<1>8. RebuildStage'
  BY <1>1, <1>2, <1>3 DEF RebuildStage, RebuildSteps
<1>9. Due(t)
  BY RestOfList DEF UpgradeInv, UpgradeTypes, Shrinks, Due
<1>10. Upgraded'
  <2>1. step # "down" /\ (\A w : Due(w)' <=> Due(w))
    BY <1>2, StaysOn DEF RebuildSteps
  <2>2. ASSUME NEW u \in Upgrade!Mine
        PROVE  /\ ~Due(u) => db'.table[u].shape # "legacy"
               /\ ~Due("schema") /\ db'.table[u].shape = "none" => next = "rename" /\ Head(left) = u
    BY <1>1, <1>3, <1>9, <2>1, <2>2 DEF UpgradeInv, Upgraded
  <2> QED BY <1>1, <1>2, <2>1, <2>2 DEF UpgradeInv, Upgraded
<1>11. RowRight'
  BY <1>1 DEF UpgradeInv, RowRight
<1> QED BY <1>4, <1>5, <1>6, <1>7, <1>8, <1>10, <1>11 DEF UpgradeInv

\* What is known of the table that is being rebuilt.
LEMMA AtTable ==
  ASSUME UpgradeInv, NEW t \in Upgrade!Tables, NEW s \in RebuildSteps, Upgrade!Rebuilding(t, s)
  PROVE  /\ step = s /\ step \in RebuildSteps /\ left # <<>> /\ Head(left) = t /\ t \in Upgrade!Mine
         /\ db.table[t] \in TableKinds /\ db.table[t].shape \in {"none", "legacy", "current"}
         /\ db.table[t].rows \in SUBSET Rows /\ db.table[t].copy \in {Nobody} \cup SUBSET Rows
         /\ {} # Nobody /\ \A rows \in SUBSET Rows : rows # Nobody
         /\ accepted[t] \subseteq db.table[t].rows \cup CopyIn(db, t)
         /\ (open => t = "claims" /\ s \in {"drop", "rename", "swapped"})
<1>1. step = s /\ step \in RebuildSteps /\ left # <<>> /\ Head(left) = t /\ t \in Upgrade!Mine
  BY Places DEF Upgrade!Rebuilding, UpgradeInv, RebuildStage, UpgradeTypes
<1>2. open => t = "claims" /\ s \in {"drop", "rename", "swapped"}
  BY <1>1, Places DEF UpgradeInv, UpgradeTypes, OpenIsExpected, RebuildSteps
<1> QED BY <1>1, <1>2, KindOfTable, UpgradeAssumption DEF Upgrade!MigrationAssumption, UpgradeInv,
   UpgradeTypes, RowsKept

LEMMA CreateStep == ASSUME UpgradeInv, NEW t \in Upgrade!Tables, Upgrade!Create(t) PROVE UpgradeInv'
<1> DEFINE k == [db.table[t] EXCEPT !.copy = {}]
<1>1. Upgrade!Rebuilding(t, "create") /\ "create" \in RebuildSteps /\ "copy" \in RebuildSteps
  BY DEF Upgrade!Create, RebuildSteps
<1>2. k \in TableKinds /\ k.rows = db.table[t].rows /\ k.copy = {} /\ k.shape = db.table[t].shape
  BY <1>1, AtTable DEF TableKinds
<1>3. /\ db' = Upgrade!Put(t, k) /\ open' = open /\ disk' \in {disk, db'} /\ (~open' => disk' = db')
      /\ Upgrade!Goto("copy") /\ UNCHANGED <<server, seen, accepted, starts>>
      /\ db.table[t].copy = Nobody /\ ~open /\ open \in BOOLEAN
  BY <1>1, AtTable, DDLWrites DEF Upgrade!Create, UpgradeInv, UpgradeTypes
<1>4. accepted[t] \subseteq k.rows
  BY <1>1, <1>2, <1>3, AtTable DEF CopyIn
<1> HIDE DEF k
<1> QED BY <1>1, <1>2, <1>3, <1>4, AtTable, RebuildStatement

LEMMA CopyStep == ASSUME UpgradeInv, NEW t \in Upgrade!Tables, Upgrade!Copy(t) PROVE UpgradeInv'
<1> DEFINE k == [db.table[t] EXCEPT !.copy = db.table[t].rows]
<1>1. Upgrade!Rebuilding(t, "copy") /\ "copy" \in RebuildSteps /\ "drop" \in RebuildSteps
  BY DEF Upgrade!Copy, RebuildSteps
<1>2. /\ k \in TableKinds /\ k.rows = db.table[t].rows /\ k.copy = db.table[t].rows
      /\ k.shape = db.table[t].shape
  BY <1>1, AtTable DEF TableKinds
<1>3. /\ db' = Upgrade!Put(t, k) /\ disk' \in {disk, db'} /\ (~open' => disk' = db')
      /\ open' \in BOOLEAN /\ (open' => t = "claims")
      /\ Upgrade!Goto("drop") /\ UNCHANGED <<server, seen, accepted, starts>>
  BY DEF Upgrade!Copy, Upgrade!Scripted, Upgrade!Tables, Upgrade!Conn!Save, Upgrade!Conn!Exec
<1>4. accepted[t] \subseteq k.copy /\ k.copy # Nobody
  BY <1>1, <1>2, AtTable DEF CopyIn, UpgradeInv, RebuildStage
<1> HIDE DEF k
<1> QED BY <1>1, <1>2, <1>3, <1>4, AtTable, RebuildStatement

LEMMA DropStep == ASSUME UpgradeInv, NEW t \in Upgrade!Tables, Upgrade!Drop(t) PROVE UpgradeInv'
<1> DEFINE k == [db.table[t] EXCEPT !.shape = "none", !.rows = {}]
<1>1. Upgrade!Rebuilding(t, "drop") /\ "drop" \in RebuildSteps /\ "rename" \in RebuildSteps
  BY DEF Upgrade!Drop, RebuildSteps
<1>2. k \in TableKinds /\ k.rows = {} /\ k.copy = db.table[t].copy /\ k.shape = "none"
  BY <1>1, AtTable DEF TableKinds
<1>3. /\ db' = Upgrade!Put(t, k) /\ open' = open /\ disk' \in {disk, db'} /\ (~open' => disk' = db')
      /\ Upgrade!Goto("rename") /\ UNCHANGED <<server, seen, accepted, starts>>
      /\ open \in BOOLEAN
  BY <1>1, AtTable, DDLWrites DEF Upgrade!Drop, UpgradeInv, UpgradeTypes
<1>4. accepted[t] \subseteq k.copy /\ k.copy # Nobody
  BY <1>1, <1>2, AtTable DEF UpgradeInv, RebuildStage
<1> HIDE DEF k
<1> QED BY <1>1, <1>2, <1>3, <1>4, AtTable, RebuildStatement

LEMMA RenameStep == ASSUME UpgradeInv, NEW t \in Upgrade!Tables, Upgrade!Rename(t) PROVE UpgradeInv'
<1> DEFINE k == [shape |-> "current", rows |-> db.table[t].copy, copy |-> Nobody]
<1>1. Upgrade!Rebuilding(t, "rename") /\ "rename" \in RebuildSteps /\ "swapped" \in RebuildSteps
  BY DEF Upgrade!Rename, RebuildSteps
<1>2. accepted[t] \subseteq db.table[t].copy /\ db.table[t].copy # Nobody
  BY <1>1, AtTable DEF UpgradeInv, RebuildStage
<1>3. k \in TableKinds /\ k.rows = db.table[t].copy /\ k.copy = Nobody /\ k.shape = "current"
  BY <1>1, <1>2, AtTable DEF TableKinds
<1>4. /\ db' = Upgrade!Put(t, k) /\ open' = open /\ disk' \in {disk, db'} /\ (~open' => disk' = db')
      /\ Upgrade!Goto("swapped") /\ UNCHANGED <<server, seen, accepted, starts>>
      /\ open \in BOOLEAN
  BY <1>1, AtTable, DDLWrites DEF Upgrade!Rename, UpgradeInv, UpgradeTypes
<1> HIDE DEF k
<1> QED BY <1>1, <1>2, <1>3, <1>4, AtTable, RebuildStatement

LEMMA EnforceStep == ASSUME UpgradeInv, NEW t \in Upgrade!Tables, Upgrade!Enforce(t) PROVE UpgradeInv'
<1>0. Upgrade!Rebuilding(t, "swapped") /\ "swapped" \in RebuildSteps
  BY DEF Upgrade!Enforce, RebuildSteps
<1>1. /\ step = "swapped" /\ left # <<>> /\ Head(left) = t /\ t \in Upgrade!Mine
      /\ UNCHANGED <<db, disk, open, server, seen, accepted, starts>> /\ Upgrade!Next1
  BY <1>0, AtTable DEF Upgrade!Enforce
<1>2. RowsKept(db)' /\ RowsKept(disk)' /\ RowRight'
  BY <1>1 DEF UpgradeInv, RowsKept, CopyIn, RowRight
<1>3. /\ step' = "start" /\ left' \in WorkLists[server'] /\ left' = Tail(left)
      /\ (\A w : Due(w)' <=> Due(w) /\ w # t)
      /\ RebuildStage' /\ Upgrade!Mine' = Upgrade!Mine
  BY <1>1, GoesOn DEF UpgradeInv
<1>4. UpgradeTypes'
  BY <1>1, <1>3 DEF UpgradeInv, UpgradeTypes
<1>5. OpenIsExpected'
  BY <1>1, <1>3, Places DEF UpgradeInv, UpgradeTypes, OpenIsExpected
<1>6. Upgraded'
  BY <1>1, <1>3 DEF UpgradeInv, Upgraded, RebuildStage, RebuildSteps, Upgrade!Mine
<1> QED BY <1>2, <1>3, <1>4, <1>5, <1>6 DEF UpgradeInv

LEMMA ServeStep == ASSUME UpgradeInv, Upgrade!Serve PROVE UpgradeInv'
<1>1. /\ step = "start" /\ left = <<>> /\ step' = "serving" /\ left' = left
      /\ UNCHANGED <<db, disk, open, server, seen, accepted, starts>>
  BY DEF Upgrade!Serve, Upgrade!Goto
<1>2. RowsKept(db)' /\ RowsKept(disk)' /\ RowRight' /\ UpgradeTypes' /\ RebuildStage'
  BY <1>1 DEF UpgradeInv, RowsKept, CopyIn, RowRight, UpgradeTypes, RebuildStage, RebuildSteps
<1>3. OpenIsExpected'
  BY <1>1 DEF UpgradeInv, OpenIsExpected
<1>4. Upgraded'
  BY <1>1, StaysOn DEF UpgradeInv, Upgraded
<1> QED BY <1>2, <1>3, <1>4 DEF UpgradeInv

LEMMA InsertStep == ASSUME UpgradeInv, NEW t \in Upgrade!Tables, NEW r \in Rows, Upgrade!Insert(t, r) PROVE UpgradeInv'
<1> DEFINE k == [db.table[t] EXCEPT !.rows = db.table[t].rows \cup {r}]
<1>1. /\ step = "serving" /\ db' = Upgrade!Put(t, k) /\ disk' = db' /\ open' = FALSE
      /\ accepted' = [accepted EXCEPT ![t] = accepted[t] \cup {r}]
      /\ UNCHANGED <<server, left, step, seen, enforced, starts>>
      /\ db.table[t].shape = "current"
  BY DEF Upgrade!Insert, Upgrade!Conn!Save
<1>2. /\ k \in TableKinds /\ k.rows = db.table[t].rows \cup {r} /\ k.copy = db.table[t].copy
      /\ k.shape = db.table[t].shape
  BY KindOfTable DEF TableKinds, UpgradeInv, UpgradeTypes
<1> HIDE DEF k
<1>3. /\ db' \in Databases /\ db'.table[t] = k
      /\ (\A u \in Upgrade!Tables \ {t} : db'.table[u] = db.table[u])
      /\ db'.columns = db.columns /\ db'.row = db.row /\ db'.stamp = db.stamp /\ db'.edge = db.edge
  BY <1>1, <1>2, PutWrites DEF UpgradeInv, UpgradeTypes
<1>4. UpgradeTypes'
  BY <1>1, <1>3 DEF UpgradeInv, UpgradeTypes
<1>5. ASSUME NEW u \in Upgrade!Tables PROVE accepted'[u] \subseteq db'.table[u].rows \cup CopyIn(db', u)
  <2>1. accepted[u] \subseteq db.table[u].rows \cup CopyIn(db, u)
    BY DEF UpgradeInv, RowsKept
  <2>2. CASE u = t
    BY <1>1, <1>2, <1>3, <2>1, <2>2 DEF CopyIn, UpgradeInv, UpgradeTypes
  <2>3. CASE u # t
    BY <1>1, <1>3, <2>1, <2>3 DEF CopyIn, UpgradeInv, UpgradeTypes
  <2> QED BY <2>2, <2>3
<1>6. RowsKept(db)' /\ RowsKept(disk)'
  BY <1>1, <1>5 DEF RowsKept, CopyIn
<1>7. OpenIsExpected' /\ RebuildStage'
  BY <1>1 DEF UpgradeInv, OpenIsExpected, RebuildStage, RebuildSteps
<1>8. Upgrade!Mine \subseteq Upgrade!Tables
  BY DEF Upgrade!Mine, Upgrade!Tables
<1>9. Upgraded'
  BY <1>1, <1>2, <1>3, <1>8, StaysOn DEF UpgradeInv, Upgraded
<1>10. RowRight'
  BY <1>1, <1>3 DEF UpgradeInv, RowRight
<1> QED BY <1>4, <1>6, <1>7, <1>9, <1>10 DEF UpgradeInv

\* The process ends, because it dies or because connect raises.
LEMMA EndStep ==
  ASSUME UpgradeInv, Upgrade!Conn!Reopen, step' = "down", left' = <<>>, UNCHANGED <<server, seen, accepted>>
  PROVE  UpgradeInv'
<1>1. db' = disk /\ disk' = disk /\ open' = FALSE
  BY DEF Upgrade!Conn!Reopen, Upgrade!Conn!Rollback
<1>2. UpgradeTypes'
  BY <1>1, OrderOf DEF UpgradeInv, UpgradeTypes
<1>3. RowsKept(db)' /\ RowsKept(disk)'
  BY <1>1 DEF UpgradeInv, RowsKept, CopyIn
<1>4. OpenIsExpected' /\ RebuildStage' /\ Upgraded' /\ RowRight'
  BY <1>1 DEF UpgradeInv, OpenIsExpected, RebuildStage, RebuildSteps, Upgraded, RowRight
<1> QED BY <1>2, <1>3, <1>4 DEF UpgradeInv

LEMMA BeginsUpgraded == Upgrade!Init => UpgradeInv
<1> SUFFICES ASSUME Upgrade!Init PROVE UpgradeInv
  OBVIOUS
<1>1. PICK shape \in [Upgrade!Mine -> {"none", "legacy", "current"}], rows \in SUBSET Rows,
        columns \in {{}, Columns}, row \in Upgrade!Written,
        stamp \in {"closed_at", "abandoned_at"}, edge \in {"external", "internal"} :
       db = [table |-> [t \in Upgrade!Tables |->
                          IF t \in Upgrade!Mine /\ shape[t] # "none"
                            THEN [shape |-> shape[t], rows |-> rows, copy |-> Nobody]
                            ELSE [shape |-> "none", rows |-> {}, copy |-> Nobody]],
             columns |-> columns, stamp |-> stamp, edge |-> edge,
             row |-> IF server = "episteme" THEN row ELSE Upgrade!Right]
  BY DEF Upgrade!Init
<1>2. /\ server \in Upgrade!Servers /\ disk = db /\ open = FALSE /\ left = <<>> /\ step = "down" /\ seen = {}
      /\ accepted = [t \in Upgrade!Tables |-> db.table[t].rows]
  BY DEF Upgrade!Init
<1>3. db.table \in [Upgrade!Tables -> TableKinds]
  BY <1>1 DEF TableKinds
<1>4. db \in Databases /\ (server # "episteme" => db.row = Upgrade!Right)
  BY <1>1, <1>3 DEF Databases, Upgrade!Written
<1>5. UpgradeTypes
  BY <1>2, <1>3, <1>4, OrderOf DEF UpgradeTypes, TableKinds
<1>6. RowsKept(db) /\ RowsKept(disk)
  BY <1>2 DEF RowsKept
<1>7. OpenIsExpected /\ RebuildStage /\ Upgraded /\ RowRight
  BY <1>2, <1>4 DEF OpenIsExpected, RebuildStage, RebuildSteps, Upgraded, RowRight
<1> QED BY <1>5, <1>6, <1>7 DEF UpgradeInv

LEMMA UpgradeSteadiness == UpgradeInv /\ [Upgrade!Next]_(Upgrade!vars) => UpgradeInv'
<1> SUFFICES ASSUME UpgradeInv, [Upgrade!Next]_(Upgrade!vars) PROVE UpgradeInv'
  OBVIOUS
<1>1. CASE Upgrade!Start \/ Upgrade!Schema \/ Upgrade!AddColumn \/ Upgrade!CommitAll
  BY <1>1, UpgradeStartStep, SchemaStep, AddColumnStep, CommitAllStep
<1>2. ASSUME NEW t \in Upgrade!Tables,
             \/ Upgrade!Look(t) \/ Upgrade!Create(t) \/ Upgrade!CreateFails(t) \/ Upgrade!Copy(t) \/ Upgrade!Drop(t) \/ Upgrade!Rename(t) \/ Upgrade!Enforce(t)
             \/ \E r \in Rows : Upgrade!Insert(t, r)
      PROVE  UpgradeInv'
  <2>1. CASE Upgrade!CreateFails(t)
    BY <2>1, EndStep DEF Upgrade!CreateFails
  <2> QED BY <1>2, <2>1, LookStep, CreateStep, CopyStep, DropStep, RenameStep, EnforceStep, InsertStep
<1>3. CASE Upgrade!RepairProgrammes \/ Upgrade!MoveStamps \/ Upgrade!RetypeEdges \/ Upgrade!Serve
  BY <1>3, RepairProgrammesStep, MoveStampsStep, RetypeEdgesStep, ServeStep
<1>4. CASE Upgrade!Crash
  BY <1>4, EndStep DEF Upgrade!Crash
<1>5. CASE UNCHANGED Upgrade!vars
  <2>1. UNCHANGED <<db, disk, open, server, left, step, seen, accepted>> /\ Upgrade!Mine' = Upgrade!Mine
    BY <1>5 DEF Upgrade!vars, Upgrade!Mine
  <2>2. UpgradeTypes' /\ RowsKept(db)' /\ RowsKept(disk)' /\ OpenIsExpected' /\ RowRight'
    BY <2>1 DEF UpgradeInv, UpgradeTypes, RowsKept, CopyIn, OpenIsExpected, RowRight
  <2>3. RebuildStage' /\ Upgraded'
    BY <2>1, StaysOn DEF UpgradeInv, RebuildStage, Upgraded
  <2> QED BY <2>2, <2>3 DEF UpgradeInv
<1> QED BY <1>1, <1>2, <1>3, <1>4, <1>5 DEF Upgrade!Next


LEMMA RowsAreNotDestroyed == UpgradeInv => Upgrade!NothingIsDestroyed
BY DEF UpgradeInv, RowsKept, CopyIn, Upgrade!NothingIsDestroyed

LEMMA ServingIsUpgraded == UpgradeInv => Upgrade!ServedIsUpgraded
<1> SUFFICES ASSUME UpgradeInv, step = "serving" PROVE Upgrade!ServedIsUpgraded
  BY DEF Upgrade!ServedIsUpgraded
<1>1. /\ left = <<>> /\ open = FALSE /\ disk = db /\ \A w : ~Due(w)
  BY OrderOf DEF UpgradeInv, UpgradeTypes, RebuildStage, OpenIsExpected, Due
<1>2. Upgrade!Mine \subseteq Upgrade!Tables
  BY DEF Upgrade!Mine, Upgrade!Tables
<1>3. \A t \in Upgrade!Mine : db.table[t].shape \in {"none", "legacy", "current"}
  BY <1>2, KindOfTable DEF UpgradeInv, UpgradeTypes
<1> QED BY <1>1, <1>3 DEF UpgradeInv, Upgraded, RowRight, Upgrade!ServedIsUpgraded

-----------------------------------------------------------------------------
\* A behaviour of the model is one of each of its subsystems.
LEMMA PartsArchive == Parts => Archiving!Init /\ [][Archiving!Next]_(Archiving!vars)
<1>1. Start => Archiving!Init
  BY DEF Start
<1>2. [Advance]_<<part, vars, archiveVars, upgradeVars>> => [Archiving!Next]_(Archiving!vars)
  BY DEF Advance, archiveVars, Archiving!vars, Archiving!live, Archiving!ledger, Archiving!files
<1> QED BY <1>1, <1>2, PTL DEF Parts

LEMMA PartsUpgrade == Parts => Upgrade!Init /\ [][Upgrade!Next]_(Upgrade!vars)
<1>1. Start => Upgrade!Init
  BY DEF Start
<1>2. [Advance]_<<part, vars, archiveVars, upgradeVars>> => [Upgrade!Next]_(Upgrade!vars)
  BY DEF Advance, upgradeVars, Upgrade!vars
<1> QED BY <1>1, <1>2, PTL DEF Parts

LEMMA ArchiveInvariance == Parts => []ArchiveInv
BY PartsArchive, ArchiveBegins, ArchiveSteadiness, PTL

LEMMA UpgradeInvariance == Parts => []UpgradeInv
BY PartsUpgrade, BeginsUpgraded, UpgradeSteadiness, PTL

\* However archivings overlap and die, an archived programme is held by some
\* file, an entry points to a file that holds its programme, and with no death
\* an open file has as many entries as were counted when nobody is at work.
THEOREM ArchivedStaysCopied == Parts => []ArchivedIsCopied
<1>1. ArchiveInv => ArchivedIsCopied
  BY ArchiveInvCopies DEF ArchivedIsCopied
<1> QED BY <1>1, ArchiveInvariance, PTL

\* The mark of _archive_programme lets one archiving of a programme through,
\* so that no programme has two entries, in one file or in two.
THEOREM EntriesAreUnique == Parts => []OneEntry
<1>1. ArchiveInv => OneEntry
  BY DEF ArchiveInv, FilesAgree, OneEntry
<1> QED BY <1>1, ArchiveInvariance, PTL

\* When a start begins to serve, every programme with an entry is marked and
\* none that is closed is left: no archiving of the start can fail.
THEOREM StartArchivesAll == Parts => StartLeavesNothingPending
<1>1. ArchiveInv /\ [Archiving!Next]_(Archiving!vars) =>
        [~Archiving!Serving /\ Archiving!Serving' =>
           \A p \in Filed :
             /\ status'[p] # "closed"
             /\ p \in Archiving!Entered' => status'[p] = "archived"]_(Archiving!vars)
  BY StartHasArchived
<1> QED BY <1>1, PartsArchive, ArchiveInvariance, PTL
        DEF StartLeavesNothingPending, Archiving!StartLeavesNothingPending

\* At whatever statement an upgrade dies, and however often, the rows that were
\* accepted are on disk, in their table or in the copy that was to become it.
THEOREM UpgradesDestroyNothing == Parts => []NothingIsDestroyed
<1>1. UpgradeInv => NothingIsDestroyed
  BY RowsAreNotDestroyed DEF NothingIsDestroyed
<1> QED BY <1>1, UpgradeInvariance, PTL

\* A server that serves has committed the schema of today and every repair.
THEOREM ServersAreUpgraded == Parts => []ServedIsUpgraded
<1>1. UpgradeInv => ServedIsUpgraded
  BY ServingIsUpgraded DEF ServedIsUpgraded
<1> QED BY <1>1, UpgradeInvariance, PTL
===============================================================================
