-------------------------- MODULE ProgrammeLifecycle --------------------------
(***************************************************************************)
(* The research loop of the episteme server around a trial: programmes,    *)
(* hypotheses, bundles, observations, beliefs and conclusions, and the     *)
(* handlers that check them and then write.                                *)
(*                                                                         *)
(* Tools declared with `def' run in worker threads: each read and each     *)
(* commit of theirs is a step, and anything may come between two of them.  *)
(* Tools declared with `async def' run on the event loop: threads come in  *)
(* between, but no other async handler does before an await.  A call whose *)
(* first check refuses it changes nothing and is not a step.               *)
(*                                                                         *)
(* A request names a programme, a hypothesis of it or a trial of that; the *)
(* ones that mix two programmes are refused and left out.  How a running   *)
(* trial ends is the subject of TrialLifecycle; here it just ends.         *)
(***************************************************************************)
EXTENDS Naturals, FiniteSets, Sequences

CONSTANTS Programmes, Goals,
          Hypotheses, Trials, \* bounds as well: ids that may ever be used
          Callers,            \* requests the server handles at the same time
          Nobody,             \* no programme, hypothesis, trial or goal
          Verdicts,           \* what a hypothesis can be concluded with
          Budget,             \* budget_max_trials
          MaxCorrections,     \* bound: correct_trial_status calls
          MaxCrashes          \* bound: process deaths

ASSUME IdsAssumption ==
  /\ Nobody \notin Programmes \cup Hypotheses \cup Trials \cup Goals
  /\ Hypotheses \cap Trials = {}
ASSUME VerdictsAssumption ==
  Verdicts \cap {"none", "proposed", "under_test", "abandoned"} = {}
ASSUME LimitsAssumption ==
  /\ Budget \in Nat
  /\ MaxCorrections \in Nat
  /\ MaxCrashes \in Nat
ASSUME CallersAssumption == IsFiniteSet(Callers) /\ Callers # {}

VARIABLES
  programme,    \* programmes.status; "none" before the row exists
  goal,         \* programmes.goal, up to the prefix that is compared
  hypothesis,   \* hypotheses.status
  programmeOf,  \* hypotheses.programme_id
  trial,        \* trials.status; "failed" stands for retryable, too
  hypothesisOf, \* trials.hypothesis_id
  bundles,      \* how many bundles were linked to a trial; the last one counts
  observed,     \* trials with an observation
  believed,     \* programmes with a belief
  conclusions,  \* the verdicts of a hypothesis's conclusion rows
  call,         \* where each caller's handler is
  covered,      \* history: what the call that closed a programme had listed
  corrections, crashes

records == <<programme, goal, hypothesis, programmeOf, trial, hypothesisOf,
             bundles, observed, believed, conclusions>>
bounds  == <<corrections, crashes>>
vars    == <<records, call, covered, bounds>>

Open     == {"proposed", "under_test"}
Closed   == {"completed", "abandoned", "archived"}
Ends     == {"completed", "failed"}
Settled  == Ends \cup {"abandoned"}

HypothesesOf(p) == {h \in Hypotheses : programmeOf[h] = p}
TrialsOf(p) == {t \in Trials : hypothesisOf[t] \in HypothesesOf(p)}
TrialsFor(h) == {t \in Trials : hypothesisOf[t] = h}

\* What the handlers ask before they write, by the commitment that asks it.
Active(p) == programme[p] = "active"
HypothesisExists(h) == hypothesis[h] # "none"
HypothesisInProgramme(p, h) == HypothesisExists(h) /\ programmeOf[h] = p
HypothesisTestable(h) == hypothesis[h] \in Open
BundleControlled(t) == bundles[t] > 0
ObservationAllowed(t) == trial[t] = "completed" /\ BundleControlled(t)
InMemory(p) == TrialsOf(p) \cap observed # {}
NotConcluded(h) == conclusions[h] = << >>
BeliefRecorded(p) == p \in believed

\* What the store inserts and updates.
InsertProgramme(p, g) ==
  /\ programme' = [programme EXCEPT ![p] = "active"]
  /\ goal' = [goal EXCEPT ![p] = g]
InsertHypothesis(h, p) ==
  /\ hypothesis' = [hypothesis EXCEPT ![h] = "proposed"]
  /\ programmeOf' = [programmeOf EXCEPT ![h] = p]
InsertTrial(t, h) ==
  /\ trial' = [trial EXCEPT ![t] = "designed"]
  /\ hypothesisOf' = [hypothesisOf EXCEPT ![t] = h]
InsertBundle(t) == bundles' = [bundles EXCEPT ![t] = @ + 1]
InsertObservation(t) == observed' = observed \cup {t}
InsertBelief(p) == believed' = believed \cup {p}
InsertConclusion(h, v) == conclusions' = [conclusions EXCEPT ![h] = Append(@, v)]
SetHypothesis(h, s) == hypothesis' = [hypothesis EXCEPT ![h] = s]

-----------------------------------------------------------------------------
(***************************************************************************)
(* Handlers.                                                               *)
(***************************************************************************)
Handler(where, x, how, todo, seen) ==
  [at |-> where, on |-> x, how |-> how, todo |-> todo, seen |-> seen]

Suspended(where, x) == Handler(where, x, "none", {}, {})

Idle == Suspended("idle", Nobody)

At(c, where) == call[c].at = where
Goto(c, where) == call' = [call EXCEPT ![c] = Suspended(where, call[c].on)]
Return(c) == call' = [call EXCEPT ![c] = Idle]

\* A call on x arrives.
Begin(c, where, x) ==
  /\ call[c] = Idle
  /\ call' = [call EXCEPT ![c] = Suspended(where, x)]

\* Go on when the check holds, answer with an error otherwise.
Check(c, holds, next) ==
  IF holds THEN Goto(c, next) ELSE Return(c)

LoopSteps ==
  {"create.insert", "run.active", "run.start", "observe.active",
   "observe.insert", "conclude.evidence", "conclude.recorded",
   "conclude.insert", "conclude.label"}
LoopFree == \A c \in Callers : call[c].at \notin LoopSteps

-----------------------------------------------------------------------------
(***************************************************************************)
(* create_programme.  The study is created at the optimizer after the row; *)
(* when that fails the caller gets an error and the row stays.             *)
(***************************************************************************)
CreateBegin(c, g) ==
  /\ LoopFree
  /\ \E p \in Programmes : programme[p] = "none"
  /\ \A p \in Programmes : ~(Active(p) /\ goal[p] = g)
  /\ Begin(c, "create.insert", g)
  /\ UNCHANGED <<records, covered, bounds>>

CreateInsert(c) ==
  /\ At(c, "create.insert")
  /\ \E p \in Programmes :
       /\ programme[p] = "none"
       /\ InsertProgramme(p, call[c].on)
  /\ Return(c)
  /\ UNCHANGED <<hypothesis, programmeOf, trial, hypothesisOf, bundles,
                 observed, believed, conclusions, covered, bounds>>

-----------------------------------------------------------------------------
\* formulate_hypothesis.
FormulateBeginAny(c, p) ==  \* mutant: any programme that exists
  /\ programme[p] # "none"
  /\ Begin(c, "formulate.insert", p)
  /\ UNCHANGED <<records, covered, bounds>>
FormulateBegin(c, p) ==
  /\ Active(p)
  /\ Begin(c, "formulate.insert", p)
  /\ UNCHANGED <<records, covered, bounds>>

FormulateInsert(c) ==
  /\ At(c, "formulate.insert")
  /\ \E h \in Hypotheses :
       /\ hypothesis[h] = "none"
       /\ InsertHypothesis(h, call[c].on)
  /\ Return(c)
  /\ UNCHANGED <<programme, goal, trial, hypothesisOf, bundles, observed,
                 believed, conclusions, covered, bounds>>

\* abandon_hypothesis: the status is validated again under the store's lock.
AbandonBegin(c, h) ==
  /\ \E p \in Programmes : Active(p) /\ HypothesisInProgramme(p, h)
  /\ Begin(c, "abandon.write", h)
  /\ UNCHANGED <<records, covered, bounds>>

Abandoned(h) == SetHypothesis(h, "abandoned")

AbandonWrite(c) ==
  LET h == call[c].on IN
  /\ At(c, "abandon.write")
  /\ IF hypothesis[h] \in Open THEN Abandoned(h) ELSE UNCHANGED hypothesis
  /\ Return(c)
  /\ UNCHANGED <<programme, goal, programmeOf, trial, hypothesisOf, bundles,
                 observed, believed, conclusions, covered, bounds>>

-----------------------------------------------------------------------------
(***************************************************************************)
(* design_experiment.                                                      *)
(***************************************************************************)
DesignBegin(c, h) ==
  /\ HypothesisTestable(h)
  /\ Begin(c, "design.active", h)
  /\ UNCHANGED <<records, covered, bounds>>

DesignActive(c) ==
  /\ At(c, "design.active")
  /\ Check(c, Active(programmeOf[call[c].on]), "design.budget")
  /\ UNCHANGED <<records, covered, bounds>>

\* The trial budget; once a trial has completed, the wall time may be spent.
WithinBudgetByOne(p) ==  \* mutant: off by one
  Cardinality(TrialsOf(p)) <= Budget
WithinBudget(p) == Cardinality(TrialsOf(p)) < Budget

DesignBudget(c) ==
  LET p == programmeOf[call[c].on] IN
  /\ At(c, "design.budget")
  /\ \/ Check(c, WithinBudget(p), "design.insert")
     \/ /\ \E t \in TrialsOf(p) : trial[t] = "completed"
        /\ Return(c)
  /\ UNCHANGED <<records, covered, bounds>>

DesignInsert(c) ==
  /\ At(c, "design.insert")
  /\ \E t \in Trials :
       /\ trial[t] = "none"
       /\ InsertTrial(t, call[c].on)
  /\ Goto(c, "design.promote")
  /\ UNCHANGED <<programme, goal, hypothesis, programmeOf, bundles, observed,
                 believed, conclusions, covered, bounds>>

\* promote_hypothesis_if_proposed raises when the hypothesis has left the loop.
DesignPromote(c) ==
  LET h == call[c].on IN
  /\ At(c, "design.promote")
  /\ IF hypothesis[h] = "proposed"
     THEN SetHypothesis(h, "under_test")
     ELSE UNCHANGED hypothesis
  /\ Return(c)
  /\ UNCHANGED <<programme, goal, programmeOf, trial, hypothesisOf, bundles,
                 observed, believed, conclusions, covered, bounds>>

-----------------------------------------------------------------------------
CaptureBegin(c, t) ==
  /\ trial[t] = "designed"
  /\ bundles[t] = 0
  /\ Begin(c, "capture.active", t)
  /\ UNCHANGED <<records, covered, bounds>>

CaptureActive(c) ==
  /\ At(c, "capture.active")
  /\ Check(c, Active(programmeOf[hypothesisOf[call[c].on]]), "capture.link")
  /\ UNCHANGED <<records, covered, bounds>>

\* Code or data cannot be captured.
CaptureFail(c) ==
  /\ At(c, "capture.link")
  /\ Return(c)
  /\ UNCHANGED <<records, covered, bounds>>

CaptureLink(c) ==
  LET t == call[c].on IN
  /\ At(c, "capture.link")
  /\ InsertBundle(t)
  /\ Return(c)
  /\ UNCHANGED <<programme, goal, hypothesis, programmeOf, trial, hypothesisOf,
                 observed, believed, conclusions, covered, bounds>>

-----------------------------------------------------------------------------
(***************************************************************************)
(* The trial.                                                              *)
(***************************************************************************)

\* run_trial up to its first await.
RunBegin(c, t) ==
  /\ LoopFree
  /\ trial[t] = "designed"
  /\ BundleControlled(t)
  /\ Begin(c, "run.active", t)
  /\ UNCHANGED <<records, covered, bounds>>

RunActive(c) ==
  /\ At(c, "run.active")
  /\ Check(c, Active(programmeOf[hypothesisOf[call[c].on]]), "run.start")
  /\ UNCHANGED <<records, covered, bounds>>

SetTrial(t, s) ==
  /\ trial' = [trial EXCEPT ![t] = s]
  /\ UNCHANGED <<programme, goal, hypothesis, programmeOf, hypothesisOf,
                 bundles, observed, believed, conclusions>>

RunStart(c) ==
  LET t == call[c].on IN
  /\ At(c, "run.start")
  /\ IF trial[t] = "designed" THEN SetTrial(t, "running")
                              ELSE UNCHANGED records
  /\ Return(c)
  /\ UNCHANGED <<covered, bounds>>

\* The finalizer, cancel_trial or mark_retryable label the running trial.
TrialEnd(t) ==
  /\ LoopFree
  /\ trial[t] = "running"
  /\ \E s \in Ends : SetTrial(t, s)
  /\ UNCHANGED <<call, covered, bounds>>

CancelDesigned(c, t) ==
  /\ LoopFree /\ call[c] = Idle
  /\ trial[t] = "designed"
  /\ SetTrial(t, "abandoned")
  /\ UNCHANGED <<call, covered, bounds>>

\* correct_trial_status: one locked call of a worker thread.  It asks neither
\* for an active programme nor for a hypothesis without a conclusion.
CorrectTrial(c, t) ==
  /\ call[c] = Idle
  /\ corrections < MaxCorrections
  /\ trial[t] \in Ends
  /\ \E s \in Ends \ {trial[t]} : SetTrial(t, s)
  /\ corrections' = corrections + 1
  /\ UNCHANGED <<call, covered, crashes>>

-----------------------------------------------------------------------------
(***************************************************************************)
(* record_observation and update_belief.                                   *)
(***************************************************************************)
ObserveBegin(c, t) ==
  /\ LoopFree
  /\ ObservationAllowed(t)
  /\ Begin(c, "observe.active", t)
  /\ UNCHANGED <<records, covered, bounds>>

ObserveActive(c) ==
  /\ At(c, "observe.active")
  /\ Check(c, Active(programmeOf[hypothesisOf[call[c].on]]), "observe.insert")
  /\ UNCHANGED <<records, covered, bounds>>

ObserveInsert(c) ==
  /\ At(c, "observe.insert")
  /\ InsertObservation(call[c].on)
  /\ Return(c)
  /\ UNCHANGED <<programme, goal, hypothesis, programmeOf, trial, hypothesisOf,
                 bundles, believed, conclusions, covered, bounds>>

\* The optimizer is told and asked, three awaits in all.
BeliefBegin(c, p) ==
  /\ LoopFree
  /\ Active(p)
  /\ InMemory(p)
  /\ Begin(c, "belief.tell", p)
  /\ UNCHANGED <<records, covered, bounds>>

BeliefFail(c) ==
  /\ LoopFree
  /\ At(c, "belief.tell")
  /\ Return(c)
  /\ UNCHANGED <<records, covered, bounds>>

BeliefInsert(c) ==
  /\ LoopFree
  /\ At(c, "belief.tell")
  /\ InsertBelief(call[c].on)
  /\ Return(c)
  /\ UNCHANGED <<programme, goal, hypothesis, programmeOf, trial, hypothesisOf,
                 bundles, observed, conclusions, covered, bounds>>

-----------------------------------------------------------------------------
(***************************************************************************)
(* conclude_hypothesis.  Its reads of what only the event loop writes are  *)
(* taken together; corrections, which come from threads, fall in between.  *)
(* It does not look at the hypothesis's status before it writes.  The      *)
(* claim it asks another server to mint afterwards is left out.            *)
(***************************************************************************)
ConcludeBegin(c, h, v) ==
  /\ LoopFree
  /\ call[c] = Idle
  /\ \E p \in Programmes : Active(p) /\ HypothesisInProgramme(p, h)
  /\ NotConcluded(h)
  /\ call' = [call EXCEPT ![c] =
                Handler("conclude.evidence", h, v, {}, {})]
  /\ UNCHANGED <<records, covered, bounds>>

\* The handler goes on to its next step and keeps the verdict asked for.
ConcludeGoto(c, where) ==
  call' = [call EXCEPT ![c] = Handler(where, call[c].on, call[c].how, {}, {})]

Completed(h) == {t \in TrialsFor(h) : trial[t] = "completed"}

ConcludeEvidence(c) ==
  /\ At(c, "conclude.evidence")
  /\ IF Completed(call[c].on) # {} THEN ConcludeGoto(c, "conclude.recorded")
                                   ELSE Return(c)
  /\ UNCHANGED <<records, covered, bounds>>

MayConcludeInFlight(h) ==  \* mutant: no check_no_running_trials
  /\ Completed(h) \subseteq observed
  /\ BeliefRecorded(programmeOf[h])
MayConclude(h) ==
  /\ Completed(h) \subseteq observed
  /\ \A t \in TrialsFor(h) : trial[t] # "running"
  /\ BeliefRecorded(programmeOf[h])

ConcludeRecorded(c) ==
  /\ At(c, "conclude.recorded")
  /\ IF MayConclude(call[c].on) THEN ConcludeGoto(c, "conclude.insert")
                                ELSE Return(c)
  /\ UNCHANGED <<records, covered, bounds>>

ConcludeInsertLabels(c) ==  \* mutant: the label before the conclusion
  LET h == call[c].on IN
  /\ At(c, "conclude.insert")
  /\ hypothesis' = [hypothesis EXCEPT ![h] = call[c].how]
  /\ ConcludeGoto(c, "conclude.label")
  /\ UNCHANGED <<programme, goal, programmeOf, trial, hypothesisOf, bundles,
                 observed, believed, conclusions, covered, bounds>>
ConcludeInsert(c) ==
  LET h == call[c].on IN
  /\ At(c, "conclude.insert")
  /\ InsertConclusion(h, call[c].how)
  /\ ConcludeGoto(c, "conclude.label")
  /\ UNCHANGED <<programme, goal, hypothesis, programmeOf, trial, hypothesisOf,
                 bundles, observed, believed, covered, bounds>>

\* An illegal transition raises and leaves the conclusion behind.
ConcludeLabel(c) ==
  LET h == call[c].on IN
  /\ At(c, "conclude.label")
  /\ IF hypothesis[h] = "under_test"
     THEN SetHypothesis(h, call[c].how)
     ELSE UNCHANGED hypothesis
  /\ Return(c)
  /\ UNCHANGED <<programme, goal, programmeOf, trial, hypothesisOf, bundles,
                 observed, believed, conclusions, covered, bounds>>

-----------------------------------------------------------------------------
(***************************************************************************)
(* close_programme.  Its gates look at two lists, taken one after the      *)
(* other; its sweeps act on what the lists said, one commit per row, and   *)
(* stop at the first transition that is illegal by then.                   *)
(***************************************************************************)
CloseBegin(c, p, how) ==
  /\ call[c] = Idle
  /\ Active(p)
  /\ call' = [call EXCEPT ![c] =
                Handler("close.trials", p, how, {}, {})]
  /\ UNCHANGED <<records, covered, bounds>>

\* check_programme_has_trials, of a closing as completed.
HasTrials(listed) == listed # {}

CloseListTrials(c) ==
  LET listed == TrialsOf(call[c].on) IN
  /\ At(c, "close.trials")
  /\ IF \/ call[c].how = "completed" /\ ~HasTrials(listed)
        \/ \E t \in listed : trial[t] = "running"
     THEN Return(c)
     ELSE call' = [call EXCEPT ![c] =
            Handler("close.hypotheses", call[c].on, call[c].how,
                    {t \in listed : trial[t] = "designed"}, listed)]
  /\ UNCHANGED <<records, covered, bounds>>

\* What the sweep will abandon, of hypotheses with the status listed.
SweepsProposed(how) == {"proposed"}  \* mutant: whatever the closing status
Sweeps(how) == IF how = "completed" THEN {"proposed"} ELSE Open

CloseListHypotheses(c) ==
  LET listed == HypothesesOf(call[c].on)
      how    == call[c].how
  IN
  /\ At(c, "close.hypotheses")
  /\ IF how = "completed" /\ \E h \in listed : hypothesis[h] = "under_test"
     THEN Return(c)
     ELSE call' = [call EXCEPT ![c] =
            Handler("close.sweep", call[c].on, how,
                    call[c].todo \cup
                      {h \in listed : hypothesis[h] \in Sweeps(how)},
                    call[c].seen \cup listed)]
  /\ UNCHANGED <<records, covered, bounds>>

\* One row of the sweep is done.
Swept(c, x) ==
  call' = [call EXCEPT ![c] =
             Handler("close.sweep", call[c].on, call[c].how,
                     call[c].todo \ {x}, call[c].seen)]

CloseSweepHypothesis(c) ==
  /\ At(c, "close.sweep")
  /\ \E h \in call[c].todo \cap Hypotheses :
       IF hypothesis[h] \in Open
       THEN Abandoned(h) /\ Swept(c, h)
       ELSE Return(c) /\ UNCHANGED hypothesis
  /\ UNCHANGED <<programme, goal, programmeOf, trial, hypothesisOf, bundles,
                 observed, believed, conclusions, covered, bounds>>

CloseSweepTrialSkips(c) ==  \* mutant: a refused transition is passed over
  /\ At(c, "close.sweep")
  /\ call[c].todo \cap Hypotheses = {}
  /\ \E t \in call[c].todo \cap Trials :
       /\ Swept(c, t)
       /\ IF trial[t] = "designed" THEN SetTrial(t, "abandoned")
                                   ELSE UNCHANGED records
  /\ UNCHANGED <<covered, bounds>>
CloseSweepTrial(c) ==
  /\ At(c, "close.sweep")
  /\ call[c].todo \cap Hypotheses = {}
  /\ \E t \in call[c].todo \cap Trials :
       IF trial[t] = "designed"
       THEN SetTrial(t, "abandoned") /\ Swept(c, t)
       ELSE Return(c) /\ UNCHANGED records
  /\ UNCHANGED <<covered, bounds>>

SetProgramme(p, s) ==
  /\ programme' = [programme EXCEPT ![p] = s]
  /\ UNCHANGED <<goal, hypothesis, programmeOf, trial, hypothesisOf, bundles,
                 observed, believed, conclusions>>

CloseCommit(c) ==
  LET p == call[c].on IN
  /\ At(c, "close.sweep")
  /\ call[c].todo = {}
  /\ IF Active(p)
     THEN /\ SetProgramme(p, call[c].how)
          /\ covered' = [covered EXCEPT ![p] = call[c].seen]
          /\ Goto(c, "close.archive")
     ELSE Return(c) /\ UNCHANGED <<records, covered>>
  /\ UNCHANGED bounds

\* The archiver refuses a programme with a running trial, and a failure of its
\* copy is reported and ignored.
Archivable(p) ==
  /\ programme[p] \in {"completed", "abandoned"}
  /\ \A t \in TrialsOf(p) : trial[t] # "running"

CloseArchive(c) ==
  LET p == call[c].on IN
  /\ At(c, "close.archive")
  /\ \/ UNCHANGED records
     \/ Archivable(p) /\ SetProgramme(p, "archived")
  /\ Return(c)
  /\ UNCHANGED <<covered, bounds>>

\* archive_pending_programmes, the tool and its twin at startup.
ArchivePending(c, p) ==
  /\ LoopFree /\ call[c] = Idle
  /\ Archivable(p)
  /\ SetProgramme(p, "archived")
  /\ UNCHANGED <<call, covered, bounds>>

-----------------------------------------------------------------------------
\* The process dies; the next start fails what was running.
Crash ==
  /\ crashes < MaxCrashes
  /\ crashes' = crashes + 1
  /\ trial' = [t \in Trials |->
                 IF trial[t] = "running" THEN "failed" ELSE trial[t]]
  /\ call' = [c \in Callers |-> Idle]
  /\ UNCHANGED <<programme, goal, hypothesis, programmeOf, hypothesisOf,
                 bundles, observed, believed, conclusions, covered,
                 corrections>>

Init ==
  /\ programme = [p \in Programmes |-> "none"]
  /\ goal = [p \in Programmes |-> Nobody]
  /\ hypothesis = [h \in Hypotheses |-> "none"]
  /\ programmeOf = [h \in Hypotheses |-> Nobody]
  /\ trial = [t \in Trials |-> "none"]
  /\ hypothesisOf = [t \in Trials |-> Nobody]
  /\ bundles = [t \in Trials |-> 0]
  /\ observed = {}
  /\ believed = {}
  /\ conclusions = [h \in Hypotheses |-> << >>]
  /\ call = [c \in Callers |-> Idle]
  /\ covered = [p \in Programmes |-> {}]
  /\ corrections = 0
  /\ crashes = 0

Arrival(c) ==
  \/ \E g \in Goals : CreateBegin(c, g)
  \/ \E p \in Programmes :
       \/ FormulateBegin(c, p)
       \/ BeliefBegin(c, p)
       \/ \E how \in {"completed", "abandoned"} : CloseBegin(c, p, how)
       \/ ArchivePending(c, p)
  \/ \E h \in Hypotheses :
       \/ AbandonBegin(c, h)
       \/ DesignBegin(c, h)
       \/ \E v \in Verdicts : ConcludeBegin(c, h, v)
  \/ \E t \in Trials :
       \/ CaptureBegin(c, t)
       \/ RunBegin(c, t)
       \/ CancelDesigned(c, t)
       \/ CorrectTrial(c, t)
       \/ ObserveBegin(c, t)

Step(c) ==
  \/ CreateInsert(c)
  \/ FormulateInsert(c)
  \/ AbandonWrite(c)
  \/ DesignActive(c)
  \/ DesignBudget(c)
  \/ DesignInsert(c)
  \/ DesignPromote(c)
  \/ CaptureActive(c)
  \/ CaptureFail(c)
  \/ CaptureLink(c)
  \/ RunActive(c)
  \/ RunStart(c)
  \/ ObserveActive(c)
  \/ ObserveInsert(c)
  \/ BeliefFail(c)
  \/ BeliefInsert(c)
  \/ ConcludeEvidence(c)
  \/ ConcludeRecorded(c)
  \/ ConcludeInsert(c)
  \/ ConcludeLabel(c)
  \/ CloseListTrials(c)
  \/ CloseListHypotheses(c)
  \/ CloseSweepHypothesis(c)
  \/ CloseSweepTrial(c)
  \/ CloseCommit(c)
  \/ CloseArchive(c)

Next ==
  \/ \E c \in Callers : Arrival(c) \/ Step(c)
  \/ \E t \in Trials : TrialEnd(t)
  \/ Crash

Spec == Init /\ [][Next]_vars
-----------------------------------------------------------------------------
(***************************************************************************)
(* What holds however the calls overlap.                                   *)
(***************************************************************************)
Steps == LoopSteps \cup
  {"idle", "formulate.insert", "abandon.write", "design.active",
   "design.budget", "design.insert", "design.promote", "capture.active",
   "capture.link", "belief.tell", "close.trials", "close.hypotheses",
   "close.sweep", "close.archive"}

Subjects == Programmes \cup Hypotheses \cup Trials \cup Goals \cup {Nobody}

Calls == [ at : Steps,
           on : Subjects,
           how : {"none", "completed", "abandoned"} \cup Verdicts,
           todo : SUBSET (Hypotheses \cup Trials),
           seen : SUBSET (Hypotheses \cup Trials) ]

\* Types; and a hypothesis or a trial that exists has the parent its row
\* names.
TypeOK ==
  /\ programme \in [Programmes -> {"none", "active"} \cup Closed]
  /\ goal \in [Programmes -> Goals \cup {Nobody}]
  /\ hypothesis \in
       [Hypotheses -> {"none", "abandoned"} \cup Open \cup Verdicts]
  /\ programmeOf \in [Hypotheses -> Programmes \cup {Nobody}]
  /\ trial \in [Trials -> {"none", "designed", "running"} \cup Settled]
  /\ hypothesisOf \in [Trials -> Hypotheses \cup {Nobody}]
  /\ bundles \in [Trials -> Nat]
  /\ observed \subseteq Trials
  /\ believed \subseteq Programmes
  /\ conclusions \in [Hypotheses -> Seq(Verdicts)]
  /\ call \in [Callers -> Calls]
  /\ covered \in [Programmes -> SUBSET (Hypotheses \cup Trials)]
  /\ corrections \in Nat
  /\ crashes \in Nat
  /\ \A h \in Hypotheses : hypothesis[h] = "none" <=> programmeOf[h] = Nobody
  /\ \A t \in Trials : trial[t] = "none" <=> hypothesisOf[t] = Nobody

\* check_duplicate_programme: no two active programmes have one goal, however
\* many calls create at once.
OneActivePerGoal ==
  \A p, q \in Programmes :
    Active(p) /\ Active(q) /\ goal[p] = goal[q] => p = q

\* check_duplicate_conclusion: a hypothesis has at most one conclusion, even
\* when two calls conclude it at once or a crash parts the conclusion from the
\* label.
OneConclusion == \A h \in Hypotheses : Len(conclusions[h]) <= 1

\* The label of a hypothesis is never ahead of its conclusion, nor other than
\* it.
VerdictIsConcluded ==
  \A h \in Hypotheses :
    hypothesis[h] \in Verdicts => conclusions[h] = <<hypothesis[h]>>

\* stuck_hypotheses never fires: "under_test" is only said of a hypothesis with
\* a trial.
UnderTestHasTrial ==
  \A h \in Hypotheses : hypothesis[h] = "under_test" => TrialsFor(h) # {}

\* Whatever runs or ran was sealed: check_bundle_controlled on a row read
\* before the start still holds at the start.
RunIsSealed ==
  \A t \in Trials : trial[t] \in {"running"} \cup Ends => bundles[t] > 0

\* The gates and the sweep of close_programme together: of what the closing
\* call listed, nothing is open or running once the programme is closed,
\* although every row may change between the list and the sweep.
ClosedCoversListed ==
  \A p \in Programmes : programme[p] \in Closed =>
    \A x \in covered[p] :
      /\ x \in Hypotheses => hypothesis[x] \notin Open
      /\ x \in Trials => trial[x] \in Settled

\* Parallel calls of design_experiment overshoot the trial budget by at most
\* one trial for every other call.
OvershootBounded ==
  \A p \in Programmes :
    Cardinality(TrialsOf(p)) <= Budget + Cardinality(Callers) - 1

\* Gates 1 and 7 of conclude_hypothesis at the moment that counts: when the
\* conclusion is written the hypothesis has a completed trial, every completed
\* one is observed and none is running.
ConclusionIsGrounded ==
  [][\A h \in Hypotheses : conclusions'[h] # conclusions[h] =>
       /\ Completed(h) # {}
       /\ Completed(h) \subseteq observed
       /\ \A t \in TrialsFor(h) : trial[t] # "running"]_vars

-----------------------------------------------------------------------------
(***************************************************************************)
(* What holds while no two calls overlap.                                  *)
(***************************************************************************)

\* "A closed programme is immutable": nothing of it is added, started, sealed,
\* observed, believed or concluded.  A correction of an ended trial's label
\* stays possible.
Contents(p) ==
  [ hypotheses |-> [h \in HypothesesOf(p) |->
                      <<hypothesis[h], conclusions[h]>>],
    trials |-> [t \in TrialsOf(p) |->
                  <<IF trial[t] \in Ends THEN "ended" ELSE trial[t],
                    bundles[t], t \in observed>>],
    belief |-> p \in believed ]

ClosedIsImmutable ==
  [][\A p \in Programmes : programme[p] \in Closed =>
       /\ Contents(p)' = Contents(p)
       /\ programme'[p] \in {programme[p], "archived"}]_vars

\* A closed programme has no work left open, also when earlier calls on it
\* were refused half way or cut off by a crash.
ClosedHasNoOpenWork ==
  \A p \in Programmes : programme[p] \in Closed =>
    /\ \A h \in HypothesesOf(p) : hypothesis[h] \notin Open
    /\ \A t \in TrialsOf(p) : trial[t] \in Settled

-----------------------------------------------------------------------------
(***************************************************************************)
(* The inductive invariant: what the rows keep, and what each handler may  *)
(* still rely on although it read it some steps ago.                       *)
(***************************************************************************)
AboutProgramme == {"formulate.insert", "belief.tell", "close.trials",
                   "close.hypotheses", "close.sweep", "close.archive"}
AboutHypothesis == {"abandon.write", "design.active", "design.budget",
                    "design.insert", "design.promote", "conclude.evidence",
                    "conclude.recorded", "conclude.insert", "conclude.label"}
AboutTrial == {"capture.active", "capture.link", "run.active", "run.start",
               "observe.active", "observe.insert"}
Concluding == {"conclude.evidence", "conclude.recorded", "conclude.insert",
               "conclude.label"}
Closing == {"close.trials", "close.hypotheses", "close.sweep"}

\* No row is deleted: what a handler is about exists, and it is of the kind the
\* handler asked for.
SubjectExists(s) ==
  /\ s.at = "create.insert" => s.on \in Goals
  /\ s.at \in AboutProgramme => s.on \in Programmes /\ programme[s.on] # "none"
  /\ s.at \in AboutHypothesis =>
       s.on \in Hypotheses /\ hypothesis[s.on] # "none"
  /\ s.at \in AboutTrial => s.on \in Trials /\ trial[s.on] # "none"
  /\ s.at \in Concluding => s.how \in Verdicts
  /\ s.at \in Closing => s.how \in {"completed", "abandoned"}

\* The goal is still free when the programme is inserted.
GoalIsFree(s) ==
  s.at = "create.insert" => \A p \in Programmes : Active(p) => goal[p] # s.on

TrialIsDesigned(s) == s.at = "design.promote" => TrialsFor(s.on) # {}

StillSealed(s) == s.at \in {"run.active", "run.start"} => bundles[s.on] > 0

\* Nobody else concludes a hypothesis meanwhile.
StillUnconcluded(s) ==
  /\ s.at \in Concluding \ {"conclude.label"} => conclusions[s.on] = << >>
  /\ s.at = "conclude.label" => conclusions[s.on] = <<s.how>>

\* A row that has left the loop never comes back to it.
DisposedOf(x) ==
  /\ x \in Hypotheses => hypothesis[x] \notin Open \cup {"none"}
  /\ x \in Trials => trial[x] \in Settled

\* What a close has listed is disposed of or still to be swept; of the trials
\* that holds from their list on, of the hypotheses from theirs.
RestIsDisposedOf(s) ==
  s.at \in {"close.hypotheses", "close.sweep"} =>
    \A x \in s.seen \ s.todo : DisposedOf(x)

Knows(s) ==
  /\ SubjectExists(s)
  /\ GoalIsFree(s)
  /\ TrialIsDesigned(s)
  /\ StillSealed(s)
  /\ StillUnconcluded(s)
  /\ RestIsDisposedOf(s)

\* One coroutine at a time is between two awaits.
OneOnTheLoop ==
  \A c, d \in Callers :
    call[c].at \in LoopSteps /\ call[d].at \in LoopSteps => c = d

CoveredIsDisposedOf ==
  \A p \in Programmes : programme[p] \in Closed =>
    \A x \in covered[p] : DisposedOf(x)

IndInv ==
  /\ TypeOK
  /\ OneActivePerGoal
  /\ OneConclusion
  /\ VerdictIsConcluded
  /\ UnderTestHasTrial
  /\ RunIsSealed
  /\ CoveredIsDisposedOf
  /\ OneOnTheLoop
  /\ \A c \in Callers : Knows(call[c])

-----------------------------------------------------------------------------
(***************************************************************************)
(* What the repository says and the code does not do.                      *)
(***************************************************************************)

=============================================================================
