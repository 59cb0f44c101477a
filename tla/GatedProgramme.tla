---------------------------- MODULE GatedProgramme ----------------------------
(***************************************************************************)
(* The research loop of ProgrammeLifecycle behind the write gate of its    *)
(* server: the integrity checks that look at programmes, the monitor that  *)
(* runs and logs them, the tools that pass while a finding is open, and    *)
(* the wall time that trials use up.                                       *)
(***************************************************************************)
EXTENDS ProgrammeLifecycle

CONSTANTS WallBudget,  \* budget_max_wall_time_hours
          Hours,       \* what a run may take
          MaxAcks      \* bound: violations that are acknowledged

VARIABLES
  wall,   \* trials.duration_seconds, in hours; 0 while there is none
  aged,   \* trials that ended longer ago than the observation grace
  log, sweep, acks, crossed  \* those of WriteGate

gating == <<log, sweep, acks, crossed>>
gatedVars == <<vars, wall, aged, gating>>

Gate == INSTANCE WriteGate WITH
          Sweepers <- {"monitor"}, Live <- "upstream_connectivity",
          seen <- {}, known <- {}
Sets == INSTANCE FiniteSetsExt

-----------------------------------------------------------------------------
(***************************************************************************)
(* The budget and the checks.  Two of them count wall time: the commitment *)
(* that of completed trials, the audit that of all.                        *)
(***************************************************************************)
WallUsed(trials) == Sets!MapThenSumSet(LAMBDA t : wall[t], trials)

WallExhausted(p) ==
  /\ WallBudget > 0
  /\ WallUsed({t \in TrialsOf(p) : trial[t] = "completed"}) >= WallBudget
  /\ \E t \in TrialsOf(p) : trial[t] = "completed" /\ wall[t] > 0

BudgetExceeded ==
  {p \in Programmes :
     /\ Active(p)
     /\ \/ Cardinality(TrialsOf(p)) > Budget
        \/ WallBudget > 0 /\ WallUsed(TrialsOf(p)) > WallBudget}

CompletedWithoutObservation ==
  {t \in aged \ observed : /\ trial[t] = "completed"
                           /\ Active(programmeOf[hypothesisOf[t]])}

StuckHypotheses ==
  {h \in Hypotheses : hypothesis[h] = "under_test" /\ TrialsFor(h) = {}}

\* run_checks, those that look at what this module has.
Now ==
  ({"budget_exceeded"} \X BudgetExceeded)
    \cup ({"completed_without_observation"} \X CompletedWithoutObservation)
    \cup ({"stuck_hypotheses"} \X StuckHypotheses)

\* REMEDY_TOOLS.  A correction is never gated.
RemediesForget ==  \* mutant: no way to end a programme over its budget
  [ budget_exceeded |-> {},
    completed_without_observation |-> {"record_observation"},
    stuck_hypotheses |-> {"design_experiment", "conclude_hypothesis", "close_programme"} ]
Remedies ==
  [ budget_exceeded |-> {"close_programme"},
    completed_without_observation |-> {"record_observation"},
    stuck_hypotheses |-> {"design_experiment", "conclude_hypothesis", "close_programme"} ]

Passes(tool) == ~Gate!Refused(tool, Remedies, Now)

-----------------------------------------------------------------------------
\* A tool is called; what its handler does is in ProgrammeLifecycle.
GatedArrival(c) ==
  \/ Passes("create_programme") /\ \E g \in Goals : CreateBegin(c, g)
  \/ \E p \in Programmes :
       \/ Passes("formulate_hypothesis") /\ FormulateBegin(c, p)
       \/ Passes("update_belief") /\ BeliefBegin(c, p)
       \/ /\ Passes("close_programme")
          /\ \E how \in {"completed", "abandoned"} : CloseBegin(c, p, how)
       \/ Passes("archive_pending_programmes") /\ ArchivePending(c, p)
  \/ \E h \in Hypotheses :
       \/ Passes("abandon_hypothesis") /\ AbandonBegin(c, h)
       \/ Passes("design_experiment") /\ DesignBegin(c, h)
       \/ /\ Passes("conclude_hypothesis")
          /\ \E v \in Verdicts : ConcludeBegin(c, h, v)
  \/ \E t \in Trials :
       \/ Passes("capture_bundle") /\ CaptureBegin(c, t)
       \/ Passes("run_trial") /\ RunBegin(c, t)
       \/ Passes("cancel_trial") /\ CancelDesigned(c, t)
       \/ Passes("record_observation") /\ ObserveBegin(c, t)
       \/ CorrectTrial(c, t)

\* design_experiment refuses on the trials and on the wall time.
WithinWall(c) ==
  At(c, "design.budget") =>
    LET p == programmeOf[call[c].on]
    IN  (call'[c].at = "design.insert") <=> (WithinBudget(p) /\ ~WallExhausted(p))

Call ==
  /\ \E c \in Callers : GatedArrival(c) \/ (Step(c) /\ WithinWall(c))
  /\ UNCHANGED <<wall, aged, gating>>

RunEnds(t) ==
  /\ TrialEnd(t)
  /\ \E w \in Hours : wall' = [wall EXCEPT ![t] = w]
  /\ UNCHANGED <<aged, gating>>

Ages(t) ==
  /\ trial[t] \in Ends /\ t \notin aged
  /\ aged' = aged \cup {t}
  /\ UNCHANGED <<vars, wall, gating>>

SweepRead ==
  /\ Gate!SweepRead("monitor", Now)
  /\ UNCHANGED <<vars, wall, aged>>

SweepLogged ==
  /\ Gate!SweepLogged("monitor")
  /\ UNCHANGED <<vars, wall, aged>>

Acknowledge ==
  /\ \E v \in Gate!Open(Now) : Gate!Acknowledge(v, Now)
  /\ UNCHANGED <<vars, wall, aged>>

\* What ran is failed first, then the checks run, then the server serves.
Restart ==
  /\ Crash
  /\ UNCHANGED <<wall, aged>>
  /\ Gate!GateRestart(Now')

GatedInit ==
  /\ Init
  /\ wall = [t \in Trials |-> 0] /\ aged = {}
  /\ log = {} /\ sweep = [m \in {"monitor"} |-> Gate!NoSweep]
  /\ acks = {} /\ crossed = FALSE

GatedNext ==
  \/ Call
  \/ \E t \in Trials : RunEnds(t) \/ Ages(t)
  \/ SweepRead
  \/ SweepLogged
  \/ Acknowledge
  \/ Restart

\* The monitor sweeps again and again; nobody is bound to call a tool.
GatedSpec ==
  /\ GatedInit /\ [][GatedNext]_gatedVars
  /\ WF_gatedVars(SweepRead) /\ WF_gatedVars(SweepLogged)

-----------------------------------------------------------------------------
\* The handler of a tool that remedies a finding on x would not refuse it.
Accepts(tool, x) ==
  \/ /\ tool = "record_observation" /\ x \in Trials
     /\ bundles[x] > 0
  \/ /\ tool = "close_programme" /\ x \in Programmes
     /\ \A t \in TrialsOf(x) : trial[t] # "running"
  \/ /\ tool = "design_experiment" /\ x \in Hypotheses
     /\ Active(programmeOf[x]) /\ WithinBudget(programmeOf[x])

\* "A gate must never strand its own remedy": whatever finding holds and gates
\* the writes, one of its remedies passes the gate, and its handler accepts
\* the flagged row as soon as what runs has ended.
GateLeavesAnExit ==
  \A v \in Gate!Open(Now) \cap Now :
    \/ \E tool \in Remedies[v[1]] : Passes(tool) /\ Accepts(tool, v[2])
    \/ \E t \in Trials : trial[t] = "running"

===============================================================================
