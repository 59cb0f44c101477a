---------------------------- MODULE MCArmCampaigns ----------------------------
(***************************************************************************)
(* The channel of arete and the campaigns opened over it, and arete's loop *)
(* as its driver meets it: two models side by side.  A behaviour is of one *)
(* of them, and the other stays at its start.                              *)
(*                                                                         *)
(* Calls over the channel are interchangeable.  The loop has a genesis     *)
(* improver and its child, one proposal, a sound and an unsound contract,  *)
(* and one tournament.                                                     *)
(***************************************************************************)
EXTENDS Naturals, Sequences, TLC

CONSTANTS
  Nobody,
  Requests, q1, q2, Arms, MaxConnects, MaxPings, MaxOutages,      \* the channel
  Drivers, Watchers,                                              \* the loop
  Versions, LineageOf, genesis, child,
  Plans, PlanTouches, PlanOf,
  Designs, DesignPolicy, sound, unsound,
  Contests, Contestant, Routes

VARIABLES
  part,         \* what this behaviour is about
  server, slot, task, working, current, session, stop, ready, error,
  queue, serving, probes, seq, tick, connects, outages, future, executed, sentAt, cut,
  link, about, handled, unsure,
  tracker, asked, reading, slipped, excused,
  improvers, contracts, proposal, tournament, evidence, decided, down, log

Arm == INSTANCE ArmCampaigns WITH None <- Nobody

Loop == INSTANCE ImproverLoop WITH
  Nothing <- Nobody, Callers <- Drivers, Readers <- Watchers, call <- asked,
  Improvers <- Versions, ParentOf <- LineageOf,
  Proposals <- Plans, Touched <- PlanTouches, ProposalOf <- PlanOf,
  Contracts <- Designs, PolicyOf <- DesignPolicy,
  Tournaments <- Contests, CandidateOf <- Contestant, Channels <- Routes

ASSUME OverTheChannel == Arm!ArmCampaignsAssumption
ASSUME LoopAssumption == Loop!ImproverLoopAssumption

Interchangeable == Permutations({q1, q2})

Lineage == [i \in Versions |-> IF i = child THEN genesis ELSE Nobody]
OfPlan == [i \in Versions |-> IF i = child THEN 1 ELSE Nobody]
OnePlan == <<{"conditional"}>>
OneContest == <<child>>
Policies2 ==
  [d \in Designs |->
     [k \in {"sesoi_d", "target_power", "min_evidence_rung"} |->
        IF d = sound \/ k # "target_power" THEN "sound" ELSE "absent"]]

armCampaigns ==
  <<server, slot, task, working, current, session, stop, ready, error,
    queue, serving, probes, seq, tick, connects, outages, future, executed, sentAt, cut,
    link, about, handled, unsure>>
improverLoop ==
  <<tracker, asked, reading, slipped, excused,
    improvers, contracts, proposal, tournament, evidence, decided, down, log>>

Start ==
  /\ part \in {"channel", "loop"} /\ Arm!Init /\ Loop!Init
  /\ part = "loop" => server = "loop"    \* (either would do)

Step ==
  \/ part = "channel" /\ Arm!Next /\ UNCHANGED <<part, improverLoop>>
  \/ part = "loop" /\ Loop!Next /\ UNCHANGED <<part, armCampaigns>>

Parts == Start /\ [][Step]_<<part, armCampaigns, improverLoop>>

-----------------------------------------------------------------------------
\* What Channel says of answers and of sessions that are dropped, ArmCampaigns
\* of the campaigns of an arm, and ImproverLoop of the hint on a result and of
\* what a debt needs.
AnswersMatch == Arm!AnswersMatch
HealthyIsKept == Arm!HealthyIsKept
OneCampaignPerArm == Arm!OneCampaignPerArm
HintIsCurrent == Loop!HintIsCurrent
DebtsLeaveAnExit == Loop!DebtsLeaveAnExit
===============================================================================
