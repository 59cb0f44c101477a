------------------------------- MODULE Lineage -------------------------------
(***************************************************************************)
(* What the episteme server keeps of the researchers themselves: the       *)
(* candidate versions with their parents, and the verdicts on them.  Both  *)
(* tables only grow; who is the incumbent is computed from the verdicts.   *)
(***************************************************************************)
EXTENDS Naturals, Sequences

CONSTANTS Candidates, Nobody

ASSUME NobodyAssumption == Nobody \notin Candidates

VARIABLES
  registered,   \* candidate_versions
  decisions     \* promotion_decisions, in the order of created_at

lineage == <<registered, decisions>>

Verdicts == {"promote", "reject", "hold", "rollback"}

\* A verdict, and the campaign it was sent for or Nobody.
Decision(candidate, verdict, campaign) ==
  [candidate |-> candidate, verdict |-> verdict, campaign |-> campaign]

\* list_promotion_decisions: where the verdicts on one candidate stand.
Trail(ds, x) == {i \in DOMAIN ds : ds[i].candidate = x}

\* The promotions that no later rollback of the same candidate revokes ...
Standing(ds) ==
  {i \in DOMAIN ds :
     /\ ds[i].verdict = "promote"
     /\ \A j \in Trail(ds, ds[i].candidate) : j > i => ds[j].verdict # "rollback"}

\* ... and the latest of them, which is where the scan of get_incumbent, newest
\* first, stops.
Incumbent(ds) ==
  IF Standing(ds) = {} THEN Nobody
  ELSE ds[CHOOSE i \in Standing(ds) : \A j \in Standing(ds) : j <= i].candidate

\* register_candidate and record_promotion_decision: one insert each, of rows
\* whose references exist and never go away.
RegisterCandidate(c) ==
  /\ c \notin registered
  /\ registered' = registered \cup {c}
  /\ UNCHANGED decisions

RecordDecision(c, verdict, campaign) ==
  /\ c \in registered
  /\ decisions' = Append(decisions, Decision(c, verdict, campaign))
  /\ UNCHANGED registered
=============================================================================
