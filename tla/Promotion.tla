------------------------------ MODULE Promotion ------------------------------
(***************************************************************************)
(* The population half of the zetesis server: its roster annotates the     *)
(* candidates of the episteme server, a verdict on a campaign is pushed    *)
(* there and then written down here, and refresh_roster reconciles the     *)
(* roster with whatever happened there.                                    *)
(*                                                                         *)
(* The handlers are coroutines of one event loop: what lies between two    *)
(* awaits is one step, but each store call in it is a commit of its own,   *)
(* also inside `with store.transaction()', since the calls commit          *)
(* themselves.  A call to the other server may be answered late, or never, *)
(* and be carried out all the same.                                        *)
(***************************************************************************)
EXTENDS Lineage, FiniteSets

CONSTANTS Campaigns,
          Callers,         \* requests the server handles at the same time
          Refreshers,      \* bound: those among them that may be refreshes
          MaxDecisions,    \* bound: verdicts ever recorded or under way
          MaxCrashes       \* bound: deaths of the zetesis process

ASSUME PromotionAssumption ==
  /\ Nobody \notin Campaigns
  /\ IsFiniteSet(Candidates) /\ IsFiniteSet(Callers)
  /\ Refreshers \subseteq Callers
  /\ {MaxDecisions, MaxCrashes} \subseteq Nat

VARIABLES
  roster,       \* roster_entries.derived_status, or "untracked"
  campaign,     \* promotion_campaigns, as far as a verdict reads them
  call,         \* where each handler is
  late,         \* verdicts sent by callers that gave up waiting
  undisturbed,  \* auxiliary: the refreshes nothing has interfered with so far
  crashes

vars == <<lineage, roster, campaign, call, late, undisturbed, crashes>>

\* A campaign, once opened: its two arms, whether the evidence measured at its
\* close falls short of what its contract asks for, whether refs were pulled for
\* it, and the recorded decision.
NoCampaign == [status |-> "none", champion |-> Nobody, challenger |-> Nobody,
               short |-> FALSE, refs |-> FALSE, decision |-> 0]

\* A handler: its next step and what it has read so far.  todo are the entries a
\* refresh still has to look at, reverted those it read as rolled back, trail
\* what the verdicts on the one it is looking at come to.
Idle == [step |-> "idle", campaign |-> Nobody, candidate |-> Nobody,
         verdict |-> "none", decision |-> 0, todo |-> {}, reverted |-> {},
         trail |-> "unread"]
At(c, step) == call[c].step = step
Goto(c, step) == call' = [call EXCEPT ![c].step = step]
Return(c) == call' = [call EXCEPT ![c] = Idle]

Tracked == {x \in Candidates : roster[x] # "untracked"}
Label(S, status) == [x \in Candidates |-> IF x \in S THEN status ELSE roster[x]]
Champions == {x \in Candidates : roster[x] = "champion"}

\* Only the refreshes of S can still say that nothing happened meanwhile.
DisturbAllBut(S) == undisturbed' = undisturbed \cap S

\* Verdicts recorded, sent or about to be.
Sent == Len(decisions) + Cardinality({c \in Callers : call[c].step = "push"}) + Len(late)

-----------------------------------------------------------------------------
(***************************************************************************)
(* refresh_roster: adopt what is missing, follow the incumbent, then look  *)
(* at the verdicts on every other entry, one call to episteme each.        *)
(***************************************************************************)
RefreshBegin(c) ==
  /\ c \in Refreshers
  /\ call[c] = Idle
  /\ roster' = Label(registered \ Tracked, "candidate")
  /\ Goto(c, "incumbent")
  /\ undisturbed' = {c}
  /\ UNCHANGED <<lineage, campaign, late, crashes>>

\* episteme answers get_incumbent ...
RefreshIncumbent(c) ==
  /\ At(c, "incumbent")
  /\ call' = [call EXCEPT ![c].step = "reconcile",
                          ![c].candidate = Incumbent(decisions)]
  /\ UNCHANGED <<lineage, roster, campaign, late, undisturbed, crashes>>

\* mutant: the incumbent is promoted and nobody demoted
ReconciledUp(incumbent) ==
  [x \in Candidates |->
     IF x = incumbent /\ x \in Tracked THEN "champion" ELSE roster[x]]

\* ... and the answer is followed: whoever else is champion is demoted, the
\* incumbent promoted.  With no incumbent every champion is demoted.
Reconciled(incumbent) ==
  [x \in Candidates |->
     IF x = incumbent /\ x \in Tracked THEN "champion"
     ELSE IF roster[x] = "champion" THEN "candidate" ELSE roster[x]]

Looking(c, incumbent, labels) ==
  [call EXCEPT ![c].step = "recon", ![c].candidate = Nobody,
     ![c].todo = {x \in Candidates \ {incumbent} : labels[x] # "untracked"},
     ![c].reverted = {x \in Candidates : labels[x] = "rolled_back"}]

RefreshReconcile(c) ==
  /\ At(c, "reconcile")
  /\ roster' = Reconciled(call[c].candidate)
  /\ call' = Looking(c, call[c].candidate, roster')
  /\ DisturbAllBut({c})
  /\ UNCHANGED <<lineage, campaign, late, crashes>>

\* A failed pull of the incumbent is not an empty answer: nobody is demoted.
RefreshNoAnswer(c) ==
  /\ At(c, "incumbent")
  /\ call' = Looking(c, Nobody, roster)
  /\ undisturbed' = undisturbed \ {c}
  /\ UNCHANGED <<lineage, roster, campaign, late, crashes>>

\* A rollback counts if it is the latest verdict and something was promoted.
Revoked(ds, x) ==
  /\ \E i \in Trail(ds, x) :
       ds[i].verdict = "rollback" /\ \A j \in Trail(ds, x) : j <= i
  /\ \E i \in Trail(ds, x) : ds[i].verdict = "promote"

Reading(ds, x) == IF Trail(ds, x) = {} THEN "silent"
                  ELSE IF Revoked(ds, x) THEN "revoked" ELSE "standing"

\* The verdicts on the next entry; a failed pull skips the entry.
RefreshRead(c) ==
  /\ At(c, "recon")
  /\ \E x \in call[c].todo :
       call' = [call EXCEPT ![c].step = "write", ![c].candidate = x,
                            ![c].todo = @ \ {x}, ![c].trail = Reading(decisions, x)]
  /\ UNCHANGED <<lineage, roster, campaign, late, undisturbed, crashes>>

RefreshSkip(c) ==
  /\ At(c, "recon")
  /\ \E x \in call[c].todo : call' = [call EXCEPT ![c].todo = @ \ {x}]
  /\ undisturbed' = undisturbed \ {c}
  /\ UNCHANGED <<lineage, roster, campaign, late, crashes>>

\* The label is flipped against what the entry was when the pass began.
RefreshWrite(c) ==
  /\ At(c, "write")
  /\ LET x == call[c].candidate
         isReverted == call[c].trail = "revoked"
     IN roster' = IF call[c].trail # "silent" /\ isReverted # (x \in call[c].reverted)
                    THEN Label({x}, IF isReverted THEN "rolled_back" ELSE "candidate")
                    ELSE roster
  /\ call' = [call EXCEPT ![c].step = "recon", ![c].candidate = Nobody,
                          ![c].trail = "unread"]
  /\ IF roster' = roster THEN UNCHANGED undisturbed ELSE DisturbAllBut({c})
  /\ UNCHANGED <<lineage, campaign, late, crashes>>

RefreshEnd(c) ==
  /\ At(c, "recon")
  /\ call[c].todo = {}
  /\ Return(c)
  /\ undisturbed' = undisturbed \ {c}
  /\ UNCHANGED <<lineage, roster, campaign, late, crashes>>

-----------------------------------------------------------------------------
(***************************************************************************)
(* register_challenger: the candidate is created there, or found there; the *)
(* label is then written whatever the entry was, on nothing that was read,  *)
(* so that one step does for both.  An answer that is lost leaves what      *)
(* Elsewhere does.                                                          *)
(***************************************************************************)
Challenge(x) ==
  /\ registered' = registered \cup {x}
  /\ roster' = Label({x}, "challenger")
  /\ DisturbAllBut({})
  /\ UNCHANGED <<decisions, campaign, call, late, crashes>>

-----------------------------------------------------------------------------

\* open_campaign.  That the incumbent is read a moment earlier makes no difference:
\* a verdict in between might as well come right after.
Open(k, x) ==
  /\ campaign[k] = NoCampaign
  /\ x \in Tracked
  /\ Incumbent(decisions) \notin {Nobody, x}
  /\ campaign' = [campaign EXCEPT ![k] =
       [NoCampaign EXCEPT !.status = "open", !.champion = Incumbent(decisions),
                          !.challenger = x]]
  /\ UNCHANGED <<lineage, roster, call, late, undisturbed, crashes>>

\* close_campaign freezes the score and the evidence.
Close(k) ==
  /\ campaign[k].status = "open"
  /\ \E short \in BOOLEAN :
       campaign' = [campaign EXCEPT ![k].status = "closed", ![k].short = short]
  /\ UNCHANGED <<lineage, roster, call, late, undisturbed, crashes>>

\* pull_campaign_evidence; Campaign has the pull between its check and its insert.
Pull(k) ==
  /\ campaign[k].status \in {"open", "closed"}
  /\ campaign[k].decision = 0
  /\ campaign' = [campaign EXCEPT ![k].refs = TRUE]
  /\ UNCHANGED <<lineage, roster, call, late, undisturbed, crashes>>

-----------------------------------------------------------------------------
(***************************************************************************)
(* record_promotion_verdict.                                               *)
(***************************************************************************)
\* A promotion claims a rung between what the contract declares and what the
\* close measured; without a measure it may claim what is declared.
MayPromote(k) == ~campaign[k].short

\* What the verdict is called upstream; retain rejects the challenger.
Upstream == [promote |-> "promote", retain |-> "reject", rollback |-> "rollback"]

\* mutant: the roster is annotated before the verdict is pushed
VerdictBeginAnnotated(c, k, v) ==
  /\ call[c] = Idle
  /\ Sent < MaxDecisions
  /\ campaign[k].status = "closed" /\ campaign[k].decision = 0 /\ campaign[k].refs
  /\ v = "promote" => MayPromote(k)
  /\ call' = [call EXCEPT ![c].step = "push", ![c].campaign = k, ![c].verdict = v]
  /\ roster' = IF v = "promote" THEN [Label(Champions, "candidate") EXCEPT
                                        ![campaign[k].challenger] = "champion"]
                                ELSE roster
  /\ DisturbAllBut({})
  /\ UNCHANGED <<lineage, campaign, late, crashes>>

\* Everything is checked before the push, on what the campaign's row says then.
VerdictBegin(c, k, v) ==
  /\ call[c] = Idle
  /\ Sent < MaxDecisions
  /\ campaign[k].status = "closed" /\ campaign[k].decision = 0 /\ campaign[k].refs
  /\ v = "promote" => MayPromote(k)
  /\ call' = [call EXCEPT ![c].step = "push", ![c].campaign = k, ![c].verdict = v]
  /\ UNCHANGED <<lineage, roster, campaign, late, undisturbed, crashes>>

\* episteme records it.
VerdictApplied(c) ==
  /\ At(c, "push")
  /\ RecordDecision(campaign[call[c].campaign].challenger, Upstream[call[c].verdict],
                    call[c].campaign)
  /\ call' = [call EXCEPT ![c].step = "answer", ![c].decision = Len(decisions')]
  /\ DisturbAllBut({})
  /\ UNCHANGED <<roster, campaign, late, crashes>>

\* The caller gives up on an answer; the request may still be in a queue, or
\* have been lost, or have been carried out.
VerdictGivenUp(c) ==
  /\ At(c, "push") \/ At(c, "answer")
  /\ \/ UNCHANGED late
     \/ /\ At(c, "push")
        /\ late' = Append(late, Decision(campaign[call[c].campaign].challenger,
                                         Upstream[call[c].verdict], call[c].campaign))
  /\ Return(c)
  /\ UNCHANGED <<lineage, roster, campaign, undisturbed, crashes>>

LateVerdict ==
  /\ late # <<>>
  /\ RecordDecision(Head(late).candidate, Head(late).verdict, Head(late).campaign)
  /\ late' = Tail(late)
  /\ DisturbAllBut({})
  /\ UNCHANGED <<roster, campaign, call, crashes>>

\* mutant: only the champion the campaign was opened against is demoted
AnnotatedCampaign(k, v) ==
  LET challenger == campaign[k].challenger
  IN CASE v = "promote"  -> [Label({campaign[k].champion}, "candidate") EXCEPT
                               ![challenger] = "champion"]
       [] v = "retain"   -> Label({challenger}, "candidate")
       [] v = "rollback" -> Label({challenger}, "rolled_back")

\* The labels after a verdict: a promotion demotes every champion and the
\* campaign's own, tracked or not.
Annotated(k, v) ==
  LET challenger == campaign[k].challenger
      demoted    == (Champions \cup {campaign[k].champion}) \ {challenger}
  IN CASE v = "promote"  -> [Label(demoted, "candidate") EXCEPT ![challenger] = "champion"]
       [] v = "retain"   -> Label({challenger}, "candidate")
       [] v = "rollback" -> Label({challenger}, "rolled_back")

\* The answer is written down: the decision, then the labels.  The claim that is
\* asked for last depends on the verdict and not the other way round; Campaign
\* has it.
VerdictRecorded(c) ==
  /\ At(c, "answer")
  /\ LET k == call[c].campaign
     IN /\ campaign' = [campaign EXCEPT ![k].decision = call[c].decision]
        /\ roster' = Annotated(k, call[c].verdict)
  /\ Return(c)
  /\ DisturbAllBut({})
  /\ UNCHANGED <<lineage, late, crashes>>

-----------------------------------------------------------------------------
\* The process dies and is started again; a verdict that was being written down
\* leaves any prefix of its commits.
Crash ==
  /\ crashes < MaxCrashes
  /\ crashes' = crashes + 1
  /\ call' = [c \in Callers |-> Idle]
  /\ undisturbed' = {}
  /\ \/ UNCHANGED <<roster, campaign>>
     \/ \E c \in Callers :
          /\ At(c, "answer")
          /\ campaign' = [campaign EXCEPT ![call[c].campaign].decision = call[c].decision]
          /\ \/ UNCHANGED roster
             \/ /\ call[c].verdict = "promote"
                /\ \E S \in SUBSET ((Champions \cup {campaign[call[c].campaign].champion})
                                      \ {campaign[call[c].campaign].challenger}) :
                     roster' = Label(S, "candidate")
  /\ UNCHANGED <<lineage, late>>

\* Other clients of the episteme server: candidates and verdicts the roster
\* hears nothing of.
Elsewhere ==
  /\ \/ \E x \in Candidates : RegisterCandidate(x)
     \/ /\ Sent < MaxDecisions
        /\ \E x \in Candidates, v \in {"promote", "rollback"} : RecordDecision(x, v, Nobody)
  /\ DisturbAllBut({})
  /\ UNCHANGED <<roster, campaign, call, late, crashes>>

-----------------------------------------------------------------------------
Init ==
  /\ registered = {}
  /\ decisions = <<>>
  /\ roster = [x \in Candidates |-> "untracked"]
  /\ campaign = [k \in Campaigns |-> NoCampaign]
  /\ call = [c \in Callers |-> Idle]
  /\ late = <<>>
  /\ undisturbed = {}
  /\ crashes = 0

Refreshing(c) ==
  \/ RefreshBegin(c) \/ RefreshIncumbent(c) \/ RefreshReconcile(c)
  \/ RefreshNoAnswer(c) \/ RefreshRead(c) \/ RefreshSkip(c) \/ RefreshWrite(c)
  \/ RefreshEnd(c)

Deciding(c) ==
  \/ VerdictApplied(c) \/ VerdictGivenUp(c) \/ VerdictRecorded(c)
  \/ \E k \in Campaigns, v \in DOMAIN Upstream : VerdictBegin(c, k, v)

Next ==
  \/ \E c \in Callers : Refreshing(c) \/ Deciding(c)
  \/ \E x \in Candidates : Challenge(x)
  \/ \E k \in Campaigns : Close(k) \/ Pull(k) \/ \E x \in Candidates : Open(k, x)
  \/ LateVerdict \/ Elsewhere \/ Crash

Spec == Init /\ [][Next]_vars

-----------------------------------------------------------------------------
Labels == {"untracked", "candidate", "challenger", "champion", "rolled_back"}

Steps == {"idle", "incumbent", "reconcile", "recon", "write", "push", "answer"}

Rulings == [candidate : Candidates, verdict : Verdicts, campaign : Campaigns \cup {Nobody}]

TypeOK ==
  /\ registered \subseteq Candidates
  /\ decisions \in Seq(Rulings)
  /\ roster \in [Candidates -> Labels]
  /\ campaign \in [Campaigns ->
       [status : {"none", "open", "closed"}, champion : Candidates \cup {Nobody},
        challenger : Candidates \cup {Nobody}, short : BOOLEAN, refs : BOOLEAN,
        decision : Nat]]
  /\ call \in [Callers ->
       [step : Steps, campaign : Campaigns \cup {Nobody},
        candidate : Candidates \cup {Nobody}, verdict : {"none"} \cup DOMAIN Upstream,
        decision : Nat, todo : SUBSET Candidates, reverted : SUBSET Candidates,
        trail : {"unread", "silent", "standing", "revoked"}]]
  /\ late \in Seq(Rulings)
  /\ undisturbed \subseteq Callers
  /\ crashes \in 0..MaxCrashes

\* The roster mirrors a single incumbent: whatever verdicts, refreshes and
\* answers overlap, arrive late or are cut short, it never shows two champions.
OneChampion == Cardinality(Champions) <= 1

\* The record upstream holds the verdict v on x.
Ruled(x, v) == \E i \in Trail(decisions, x) : decisions[i].verdict = v

\* A label never runs ahead of the record it mirrors: who is shown as champion
\* was promoted upstream, who is shown as rolled back was rolled back there, and
\* a campaign's decision is one that exists and is about its challenger.
LabelsAreBacked ==
  /\ \A x \in Champions : Ruled(x, "promote")
  /\ \A x \in Candidates : roster[x] = "rolled_back" => Ruled(x, "rollback")
  /\ \A k \in Campaigns : campaign[k].decision # 0 =>
       /\ campaign[k].decision \in DOMAIN decisions
       /\ decisions[campaign[k].decision].campaign = k
       /\ decisions[campaign[k].decision].candidate = campaign[k].challenger

\* refresh_roster heals any drift: when it ends and nothing came in between, the
\* roster tracks every candidate and says champion of the incumbent alone and
\* rolled back of those whose promotion was revoked.
Mirrors ==
  \A x \in registered :
    /\ x \in Tracked
    /\ roster[x] = "champion" <=> x = Incumbent(decisions)
    /\ roster[x] = "rolled_back" <=> Revoked(decisions, x)
RefreshHeals == [][\A c \in Callers : RefreshEnd(c) /\ c \in undisturbed => Mirrors]_vars

=============================================================================
