------------------------------- MODULE Campaign -------------------------------
(***************************************************************************)
(* The life of a promotion campaign in the zetesis server: programmes are  *)
(* spawned for its two arms at the episteme server, results are attached   *)
(* to it, evidence is pulled for it, it is closed or abandoned, and a      *)
(* verdict ends it.  What a verdict does to the roster is Promotion's.     *)
(*                                                                         *)
(* Spawning, reporting, pulling and the verdict are coroutines that check, *)
(* await the other server and then write without looking again.  Closing   *)
(* and abandoning run in worker threads: they check, read and write in     *)
(* statements of their own.                                                *)
(***************************************************************************)
EXTENDS Naturals, FiniteSets

CONSTANTS Campaigns,
          Programmes,      \* a bound as well: programmes that may ever be created
          Callers,         \* requests the server handles at the same time
          Nobody,
          Cap,             \* programmes_per_arm
          MaxLost,         \* bound: answers that callers give up on
          MaxCrashes       \* bound: process deaths

ASSUME CampaignAssumption ==
  /\ Nobody \notin Campaigns \cup Programmes \cup {"incumbent"}
  /\ "incumbent" \notin Campaigns
  /\ IsFiniteSet(Callers) /\ Callers # {} /\ IsFiniteSet(Programmes)
  /\ {Cap, MaxLost, MaxCrashes} \subseteq Nat

VARIABLES
  campaign,   \* promotion_campaigns
  spawned,    \* campaign_spawns: for which campaign and arm each programme was
  results,    \* campaign_results: campaign, arm and programme
  upstream,   \* episteme's programmes.candidate_version_id
  call,       \* where each handler is
  lost,
  crashes

vars == <<campaign, spawned, results, upstream, call, lost, crashes>>

Arms == {"champion", "challenger"}
\* The candidate of an arm: all campaigns run against the same incumbent, each
\* with a challenger of its own.
ArmCandidate(k, arm) == IF arm = "champion" THEN "incumbent" ELSE k

NoCampaign == [status |-> "none", scored |-> {}, refs |-> FALSE,
               decision |-> FALSE, claim |-> FALSE]
Row(k, arm, p) == [campaign |-> k, arm |-> arm, programme |-> p]
NoSpawn == Row(Nobody, "none", Nobody)
SpawnsOf(k) == {p \in Programmes : spawned[p].campaign = k}
SpawnsOfArm(k, arm) == {p \in SpawnsOf(k) : spawned[p].arm = arm}
ResultsOf(k) == {r \in results : r.campaign = k}

\* A handler: its next step, the campaign, arm and programme it works on and
\* the results a closing has read.
Idle == [step |-> "idle", row |-> NoSpawn, read |-> {}]
At(c, step) == call[c].step = step
Begin(c, step, row, read) ==
  /\ call[c] = Idle
  /\ call' = [call EXCEPT ![c] = [step |-> step, row |-> row, read |-> read]]
Return(c) == call' = [call EXCEPT ![c] = Idle]

\* check_campaign_open.
IsOpen(k) == campaign[k].status = "open"

-----------------------------------------------------------------------------
\* open_campaign with a budget that can be carried.
Open(k) ==
  /\ campaign[k] = NoCampaign
  /\ campaign' = [campaign EXCEPT ![k].status = "open"]
  /\ UNCHANGED <<spawned, results, upstream, call, lost, crashes>>

\* Another client creates a programme at episteme.
CreateElsewhere(p) ==
  /\ upstream[p] = Nobody
  /\ \E k \in Campaigns, arm \in Arms :
       upstream' = [upstream EXCEPT ![p] = ArmCandidate(k, arm)]
  /\ UNCHANGED <<campaign, spawned, results, call, lost, crashes>>

-----------------------------------------------------------------------------
(***************************************************************************)
(* spawn_campaign_programme.                                               *)
(***************************************************************************)
\* mutant: the cap is compared with one too many
UnderCapLoose(k, arm) == Cardinality(SpawnsOfArm(k, arm)) <= Cap

\* check_spawn_cap counts the rows there are.
UnderCap(k, arm) == Cardinality(SpawnsOfArm(k, arm)) < Cap

SpawnBegin(c, k, arm) ==
  /\ IsOpen(k)
  /\ UnderCap(k, arm)
  /\ Begin(c, "create", Row(k, arm, Nobody), {})
  /\ UNCHANGED <<campaign, spawned, results, upstream, lost, crashes>>

\* create_programme at episteme, for the arm's candidate.
SpawnCreated(c, p) ==
  /\ At(c, "create")
  /\ upstream[p] = Nobody
  /\ upstream' = [upstream EXCEPT ![p] =
                    ArmCandidate(call[c].row.campaign, call[c].row.arm)]
  /\ call' = [call EXCEPT ![c].step = "spawn", ![c].row.programme = p]
  /\ UNCHANGED <<campaign, spawned, results, lost, crashes>>

\* (The row's own status only says whether a result names its programme.)
SpawnRecorded(c) ==
  /\ At(c, "spawn")
  /\ spawned' = [spawned EXCEPT ![call[c].row.programme] = call[c].row]
  /\ Return(c)
  /\ UNCHANGED <<campaign, results, upstream, lost, crashes>>

-----------------------------------------------------------------------------
(***************************************************************************)
(* record_campaign_result.                                                 *)
(***************************************************************************)
\* check_spawn_scoped_result: a campaign with spawns reports on those of the
\* arm, one without on programmes that no other campaign has spawned.
InScope(k, arm, p) ==
  IF SpawnsOf(k) = {} THEN spawned[p].campaign \in {k, Nobody}
                      ELSE p \in SpawnsOfArm(k, arm)

\* mutant: a programme of either arm's candidate will do
AttributedToCampaign(row) ==
  \E arm \in Arms : upstream[row.programme] = ArmCandidate(row.campaign, arm)

\* The programme that episteme lists is of the arm's candidate.
Attributed(row) == upstream[row.programme] = ArmCandidate(row.campaign, row.arm)

ResultBegin(c, k, arm, p) ==
  /\ IsOpen(k)
  /\ InScope(k, arm, p)
  /\ Row(k, arm, p) \notin results
  /\ Begin(c, "report", Row(k, arm, p), {})
  /\ UNCHANGED <<campaign, spawned, results, upstream, lost, crashes>>

InsertResult(row) == results' = results \cup {row}

\* The answer of list_programmes says whose the programme is.
ResultRecorded(c) ==
  /\ At(c, "report")
  /\ LET row == call[c].row
     IN IF Attributed(row)
          THEN InsertResult(row)
          ELSE UNCHANGED results
  /\ Return(c)
  /\ UNCHANGED <<campaign, spawned, upstream, lost, crashes>>

-----------------------------------------------------------------------------
(***************************************************************************)
(* close_campaign and abandon_campaign, in worker threads.                 *)
(***************************************************************************)
\* check_close_budget_audit: what was spent is within the budget carried.
WithinBudget(k) ==
  SpawnsOf(k) # {} => \A arm \in Arms : Cardinality(SpawnsOfArm(k, arm)) <= Cap

BothArmsRan(k) == \A arm \in Arms : \E r \in ResultsOf(k) : r.arm = arm

Closable(k) == WithinBudget(k) /\ BothArmsRan(k)

CloseRead(c, k) ==
  /\ IsOpen(k)
  /\ Closable(k)
  /\ Begin(c, "close", Row(k, "none", Nobody), ResultsOf(k))
  /\ UNCHANGED <<campaign, spawned, results, upstream, lost, crashes>>

\* The score of the results that were read is frozen.
CloseWrite(c) ==
  /\ At(c, "close")
  /\ campaign' = [campaign EXCEPT ![call[c].row.campaign].status = "closed",
                                  ![call[c].row.campaign].scored = call[c].read]
  /\ Return(c)
  /\ UNCHANGED <<spawned, results, upstream, lost, crashes>>

AbandonRead(c, k) ==
  /\ IsOpen(k)
  /\ Begin(c, "abandon", Row(k, "none", Nobody), {})
  /\ UNCHANGED <<campaign, spawned, results, upstream, lost, crashes>>

AbandonWrite(c) ==
  /\ At(c, "abandon")
  /\ campaign' = [campaign EXCEPT ![call[c].row.campaign].status = "abandoned"]
  /\ Return(c)
  /\ UNCHANGED <<spawned, results, upstream, lost, crashes>>

-----------------------------------------------------------------------------
(***************************************************************************)
(* pull_campaign_evidence and record_promotion_verdict.                    *)
(***************************************************************************)
\* Evidence may be pulled until the verdict.
PullBegin(c, k) ==
  /\ \/ IsOpen(k)
     \/ campaign[k].status = "closed" /\ ~campaign[k].decision
  /\ Begin(c, "pull", Row(k, "none", Nobody), {})
  /\ UNCHANGED <<campaign, spawned, results, upstream, lost, crashes>>

PullEnd(c) ==
  /\ At(c, "pull")
  /\ campaign' = [campaign EXCEPT ![call[c].row.campaign].refs = TRUE]
  /\ Return(c)
  /\ UNCHANGED <<spawned, results, upstream, lost, crashes>>

VerdictBegin(c, k) ==
  /\ campaign[k].status = "closed"
  /\ ~campaign[k].decision
  /\ campaign[k].refs
  /\ Begin(c, "decide", Row(k, "none", Nobody), {})
  /\ UNCHANGED <<campaign, spawned, results, upstream, lost, crashes>>

VerdictRecorded(c) ==
  /\ At(c, "decide")
  /\ campaign' = [campaign EXCEPT ![call[c].row.campaign].decision = TRUE]
  /\ call' = [call EXCEPT ![c].step = "claim"]
  /\ UNCHANGED <<spawned, results, upstream, lost, crashes>>

\* The claim is minted or not; the verdict stands either way.
VerdictClaimed(c) ==
  /\ At(c, "claim")
  /\ \/ campaign' = [campaign EXCEPT ![call[c].row.campaign].claim = TRUE]
     \/ UNCHANGED campaign
  /\ Return(c)
  /\ UNCHANGED <<spawned, results, upstream, lost, crashes>>

-----------------------------------------------------------------------------
\* A call to another server fails or is given up; what it asked for may have
\* been done.
GiveUp(c) ==
  /\ lost < MaxLost
  /\ lost' = lost + 1
  /\ \/ /\ \E step \in {"create", "spawn", "report", "pull", "decide"} : At(c, step)
        /\ UNCHANGED upstream
     \/ /\ At(c, "create")
        /\ \E p \in Programmes :
             /\ upstream[p] = Nobody
             /\ upstream' = [upstream EXCEPT ![p] =
                               ArmCandidate(call[c].row.campaign, call[c].row.arm)]
  /\ Return(c)
  /\ UNCHANGED <<campaign, spawned, results, crashes>>

Crash ==
  /\ crashes < MaxCrashes
  /\ crashes' = crashes + 1
  /\ call' = [c \in Callers |-> Idle]
  /\ UNCHANGED <<campaign, spawned, results, upstream, lost>>

-----------------------------------------------------------------------------
Init ==
  /\ campaign = [k \in Campaigns |-> NoCampaign]
  /\ spawned = [p \in Programmes |-> NoSpawn]
  /\ results = {}
  /\ upstream = [p \in Programmes |-> Nobody]
  /\ call = [c \in Callers |-> Idle]
  /\ lost = 0
  /\ crashes = 0

Next ==
  \/ \E k \in Campaigns : Open(k)
  \/ \E p \in Programmes : CreateElsewhere(p)
  \/ \E c \in Callers :
       \/ \E p \in Programmes : SpawnCreated(c, p)
       \/ SpawnRecorded(c) \/ ResultRecorded(c) \/ CloseWrite(c) \/ AbandonWrite(c)
       \/ PullEnd(c) \/ VerdictRecorded(c) \/ VerdictClaimed(c) \/ GiveUp(c)
       \/ \E k \in Campaigns :
            \/ CloseRead(c, k) \/ AbandonRead(c, k) \/ PullBegin(c, k) \/ VerdictBegin(c, k)
            \/ \E arm \in Arms :
                 SpawnBegin(c, k, arm) \/ \E p \in Programmes : ResultBegin(c, k, arm, p)
  \/ Crash

Spec == Init /\ [][Next]_vars

-----------------------------------------------------------------------------
(***************************************************************************)
(* The audits of integrity/checks.py over these tables; the clock, which   *)
(* only delays them, is left out.                                          *)
(***************************************************************************)
closed_campaigns_scored ==
  {k \in Campaigns : campaign[k].status = "closed" /\ campaign[k].scored = {}}

campaigns_awaiting_verdict ==
  {k \in Campaigns : campaign[k].status = "closed" /\ ~campaign[k].decision}

IncompleteOfResults ==  \* mutant: a campaign that has only spawned is not seen
  {k \in Campaigns : IsOpen(k) /\ ResultsOf(k) # {} /\ ~BothArmsRan(k)}

incomplete_campaigns ==
  {k \in Campaigns : /\ IsOpen(k)
                     /\ SpawnsOf(k) # {} \/ ResultsOf(k) # {}
                     /\ ~BothArmsRan(k)}

campaign_results_have_campaign ==
  {r \in results : campaign[r.campaign] = NoCampaign}

campaign_spawns_have_campaign ==
  {p \in Programmes : spawned[p] # NoSpawn /\ campaign[spawned[p].campaign] = NoCampaign}

spawn_budget_violations ==
  {k \in Campaigns : \E arm \in Arms : Cardinality(SpawnsOfArm(k, arm)) > Cap}

\* A result of a programme that was spawned for another campaign or arm, or not
\* at all although the campaign has spawns.
results_spawn_scoped ==
  {r \in results :
     \/ spawned[r.programme].campaign \notin {r.campaign, Nobody}
     \/ (spawned[r.programme] = NoSpawn /\ SpawnsOf(r.campaign) # {})
     \/ (spawned[r.programme].campaign = r.campaign /\ spawned[r.programme].arm # r.arm)}

-----------------------------------------------------------------------------
Rows == [campaign : Campaigns, arm : Arms, programme : Programmes]

TypeOK ==
  /\ \A k \in Campaigns :
       /\ campaign[k].status \in {"none", "open", "closed", "abandoned"}
       /\ campaign[k].scored \subseteq ResultsOf(k)
       /\ campaign[k].status = "open" => campaign[k].scored = {} /\ ~campaign[k].decision
       /\ campaign[k].claim => campaign[k].decision
  /\ spawned \in [Programmes -> Rows \cup {NoSpawn}]
  /\ results \subseteq Rows
  /\ upstream \in [Programmes -> Campaigns \cup {"incumbent", Nobody}]
  /\ lost \in 0..MaxLost /\ crashes \in 0..MaxCrashes

\* A result counts for the arm that produced it: its programme exists upstream
\* and belongs to the arm's candidate, and if it was spawned for the campaign,
\* it was for that arm.
ResultsAreAttributed ==
  \A r \in results :
    /\ upstream[r.programme] = ArmCandidate(r.campaign, r.arm)
    /\ spawned[r.programme].campaign = r.campaign => spawned[r.programme].arm = r.arm

\* No campaign is lost between the gates and the audits: one that has started
\* and cannot be closed is reported, as lacking an arm or as over its budget; one
\* that is closed has a score, and a verdict or the report that it awaits one;
\* and the only rows ever reported out of scope are those of a programme that
\* got its spawn row, or a campaign that got its first, after the result.
UnfinishedIsFlagged ==
  /\ \A k \in Campaigns :
       IsOpen(k) /\ (SpawnsOf(k) # {} \/ ResultsOf(k) # {}) =>
         Closable(k) \/ k \in incomplete_campaigns \cup spawn_budget_violations
  /\ \A k \in Campaigns :
       campaign[k].status = "closed" =>
         k \in campaigns_awaiting_verdict \/ (campaign[k].decision /\ campaign[k].refs)
  /\ closed_campaigns_scored = {}
  /\ campaign_results_have_campaign = {} /\ campaign_spawns_have_campaign = {}
  /\ \A r \in results_spawn_scoped : spawned[r.programme].campaign # r.campaign

\* Spawns of an arm that pass the cap check together may all be created: the cap
\* is overshot by no more than that, and a spawn row never lacks its programme.
Spawning(k, arm) ==
  {c \in Callers : /\ At(c, "create") \/ At(c, "spawn")
                   /\ call[c].row.campaign = k /\ call[c].row.arm = arm}
SpawnsAreBounded ==
  /\ \A k \in Campaigns, arm \in Arms :
       Cardinality(SpawnsOfArm(k, arm)) + Cardinality(Spawning(k, arm))
         < Cap + Cardinality(Callers)
  /\ \A p \in Programmes :
       spawned[p] # NoSpawn => upstream[p] = ArmCandidate(spawned[p].campaign, spawned[p].arm)

=============================================================================
