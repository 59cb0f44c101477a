----------------------------- MODULE ArmCampaigns -----------------------------
(***************************************************************************)
(* The arete server's orchestration of campaigns over its channel to the   *)
(* zetesis server: one campaign is opened for an arm of a tournament and   *)
(* linked to it, and the other verbs go through the link.                  *)
(***************************************************************************)
EXTENDS Channel

CONSTANTS Arms, None

ArmCampaignsAssumption == ChannelAssumption /\ None \notin Requests

VARIABLES
  link,     \* tournament_campaigns: of each arm, the request that opened it
  about,    \* of each request: its arm, and its verb
  handled,  \* requests whose handler has returned
  unsure    \* auxiliary: arms on which an opening failed or two overlapped

armVars == <<link, about, handled, unsure>>
vars == <<channelVars, armVars>>

\* The handlers of open_arm_campaign that are under way for an arm.
Opening(arm) == {r \in Requests : about[r] = [arm |-> arm, verb |-> "open"]
                                  /\ future[r] # "new" /\ r \notin handled}

Push(r, arm, verb) ==
  /\ Send(r)
  /\ about' = [about EXCEPT ![r] = [arm |-> arm, verb |-> verb]]
  /\ UNCHANGED <<server, adaptor, working, probes, seq, tick, bounds, executed, cut, link, handled>>

\* mutant: a link that is there already is not looked for
OpenArmAgain(r, arm) ==
  /\ Push(r, arm, "open")
  /\ unsure' = IF Opening(arm) # {} THEN unsure \cup {arm} ELSE unsure

\* An arm that is linked already returns its link.
OpenArm(r, arm) ==
  /\ link[arm] = None
  /\ Push(r, arm, "open")
  /\ unsure' = IF Opening(arm) # {} THEN unsure \cup {arm} ELSE unsure

\* UNIQUE(tournament_id, arm) refuses the second row.
InsertLink(arm, r) == link' = IF link[arm] = None THEN [link EXCEPT ![arm] = r] ELSE link

Linked(r) ==
  /\ r \notin handled /\ future[r] = "ok" /\ about[r].verb = "open"
  /\ InsertLink(about[r].arm, r)
  /\ handled' = handled \cup {r}
  /\ UNCHANGED <<channelVars, about, unsure>>

\* The verbs that go through the link.
Verb(r, arm) ==
  /\ link[arm] # None
  /\ Push(r, arm, "verb")
  /\ UNCHANGED unsure

VerbDone(r) ==
  /\ r \notin handled /\ future[r] \in {"ok", "error", "timeout"} /\ about[r].verb = "verb"
  /\ handled' = handled \cup {r}
  /\ UNCHANGED <<channelVars, link, about, unsure>>

OpenFailed(r) ==
  /\ r \notin handled /\ future[r] \in {"error", "timeout"} /\ about[r].verb = "open"
  /\ handled' = handled \cup {r}
  /\ unsure' = unsure \cup {about[r].arm}
  /\ UNCHANGED <<channelVars, link, about>>

-----------------------------------------------------------------------------
Init ==
  /\ ChannelInit
  /\ link = [arm \in Arms |-> None]
  /\ about = [r \in Requests |-> [arm |-> None, verb |-> "none"]]
  /\ handled = {} /\ unsure = {}

Next ==
  \/ ChannelNext /\ UNCHANGED armVars
  \/ \E r \in Requests :
       \/ \E arm \in Arms : OpenArm(r, arm) \/ Verb(r, arm)
       \/ Linked(r) \/ VerbDone(r) \/ OpenFailed(r)

Spec == Init /\ [][Next]_vars

-----------------------------------------------------------------------------
Campaigns(arm) == {r \in Requests : about[r] = [arm |-> arm, verb |-> "open"] /\ executed[r] > 0}

\* The client and the links are of their types, and a link is to a campaign
\* the other server has for that arm.
TypeOK ==
  /\ ChannelTypeOK
  /\ \A arm \in Arms : link[arm] # None => link[arm] \in Campaigns(arm)

\* dangling_campaign_links: the other server does not know the campaign.
dangling_campaign_links ==
  {arm \in Arms : link[arm] # None /\ link[arm] \notin Campaigns(arm)}

\* No link dangles, whatever was lost; and opening an arm again does not multiply
\* campaigns at the other server, as long as no opening of it failed or timed out
\* and no two overlapped.
OneCampaignPerArm ==
  /\ dangling_campaign_links = {}
  /\ \A arm \in Arms \ unsure, r, s \in Requests :
       {r, s} \subseteq Campaigns(arm) => r = s
===============================================================================
