--------------------------- MODULE Campaign_proofs ---------------------------
(***************************************************************************)
(* Campaign: what the tables of a promotion campaign never lose, whatever  *)
(* the coroutines and the worker threads that check and then write do in   *)
(* between.  Nothing they rely on is ever taken back, which is why a check *)
(* made before an await still counts after it.                             *)
(***************************************************************************)
EXTENDS Campaign, FiniteSetTheorems, TLAPS

USE CampaignAssumption
USE DEF At, Idle, Row, NoSpawn, NoCampaign, IsOpen, Begin, Return, Arms,
        ArmCandidate
-----------------------------------------------------------------------------
(***************************************************************************)
(* The inductive invariant.                                                *)
(***************************************************************************)
Steps == {"idle", "create", "spawn", "report", "close", "abandon", "pull",
          "decide", "claim"}

States == [status : {"none", "open", "closed", "abandoned"},
           scored : SUBSET Rows, refs : BOOLEAN, decision : BOOLEAN,
           claim : BOOLEAN]

\* Where a handler may be, with the parts of its row that are known by then.
Spots == [campaign : Campaigns \cup {Nobody}, arm : Arms \cup {"none"},
          programme : Programmes \cup {Nobody}]
Handlers == [step : Steps, row : Spots, read : SUBSET Rows]

Types ==
  /\ campaign \in [Campaigns -> States]
  /\ spawned \in [Programmes -> Rows \cup {NoSpawn}]
  /\ results \subseteq Rows
  /\ upstream \in [Programmes -> Campaigns \cup {"incumbent", Nobody}]
  /\ call \in [Callers -> Handlers]
  /\ lost \in 0..MaxLost /\ crashes \in 0..MaxCrashes

Known(k) == k \in Campaigns /\ campaign[k].status # "none"
Backed(r) == Known(r.campaign) /\ Attributed(r)

\* What a campaign's row says of itself and of the results.
Kept(k) ==
  /\ campaign[k].scored \subseteq ResultsOf(k)
  /\ campaign[k].status = "closed" => campaign[k].scored # {}
  /\ campaign[k].status = "open" => campaign[k].scored = {} /\ ~campaign[k].decision
  /\ campaign[k].decision => campaign[k].refs
  /\ campaign[k].claim => campaign[k].decision

Placed(p) ==
  spawned[p] = NoSpawn \/ (spawned[p] \in Rows /\ spawned[p].programme = p /\ Backed(spawned[p]))

\* What a handler's checks have established still holds at its next step.
Doing(c) ==
  LET row == call[c].row
      k == row.campaign
  IN  /\ call[c].step # "idle" => Known(k)
      /\ call[c].step = "create" => row.arm \in Arms
      /\ call[c].step = "spawn" => row \in Rows /\ Attributed(row)
      /\ call[c].step = "report" => row \in Rows
      /\ call[c].step = "close" => call[c].read # {} /\ call[c].read \subseteq ResultsOf(k)
      /\ call[c].step \in {"decide", "claim"} =>
           campaign[k].status # "open" /\ campaign[k].refs
      /\ call[c].step = "claim" => campaign[k].decision

IndInv ==
  /\ Types
  /\ \A k \in Campaigns : Kept(k)
  /\ \A p \in Programmes : Placed(p)
  /\ \A r \in results : Backed(r)
  /\ \A c \in Callers : Doing(c)
-----------------------------------------------------------------------------
(***************************************************************************)
(* No step takes back what a check may have relied on.                     *)
(***************************************************************************)
Forward ==
  /\ \A k \in Campaigns :
       /\ campaign[k].status # "none" => campaign'[k].status # "none"
       /\ campaign[k].status \notin {"none", "open"} => campaign'[k].status # "open"
       /\ campaign[k].refs => campaign'[k].refs
       /\ campaign[k].decision => campaign'[k].decision
  /\ results \subseteq results'
  /\ \A p \in Programmes : upstream[p] # Nobody => upstream'[p] = upstream[p]

LEMMA InitIndInv == Init => IndInv
BY DEF Init, IndInv, Types, States, Handlers, Spots, Steps, Kept, Placed, Doing, Rows, ResultsOf

\* One field of a campaign's row is written, and the rest of it stays.
LEMMA Field ==
  ASSUME NEW s \in States
  PROVE  /\ [s EXCEPT !.refs = TRUE] \in States
         /\ [s EXCEPT !.decision = TRUE] \in States
         /\ [s EXCEPT !.claim = TRUE] \in States
<1>1. [s EXCEPT !.refs = TRUE] \in States
  BY DEF States
<1>2. [s EXCEPT !.decision = TRUE] \in States
  BY DEF States
<1>3. [s EXCEPT !.claim = TRUE] \in States
  BY DEF States
<1>4. QED
  BY <1>1, <1>2, <1>3

LEMMA Relabelled ==
  ASSUME campaign \in [Campaigns -> States], NEW k \in Campaigns,
         NEW s \in {"open", "closed", "abandoned"},
         campaign' = [campaign EXCEPT ![k].status = s]
  PROVE  /\ campaign' \in [Campaigns -> States]
         /\ campaign'[k] = [campaign[k] EXCEPT !.status = s]
         /\ \A j \in Campaigns \ {k} : campaign'[j] = campaign[j]
BY DEF States

LEMMA Marked ==
  ASSUME campaign \in [Campaigns -> States], NEW k \in Campaigns,
         \/ campaign' = [campaign EXCEPT ![k].refs = TRUE]
         \/ campaign' = [campaign EXCEPT ![k].decision = TRUE]
         \/ campaign' = [campaign EXCEPT ![k].claim = TRUE]
  PROVE  /\ campaign' \in [Campaigns -> States]
         /\ \A j \in Campaigns :
              /\ campaign'[j].status = campaign[j].status
              /\ campaign'[j].scored = campaign[j].scored
              /\ campaign[j].refs => campaign'[j].refs
              /\ campaign[j].decision => campaign'[j].decision
         /\ \A j \in Campaigns \ {k} : campaign'[j] = campaign[j]
<1>1. CASE campaign' = [campaign EXCEPT ![k].refs = TRUE]
  <2>0. [campaign[k] EXCEPT !.refs = TRUE] \in States
    BY Field
  <2>1. campaign' \in [Campaigns -> States]
    BY <1>1, <2>0
  <2>2. \A j \in Campaigns \ {k} : campaign'[j] = campaign[j]
    BY <1>1
  <2>3. campaign'[k].status = campaign[k].status /\ campaign'[k].scored = campaign[k].scored
    BY <1>1 DEF States
  <2>4. /\ campaign[k].refs => campaign'[k].refs
        /\ campaign[k].decision => campaign'[k].decision
    BY <1>1 DEF States
  <2>5. QED
    BY <2>1, <2>2, <2>3, <2>4
<1>2. CASE campaign' = [campaign EXCEPT ![k].decision = TRUE]
  <2>0. [campaign[k] EXCEPT !.decision = TRUE] \in States
    BY Field
  <2>1. campaign' \in [Campaigns -> States]
    BY <1>2, <2>0
  <2>2. \A j \in Campaigns \ {k} : campaign'[j] = campaign[j]
    BY <1>2
  <2>3. campaign'[k].status = campaign[k].status /\ campaign'[k].scored = campaign[k].scored
    BY <1>2 DEF States
  <2>4. /\ campaign[k].refs => campaign'[k].refs
        /\ campaign[k].decision => campaign'[k].decision
    BY <1>2 DEF States
  <2>5. QED
    BY <2>1, <2>2, <2>3, <2>4
<1>3. CASE campaign' = [campaign EXCEPT ![k].claim = TRUE]
  <2>0. [campaign[k] EXCEPT !.claim = TRUE] \in States
    BY Field
  <2>1. campaign' \in [Campaigns -> States]
    BY <1>3, <2>0
  <2>2. \A j \in Campaigns \ {k} : campaign'[j] = campaign[j]
    BY <1>3
  <2>3. campaign'[k].status = campaign[k].status /\ campaign'[k].scored = campaign[k].scored
    BY <1>3 DEF States
  <2>4. /\ campaign[k].refs => campaign'[k].refs
        /\ campaign[k].decision => campaign'[k].decision
    BY <1>3 DEF States
  <2>5. QED
    BY <2>1, <2>2, <2>3, <2>4
<1>4. QED
  BY <1>1, <1>2, <1>3

\* A handler goes on to its next step, or returns.
LEMMA Moved ==
  ASSUME call \in [Callers -> Handlers], NEW c \in Callers, NEW s \in Steps,
         call' = [call EXCEPT ![c].step = s]
  PROVE  /\ call' \in [Callers -> Handlers]
         /\ call'[c] = [call[c] EXCEPT !.step = s]
         /\ \A d \in Callers \ {c} : call'[d] = call[d]
BY DEF Handlers

LEMMA Returned ==
  ASSUME call \in [Callers -> Handlers], NEW c \in Callers, Return(c)
  PROVE  /\ call' \in [Callers -> Handlers]
         /\ call'[c] = Idle
         /\ \A d \in Callers \ {c} : call'[d] = call[d]
BY DEF Handlers, Spots, Steps

\* The programme that was created is noted in the row.
LEMMA Noted ==
  ASSUME call \in [Callers -> Handlers], NEW c \in Callers, NEW p \in Programmes,
         call' = [call EXCEPT ![c].step = "spawn", ![c].row.programme = p]
  PROVE  /\ call' \in [Callers -> Handlers]
         /\ call'[c].step = "spawn"
         /\ call'[c].row = Row(call[c].row.campaign, call[c].row.arm, p)
         /\ \A d \in Callers \ {c} : call'[d] = call[d]
<1> DEFINE h == [step |-> "spawn", read |-> call[c].read,
                 row |-> Row(call[c].row.campaign, call[c].row.arm, p)]
<1>1. h \in Handlers
  BY DEF Handlers, Spots, Steps
<1>2. call'[c] = h
  <2>1. call[c] \in [step : Steps, row : [campaign : Campaigns \cup {Nobody},
                     arm : Arms \cup {"none"}, programme : Programmes \cup {Nobody}],
                     read : SUBSET Rows]
    BY DEF Handlers, Spots
  <2>2. call'[c] = [call[c] EXCEPT !.step = "spawn", !.row.programme = p]
    OBVIOUS
  <2>3. QED
    BY <2>1, <2>2
<1>3. call' = [d \in Callers |-> call'[d]] /\ \A d \in Callers \ {c} : call'[d] = call[d]
  OBVIOUS
<1>4. QED
  BY <1>1, <1>2, <1>3

\* The steps that begin a call.
Arrival(c) ==
  \E k \in Campaigns :
    \/ CloseRead(c, k) \/ AbandonRead(c, k) \/ PullBegin(c, k) \/ VerdictBegin(c, k)
    \/ \E arm \in Arms :
         SpawnBegin(c, k, arm) \/ \E p \in Programmes : ResultBegin(c, k, arm, p)

LEMMA StepTypes ==
  ASSUME IndInv, Next
  PROVE  Types'
<1>0. Types /\ \A c \in Callers : Doing(c)
  BY DEF IndInv
<1> USE DEF Types, States, Handlers, Spots, Steps, Rows
<1>1. ASSUME NEW k \in Campaigns, Open(k) PROVE Types'
  BY <1>0, <1>1 DEF Open
<1>2. ASSUME NEW p \in Programmes, CreateElsewhere(p) PROVE Types'
  BY <1>0, <1>2 DEF CreateElsewhere
<1>3. ASSUME NEW c \in Callers, NEW p \in Programmes, SpawnCreated(c, p) PROVE Types'
  <2>1. call' \in [Callers -> Handlers]
    BY <1>0, <1>3, Noted DEF SpawnCreated
  <2>2. call[c].row.campaign \in Campaigns
    BY <1>0, <1>3 DEF SpawnCreated, Doing, Known
  <2>3. upstream' \in [Programmes -> Campaigns \cup {"incumbent", Nobody}]
    BY <1>0, <1>3, <2>2 DEF SpawnCreated
  <2>4. QED
    BY <1>0, <1>3, <2>1, <2>3 DEF SpawnCreated
<1>4. ASSUME NEW c \in Callers, SpawnRecorded(c) PROVE Types'
  BY <1>0, <1>4 DEF SpawnRecorded, Doing
<1>5. ASSUME NEW c \in Callers, ResultRecorded(c) PROVE Types'
  BY <1>0, <1>5 DEF ResultRecorded, InsertResult, Doing
<1>6. ASSUME NEW c \in Callers, CloseWrite(c) PROVE Types'
  <2>1. PICK k \in Campaigns : k = call[c].row.campaign
    BY <1>0, <1>6 DEF CloseWrite, Doing, Known
  <2>2. campaign' = [campaign EXCEPT ![k].status = "closed", ![k].scored = call[c].read]
    BY <1>6, <2>1 DEF CloseWrite
  <2>4. campaign \in [Campaigns -> States] /\ call[c].read \in SUBSET Rows
    BY <1>0
  <2>5. [campaign[k] EXCEPT !.status = "closed", !.scored = call[c].read] \in States
    BY <2>4
  <2>6. campaign' \in [Campaigns -> States]
    BY <2>2, <2>4, <2>5
  <2>3. QED
    BY <1>0, <1>6, <2>6 DEF CloseWrite
<1>7. ASSUME NEW c \in Callers, AbandonWrite(c) PROVE Types'
  <2>1. PICK k \in Campaigns : k = call[c].row.campaign
    BY <1>0, <1>7 DEF AbandonWrite, Doing, Known
  <2>2. campaign' = [campaign EXCEPT ![k].status = "abandoned"]
    BY <1>7, <2>1 DEF AbandonWrite
  <2>3. campaign' \in [Campaigns -> States]
    BY <1>0, <2>2, Relabelled
  <2>4. QED
    BY <1>0, <1>7, <2>3, Returned DEF AbandonWrite
<1>11. ASSUME NEW c \in Callers, PullEnd(c) PROVE Types'
  <2>1. PICK k \in Campaigns : k = call[c].row.campaign
    BY <1>0, <1>11 DEF PullEnd, Doing, Known
  <2>2. campaign' = [campaign EXCEPT ![k].refs = TRUE]
    BY <1>11, <2>1 DEF PullEnd
  <2>3. campaign' \in [Campaigns -> States]
    BY <1>0, <2>2, Marked
  <2>4. QED
    BY <1>0, <1>11, <2>3, Returned DEF PullEnd
<1>12. ASSUME NEW c \in Callers, VerdictRecorded(c) PROVE Types'
  <2>1. PICK k \in Campaigns : k = call[c].row.campaign
    BY <1>0, <1>12 DEF VerdictRecorded, Doing, Known
  <2>2. campaign' = [campaign EXCEPT ![k].decision = TRUE]
    BY <1>12, <2>1 DEF VerdictRecorded
  <2>3. campaign' \in [Campaigns -> States]
    BY <1>0, <2>2, Marked
  <2>4. QED
    BY <1>0, <1>12, <2>3, Moved DEF VerdictRecorded
<1>13. ASSUME NEW c \in Callers, VerdictClaimed(c) PROVE Types'
  <2>1. PICK k \in Campaigns : k = call[c].row.campaign
    BY <1>0, <1>13 DEF VerdictClaimed, Doing, Known
  <2>2. campaign' = [campaign EXCEPT ![k].claim = TRUE] \/ UNCHANGED campaign
    BY <1>13, <2>1 DEF VerdictClaimed
  <2>3. campaign' \in [Campaigns -> States]
    BY <1>0, <2>2, Marked
  <2>4. QED
    BY <1>0, <1>13, <2>3, Returned DEF VerdictClaimed
<1>8. ASSUME NEW c \in Callers, GiveUp(c) PROVE Types'
  BY <1>0, <1>8 DEF GiveUp, Doing, Known
<1>9. ASSUME NEW c \in Callers, Arrival(c) PROVE Types'
  <2>1. call' \in [Callers -> Handlers]
    <3>1. PICK k \in Campaigns :
            \/ CloseRead(c, k) \/ AbandonRead(c, k) \/ PullBegin(c, k) \/ VerdictBegin(c, k)
            \/ \E arm \in Arms :
                 SpawnBegin(c, k, arm) \/ \E p \in Programmes : ResultBegin(c, k, arm, p)
      BY <1>0, <1>9 DEF Arrival
    <3>2. CASE CloseRead(c, k)
      BY <1>0, <3>2 DEF CloseRead, ResultsOf
    <3>3. CASE AbandonRead(c, k) \/ PullBegin(c, k) \/ VerdictBegin(c, k)
      BY <1>0, <3>3 DEF AbandonRead, PullBegin, VerdictBegin
    <3>4. ASSUME NEW arm \in Arms, SpawnBegin(c, k, arm) PROVE call' \in [Callers -> Handlers]
      BY <1>0, <3>4 DEF SpawnBegin
    <3>5. ASSUME NEW arm \in Arms, NEW p \in Programmes, ResultBegin(c, k, arm, p)
          PROVE  call' \in [Callers -> Handlers]
      BY <1>0, <3>5 DEF ResultBegin
    <3>6. QED
      BY <1>0, <3>1, <3>2, <3>3, <3>4, <3>5
  <2>2. UNCHANGED <<campaign, spawned, results, upstream, lost, crashes>>
    BY <1>9 DEF Arrival, CloseRead, AbandonRead, PullBegin, VerdictBegin, SpawnBegin, ResultBegin
  <2>3. QED
    BY <1>0, <2>1, <2>2
<1>10. CASE Crash
  BY <1>0, <1>10 DEF Crash
<1>14. QED
  BY <1>1, <1>2, <1>3, <1>4, <1>5, <1>6, <1>7, <1>8, <1>9, <1>10, <1>11, <1>12, <1>13
    DEF Next, Arrival

LEMMA StepForward ==
  ASSUME IndInv, Next
  PROVE  Forward
<1>0. Types /\ \A c \in Callers : Doing(c)
  BY DEF IndInv
<1> USE DEF Types, States, Handlers, Spots, Steps, Forward
<1>1. ASSUME NEW k \in Campaigns, Open(k) PROVE Forward
  BY <1>0, <1>1 DEF Open
<1>2. ASSUME NEW p \in Programmes, CreateElsewhere(p) PROVE Forward
  BY <1>0, <1>2 DEF CreateElsewhere
<1>3. ASSUME NEW c \in Callers, NEW p \in Programmes, SpawnCreated(c, p) PROVE Forward
  BY <1>0, <1>3 DEF SpawnCreated
<1>4. ASSUME NEW c \in Callers, SpawnRecorded(c) \/ ResultRecorded(c) PROVE Forward
  BY <1>0, <1>4 DEF SpawnRecorded, ResultRecorded, InsertResult
<1>5. ASSUME NEW c \in Callers,
             \/ CloseWrite(c) \/ AbandonWrite(c) \/ PullEnd(c)
             \/ VerdictRecorded(c) \/ VerdictClaimed(c)
      PROVE  Forward
  <2>1. UNCHANGED <<results, upstream>>
    BY <1>0, <1>5 DEF CloseWrite, AbandonWrite, PullEnd, VerdictRecorded, VerdictClaimed
  <2>2. PICK k \in Campaigns : k = call[c].row.campaign
    BY <1>0, <1>5
      DEF CloseWrite, AbandonWrite, PullEnd, VerdictRecorded, VerdictClaimed, Doing, Known
  <2>3. CASE CloseWrite(c)
    <3>1. campaign' = [campaign EXCEPT ![k].status = "closed", ![k].scored = call[c].read]
      BY <2>2, <2>3 DEF CloseWrite
    <3>2. /\ campaign'[k].status = "closed" /\ campaign'[k].refs = campaign[k].refs
          /\ campaign'[k].decision = campaign[k].decision
          /\ \A x \in Campaigns \ {k} : campaign'[x] = campaign[x]
      BY <1>0, <3>1
    <3>3. QED
      BY <2>1, <3>2
  <2>4. CASE AbandonWrite(c)
    <3>1. campaign' = [campaign EXCEPT ![k].status = "abandoned"]
      BY <2>2, <2>4 DEF AbandonWrite
    <3>2. QED
      BY <1>0, <2>1, <3>1
  <2>5. CASE PullEnd(c) \/ VerdictRecorded(c) \/ VerdictClaimed(c)
    <3>1. \/ campaign' = [campaign EXCEPT ![k].refs = TRUE]
          \/ campaign' = [campaign EXCEPT ![k].decision = TRUE]
          \/ campaign' = [campaign EXCEPT ![k].claim = TRUE]
          \/ UNCHANGED campaign
      BY <2>2, <2>5 DEF PullEnd, VerdictRecorded, VerdictClaimed
    <3>2. CASE UNCHANGED campaign
      BY <2>1, <3>2
    <3>3. CASE ~ UNCHANGED campaign
      <4>1. \A x \in Campaigns :
              /\ campaign'[x].status = campaign[x].status
              /\ campaign[x].refs => campaign'[x].refs
              /\ campaign[x].decision => campaign'[x].decision
        BY <1>0, <3>1, <3>3, Marked
      <4>2. QED
        BY <2>1, <4>1
    <3>4. QED
      BY <3>2, <3>3
  <2>6. QED
    BY <1>5, <2>3, <2>4, <2>5
<1>6. ASSUME NEW c \in Callers, GiveUp(c) PROVE Forward
  BY <1>0, <1>6 DEF GiveUp
<1>7. ASSUME NEW c \in Callers, Arrival(c) PROVE Forward
  BY <1>0, <1>7 DEF Arrival, CloseRead, AbandonRead, PullBegin, VerdictBegin,
              SpawnBegin, ResultBegin
<1>8. CASE Crash
  BY <1>0, <1>8 DEF Crash
<1>9. QED
  BY <1>1, <1>2, <1>3, <1>4, <1>5, <1>6, <1>7, <1>8 DEF Next, Arrival

\* What is backed stays so.
LEMMA StaysBacked ==
  ASSUME IndInv, Forward, NEW r \in Rows, Backed(r)
  PROVE  Backed(r)'
BY DEF IndInv, Types, Rows, Forward, Backed, Known, Attributed

\* What a handler that does not move relies on stays so.
LEMMA StaysDoing ==
  ASSUME IndInv, Forward, NEW c \in Callers, call'[c] = call[c]
  PROVE  Doing(c)'
<1> DEFINE row == call[c].row
<1>1. Doing(c) /\ call[c] \in Handlers /\ row = (row)'
  BY DEF IndInv, Types
<1>2. row \in Rows /\ Attributed(row) => Attributed(row)'
  BY DEF IndInv, Types, Rows, Forward, Attributed
<1>3. Known(row.campaign) =>
        /\ Known(row.campaign)'
        /\ campaign[row.campaign].refs => campaign'[row.campaign].refs
        /\ campaign[row.campaign].decision => campaign'[row.campaign].decision
        /\ campaign[row.campaign].status # "open" => campaign'[row.campaign].status # "open"
  BY DEF Forward, Known, IndInv, Types, States
<1>4. ResultsOf(row.campaign) \subseteq ResultsOf(row.campaign)'
  BY DEF Forward, ResultsOf
<1>5. QED
  BY <1>1, <1>2, <1>3, <1>4 DEF Doing
-----------------------------------------------------------------------------
(***************************************************************************)
(* The parts of the invariant.                                             *)
(***************************************************************************)
LEMMA StaysKept ==
  ASSUME IndInv, Forward, NEW k \in Campaigns, campaign'[k] = campaign[k]
  PROVE  Kept(k)'
<1>1. Kept(k) /\ ResultsOf(k) \subseteq ResultsOf(k)'
  BY DEF IndInv, Forward, ResultsOf
<1>2. QED
  BY <1>1 DEF Kept

LEMMA StepKept ==
  ASSUME IndInv, Next, NEW j \in Campaigns
  PROVE  Kept(j)'
<1>0. Types /\ Types' /\ Forward /\ Kept(j) /\ \A c \in Callers : Doing(c)
  BY StepTypes, StepForward DEF IndInv
<1>1. CASE campaign'[j] = campaign[j]
  BY <1>0, <1>1, StaysKept
<1>2. ResultsOf(j) \subseteq ResultsOf(j)'
  BY <1>0 DEF Forward, ResultsOf
<1>3. ASSUME NEW k \in Campaigns, Open(k), campaign'[j] # campaign[j] PROVE Kept(j)'
  <2>1. campaign' = [campaign EXCEPT ![j].status = "open"] /\ campaign[j] = NoCampaign
    BY <1>0, <1>3 DEF Open, Types
  <2>2. campaign'[j] = [NoCampaign EXCEPT !.status = "open"]
    BY <1>0, <2>1 DEF Types
  <2>3. QED
    BY <2>2 DEF Kept
<1>4. ASSUME NEW c \in Callers, CloseWrite(c), campaign'[j] # campaign[j] PROVE Kept(j)'
  <2>1. j = call[c].row.campaign
    BY <1>0, <1>4 DEF CloseWrite, Types
  <2>2. /\ call[c].read # {} /\ call[c].read \subseteq ResultsOf(j)
        /\ campaign' = [campaign EXCEPT ![j].status = "closed", ![j].scored = call[c].read]
    BY <1>0, <1>4, <2>1 DEF CloseWrite, Doing
  <2>3. /\ campaign'[j].status = "closed" /\ campaign'[j].scored = call[c].read
        /\ campaign'[j].decision = campaign[j].decision
        /\ campaign'[j].refs = campaign[j].refs /\ campaign'[j].claim = campaign[j].claim
    BY <1>0, <2>2 DEF Types, States
  <2>4. QED
    BY <1>0, <1>2, <2>2, <2>3 DEF Kept
<1>5. ASSUME NEW c \in Callers, AbandonWrite(c), campaign'[j] # campaign[j] PROVE Kept(j)'
  <2>1. campaign' = [campaign EXCEPT ![j].status = "abandoned"]
    BY <1>0, <1>5 DEF AbandonWrite, Types
  <2>2. /\ campaign'[j].status = "abandoned" /\ campaign'[j].scored = campaign[j].scored
        /\ campaign'[j].decision = campaign[j].decision
        /\ campaign'[j].refs = campaign[j].refs /\ campaign'[j].claim = campaign[j].claim
    BY <1>0, <2>1 DEF Types, States
  <2>3. QED
    BY <1>0, <1>2, <2>2 DEF Kept
<1>6. ASSUME NEW c \in Callers, PullEnd(c), campaign'[j] # campaign[j] PROVE Kept(j)'
  <2>1. campaign' = [campaign EXCEPT ![j].refs = TRUE]
    BY <1>0, <1>6 DEF PullEnd, Types
  <2>2. /\ campaign'[j].status = campaign[j].status /\ campaign'[j].scored = campaign[j].scored
        /\ campaign'[j].decision = campaign[j].decision
        /\ campaign'[j].refs /\ campaign'[j].claim = campaign[j].claim
    BY <1>0, <2>1 DEF Types, States
  <2>3. QED
    BY <1>0, <1>2, <2>2 DEF Kept
<1>7. ASSUME NEW c \in Callers, VerdictRecorded(c), campaign'[j] # campaign[j] PROVE Kept(j)'
  <2>1. j = call[c].row.campaign
    BY <1>0, <1>7 DEF VerdictRecorded, Types
  <2>2. /\ campaign' = [campaign EXCEPT ![j].decision = TRUE]
        /\ campaign[j].status # "open" /\ campaign[j].refs
    BY <1>0, <1>7, <2>1 DEF VerdictRecorded, Doing
  <2>3. /\ campaign'[j].status = campaign[j].status /\ campaign'[j].scored = campaign[j].scored
        /\ campaign'[j].decision /\ campaign'[j].refs
    BY <1>0, <2>2, Marked DEF Types, States
  <2>4. QED
    BY <1>0, <1>2, <2>2, <2>3 DEF Kept
<1>8. ASSUME NEW c \in Callers, VerdictClaimed(c), campaign'[j] # campaign[j] PROVE Kept(j)'
  <2>1. j = call[c].row.campaign
    BY <1>0, <1>8 DEF VerdictClaimed, Types
  <2>2. campaign' = [campaign EXCEPT ![j].claim = TRUE] /\ campaign[j].decision
    BY <1>0, <1>8, <2>1 DEF VerdictClaimed, Doing
  <2>3. /\ campaign'[j].status = campaign[j].status /\ campaign'[j].scored = campaign[j].scored
        /\ campaign[j].refs => campaign'[j].refs
        /\ campaign'[j].decision
    BY <1>0, <2>2, Marked DEF Types
  <2>4. QED
    BY <1>0, <1>2, <2>2, <2>3 DEF Kept
<1>9. CASE UNCHANGED campaign
  BY <1>1, <1>9
<1>10. \/ UNCHANGED campaign
       \/ \E k \in Campaigns : Open(k)
       \/ \E c \in Callers :
            \/ CloseWrite(c) \/ AbandonWrite(c) \/ PullEnd(c)
            \/ VerdictRecorded(c) \/ VerdictClaimed(c)
  <2>1. ASSUME NEW c \in Callers, Arrival(c) PROVE UNCHANGED campaign
    BY <2>1 DEF Arrival, CloseRead, AbandonRead, PullBegin, VerdictBegin, SpawnBegin, ResultBegin
  <2>2. ASSUME NEW p \in Programmes, CreateElsewhere(p) PROVE UNCHANGED campaign
    BY <2>2 DEF CreateElsewhere
  <2>3. ASSUME NEW c \in Callers,
               \/ \E p \in Programmes : SpawnCreated(c, p)
               \/ SpawnRecorded(c) \/ ResultRecorded(c) \/ GiveUp(c)
        PROVE  UNCHANGED campaign
    BY <2>3 DEF SpawnCreated, SpawnRecorded, ResultRecorded, GiveUp
  <2>4. CASE Crash
    BY <2>4 DEF Crash
  <2>5. QED
    BY <2>1, <2>2, <2>3, <2>4 DEF Next, Arrival
<1>11. QED
  BY <1>1, <1>3, <1>4, <1>5, <1>6, <1>7, <1>8, <1>9, <1>10

LEMMA StepBacked ==
  ASSUME IndInv, Next, NEW r \in results'
  PROVE  Backed(r)'
<1>0. Types /\ Forward /\ (\A c \in Callers : Doing(c)) /\ \A s \in results : Backed(s)
  BY StepForward DEF IndInv
<1>1. CASE r \in results
  BY <1>0, <1>1, StaysBacked DEF Types
<1>2. ASSUME NEW c \in Callers, ResultRecorded(c), r \notin results PROVE Backed(r)'
  <2>1. r = call[c].row /\ r \in Rows /\ Backed(r)
    BY <1>0, <1>2 DEF ResultRecorded, InsertResult, Doing, Backed
  <2>2. QED
    BY <1>0, <2>1, StaysBacked
<1>3. UNCHANGED results \/ \E c \in Callers : ResultRecorded(c)
  <2>1. ASSUME NEW c \in Callers, Arrival(c) PROVE UNCHANGED results
    BY <2>1 DEF Arrival, CloseRead, AbandonRead, PullBegin, VerdictBegin, SpawnBegin, ResultBegin
  <2>2. ASSUME NEW c \in Callers,
               \/ \E p \in Programmes : SpawnCreated(c, p)
               \/ SpawnRecorded(c) \/ CloseWrite(c) \/ AbandonWrite(c) \/ PullEnd(c)
               \/ VerdictRecorded(c) \/ VerdictClaimed(c) \/ GiveUp(c)
        PROVE  UNCHANGED results
    BY <2>2 DEF SpawnCreated, SpawnRecorded, CloseWrite, AbandonWrite, PullEnd,
                VerdictRecorded, VerdictClaimed, GiveUp
  <2>3. ASSUME NEW p \in Programmes, CreateElsewhere(p) PROVE UNCHANGED results
    BY <2>3 DEF CreateElsewhere
  <2>4. ASSUME NEW k \in Campaigns, Open(k) PROVE UNCHANGED results
    BY <2>4 DEF Open
  <2>5. CASE Crash
    BY <2>5 DEF Crash
  <2>6. QED
    BY <2>1, <2>2, <2>3, <2>4, <2>5 DEF Next, Arrival
<1>4. QED
  BY <1>1, <1>2, <1>3

\* Only SpawnRecorded writes campaign_spawns.
LEMMA SpawnedByRecord ==
  ASSUME Next
  PROVE  UNCHANGED spawned \/ \E c \in Callers : SpawnRecorded(c)
<1>1. ASSUME NEW c \in Callers, Arrival(c) PROVE UNCHANGED spawned
  BY <1>1 DEF Arrival, CloseRead, AbandonRead, PullBegin, VerdictBegin, SpawnBegin, ResultBegin
<1>2. ASSUME NEW c \in Callers,
             \/ \E p \in Programmes : SpawnCreated(c, p)
             \/ ResultRecorded(c) \/ CloseWrite(c) \/ AbandonWrite(c) \/ PullEnd(c)
             \/ VerdictRecorded(c) \/ VerdictClaimed(c) \/ GiveUp(c)
      PROVE  UNCHANGED spawned
  BY <1>2 DEF SpawnCreated, ResultRecorded, CloseWrite, AbandonWrite, PullEnd,
              VerdictRecorded, VerdictClaimed, GiveUp
<1>3. ASSUME NEW p \in Programmes, CreateElsewhere(p) PROVE UNCHANGED spawned
  BY <1>3 DEF CreateElsewhere
<1>4. ASSUME NEW k \in Campaigns, Open(k) PROVE UNCHANGED spawned
  BY <1>4 DEF Open
<1>5. CASE Crash
  BY <1>5 DEF Crash
<1>6. QED
  BY <1>1, <1>2, <1>3, <1>4, <1>5 DEF Next, Arrival

LEMMA StepPlaced ==
  ASSUME IndInv, Next, NEW p \in Programmes
  PROVE  Placed(p)'
<1>0. Types /\ Forward /\ Placed(p) /\ \A c \in Callers : Doing(c)
  BY StepForward DEF IndInv
<1>1. CASE spawned'[p] = spawned[p]
  <2>1. CASE spawned[p] = NoSpawn
    BY <1>1, <2>1 DEF Placed
  <2>2. CASE spawned[p] # NoSpawn
    <3>1. spawned[p] \in Rows /\ Backed(spawned[p]) /\ spawned[p].programme = p
      BY <1>0, <2>2 DEF Placed
    <3>2. \A r \in Rows : Backed(r) => Backed(r)'
      BY <1>0, StaysBacked
    <3>3. QED
      BY <1>1, <3>1, <3>2 DEF Placed, Backed, Known, Attributed
  <2>3. QED
    BY <2>1, <2>2
<1>2. ASSUME NEW c \in Callers, SpawnRecorded(c), spawned'[p] # spawned[p] PROVE Placed(p)'
  <2>1. p = call[c].row.programme /\ spawned'[p] = call[c].row
    BY <1>0, <1>2 DEF SpawnRecorded, Types
  <2>2. PICK r \in Rows : r = call[c].row
    BY <1>0, <1>2 DEF SpawnRecorded, Doing
  <2>3. Backed(r)
    BY <1>0, <1>2, <2>2 DEF SpawnRecorded, Doing, Backed
  <2>4. Backed(r)'
    BY <1>0, <2>3, StaysBacked
  <2>5. QED
    BY <2>1, <2>2, <2>4 DEF Placed, Backed, Known, Attributed
<1>3. QED
  BY <1>1, <1>2, SpawnedByRecord

LEMMA StepDoing ==
  ASSUME IndInv, Next, NEW d \in Callers
  PROVE  Doing(d)'
<1>0. Types /\ Forward /\ Doing(d)
  BY StepForward DEF IndInv
<1>1. CASE call'[d] = call[d]
  BY <1>0, <1>1, StaysDoing
<1>2. CASE call'[d] = Idle
  BY <1>2 DEF Doing
<1>3. ASSUME NEW c \in Callers, Return(c) PROVE Doing(d)'
  BY <1>0, <1>1, <1>2, <1>3, Returned DEF Types
<1>4. ASSUME NEW c \in Callers, NEW p \in Programmes, SpawnCreated(c, p) PROVE Doing(d)'
  <2>1. CASE d # c
    BY <1>0, <1>1, <1>4, <2>1, Noted DEF SpawnCreated, Types
  <2>2. CASE d = c
    <3>1. PICK k \in Campaigns, arm \in Arms :
            k = call[c].row.campaign /\ arm = call[c].row.arm /\ Known(k)
      BY <1>0, <1>4, <2>2 DEF SpawnCreated, Doing, Known
    <3>2. call'[c].step = "spawn" /\ call'[c].row = Row(k, arm, p)
      <4>1. call'[c].step = "spawn" /\ call'[c].row = Row(call[c].row.campaign, call[c].row.arm, p)
        <5>1. call' = [call EXCEPT ![c].step = "spawn", ![c].row.programme = p]
          BY <1>4 DEF SpawnCreated
        <5>2. call \in [Callers -> Handlers]
          BY <1>0 DEF Types
        <5>3. QED
          BY <5>1, <5>2, Noted
      <4>2. QED
        BY <3>1, <4>1
    <3>3. upstream'[p] = ArmCandidate(k, arm)
      BY <1>0, <1>4, <3>1 DEF SpawnCreated, Types
    <3>4. Known(k)'
      BY <1>0, <3>1 DEF Forward, Known
    <3>5. QED
      BY <2>2, <3>1, <3>2, <3>3, <3>4 DEF Doing, Rows, Attributed, Known
  <2>3. QED
    BY <2>1, <2>2
<1>5. ASSUME NEW c \in Callers, VerdictRecorded(c) PROVE Doing(d)'
  <2>1. CASE d # c
    BY <1>0, <1>1, <1>5, <2>1, Moved DEF VerdictRecorded, Types, Steps
  <2>2. CASE d = c
    <3>1. PICK k \in Campaigns : k = call[c].row.campaign
      BY <1>0, <1>5, <2>2 DEF VerdictRecorded, Doing, Known
    <3>2. call'[c].step = "claim" /\ call'[c].row.campaign = k
      BY <1>0, <1>5, <3>1, Moved DEF VerdictRecorded, Types, Steps, Handlers, Spots
    <3>3. campaign[k].status \notin {"none", "open"} /\ campaign[k].refs
      BY <1>0, <1>5, <2>2, <3>1 DEF VerdictRecorded, Doing, Known
    <3>4. campaign' = [campaign EXCEPT ![k].decision = TRUE]
      BY <1>5, <3>1 DEF VerdictRecorded
    <3>5. campaign'[k].decision
      BY <1>0, <3>4 DEF Types, States
    <3>6. campaign'[k].status \notin {"none", "open"} /\ campaign'[k].refs
      BY <1>0, <3>3 DEF Forward
    <3>7. QED
      BY <2>2, <3>2, <3>5, <3>6 DEF Doing, Known
  <2>3. QED
    BY <2>1, <2>2
<1>6. ASSUME NEW c \in Callers, Arrival(c) PROVE Doing(d)'
  <2>0. PICK k \in Campaigns :
          \/ CloseRead(c, k) \/ AbandonRead(c, k) \/ PullBegin(c, k) \/ VerdictBegin(c, k)
          \/ \E arm \in Arms :
               SpawnBegin(c, k, arm) \/ \E p \in Programmes : ResultBegin(c, k, arm, p)
    BY <1>6 DEF Arrival
  <2>1. /\ call' = [call EXCEPT ![c] = call'[c]]
        /\ UNCHANGED <<campaign, results>>
        /\ campaign[k].status # "none"
        /\ call'[c].row.campaign = k
    <3>1. CASE CloseRead(c, k) \/ AbandonRead(c, k)
      BY <1>0, <3>1 DEF CloseRead, AbandonRead, Types
    <3>2. CASE PullBegin(c, k) \/ VerdictBegin(c, k)
      BY <1>0, <3>2 DEF PullBegin, VerdictBegin, Types
    <3>3. ASSUME NEW arm \in Arms, SpawnBegin(c, k, arm) PROVE <2>1
      BY <1>0, <3>3 DEF SpawnBegin, Types
    <3>4. ASSUME NEW arm \in Arms, NEW p \in Programmes, ResultBegin(c, k, arm, p) PROVE <2>1
      BY <1>0, <3>4 DEF ResultBegin, Types
    <3>5. QED
      BY <2>0, <3>1, <3>2, <3>3, <3>4
  <2>2. CASE d # c
    BY <1>0, <1>1, <2>1, <2>2 DEF Types
  <2>3. CASE d = c
    <3>0. Known(k)'
      BY <2>1 DEF Known
    <3>1. CASE CloseRead(c, k)
      <4>1. ResultsOf(k) # {}
        BY <3>1 DEF CloseRead, Closable, BothArmsRan
      <4>2. call'[c] = [step |-> "close", row |-> Row(k, "none", Nobody), read |-> ResultsOf(k)]
        BY <1>0, <3>1 DEF CloseRead, Types
      <4>3. ResultsOf(k)' = ResultsOf(k)
        BY <2>1 DEF ResultsOf
      <4>4. QED
        BY <2>3, <3>0, <4>1, <4>2, <4>3 DEF Doing
    <3>2. CASE AbandonRead(c, k) \/ PullBegin(c, k)
      <4>1. call'[c].step \in {"abandon", "pull"}
        BY <1>0, <3>2 DEF AbandonRead, PullBegin, Types
      <4>2. QED
        BY <2>1, <2>3, <3>0, <4>1 DEF Doing
    <3>3. CASE VerdictBegin(c, k)
      <4>1. call'[c].step = "decide"
        BY <1>0, <3>3 DEF VerdictBegin, Types
      <4>2. campaign'[k].status # "open" /\ campaign'[k].refs
        BY <2>1, <3>3 DEF VerdictBegin
      <4>3. QED
        BY <2>1, <2>3, <3>0, <4>1, <4>2 DEF Doing
    <3>4. ASSUME NEW arm \in Arms, SpawnBegin(c, k, arm) PROVE Doing(d)'
      <4>1. call'[c].step = "create" /\ call'[c].row.arm = arm
        BY <1>0, <3>4 DEF SpawnBegin, Types
      <4>2. QED
        BY <2>1, <2>3, <3>0, <4>1 DEF Doing
    <3>5. ASSUME NEW arm \in Arms, NEW p \in Programmes, ResultBegin(c, k, arm, p)
          PROVE  Doing(d)'
      <4>1. call'[c].step = "report" /\ call'[c].row = Row(k, arm, p)
        BY <1>0, <3>5 DEF ResultBegin, Types
      <4>2. QED
        BY <2>1, <2>3, <3>0, <4>1 DEF Doing, Rows
    <3>6. QED
      BY <2>0, <3>1, <3>2, <3>3, <3>4, <3>5
  <2>4. QED
    BY <2>2, <2>3
<1>7. CASE UNCHANGED call
  BY <1>1, <1>7
<1>8. CASE Crash
  BY <1>2, <1>8 DEF Crash
<1>9. \/ UNCHANGED call \/ Crash
      \/ \E c \in Callers :
           \/ Return(c) \/ VerdictRecorded(c) \/ Arrival(c)
           \/ \E p \in Programmes : SpawnCreated(c, p)
  <2>1. ASSUME NEW c \in Callers,
               \/ SpawnRecorded(c) \/ ResultRecorded(c) \/ CloseWrite(c) \/ AbandonWrite(c)
               \/ PullEnd(c) \/ VerdictClaimed(c) \/ GiveUp(c)
        PROVE  Return(c)
    BY <2>1 DEF SpawnRecorded, ResultRecorded, CloseWrite, AbandonWrite, PullEnd,
                VerdictClaimed, GiveUp
  <2>2. ASSUME NEW p \in Programmes, CreateElsewhere(p) PROVE UNCHANGED call
    BY <2>2 DEF CreateElsewhere
  <2>3. ASSUME NEW k \in Campaigns, Open(k) PROVE UNCHANGED call
    BY <2>3 DEF Open
  <2>4. QED
    BY <2>1, <2>2, <2>3 DEF Next, Arrival
<1>10. QED
  BY <1>3, <1>4, <1>5, <1>6, <1>7, <1>8, <1>9

LEMMA StepIndInv == IndInv /\ [Next]_vars => IndInv'
<1>1. ASSUME IndInv, Next PROVE IndInv'
  BY <1>1, StepTypes, StepKept, StepPlaced, StepBacked, StepDoing DEF IndInv
<1>2. ASSUME IndInv, UNCHANGED vars PROVE IndInv'
  BY <1>2 DEF IndInv, vars, Types, Kept, Placed, Backed, Known, Attributed, Doing, ResultsOf
<1>3. QED
  BY <1>1, <1>2
-----------------------------------------------------------------------------
(***************************************************************************)
(* The cap.  A handler that has passed the check is a spawn to come; both  *)
(* are counted together.                                                   *)
(***************************************************************************)
Capped(k, arm) ==
  Cardinality(SpawnsOfArm(k, arm)) + Cardinality(Spawning(k, arm)) < Cap + Cardinality(Callers)

\* The sets that are counted are finite, and a part has no more than the whole.
LEMMA FiniteSpawns ==
  ASSUME NEW k, NEW arm
  PROVE  /\ IsFiniteSet(SpawnsOfArm(k, arm)) /\ Cardinality(SpawnsOfArm(k, arm)) \in Nat
         /\ IsFiniteSet(Spawning(k, arm)) /\ Cardinality(Spawning(k, arm)) \in Nat
         /\ Cardinality(Spawning(k, arm)) <= Cardinality(Callers)
<1>1. SpawnsOfArm(k, arm) \in SUBSET Programmes /\ Spawning(k, arm) \in SUBSET Callers
  BY DEF SpawnsOfArm, SpawnsOf, Spawning
<1>2. QED
  BY <1>1, FS_Subset, FS_CardinalityType

\* The cap is at work when nobody spawns.
LEMMA CallersCount == Cardinality(Callers) \in Nat \ {0}
BY FS_CardinalityType, FS_EmptySet

\* Two sets that do not grow.
LEMMA StaysCapped ==
  ASSUME NEW k, NEW arm, Capped(k, arm),
         SpawnsOfArm(k, arm)' \subseteq SpawnsOfArm(k, arm),
         Spawning(k, arm)' \subseteq Spawning(k, arm)
  PROVE  Capped(k, arm)'
<1> DEFINE S == SpawnsOfArm(k, arm)
           W == Spawning(k, arm)
<1>1. Cardinality(S') <= Cardinality(S) /\ Cardinality(W') <= Cardinality(W)
  BY FiniteSpawns, FS_Subset
<1>2. Cardinality(S') \in Nat /\ Cardinality(W') \in Nat
  BY FiniteSpawns, FS_Subset, FS_CardinalityType
<1>3. QED
  BY <1>1, <1>2, FiniteSpawns, CallersCount DEF Capped

LEMMA StepCapped ==
  ASSUME IndInv, Next, NEW k \in Campaigns, NEW arm \in Arms, Capped(k, arm)
  PROVE  Capped(k, arm)'
<1> DEFINE S == SpawnsOfArm(k, arm)
           W == Spawning(k, arm)
<1>0. Types /\ Types' /\ \A c \in Callers : Doing(c)
  BY StepTypes DEF IndInv
\* A handler joins those that spawn by SpawnBegin only.
<1>1. ASSUME NEW c \in Callers,
             \A d \in Callers \ {c} : call'[d] = call[d],
             call'[c].step \notin {"create", "spawn"} \/ call'[c] = call[c]
      PROVE  W' \subseteq W
  BY <1>1 DEF Spawning
<1>2. ASSUME NEW c \in Callers, Return(c) PROVE W' \subseteq W
  BY <1>0, <1>1, <1>2, Returned DEF Types
<1>3. CASE UNCHANGED spawned
  <2>0. S' = S
    BY <1>3 DEF SpawnsOfArm, SpawnsOf
  <2>1. CASE W' \subseteq W
    BY <2>0, <2>1, StaysCapped
  <2>2. CASE UNCHANGED call
    BY <2>1, <2>2 DEF Spawning
  <2>3. CASE Crash
    BY <2>1, <2>3 DEF Crash, Spawning
  <2>4. ASSUME NEW c \in Callers, Return(c) PROVE Capped(k, arm)'
    BY <1>2, <2>1, <2>4
  <2>5. ASSUME NEW c \in Callers, NEW p \in Programmes, SpawnCreated(c, p)
        PROVE  Capped(k, arm)'
    <3>1. call' = [call EXCEPT ![c].step = "spawn", ![c].row.programme = p]
      BY <2>5 DEF SpawnCreated
    <3>2. /\ call'[c].row.campaign = call[c].row.campaign
          /\ call'[c].row.arm = call[c].row.arm
          /\ \A d \in Callers \ {c} : call'[d] = call[d]
      <4>1. call \in [Callers -> Handlers]
        BY <1>0 DEF Types
      <4>2. /\ call'[c].row = Row(call[c].row.campaign, call[c].row.arm, p)
            /\ \A d \in Callers \ {c} : call'[d] = call[d]
        BY <3>1, <4>1, Noted
      <4>3. QED
        BY <4>2
    <3>3. call[c].step = "create"
      BY <2>5 DEF SpawnCreated
    <3>4. W' \subseteq W
      BY <3>2, <3>3 DEF Spawning
    <3>5. QED
      BY <2>1, <3>4
  <2>6. ASSUME NEW c \in Callers, VerdictRecorded(c) PROVE Capped(k, arm)'
    <3>1. call'[c].step = "claim" /\ \A d \in Callers \ {c} : call'[d] = call[d]
      BY <1>0, <2>6, Moved DEF VerdictRecorded, Types, Steps, Handlers
    <3>2. QED
      BY <1>1, <2>1, <3>1
  <2>7. ASSUME NEW c \in Callers, NEW j \in Campaigns, NEW a \in Arms, SpawnBegin(c, j, a)
        PROVE  Capped(k, arm)'
    <3>1. call'[c].row = Row(j, a, Nobody) /\ \A d \in Callers \ {c} : call'[d] = call[d]
      BY <1>0, <2>7 DEF SpawnBegin, Types
    <3>2. CASE j = k /\ a = arm
      <4>1. Cardinality(S) < Cap /\ Cardinality(S') = Cardinality(S)
        BY <2>0, <2>7, <3>2 DEF SpawnBegin, UnderCap
      <4>2. W' \in SUBSET Callers
        BY DEF Spawning
      <4>3. Cardinality(W') <= Cardinality(Callers) /\ Cardinality(W') \in Nat
        BY <4>2, FS_Subset, FS_CardinalityType
      <4>4. QED
        BY <4>1, <4>3, FiniteSpawns, CallersCount DEF Capped
    <3>3. CASE ~(j = k /\ a = arm)
      <4>1. W' \subseteq W
        BY <3>1, <3>3 DEF Spawning
      <4>2. QED
        BY <2>1, <4>1
    <3>4. QED
      BY <3>2, <3>3
  <2>8. ASSUME NEW c \in Callers, NEW j \in Campaigns,
               \/ CloseRead(c, j) \/ AbandonRead(c, j) \/ PullBegin(c, j) \/ VerdictBegin(c, j)
               \/ \E a \in Arms, p \in Programmes : ResultBegin(c, j, a, p)
        PROVE  Capped(k, arm)'
    <3>1. /\ call'[c].step \notin {"create", "spawn"}
          /\ \A d \in Callers \ {c} : call'[d] = call[d]
      <4>1. CASE CloseRead(c, j) \/ AbandonRead(c, j) \/ PullBegin(c, j) \/ VerdictBegin(c, j)
        BY <1>0, <4>1 DEF CloseRead, AbandonRead, PullBegin, VerdictBegin, Types
      <4>2. ASSUME NEW a \in Arms, NEW p \in Programmes, ResultBegin(c, j, a, p) PROVE <3>1
        BY <1>0, <4>2 DEF ResultBegin, Types
      <4>3. QED
        BY <2>8, <4>1, <4>2
    <3>2. QED
      BY <1>1, <2>1, <3>1
  <2>9. QED
    <3>1. ASSUME NEW c \in Callers,
                 \/ SpawnRecorded(c) \/ ResultRecorded(c) \/ CloseWrite(c) \/ AbandonWrite(c)
                 \/ PullEnd(c) \/ VerdictClaimed(c) \/ GiveUp(c)
          PROVE  Return(c)
      BY <3>1 DEF SpawnRecorded, ResultRecorded, CloseWrite, AbandonWrite, PullEnd,
                  VerdictClaimed, GiveUp
    <3>2. ASSUME NEW p \in Programmes, CreateElsewhere(p) PROVE UNCHANGED call
      BY <3>2 DEF CreateElsewhere
    <3>3. ASSUME NEW j \in Campaigns, Open(j) PROVE UNCHANGED call
      BY <3>3 DEF Open
    <3>4. QED
      BY <2>2, <2>3, <2>4, <2>5, <2>6, <2>7, <2>8, <3>1, <3>2, <3>3 DEF Next
<1>4. ASSUME NEW c \in Callers, SpawnRecorded(c) PROVE Capped(k, arm)'
  <2>1. PICK row \in Rows : row = call[c].row
    BY <1>0, <1>4 DEF SpawnRecorded, Doing
  <2>2. spawned' = [spawned EXCEPT ![row.programme] = row] /\ row.programme \in Programmes
    BY <1>4, <2>1 DEF SpawnRecorded, Rows
  <2>3. CASE row.campaign = k /\ row.arm = arm
    <3>1. S' \subseteq S \cup {row.programme}
      BY <1>0, <2>2 DEF SpawnsOfArm, SpawnsOf, Types
    <3>2. c \in W /\ W' \subseteq W \ {c}
      BY <1>0, <1>4, <2>1, <2>3, Returned DEF SpawnRecorded, Spawning, Types
    <3>3. Cardinality(S') <= Cardinality(S) + 1 /\ Cardinality(S') \in Nat
      <4>1. /\ IsFiniteSet(S \cup {row.programme})
            /\ Cardinality(S \cup {row.programme}) <= Cardinality(S) + 1
            /\ Cardinality(S \cup {row.programme}) \in Nat
        <5>1. IsFiniteSet(S) /\ Cardinality(S) \in Nat
          BY FiniteSpawns
        <5>2. /\ IsFiniteSet(S \cup {row.programme})
              /\ \/ Cardinality(S \cup {row.programme}) = Cardinality(S)
                 \/ Cardinality(S \cup {row.programme}) = Cardinality(S) + 1
          BY <5>1, FS_AddElement
        <5>3. QED
          BY <5>1, <5>2
      <4>2. Cardinality(S') <= Cardinality(S \cup {row.programme}) /\ Cardinality(S') \in Nat
        BY <3>1, <4>1, FS_Subset, FS_CardinalityType
      <4>3. QED
        BY <4>1, <4>2, FiniteSpawns
    <3>4. Cardinality(W') <= Cardinality(W) - 1 /\ Cardinality(W') \in Nat
      <4>1. /\ IsFiniteSet(W \ {c})
            /\ Cardinality(W \ {c}) = Cardinality(W) - 1
        BY <3>2, FiniteSpawns, FS_RemoveElement
      <4>2. Cardinality(W') <= Cardinality(W \ {c}) /\ Cardinality(W') \in Nat
        BY <3>2, <4>1, FS_Subset, FS_CardinalityType
      <4>3. QED
        BY <4>1, <4>2
    <3>5. QED
      BY <3>3, <3>4, FiniteSpawns, CallersCount DEF Capped
  <2>4. CASE ~(row.campaign = k /\ row.arm = arm)
    <3>1. S' \subseteq S
      BY <1>0, <2>2, <2>4 DEF SpawnsOfArm, SpawnsOf, Types
    <3>2. W' \subseteq W
      BY <1>2, <1>4 DEF SpawnRecorded
    <3>3. QED
      BY <3>1, <3>2, StaysCapped
  <2>5. QED
    BY <2>3, <2>4
<1>5. QED
  BY <1>3, <1>4, SpawnedByRecord

-----------------------------------------------------------------------------
(***************************************************************************)
(* The theorems.                                                           *)
(***************************************************************************)

\* The invariant of the handlers and the tables: whatever a handler has checked
\* before it awaited another server, or let another thread run, still holds when
\* it goes on.
THEOREM Invariance == Spec => []IndInv
<1>1. Init => IndInv
  BY InitIndInv
<1>2. IndInv /\ [Next]_vars => IndInv'
  BY StepIndInv
<1>3. QED
  BY <1>1, <1>2, PTL DEF Spec

\* The rows of the zetesis server have their types, whatever calls they are
\* written by.
THEOREM TypeCorrect == Spec => []TypeOK
<1>1. IndInv => TypeOK
  BY DEF IndInv, Types, TypeOK, Kept, States, Rows
<1>2. QED
  BY <1>1, Invariance, PTL

\* A result is never credited to an arm that did not produce it: record_campaign_result
\* asks episteme, whose answer does not change while the row is written.
THEOREM Attribution == Spec => []ResultsAreAttributed
<1>1. IndInv => \A r \in results : upstream[r.programme] = ArmCandidate(r.campaign, r.arm)
  BY DEF IndInv, Backed, Attributed
<1>2. ASSUME IndInv, NEW r \in results, spawned[r.programme].campaign = r.campaign
      PROVE  spawned[r.programme].arm = r.arm
  <2>1. r \in Rows /\ r.programme \in Programmes
    BY <1>2 DEF IndInv, Types, Rows
  <2>2. spawned[r.programme] # NoSpawn
    BY <1>2, <2>1 DEF Rows
  <2>3. /\ spawned[r.programme] \in Rows /\ spawned[r.programme].programme = r.programme
        /\ Attributed(spawned[r.programme]) /\ Attributed(r)
    BY <1>2, <2>1, <2>2 DEF IndInv, Placed, Backed
  <2>4. ArmCandidate(r.campaign, spawned[r.programme].arm) = ArmCandidate(r.campaign, r.arm)
    BY <1>2, <2>3 DEF Attributed
  <2>5. QED
    BY <2>1, <2>3, <2>4 DEF Rows
<1>3. IndInv => ResultsAreAttributed
  BY <1>1, <1>2 DEF ResultsAreAttributed
<1>4. QED
  BY <1>3, Invariance, PTL

\* Parallel spawns overshoot the cap of an arm by less than the number of
\* requests handled at a time, and a spawn row has its programme.
THEOREM SpawnCap == Spec => []SpawnsAreBounded
<1> DEFINE AllCapped == \A k \in Campaigns, arm \in Arms : Capped(k, arm)
<1>1. Init => AllCapped
  <2>1. ASSUME Init, NEW k \in Campaigns, NEW arm \in Arms PROVE Capped(k, arm)
    <3>1. SpawnsOfArm(k, arm) = {} /\ Spawning(k, arm) = {}
      BY <2>1 DEF Init, SpawnsOfArm, SpawnsOf, Spawning
    <3>2. QED
      BY <3>1, CallersCount, FS_EmptySet DEF Capped
  <2>2. QED
    BY <2>1
<1>2. IndInv /\ AllCapped /\ [Next]_vars => AllCapped'
  <2>1. ASSUME IndInv, AllCapped, Next PROVE AllCapped'
    BY <2>1, StepCapped
  <2>2. ASSUME AllCapped, UNCHANGED vars PROVE AllCapped'
    BY <2>2 DEF vars, Capped, SpawnsOfArm, SpawnsOf, Spawning
  <2>3. QED
    BY <2>1, <2>2
<1>3. IndInv /\ AllCapped => SpawnsAreBounded
  BY DEF IndInv, Placed, Backed, Attributed, Capped, SpawnsAreBounded, Rows
<1>4. QED
  BY <1>1, <1>2, <1>3, Invariance, PTL DEF Spec

\* No campaign falls between the gates and the audits.
THEOREM NothingUnfinishedIsMissed == Spec => []UnfinishedIsFlagged
<1>1. ASSUME IndInv PROVE UnfinishedIsFlagged
  <2>1. ASSUME NEW k \in Campaigns, IsOpen(k), SpawnsOf(k) # {} \/ ResultsOf(k) # {}, ~Closable(k)
        PROVE  k \in incomplete_campaigns \cup spawn_budget_violations
    <3>1. CASE ~BothArmsRan(k)
      BY <2>1, <3>1 DEF incomplete_campaigns
    <3>2. CASE ~WithinBudget(k)
      <4>1. PICK arm \in Arms : ~(Cardinality(SpawnsOfArm(k, arm)) <= Cap)
        BY <3>2 DEF WithinBudget
      <4>2. Cardinality(SpawnsOfArm(k, arm)) > Cap
        BY <4>1, FiniteSpawns
      <4>3. QED
        BY <4>1, <4>2 DEF spawn_budget_violations
    <3>3. QED
      BY <2>1, <3>1, <3>2 DEF Closable
  <2>2. ASSUME NEW k \in Campaigns, campaign[k].status = "closed"
        PROVE  /\ k \in campaigns_awaiting_verdict \/ (campaign[k].decision /\ campaign[k].refs)
               /\ campaign[k].scored # {}
    BY <1>1, <2>2 DEF IndInv, Kept, campaigns_awaiting_verdict
  <2>3. campaign_results_have_campaign = {} /\ campaign_spawns_have_campaign = {}
    BY <1>1 DEF IndInv, Backed, Known, Placed, campaign_results_have_campaign,
                campaign_spawns_have_campaign
  <2>4. ASSUME NEW r \in results_spawn_scoped, spawned[r.programme].campaign = r.campaign
        PROVE  FALSE
    <3>1. r \in results /\ r \in Rows /\ r.programme \in Programmes
      BY <1>1 DEF IndInv, Types, Rows, results_spawn_scoped
    <3>2. spawned[r.programme] # NoSpawn
      BY <2>4, <3>1 DEF Rows
    <3>3. /\ spawned[r.programme] \in Rows /\ spawned[r.programme].programme = r.programme
          /\ Attributed(spawned[r.programme]) /\ Attributed(r)
      BY <1>1, <3>1, <3>2 DEF IndInv, Placed, Backed
    <3>4. spawned[r.programme].arm # r.arm
      BY <2>4, <3>1, <3>2 DEF results_spawn_scoped
    <3>5. QED
      BY <2>4, <3>1, <3>3, <3>4 DEF Attributed, Rows
  <2>5. closed_campaigns_scored = {}
    BY <2>2 DEF closed_campaigns_scored
  <2>6. QED
    BY <2>1, <2>2, <2>3, <2>4, <2>5 DEF UnfinishedIsFlagged
<1>2. QED
  BY <1>1, Invariance, PTL
=============================================================================
