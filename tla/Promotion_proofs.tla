--------------------------- MODULE Promotion_proofs ---------------------------
(***************************************************************************)
(* The roster of the zetesis server under any overlap of refreshes,        *)
(* verdicts, lost and late answers and deaths: one champion at most, and   *)
(* no label that the record upstream does not back.                        *)
(*                                                                         *)
(* The inductive invariant is the types and three parts.  AtMostOne: two   *)
(* champions are one.  LabelsAreBacked itself, for what has been written.  *)
(* Known: what a handler is about to write is backed too, and the campaign *)
(* it is about to write to stays closed with the challenger it has.  That  *)
(* a refresh heals any drift needs its history too (Undisturbed).          *)
(***************************************************************************)
EXTENDS Promotion, FiniteSetTheorems, WellFoundedInduction, TLAPS

-----------------------------------------------------------------------------
AtMostOne == \A x, y \in Champions : x = y

Answered(h) ==
  /\ h.decision \in DOMAIN decisions
  /\ decisions[h.decision] =
       Decision(campaign[h.campaign].challenger, Upstream[h.verdict], h.campaign)

Knows(h) ==
  /\ h.step = "reconcile" /\ h.candidate # Nobody => Ruled(h.candidate, "promote")
  /\ h.step = "write" =>
       /\ h.candidate \in Candidates
       /\ h.trail = "revoked" => Ruled(h.candidate, "rollback")
  /\ h.step \in {"push", "answer"} =>
       /\ h.campaign \in Campaigns /\ h.verdict \in DOMAIN Upstream
       /\ campaign[h.campaign].status = "closed"
  /\ h.step = "answer" => h.decision # 0 /\ Answered(h)

\* A campaign that was opened has two arms, and one that was not has no decision.
Opened ==
  \A k \in Campaigns :
    /\ campaign[k].status # "none" => campaign[k].challenger \in Candidates
    /\ campaign[k].status = "none" => campaign[k].decision = 0

Known == Opened /\ \A c \in Callers : Knows(call[c])

IndInv == TypeOK /\ AtMostOne /\ LabelsAreBacked /\ Known

USE DEF Steps, Rulings, Labels, At, Upstream, Verdicts, lineage, Trail

-----------------------------------------------------------------------------
(***************************************************************************)
(* What the verdicts say.                                                  *)
(***************************************************************************)
Less == {ss \in Nat \X Nat : ss[1] < ss[2]}

LEMMA LessIsWellFounded == IsWellFoundedOn(Less, Nat)
BY NatLessThanWellFounded DEF OpToRel, Less

LEMMA LeastExists ==
  ASSUME NEW S \in SUBSET Nat, S # {}
  PROVE  \E i \in S : \A j \in S : i =< j
<1>1. PICK i \in S : \A j \in S : ~(<<j, i>> \in Less)
  BY LessIsWellFounded, WFMin
<1>2. ASSUME NEW j \in S
      PROVE  i =< j
  <2>1. ~(<<j, i>> \in Less) /\ <<j, i>> \in Nat \X Nat
    BY <1>1
  <2> QED
    BY <2>1 DEF Less
<1> QED
  BY <1>2

LEMMA GreatestExists ==
  ASSUME NEW n \in Nat, NEW S \in SUBSET (1 .. n), S # {}
  PROVE  \E i \in S : \A j \in S : j =< i
<1> DEFINE T == {n - i : i \in S}
<1>1. T \in SUBSET Nat /\ T # {}
  <2>1. \A i \in S : n - i \in Nat
    OBVIOUS
  <2> QED
    BY <2>1
<1>2. PICK least \in T : \A j \in T : least =< j
  <2> HIDE DEF T
  <2> QED
    BY <1>1, LeastExists
<1>3. PICK i \in S : least = n - i
  BY <1>2
<1>4. ASSUME NEW j \in S
      PROVE  j =< i
  <2>1. n - i =< n - j
    BY <1>2, <1>3
  <2> QED
    BY <2>1
<1> QED
  BY <1>4

\* Whoever get_incumbent names was promoted.
LEMMA IncumbentIsPromoted ==
  ASSUME TypeOK, Incumbent(decisions) # Nobody
  PROVE  /\ Incumbent(decisions) \in Candidates
         /\ Ruled(Incumbent(decisions), "promote")
<1> DEFINE S == Standing(decisions)
<1>1. S # {}
  BY DEF Incumbent
<1>2. Len(decisions) \in Nat /\ S \in SUBSET (1 .. Len(decisions))
  BY DEF TypeOK, Standing
<1>3. \E i \in S : \A j \in S : j <= i
  <2> HIDE DEF S
  <2> QED
    BY <1>1, <1>2, GreatestExists
<1> DEFINE last == CHOOSE i \in S : \A j \in S : j <= i
<1>4. last \in S
  <2> HIDE DEF S
  <2> QED
    BY <1>3
<1>5. Incumbent(decisions) = decisions[last].candidate
  BY <1>1 DEF Incumbent
<1>6. last \in DOMAIN decisions /\ decisions[last].verdict = "promote"
  <2> HIDE DEF last
  <2> QED
    BY <1>4 DEF Standing
<1>7. decisions[last].candidate \in Candidates
  <2> HIDE DEF last, Rulings
  <2>1. decisions \in Seq(Rulings)
    BY DEF TypeOK
  <2>2. decisions[last] \in Rulings
    BY <1>6, <2>1
  <2> QED
    BY <2>2 DEF Rulings
<1> QED
  <2> HIDE DEF last
  <2> QED
    BY <1>5, <1>6, <1>7 DEF Ruled

LEMMA RevokedIsRuled ==
  ASSUME NEW x, Reading(decisions, x) = "revoked"
  PROVE  Ruled(x, "rollback")
BY DEF Reading, Revoked, Ruled

-----------------------------------------------------------------------------
(***************************************************************************)
(* The record upstream only grows.                                         *)
(***************************************************************************)
Grows ==
  /\ DOMAIN decisions \subseteq DOMAIN decisions'
  /\ \A i \in DOMAIN decisions : decisions'[i] = decisions[i]

LEMMA RecordGrows ==
  ASSUME TypeOK, NEW x \in Candidates, NEW v \in Verdicts, NEW k \in Campaigns \cup {Nobody},
         RecordDecision(x, v, k)
  PROVE  /\ Grows /\ registered' = registered
         /\ decisions' \in Seq(Rulings)
         /\ Len(decisions') \in DOMAIN decisions' /\ Len(decisions') # 0
         /\ decisions'[Len(decisions')] = Decision(x, v, k)
<1>1. Decision(x, v, k) \in Rulings
  BY DEF Decision
<1>2. decisions \in Seq(Rulings) /\ decisions' = Append(decisions, Decision(x, v, k))
  BY DEF TypeOK, RecordDecision
<1> HIDE DEF Rulings
<1>3. decisions' \in Seq(Rulings) /\ Len(decisions') = Len(decisions) + 1
  BY <1>1, <1>2
<1>4. Len(decisions) \in Nat /\ DOMAIN decisions = 1 .. Len(decisions)
      /\ DOMAIN decisions' = 1 .. Len(decisions')
  BY <1>2, <1>3
<1>5. \A i \in 1 .. Len(decisions) : decisions'[i] = decisions[i]
  BY <1>1, <1>2
<1>6. decisions'[Len(decisions')] = Decision(x, v, k)
  BY <1>1, <1>2, <1>3
<1> QED
  BY <1>3, <1>4, <1>5, <1>6 DEF Grows, RecordDecision

LEMMA RulingsLast ==
  ASSUME Grows, NEW x, NEW v, Ruled(x, v)
  PROVE  Ruled(x, v)'
BY DEF Grows, Ruled

\* What was backed stays so while only the record grows.
LEMMA BackingLasts ==
  ASSUME LabelsAreBacked, Grows, UNCHANGED <<roster, campaign>>
  PROVE  LabelsAreBacked'
<1>1. \A x \in Champions' : Ruled(x, "promote")'
  BY RulingsLast DEF LabelsAreBacked, Champions
<1>2. \A x \in Candidates : roster'[x] = "rolled_back" => Ruled(x, "rollback")'
  BY RulingsLast DEF LabelsAreBacked
<1>3. \A k \in Campaigns : campaign'[k].decision # 0 =>
        /\ campaign'[k].decision \in DOMAIN decisions'
        /\ decisions'[campaign'[k].decision].campaign = k
        /\ decisions'[campaign'[k].decision].candidate = campaign'[k].challenger
  BY DEF LabelsAreBacked, Grows
<1> QED
  BY <1>1, <1>2, <1>3 DEF LabelsAreBacked

\* Campaigns that are closed stay so, with the challenger they have.
ArmsLast ==
  \A k \in Campaigns : campaign[k].status = "closed" =>
    campaign'[k].status = "closed" /\ campaign'[k].challenger = campaign[k].challenger

LEMMA KnowledgeLasts ==
  ASSUME Grows, ArmsLast, NEW c \in Callers, Knows(call[c]), call'[c] = call[c]
  PROVE  Knows(call[c])'
<1>1. \A x, v : Ruled(x, v) => Ruled(x, v)'
  BY RulingsLast
<1>2. ASSUME call[c].step = "answer" PROVE Answered(call[c])'
  BY <1>2 DEF Knows, Answered, Grows, ArmsLast, Decision
<1>3. call[c].step \in {"push", "answer"} => campaign'[call[c].campaign].status = "closed"
  BY DEF Knows, ArmsLast
<1> QED
  BY <1>1, <1>2, <1>3 DEF Knows

\* One handler moves and knows what it has to, or none does.
LEMMA KnownStep ==
  ASSUME IndInv, Grows, ArmsLast, Opened',
         \E c \in Callers :
           /\ Knows(call[c])'
           /\ \A d \in Callers \ {c} : call'[d] = call[d]
  PROVE  Known'
BY KnowledgeLasts DEF IndInv, Known

LEMMA KnownAside ==
  ASSUME IndInv, Grows, ArmsLast, Opened', UNCHANGED call
  PROVE  Known'
BY KnowledgeLasts DEF IndInv, Known

LEMMA IdleKnows ==
  Idle.step = "idle" /\ \A h : h = Idle => Knows(h) /\ Knows(h)'
BY DEF Idle, Knows

Handlers == [step : Steps, campaign : Campaigns \cup {Nobody},
             candidate : Candidates \cup {Nobody}, verdict : {"none"} \cup DOMAIN Upstream,
             decision : Nat, todo : SUBSET Candidates, reverted : SUBSET Candidates,
             trail : {"unread", "silent", "standing", "revoked"}]

LEMMA HandlerTyped ==
  TypeOK => /\ call \in [Callers -> Handlers]
            /\ \A c \in Callers : call[c] \in Handlers
BY DEF TypeOK, Handlers

LEMMA IdleIsTyped == Idle \in Handlers
BY DEF Idle, Handlers

LEMMA ReturnMoves ==
  ASSUME TypeOK, NEW c \in Callers, Return(c)
  PROVE  /\ call' \in [Callers -> Handlers]
         /\ Knows(call[c])' /\ \A d \in Callers \ {c} : call'[d] = call[d]
<1>1. call \in [Callers -> Handlers]
  BY DEF TypeOK, Handlers
<1>2. call'[c] = Idle /\ \A d \in Callers \ {c} : call'[d] = call[d]
  BY <1>1 DEF Return
<1> QED
  BY <1>1, <1>2, IdleKnows, IdleIsTyped DEF Return

\* A step of a handler that writes to neither the roster nor a campaign.
LEMMA HandlerMoves ==
  ASSUME IndInv, NEW c \in Callers, NEW h \in Handlers,
         call' = [call EXCEPT ![c] = h], Knows(h)',
         UNCHANGED <<roster, campaign>>, Grows,
         TypeOK'
  PROVE  IndInv'
<1>1. call'[c] = h /\ \A d \in Callers \ {c} : call'[d] = call[d]
  BY DEF IndInv, TypeOK
<1>2. ArmsLast
  BY DEF ArmsLast
<1>3. Opened'
  BY DEF IndInv, Known, Opened
<1>4. Known'
  BY <1>1, <1>2, <1>3, KnownStep
<1>5. LabelsAreBacked'
  BY BackingLasts DEF IndInv
<1>6. AtMostOne'
  BY DEF IndInv, AtMostOne, Champions
<1> QED
  BY <1>4, <1>5, <1>6 DEF IndInv

-----------------------------------------------------------------------------
(***************************************************************************)
(* The refreshes.                                                          *)
(***************************************************************************)

\* A refresh relabels: what it writes is backed, and it shows no second champion.
LEMMA Relabelled ==
  ASSUME IndInv, NEW c \in Callers, NEW h \in Handlers,
         call' = [call EXCEPT ![c] = h], Knows(h)',
         UNCHANGED <<lineage, campaign, late, crashes>>, undisturbed' \subseteq Callers,
         roster' \in [Candidates -> Labels],
         \A x \in Candidates : roster'[x] = "champion" => Ruled(x, "promote"),
         \A x \in Candidates : roster'[x] = "rolled_back" => Ruled(x, "rollback"),
         \A x, y \in Candidates : roster'[x] = "champion" /\ roster'[y] = "champion" => x = y
  PROVE  IndInv'
<1>1. call'[c] = h /\ \A d \in Callers \ {c} : call'[d] = call[d]
  BY DEF IndInv, TypeOK
<1>2. Grows /\ ArmsLast
  BY DEF Grows, ArmsLast
<1>3. Opened'
  BY DEF IndInv, Known, Opened
<1>4. Known'
  BY <1>1, <1>2, <1>3, KnownStep
<1>5. LabelsAreBacked'
  BY DEF IndInv, LabelsAreBacked, Champions, Ruled
<1>6. AtMostOne'
  BY DEF AtMostOne, Champions
<1>7. call' \in [Callers -> Handlers]
  BY DEF IndInv, TypeOK, Handlers
<1>8. TypeOK'
  BY <1>7 DEF IndInv, TypeOK, Handlers
<1> QED
  BY <1>4, <1>5, <1>6, <1>8 DEF IndInv

LEMMA RefreshBeginKeeps ==
  ASSUME IndInv, NEW c \in Callers, RefreshBegin(c)
  PROVE  IndInv'
<1>1. PICK h : h = [call[c] EXCEPT !.step = "incumbent"]
  OBVIOUS
<1>2. h \in Handlers /\ h.step = "incumbent"
  <2>1. call[c] \in Handlers
    BY HandlerTyped DEF IndInv
  <2>2. h \in Handlers
    BY <1>1, <2>1 DEF Handlers
  <2> QED
    BY <1>1, <2>1, <2>2 DEF Handlers
<1>3. call' = [call EXCEPT ![c] = h]
  BY <1>1 DEF RefreshBegin, Goto
<1>4. roster' \in [Candidates -> Labels]
      /\ \A x \in Candidates : roster'[x] = roster[x] \/ roster'[x] = "candidate"
  BY DEF RefreshBegin, Label, IndInv, TypeOK
<1>5. Knows(h)'
  BY <1>2 DEF Knows
<1>6. UNCHANGED <<lineage, campaign, late, crashes>> /\ undisturbed' \subseteq Callers
  BY DEF RefreshBegin
<1>7. /\ \A x \in Candidates : roster'[x] = "champion" => Ruled(x, "promote")
      /\ \A x \in Candidates : roster'[x] = "rolled_back" => Ruled(x, "rollback")
      /\ \A x, y \in Candidates : roster'[x] = "champion" /\ roster'[y] = "champion" => x = y
  BY <1>4 DEF IndInv, LabelsAreBacked, AtMostOne, Champions
<1> QED
  BY <1>2, <1>3, <1>4, <1>5, <1>6, <1>7, Relabelled

LEMMA LookingMoves ==
  ASSUME IndInv, NEW c \in Callers, NEW incumbent, NEW labels,
         call' = Looking(c, incumbent, labels)
  PROVE  \E h \in Handlers : h.step = "recon" /\ call' = [call EXCEPT ![c] = h]
<1>1. PICK todo \in SUBSET Candidates :
        todo = {x \in Candidates \ {incumbent} : labels[x] # "untracked"}
  OBVIOUS
<1>2. PICK reverted \in SUBSET Candidates :
        reverted = {x \in Candidates : labels[x] = "rolled_back"}
  OBVIOUS
<1>3. PICK h : h = [call[c] EXCEPT !.step = "recon", !.candidate = Nobody,
                                   !.todo = todo, !.reverted = reverted]
  OBVIOUS
<1>4. call[c] \in Handlers
  BY HandlerTyped DEF IndInv
<1>5. h \in Handlers
  BY <1>3, <1>4 DEF Handlers
<1>6. h.step = "recon"
  BY <1>3, <1>4 DEF Handlers
<1>7. call' = [call EXCEPT ![c] = h]
  BY <1>1, <1>2, <1>3 DEF Looking
<1> QED
  BY <1>5, <1>6, <1>7

LEMMA RefreshReconcileKeeps ==
  ASSUME IndInv, NEW c \in Callers, RefreshReconcile(c)
  PROVE  IndInv'
<1> DEFINE incumbent == call[c].candidate
<1>1. PICK h \in Handlers : h.step = "recon" /\ call' = [call EXCEPT ![c] = h]
  BY LookingMoves DEF RefreshReconcile
<1>2. /\ roster' \in [Candidates -> Labels]
      /\ \A x \in Candidates : roster'[x] = "champion" => x = incumbent
      /\ \A x \in Candidates : roster'[x] = "rolled_back" => roster[x] = "rolled_back"
  BY DEF RefreshReconcile, Reconciled, IndInv, TypeOK
<1>3. \A x \in Candidates : x = incumbent => Ruled(x, "promote")
  BY NobodyAssumption DEF RefreshReconcile, IndInv, Known, Knows
<1>4. Knows(h)'
  BY <1>1 DEF Knows
<1>5. UNCHANGED <<lineage, campaign, late, crashes>> /\ undisturbed' \subseteq Callers
  BY DEF RefreshReconcile, DisturbAllBut, IndInv, TypeOK
<1>6. /\ \A x \in Candidates : roster'[x] = "champion" => Ruled(x, "promote")
      /\ \A x \in Candidates : roster'[x] = "rolled_back" => Ruled(x, "rollback")
      /\ \A x, y \in Candidates : roster'[x] = "champion" /\ roster'[y] = "champion" => x = y
  BY <1>2, <1>3 DEF IndInv, LabelsAreBacked
<1> QED
  BY <1>1, <1>2, <1>4, <1>5, <1>6, Relabelled

LEMMA RefreshWriteKeeps ==
  ASSUME IndInv, NEW c \in Callers, RefreshWrite(c)
  PROVE  IndInv'
<1> DEFINE x == call[c].candidate
<1>1. PICK h : h = [call[c] EXCEPT !.step = "recon", !.candidate = Nobody, !.trail = "unread"]
  OBVIOUS
<1>2. h \in Handlers /\ h.step = "recon"
  <2>1. call[c] \in Handlers
    BY HandlerTyped DEF IndInv
  <2>2. h \in Handlers
    BY <1>1, <2>1 DEF Handlers
  <2> QED
    BY <1>1, <2>1, <2>2 DEF Handlers
<1>3. call' = [call EXCEPT ![c] = h]
  BY <1>1 DEF RefreshWrite
<1>4. x \in Candidates /\ (call[c].trail = "revoked" => Ruled(x, "rollback"))
  BY DEF RefreshWrite, IndInv, Known, Knows
<1>5. /\ roster' \in [Candidates -> Labels]
      /\ \A y \in Candidates :
           \/ roster'[y] = roster[y] \/ roster'[y] = "candidate"
           \/ y = x /\ call[c].trail = "revoked" /\ roster'[y] = "rolled_back"
  BY DEF RefreshWrite, Label, IndInv, TypeOK
<1>6. Knows(h)'
  BY <1>2 DEF Knows
<1>7. UNCHANGED <<lineage, campaign, late, crashes>> /\ undisturbed' \subseteq Callers
  BY DEF RefreshWrite, DisturbAllBut, IndInv, TypeOK
<1>8. /\ \A y \in Candidates : roster'[y] = "champion" => Ruled(y, "promote")
      /\ \A y \in Candidates : roster'[y] = "rolled_back" => Ruled(y, "rollback")
      /\ \A y, z \in Candidates : roster'[y] = "champion" /\ roster'[z] = "champion" => y = z
  BY <1>4, <1>5 DEF IndInv, LabelsAreBacked, AtMostOne, Champions
<1> QED
  BY <1>2, <1>3, <1>5, <1>6, <1>7, <1>8, Relabelled

\* The other steps of a refresh only read.
LEMMA RefreshReadsKeep ==
  ASSUME IndInv, NEW c \in Callers,
         \/ RefreshIncumbent(c) \/ RefreshNoAnswer(c) \/ RefreshRead(c)
         \/ RefreshSkip(c) \/ RefreshEnd(c)
  PROVE  IndInv'
<1>1. ASSUME NEW h \in Handlers, call' = [call EXCEPT ![c] = h], Knows(h)'
      PROVE  IndInv'
  <2>1. UNCHANGED <<lineage, roster, campaign, late, crashes>> /\ undisturbed' \subseteq Callers
    BY DEF RefreshIncumbent, RefreshNoAnswer, RefreshRead, RefreshSkip, RefreshEnd, IndInv, TypeOK
  <2>2. roster' \in [Candidates -> Labels]
    BY <2>1 DEF IndInv, TypeOK
  <2>3. /\ \A x \in Candidates : roster'[x] = "champion" => Ruled(x, "promote")
        /\ \A x \in Candidates : roster'[x] = "rolled_back" => Ruled(x, "rollback")
        /\ \A x, y \in Candidates : roster'[x] = "champion" /\ roster'[y] = "champion" => x = y
    BY <2>1 DEF IndInv, LabelsAreBacked, AtMostOne, Champions
  <2> QED
    BY <1>1, <2>1, <2>2, <2>3, Relabelled
<1>2. CASE RefreshIncumbent(c)
  <2>1. PICK h : h = [call[c] EXCEPT !.step = "reconcile", !.candidate = Incumbent(decisions)]
    OBVIOUS
  <2>2. Incumbent(decisions) \in Candidates \cup {Nobody}
    BY IncumbentIsPromoted DEF IndInv
  <2>3. h \in Handlers /\ h.step = "reconcile" /\ h.candidate = Incumbent(decisions)
    <3>1. call[c] \in Handlers
      BY HandlerTyped DEF IndInv
    <3>2. h \in Handlers
      BY <2>1, <2>2, <3>1 DEF Handlers
    <3> QED
      BY <2>1, <2>2, <3>1, <3>2 DEF Handlers
  <2>4. call' = [call EXCEPT ![c] = h]
    BY <1>2, <2>1 DEF RefreshIncumbent
  <2>5. h.candidate # Nobody => Ruled(h.candidate, "promote")'
    BY <1>2, <2>3, IncumbentIsPromoted DEF RefreshIncumbent, IndInv, Ruled
  <2> QED
    BY <1>1, <2>3, <2>4, <2>5 DEF Knows
<1>3. CASE RefreshNoAnswer(c)
  <2>1. PICK h \in Handlers : h.step = "recon" /\ call' = [call EXCEPT ![c] = h]
    BY <1>3, LookingMoves DEF RefreshNoAnswer
  <2> QED
    BY <1>1, <2>1 DEF Knows
<1>4. CASE RefreshRead(c)
  <2>1. PICK x \in call[c].todo :
          call' = [call EXCEPT ![c].step = "write", ![c].candidate = x,
                     ![c].todo = @ \ {x}, ![c].trail = Reading(decisions, x)]
    BY <1>4 DEF RefreshRead
  <2>2. PICK h : h = [call[c] EXCEPT !.step = "write", !.candidate = x,
                        !.todo = @ \ {x}, !.trail = Reading(decisions, x)]
    OBVIOUS
  <2>3. x \in Candidates /\ Reading(decisions, x) \in {"silent", "standing", "revoked"}
    BY DEF Reading, IndInv, TypeOK
  <2>4. /\ h \in Handlers /\ h.step = "write"
        /\ h.candidate = x /\ h.trail = Reading(decisions, x)
    <3>1. call[c] \in Handlers
      BY HandlerTyped DEF IndInv
    <3>2. h \in Handlers
      BY <2>2, <2>3, <3>1 DEF Handlers
    <3> QED
      BY <2>2, <2>3, <3>1, <3>2 DEF Handlers
  <2>5. call' = [call EXCEPT ![c] = h]
    BY <2>1, <2>2
  <2>6. h.trail = "revoked" => Ruled(x, "rollback")'
    <3>1. h.trail = "revoked" => Ruled(x, "rollback")
      BY <2>4, RevokedIsRuled
    <3> QED
      BY <1>4, <3>1 DEF RefreshRead, Ruled
  <2> QED
    BY <1>1, <2>3, <2>4, <2>5, <2>6 DEF Knows
<1>5. CASE RefreshSkip(c)
  <2>1. PICK x \in call[c].todo : call' = [call EXCEPT ![c].todo = @ \ {x}]
    BY <1>5 DEF RefreshSkip
  <2>2. PICK h : h = [call[c] EXCEPT !.todo = @ \ {x}]
    OBVIOUS
  <2>3. h \in Handlers /\ h.step = "recon"
    <3>1. call[c] \in Handlers
      BY HandlerTyped DEF IndInv
    <3>2. h \in Handlers
      BY <1>5, <2>2, <3>1 DEF Handlers
    <3> QED
      BY <1>5, <2>2, <3>1, <3>2 DEF Handlers, RefreshSkip
  <2>4. call' = [call EXCEPT ![c] = h]
    BY <2>1, <2>2
  <2> QED
    BY <1>1, <2>3, <2>4 DEF Knows
<1>6. CASE RefreshEnd(c)
  BY <1>1, <1>6, IdleKnows, IdleIsTyped DEF RefreshEnd, Return
<1> QED
  BY <1>2, <1>3, <1>4, <1>5, <1>6

-----------------------------------------------------------------------------
(***************************************************************************)
(* The campaigns, and what happens upstream.                               *)
(***************************************************************************)

LEMMA ChallengeKeeps ==
  ASSUME IndInv, NEW x \in Candidates, Challenge(x)
  PROVE  IndInv'
<1>1. /\ roster' \in [Candidates -> Labels]
      /\ \A y \in Candidates : roster'[y] = roster[y] \/ roster'[y] = "challenger"
  BY DEF Challenge, Label, IndInv, TypeOK
<1>2. Grows /\ ArmsLast
  BY DEF Challenge, Grows, ArmsLast
<1>3. Opened'
  BY DEF Challenge, IndInv, Known, Opened
<1>4. Known'
  BY <1>2, <1>3, KnownAside DEF Challenge
<1>5. \A y \in Champions' : y \in Champions
  BY <1>1 DEF Champions
<1>6. \A y \in Candidates : roster'[y] = "rolled_back" => roster[y] = "rolled_back"
  BY <1>1
<1>7. LabelsAreBacked'
  <2>1. UNCHANGED <<decisions, campaign>>
    BY DEF Challenge
  <2>2. \A y, v : Ruled(y, v)' = Ruled(y, v)
    BY <2>1 DEF Ruled
  <2> QED
    BY <1>5, <1>6, <2>1, <2>2 DEF IndInv, LabelsAreBacked
<1>8. AtMostOne'
  BY <1>5 DEF IndInv, AtMostOne
<1>9. TypeOK'
  BY <1>1 DEF Challenge, DisturbAllBut, IndInv, TypeOK
<1> QED
  BY <1>4, <1>7, <1>8, <1>9 DEF IndInv

Rows == [status : {"none", "open", "closed"}, champion : Candidates \cup {Nobody},
         challenger : Candidates \cup {Nobody}, short : BOOLEAN, refs : BOOLEAN,
         decision : Nat]

\* A campaign's row becomes r.
LEMMA RowMoves ==
  ASSUME IndInv, NEW k \in Campaigns, NEW r \in Rows,
         campaign' = [campaign EXCEPT ![k] = r],
         UNCHANGED <<lineage, roster, call, late, undisturbed, crashes>>,
         r.decision = campaign[k].decision,
         r.status # "none", r.challenger \in Candidates,
         campaign[k].status = "closed" => r.status = "closed",
         campaign[k].status # "none" => r.challenger = campaign[k].challenger
  PROVE  IndInv'
<1>1. campaign \in [Campaigns -> Rows]
  BY DEF IndInv, TypeOK, Rows
<1>2. campaign' \in [Campaigns -> Rows]
      /\ campaign'[k] = r /\ \A j \in Campaigns \ {k} : campaign'[j] = campaign[j]
  BY <1>1
<1>3. TypeOK'
  BY <1>2 DEF IndInv, TypeOK, Rows
<1>4. Grows
  BY DEF Grows
<1>5. ArmsLast /\ Opened'
  BY <1>2 DEF ArmsLast, IndInv, Known, Opened
<1>6. Known'
  BY <1>4, <1>5, KnownAside
<1>7. AtMostOne'
  BY DEF IndInv, AtMostOne, Champions
<1>8. \A j \in Campaigns : campaign'[j].decision = campaign[j].decision
  BY <1>2
<1>9. \A j \in Campaigns : campaign[j].decision # 0 =>
        campaign'[j].challenger = campaign[j].challenger
  BY <1>2 DEF IndInv, Known, Opened
<1>10. Champions' = Champions
  BY DEF Champions
<1>11. \A x, v : Ruled(x, v)' = Ruled(x, v)
  BY DEF Ruled
<1>12. LabelsAreBacked'
  BY <1>8, <1>9, <1>10, <1>11 DEF IndInv, LabelsAreBacked
<1> QED
  BY <1>3, <1>6, <1>7, <1>12 DEF IndInv

LEMMA CampaignKeeps ==
  ASSUME IndInv, NEW k \in Campaigns,
         Close(k) \/ Pull(k) \/ \E x \in Candidates : Open(k, x)
  PROVE  IndInv'
<1>1. UNCHANGED <<lineage, roster, call, late, undisturbed, crashes>>
  BY DEF Close, Pull, Open
<1>2. campaign[k] \in Rows
  BY DEF IndInv, TypeOK, Rows
<1>3. campaign[k].status # "none" => campaign[k].challenger \in Candidates
  BY DEF IndInv, Known, Opened
<1>4. CASE Close(k)
  <2>1. PICK short \in BOOLEAN :
          campaign' = [campaign EXCEPT ![k].status = "closed", ![k].short = short]
    BY <1>4 DEF Close
  <2>2. PICK r : r = [campaign[k] EXCEPT !.status = "closed", !.short = short]
    OBVIOUS
  <2>3. r \in Rows
    BY <1>2, <2>2 DEF Rows
  <2>4. r.status = "closed" /\ r.decision = campaign[k].decision
        /\ r.challenger = campaign[k].challenger
    BY <1>2, <2>2 DEF Rows
  <2>5. campaign' = [campaign EXCEPT ![k] = r]
    BY <2>1, <2>2
  <2>6. campaign[k].status = "open"
    BY <1>4 DEF Close
  <2> QED
    BY <1>1, <1>3, <2>3, <2>4, <2>5, <2>6, RowMoves
<1>5. CASE Pull(k)
  <2>1. PICK r : r = [campaign[k] EXCEPT !.refs = TRUE]
    OBVIOUS
  <2>2. r \in Rows
    BY <1>2, <2>1 DEF Rows
  <2>3. r.status = campaign[k].status /\ r.decision = campaign[k].decision
        /\ r.challenger = campaign[k].challenger
    BY <1>2, <2>1 DEF Rows
  <2>4. campaign' = [campaign EXCEPT ![k] = r]
    BY <1>5, <2>1 DEF Pull
  <2>5. campaign[k].status # "none"
    BY <1>5 DEF Pull
  <2> QED
    BY <1>1, <1>3, <2>2, <2>3, <2>4, <2>5, RowMoves
<1>6. ASSUME NEW x \in Candidates, Open(k, x) PROVE IndInv'
  <2>1. PICK r : r = [NoCampaign EXCEPT !.status = "open",
                        !.champion = Incumbent(decisions), !.challenger = x]
    OBVIOUS
  <2>2. Incumbent(decisions) \in Candidates \cup {Nobody}
    BY IncumbentIsPromoted DEF IndInv
  <2>3. r \in Rows
    BY <2>1, <2>2 DEF Rows, NoCampaign
  <2>4. r.status = "open" /\ r.decision = 0 /\ r.challenger = x
    BY <2>1 DEF NoCampaign
  <2>5. campaign' = [campaign EXCEPT ![k] = r]
    BY <1>6, <2>1 DEF Open
  <2>6. campaign[k].status = "none" /\ campaign[k].decision = 0
    <3>1. campaign[k] = NoCampaign
      BY <1>6 DEF Open
    <3> QED
      BY <3>1 DEF NoCampaign
  <2> QED
    BY <1>1, <2>3, <2>4, <2>5, <2>6, RowMoves
<1> QED
  BY <1>4, <1>5, <1>6

-----------------------------------------------------------------------------
(***************************************************************************)
(* The verdicts.                                                           *)
(***************************************************************************)

LEMMA VerdictBeginKeeps ==
  ASSUME IndInv, NEW c \in Callers, NEW k \in Campaigns, NEW v \in DOMAIN Upstream,
         VerdictBegin(c, k, v)
  PROVE  IndInv'
<1>1. PICK h : h = [call[c] EXCEPT !.step = "push", !.campaign = k, !.verdict = v]
  OBVIOUS
<1>2. call[c] \in Handlers
  BY HandlerTyped DEF IndInv
<1>3. h \in Handlers
  BY <1>1, <1>2 DEF Handlers
<1>4. h.step = "push" /\ h.campaign = k /\ h.verdict = v
  BY <1>1, <1>2 DEF Handlers
<1>5. call' = [call EXCEPT ![c] = h]
  BY <1>1 DEF VerdictBegin
<1>6. UNCHANGED <<lineage, roster, campaign, late, undisturbed, crashes>> /\ Grows
  BY DEF VerdictBegin, Grows
<1>7. Knows(h)'
  BY <1>4, <1>6 DEF VerdictBegin, Knows
<1>8. call' \in [Callers -> Handlers]
  BY <1>3, <1>5, HandlerTyped DEF IndInv
<1>9. TypeOK'
  BY <1>6, <1>8 DEF IndInv, TypeOK, Handlers
<1> QED
  BY <1>3, <1>5, <1>6, <1>7, <1>9, HandlerMoves

LEMMA VerdictAppliedKeeps ==
  ASSUME IndInv, NEW c \in Callers, VerdictApplied(c)
  PROVE  IndInv'
<1> DEFINE k == call[c].campaign
           x == campaign[k].challenger
           v == Upstream[call[c].verdict]
<1>1. /\ k \in Campaigns /\ call[c].verdict \in DOMAIN Upstream
      /\ campaign[k].status = "closed" /\ x \in Candidates
  BY DEF VerdictApplied, IndInv, Known, Opened, Knows
<1>2. v \in Verdicts
  BY <1>1
<1>3. RecordDecision(x, v, k)
  BY DEF VerdictApplied
<1>4. /\ Grows /\ registered' = registered
      /\ decisions' \in Seq(Rulings)
      /\ Len(decisions') \in DOMAIN decisions' /\ Len(decisions') # 0
      /\ decisions'[Len(decisions')] = Decision(x, v, k)
  <2> HIDE DEF x, v, k
  <2> QED
    BY <1>1, <1>2, <1>3, RecordGrows DEF IndInv
<1>5. PICK h : h = [call[c] EXCEPT !.step = "answer", !.decision = Len(decisions')]
  OBVIOUS
<1>6. call[c] \in Handlers /\ Len(decisions') \in Nat
  BY <1>4, HandlerTyped DEF IndInv
<1>7. h \in Handlers
  BY <1>5, <1>6 DEF Handlers
<1>8. /\ h.step = "answer" /\ h.decision = Len(decisions')
      /\ h.campaign = k /\ h.verdict = call[c].verdict
  BY <1>5, <1>6 DEF Handlers
<1>9. call' = [call EXCEPT ![c] = h]
  BY <1>5 DEF VerdictApplied
<1>10. UNCHANGED <<roster, campaign, late, crashes>> /\ undisturbed' \subseteq Callers
  BY DEF VerdictApplied, DisturbAllBut
<1>11. Knows(h)'
  BY <1>1, <1>4, <1>8, <1>10 DEF Knows, Answered
<1>12. call' \in [Callers -> Handlers]
  BY <1>7, <1>9, HandlerTyped DEF IndInv
<1>13. TypeOK'
  BY <1>4, <1>10, <1>12 DEF IndInv, TypeOK, Handlers
<1> QED
  BY <1>4, <1>7, <1>9, <1>10, <1>11, <1>13, HandlerMoves

LEMMA VerdictGivenUpKeeps ==
  ASSUME IndInv, NEW c \in Callers, VerdictGivenUp(c)
  PROVE  IndInv'
<1>1. UNCHANGED <<lineage, roster, campaign, undisturbed, crashes>> /\ Grows
  BY DEF VerdictGivenUp, Grows
<1>2. call' = [call EXCEPT ![c] = Idle] /\ Idle \in Handlers /\ Knows(Idle)'
  BY IdleKnows, IdleIsTyped DEF VerdictGivenUp, Return
<1>3. call' \in [Callers -> Handlers]
  BY <1>2, HandlerTyped DEF IndInv
<1>4. late' \in Seq(Rulings)
  <2>1. CASE UNCHANGED late
    BY <2>1 DEF IndInv, TypeOK
  <2>2. CASE /\ At(c, "push")
             /\ late' = Append(late, Decision(campaign[call[c].campaign].challenger,
                                        Upstream[call[c].verdict], call[c].campaign))
    <3>1. /\ call[c].campaign \in Campaigns /\ call[c].verdict \in DOMAIN Upstream
          /\ campaign[call[c].campaign].challenger \in Candidates
      BY <2>2 DEF IndInv, Known, Opened, Knows
    <3>2. Decision(campaign[call[c].campaign].challenger,
                   Upstream[call[c].verdict], call[c].campaign) \in Rulings
      BY <3>1 DEF Decision
    <3>3. late \in Seq(Rulings)
      BY DEF IndInv, TypeOK
    <3> QED
      <4> HIDE DEF Rulings
      <4> QED
        BY <2>2, <3>2, <3>3
  <2> QED
    BY <2>1, <2>2 DEF VerdictGivenUp
<1>5. TypeOK'
  BY <1>1, <1>3, <1>4 DEF IndInv, TypeOK, Handlers
<1> QED
  BY <1>1, <1>2, <1>5, HandlerMoves

\* The record grows and no handler moves.
LEMMA RecordedAside ==
  ASSUME IndInv, NEW x \in Candidates, NEW v \in Verdicts, NEW k \in Campaigns \cup {Nobody},
         RecordDecision(x, v, k), UNCHANGED <<roster, campaign, call, crashes>>,
         late' \in Seq(Rulings), undisturbed' \subseteq Callers
  PROVE  IndInv'
<1>1. Grows /\ registered' = registered /\ decisions' \in Seq(Rulings)
  BY RecordGrows DEF IndInv
<1>2. TypeOK'
  BY <1>1 DEF IndInv, TypeOK
<1>3. LabelsAreBacked'
  BY <1>1, BackingLasts DEF IndInv
<1>4. AtMostOne'
  BY DEF IndInv, AtMostOne, Champions
<1>5. ArmsLast /\ Opened'
  BY DEF ArmsLast, IndInv, Known, Opened
<1>6. Known'
  BY <1>1, <1>5, KnownAside
<1> QED
  BY <1>2, <1>3, <1>4, <1>6 DEF IndInv

LEMMA LateVerdictKeeps ==
  ASSUME IndInv, LateVerdict
  PROVE  IndInv'
<1>1. late \in Seq(Rulings) /\ late # << >>
  BY DEF LateVerdict, IndInv, TypeOK
<1>2. Head(late) \in Rulings /\ Tail(late) \in Seq(Rulings)
  <2> HIDE DEF Rulings
  <2> QED
    BY <1>1
<1>3. /\ Head(late).candidate \in Candidates /\ Head(late).verdict \in Verdicts
      /\ Head(late).campaign \in Campaigns \cup {Nobody}
  BY <1>2
<1>4. UNCHANGED <<roster, campaign, call, crashes>>
      /\ late' \in Seq(Rulings) /\ undisturbed' \subseteq Callers
  BY <1>2 DEF LateVerdict, DisturbAllBut
<1> QED
  BY <1>3, <1>4, RecordedAside DEF LateVerdict

LEMMA ElsewhereKeeps ==
  ASSUME IndInv, Elsewhere
  PROVE  IndInv'
<1>1. UNCHANGED <<roster, campaign, call, late, crashes>> /\ undisturbed' \subseteq Callers
  BY DEF Elsewhere, DisturbAllBut
<1>2. ASSUME NEW x \in Candidates, RegisterCandidate(x) PROVE IndInv'
  <2>1. Grows /\ ArmsLast /\ Opened'
    BY <1>1, <1>2 DEF RegisterCandidate, Grows, ArmsLast, IndInv, Known, Opened
  <2>2. TypeOK'
    BY <1>1, <1>2 DEF RegisterCandidate, IndInv, TypeOK
  <2>3. LabelsAreBacked'
    BY <1>1, <2>1, BackingLasts DEF IndInv
  <2>4. AtMostOne'
    BY <1>1 DEF IndInv, AtMostOne, Champions
  <2>5. Known'
    BY <1>1, <2>1, KnownAside
  <2> QED
    BY <2>2, <2>3, <2>4, <2>5 DEF IndInv
<1>3. ASSUME NEW x \in Candidates, NEW v \in {"promote", "rollback"},
             RecordDecision(x, v, Nobody)
      PROVE  IndInv'
  <2>1. late' \in Seq(Rulings)
    BY <1>1 DEF IndInv, TypeOK
  <2> QED
    BY <1>1, <1>3, <2>1, RecordedAside
<1> QED
  BY <1>2, <1>3 DEF Elsewhere

-----------------------------------------------------------------------------
(***************************************************************************)
(* Writing a verdict down.                                                 *)
(***************************************************************************)

\* The campaign of an answered handler gets its decision.
Decided(c) ==
  campaign' = [campaign EXCEPT ![call[c].campaign].decision = call[c].decision]

LEMMA DecisionIsBacked ==
  ASSUME IndInv, NEW c \in Callers, At(c, "answer"), Decided(c), UNCHANGED lineage
  PROVE  /\ campaign' \in [Campaigns -> Rows]
         /\ ArmsLast /\ Opened' /\ Grows
         /\ \A k \in Campaigns : campaign'[k].decision # 0 =>
              /\ campaign'[k].decision \in DOMAIN decisions'
              /\ decisions'[campaign'[k].decision].campaign = k
              /\ decisions'[campaign'[k].decision].candidate = campaign'[k].challenger
         /\ call[c].campaign \in Campaigns /\ call[c].verdict \in DOMAIN Upstream
         /\ campaign[call[c].campaign].challenger \in Candidates
         /\ Ruled(campaign[call[c].campaign].challenger, Upstream[call[c].verdict])
<1> DEFINE k == call[c].campaign
<1>1. /\ k \in Campaigns /\ call[c].verdict \in DOMAIN Upstream
      /\ campaign[k].status = "closed" /\ campaign[k].challenger \in Candidates
      /\ call[c].decision # 0 /\ Answered(call[c])
  BY DEF IndInv, Known, Opened, Knows
<1>2. campaign \in [Campaigns -> Rows] /\ call[c].decision \in Nat
  BY DEF IndInv, TypeOK, Rows
<1>3. PICK r : r = [campaign[k] EXCEPT !.decision = call[c].decision]
  OBVIOUS
<1>4. campaign[k] \in Rows
  BY <1>1, <1>2
<1>5. r \in Rows
  BY <1>2, <1>3, <1>4 DEF Rows
<1>6. /\ r.decision = call[c].decision /\ r.status = campaign[k].status
      /\ r.challenger = campaign[k].challenger
  BY <1>3, <1>4 DEF Rows
<1>7. campaign' = [campaign EXCEPT ![k] = r]
  BY <1>3 DEF Decided
<1>8. campaign' \in [Campaigns -> Rows]
      /\ campaign'[k] = r /\ \A j \in Campaigns \ {k} : campaign'[j] = campaign[j]
  BY <1>1, <1>2, <1>5, <1>7
<1>9. ArmsLast /\ Opened' /\ Grows
  BY <1>1, <1>6, <1>8 DEF ArmsLast, Grows, IndInv, Known, Opened
<1>10. ASSUME NEW j \in Campaigns, campaign'[j].decision # 0
       PROVE  /\ campaign'[j].decision \in DOMAIN decisions'
              /\ decisions'[campaign'[j].decision].campaign = j
              /\ decisions'[campaign'[j].decision].candidate = campaign'[j].challenger
  <2>1. CASE j = k
    BY <1>1, <1>6, <1>8, <2>1 DEF Answered, Decision
  <2>2. CASE j # k
    BY <1>8, <1>10, <2>2 DEF IndInv, LabelsAreBacked
  <2> QED
    BY <2>1, <2>2
<1>11. Ruled(campaign[k].challenger, Upstream[call[c].verdict])
  BY <1>1 DEF Answered, Decision, Ruled
<1> QED
  BY <1>1, <1>8, <1>9, <1>10, <1>11

LEMMA VerdictRecordedKeeps ==
  ASSUME IndInv, NEW c \in Callers, VerdictRecorded(c)
  PROVE  IndInv'
<1> DEFINE k == call[c].campaign
           x == campaign[k].challenger
           v == call[c].verdict
<1>1. At(c, "answer") /\ Decided(c) /\ roster' = Annotated(k, v)
      /\ UNCHANGED <<lineage, late, crashes>> /\ Return(c) /\ undisturbed' \subseteq Callers
  BY DEF VerdictRecorded, Decided, DisturbAllBut
<1>2. /\ campaign' \in [Campaigns -> Rows]
      /\ ArmsLast /\ Opened' /\ Grows
      /\ \A j \in Campaigns : campaign'[j].decision # 0 =>
           /\ campaign'[j].decision \in DOMAIN decisions'
           /\ decisions'[campaign'[j].decision].campaign = j
           /\ decisions'[campaign'[j].decision].candidate = campaign'[j].challenger
      /\ k \in Campaigns /\ v \in DOMAIN Upstream
      /\ x \in Candidates
      /\ Ruled(x, Upstream[v])
  BY <1>1, DecisionIsBacked
<1>3. /\ call' \in [Callers -> Handlers]
      /\ Knows(call[c])' /\ \A d \in Callers \ {c} : call'[d] = call[d]
  BY <1>1, ReturnMoves DEF IndInv
<1>4. Known'
  BY <1>2, <1>3, KnownStep
<1>5. roster \in [Candidates -> Labels]
  BY DEF IndInv, TypeOK
<1>6. /\ roster' \in [Candidates -> Labels]
      /\ v = "promote" => \A y \in Candidates : roster'[y] = "champion" => y = x
      /\ v # "promote" => \A y \in Candidates : roster'[y] = "champion" => roster[y] = "champion"
      /\ \A y \in Candidates : roster'[y] = "rolled_back" =>
           roster[y] = "rolled_back" \/ (v = "rollback" /\ y = x)
  <2>1. CASE v = "promote"
    <3>1. roster' = [Label((Champions \cup {campaign[k].champion}) \ {x}, "candidate")
                       EXCEPT ![x] = "champion"]
      BY <1>1, <2>1 DEF Annotated
    <3> QED
      BY <1>2, <1>5, <2>1, <3>1 DEF Label, Champions
  <2>2. CASE v = "retain"
    <3>1. roster' = Label({x}, "candidate")
      BY <1>1, <2>2 DEF Annotated
    <3> QED
      BY <1>2, <1>5, <2>2, <3>1 DEF Label
  <2>3. CASE v = "rollback"
    <3>1. roster' = Label({x}, "rolled_back")
      BY <1>1, <2>3 DEF Annotated
    <3> QED
      BY <1>2, <1>5, <2>3, <3>1 DEF Label
  <2> QED
    BY <1>2, <2>1, <2>2, <2>3
<1>7. Upstream[v] = (IF v = "retain" THEN "reject" ELSE v)
  BY <1>2
<1>8. \A y \in Candidates : roster'[y] = "champion" => Ruled(y, "promote")
  BY <1>2, <1>6, <1>7 DEF IndInv, LabelsAreBacked, Champions
<1>9. \A y \in Candidates : roster'[y] = "rolled_back" => Ruled(y, "rollback")
  BY <1>2, <1>6, <1>7 DEF IndInv, LabelsAreBacked
<1>10. \A y, w : Ruled(y, w)' = Ruled(y, w)
  BY <1>1 DEF Ruled
<1>11. LabelsAreBacked'
  <2> HIDE DEF x, v, k
  <2> QED
    BY <1>2, <1>8, <1>9, <1>10 DEF LabelsAreBacked, Champions
<1>12. AtMostOne'
  BY <1>6 DEF IndInv, AtMostOne, Champions
<1>13. TypeOK'
  BY <1>1, <1>2, <1>3, <1>6 DEF IndInv, TypeOK, Handlers, Rows
<1> QED
  BY <1>4, <1>11, <1>12, <1>13 DEF IndInv

LEMMA CrashKeeps ==
  ASSUME IndInv, Crash
  PROVE  IndInv'
<1>1. /\ call' = [c \in Callers |-> Idle] /\ undisturbed' = {}
      /\ crashes' = crashes + 1 /\ crashes < MaxCrashes
      /\ UNCHANGED <<lineage, late>>
  BY DEF Crash
<1>2. \A c \in Callers : Knows(call[c])'
  BY <1>1, IdleKnows
<1>3. call' \in [Callers -> Handlers]
  BY <1>1, IdleIsTyped
<1>4. Grows /\ \A y, w : Ruled(y, w)' = Ruled(y, w)
  BY <1>1 DEF Grows, Ruled
<1>5. /\ campaign' \in [Campaigns -> Rows] /\ Opened'
      /\ \A j \in Campaigns : campaign'[j].decision # 0 =>
           /\ campaign'[j].decision \in DOMAIN decisions'
           /\ decisions'[campaign'[j].decision].campaign = j
           /\ decisions'[campaign'[j].decision].candidate = campaign'[j].challenger
  <2>1. CASE UNCHANGED campaign
    BY <1>1, <2>1 DEF IndInv, TypeOK, Rows, Known, Opened, LabelsAreBacked
  <2>2. ASSUME NEW c \in Callers, At(c, "answer"), Decided(c)
        PROVE  /\ campaign' \in [Campaigns -> Rows] /\ Opened'
               /\ \A j \in Campaigns : campaign'[j].decision # 0 =>
                    /\ campaign'[j].decision \in DOMAIN decisions'
                    /\ decisions'[campaign'[j].decision].campaign = j
                    /\ decisions'[campaign'[j].decision].candidate = campaign'[j].challenger
    BY <1>1, <2>2, DecisionIsBacked
  <2> QED
    BY <2>1, <2>2 DEF Crash, Decided
<1>6. /\ roster' \in [Candidates -> Labels]
      /\ \A y \in Candidates : roster'[y] = roster[y] \/ roster'[y] = "candidate"
  <2>1. roster \in [Candidates -> Labels]
    BY DEF IndInv, TypeOK
  <2>2. CASE UNCHANGED roster
    BY <2>1, <2>2
  <2>3. ASSUME NEW S, roster' = Label(S, "candidate")
        PROVE  /\ roster' \in [Candidates -> Labels]
               /\ \A y \in Candidates : roster'[y] = roster[y] \/ roster'[y] = "candidate"
    BY <2>1, <2>3 DEF Label
  <2> QED
    BY <2>2, <2>3 DEF Crash
<1>7. Champions' \subseteq Champions
  BY <1>6 DEF Champions
<1>8. \A y \in Candidates : roster'[y] = "rolled_back" => roster[y] = "rolled_back"
  BY <1>6
<1>9. LabelsAreBacked'
  BY <1>4, <1>5, <1>7, <1>8 DEF IndInv, LabelsAreBacked
<1>10. AtMostOne'
  BY <1>7 DEF IndInv, AtMostOne
<1>11. crashes' \in 0 .. MaxCrashes
  BY <1>1, PromotionAssumption DEF IndInv, TypeOK
<1>12. TypeOK'
  BY <1>1, <1>3, <1>5, <1>6, <1>11 DEF IndInv, TypeOK, Handlers, Rows
<1> QED
  BY <1>2, <1>5, <1>9, <1>10, <1>12 DEF IndInv, Known

-----------------------------------------------------------------------------
LEMMA InitIsInductive == Init => IndInv
<1> SUFFICES ASSUME Init PROVE IndInv
  OBVIOUS
<1>1. call \in [Callers -> Handlers] /\ \A c \in Callers : Knows(call[c])
  BY IdleKnows, IdleIsTyped DEF Init
<1>2. campaign \in [Campaigns -> Rows]
  BY DEF Init, NoCampaign, Rows
<1>3. decisions \in Seq(Rulings) /\ late \in Seq(Rulings)
  BY DEF Init
<1>4. TypeOK
  BY <1>1, <1>2, <1>3, PromotionAssumption DEF Init, TypeOK, Handlers, Rows
<1>5. AtMostOne
  BY DEF Init, AtMostOne, Champions
<1>6. LabelsAreBacked /\ Opened
  BY DEF Init, LabelsAreBacked, Opened, Champions, NoCampaign
<1> QED
  BY <1>1, <1>4, <1>5, <1>6 DEF IndInv, Known

LEMMA StutteringKeeps ==
  ASSUME IndInv, UNCHANGED vars
  PROVE  IndInv'
<1>1. Grows /\ ArmsLast /\ Opened'
  BY DEF vars, Grows, ArmsLast, IndInv, Known, Opened
<1>2. Known'
  BY <1>1, KnownAside DEF vars
<1>3. LabelsAreBacked'
  BY <1>1, BackingLasts DEF vars, IndInv
<1> QED
  BY <1>2, <1>3 DEF vars, IndInv, TypeOK, AtMostOne, Champions

LEMMA NextKeeps == IndInv /\ [Next]_vars => IndInv'
<1> SUFFICES ASSUME IndInv, [Next]_vars PROVE IndInv'
  OBVIOUS
<1>1. ASSUME NEW c \in Callers, Refreshing(c) PROVE IndInv'
  BY <1>1, RefreshBeginKeeps, RefreshReconcileKeeps, RefreshWriteKeeps,
     RefreshReadsKeep DEF Refreshing
<1>2. ASSUME NEW c \in Callers, Deciding(c) PROVE IndInv'
  BY <1>2, VerdictBeginKeeps, VerdictAppliedKeeps, VerdictGivenUpKeeps,
     VerdictRecordedKeeps DEF Deciding
<1>3. ASSUME NEW x \in Candidates, Challenge(x) PROVE IndInv'
  BY <1>3, ChallengeKeeps
<1>4. ASSUME NEW k \in Campaigns,
             Close(k) \/ Pull(k) \/ \E x \in Candidates : Open(k, x)
      PROVE  IndInv'
  BY <1>4, CampaignKeeps
<1>5. CASE LateVerdict \/ Elsewhere \/ Crash
  BY <1>5, LateVerdictKeeps, ElsewhereKeeps, CrashKeeps
<1>6. CASE UNCHANGED vars
  BY <1>6, StutteringKeeps
<1> QED
  BY <1>1, <1>2, <1>3, <1>4, <1>5, <1>6 DEF Next

\* The inductive invariant holds throughout.
THEOREM Invariance == Spec => []IndInv
<1>1. Init => IndInv
  BY InitIsInductive
<1>2. IndInv /\ [Next]_vars => IndInv'
  BY NextKeeps
<1> QED
  BY <1>1, <1>2, PTL DEF Spec

\* upsert_roster_entry: the roster never shows two champions, however refreshes
\* and verdicts overlap, are lost, come late or are cut short.
THEOREM OneRosterChampion == Spec => []OneChampion
<1>1. ASSUME IndInv PROVE OneChampion
  <2>1. CASE Champions = {}
    <3>1. Cardinality(Champions) = 0
      BY <2>1, FS_EmptySet
    <3> QED
      BY <3>1 DEF OneChampion
  <2>2. CASE Champions # {}
    <3>1. PICK x \in Champions : TRUE
      BY <2>2
    <3>2. Champions = {x}
      BY <1>1, <3>1 DEF IndInv, AtMostOne
    <3>3. Cardinality({x}) = 1
      BY FS_Singleton
    <3> QED
      BY <3>2, <3>3 DEF OneChampion
  <2> QED
    BY <2>1, <2>2
<1> QED
  BY <1>1, Invariance, PTL

\* record_promotion_verdict and refresh_roster: what the roster shows, and what a
\* campaign says was decided, is in the record of the episteme server.
THEOREM NothingAheadOfTheRecord == Spec => []LabelsAreBacked
<1>1. IndInv => LabelsAreBacked
  BY DEF IndInv
<1> QED
  BY <1>1, Invariance, PTL

-----------------------------------------------------------------------------
(***************************************************************************)
(* A refresh that nothing comes in between.                                *)
(***************************************************************************)
\* The entries that a refresh need not look at any more.
Looked(c) == {x \in registered : x \notin call[c].todo /\ x # call[c].candidate}

\* What a refresh that nothing has come in between has achieved so far: the
\* incumbent is the one champion, and the labels it is through with say what the
\* verdicts come to.
Heals(c) ==
  LET h == call[c]
  IN  /\ h.step \in {"incumbent", "reconcile", "recon", "write"}
      /\ registered \subseteq Tracked
      /\ h.step = "reconcile" => h.candidate = Incumbent(decisions)
      /\ h.step \in {"recon", "write"} =>
           /\ Incumbent(decisions) \notin h.todo
           /\ \A x \in registered :
                /\ roster[x] = "champion" <=> x = Incumbent(decisions)
                /\ roster[x] = "rolled_back" <=>
                     IF x \in Looked(c) THEN Revoked(decisions, x) ELSE x \in h.reverted
      /\ h.step = "recon" => h.candidate = Nobody
      /\ h.step = "write" => /\ h.candidate \notin {Incumbent(decisions)} \cup h.todo
                             /\ h.trail = Reading(decisions, h.candidate)
Undisturbed == \A c \in undisturbed : Heals(c)

\* The last verdict on the incumbent does not take its promotion back.
LEMMA IncumbentIsNotRevoked ==
  ASSUME TypeOK, NEW x \in Candidates, x = Incumbent(decisions)
  PROVE  ~Revoked(decisions, x)
<1> DEFINE S == Standing(decisions)
           last == CHOOSE i \in S : \A j \in S : j <= i
<1>1. S # {} /\ x = decisions[last].candidate
  BY NobodyAssumption DEF Incumbent
<1>2. Len(decisions) \in Nat /\ DOMAIN decisions = 1 .. Len(decisions)
  BY DEF TypeOK
<1>3. last \in S
  <2>1. S \in SUBSET (1 .. Len(decisions))
    BY <1>2 DEF Standing
  <2>2. \E i \in S : \A j \in S : j <= i
    <3> HIDE DEF S
    <3> QED
      BY <1>1, <1>2, <2>1, GreatestExists
  <2> HIDE DEF S
  <2> QED
    BY <2>2
<1> HIDE DEF last
<1>4. ASSUME NEW i \in DOMAIN decisions, decisions[i].candidate = x,
             decisions[i].verdict = "rollback", last <= i
      PROVE  FALSE
  <2>1. decisions[last].verdict = "promote" /\ last \in DOMAIN decisions
    BY <1>3 DEF Standing
  <2>2. i # last
    BY <1>4, <2>1
  <2>3. i > last
    BY <1>2, <1>4, <2>1, <2>2
  <2> QED
    BY <1>1, <1>3, <1>4, <2>3 DEF Standing
<1>5. last \in DOMAIN decisions
  BY <1>3 DEF Standing
<1> QED
  BY <1>1, <1>4, <1>5 DEF Revoked

\* The others leave it alone, or it is disturbed.
LEMMA HealingLasts ==
  ASSUME NEW c \in Callers, Heals(c), call'[c] = call[c], UNCHANGED <<lineage, roster>>
  PROVE  Heals(c)'
BY DEF Heals, Looked, Tracked

LEMMA OthersHeal ==
  ASSUME IndInv, [Next]_vars, NEW c \in undisturbed', c \in undisturbed, Heals(c),
         ~Refreshing(c)
  PROVE  Heals(c)'
<1>1. c \in Callers /\ call \in [Callers -> Handlers]
  BY HandlerTyped DEF IndInv, TypeOK
<1>2. ASSUME NEW d \in Callers, d # c,
             \/ RefreshIncumbent(d) \/ RefreshNoAnswer(d) \/ RefreshRead(d)
             \/ RefreshSkip(d) \/ RefreshEnd(d) \/ VerdictGivenUp(d)
             \/ \E k \in Campaigns, v \in DOMAIN Upstream : VerdictBegin(d, k, v)
      PROVE  call'[c] = call[c] /\ UNCHANGED <<lineage, roster>>
  BY <1>1, <1>2 DEF RefreshIncumbent, RefreshNoAnswer, RefreshRead, RefreshSkip,
     RefreshEnd, VerdictGivenUp, VerdictBegin, Looking, Return
<1>3. ASSUME NEW d \in Callers, d # c, Refreshing(d) \/ Deciding(d)
      PROVE  Heals(c)'
  <2>1. CASE RefreshBegin(d) \/ RefreshReconcile(d) \/ VerdictApplied(d) \/ VerdictRecorded(d)
    BY <1>3, <2>1 DEF RefreshBegin, RefreshReconcile, VerdictApplied, VerdictRecorded,
       DisturbAllBut
  <2>2. CASE RefreshWrite(d)
    <3>1. roster' = roster /\ UNCHANGED lineage
      BY <1>3, <2>2 DEF RefreshWrite, DisturbAllBut
    <3>2. call'[c] = call[c]
      BY <1>1, <1>3, <2>2 DEF RefreshWrite
    <3> QED
      BY <1>1, <3>1, <3>2, HealingLasts
  <2> QED
    BY <1>1, <1>2, <1>3, <2>1, <2>2, HealingLasts DEF Refreshing, Deciding
<1>4. ASSUME Deciding(c)
      PROVE  FALSE
  <2>1. CASE VerdictApplied(c) \/ VerdictGivenUp(c) \/ VerdictRecorded(c)
    BY <2>1 DEF VerdictApplied, VerdictGivenUp, VerdictRecorded, Heals
  <2>2. ASSUME NEW k \in Campaigns, NEW v \in DOMAIN Upstream, VerdictBegin(c, k, v)
        PROVE  FALSE
    <3>1. call[c].step = "idle"
      BY <2>2 DEF VerdictBegin, Idle
    <3> QED
      BY <3>1 DEF Heals
  <2> QED
    BY <1>4, <2>1, <2>2 DEF Deciding
<1>5. ASSUME NEW x \in Candidates, Challenge(x)
      PROVE  FALSE
  BY <1>5 DEF Challenge, DisturbAllBut
<1>6. CASE LateVerdict \/ Elsewhere \/ Crash
  BY <1>6 DEF LateVerdict, Elsewhere, Crash, DisturbAllBut
<1>7. CASE \/ \E k \in Campaigns : Close(k) \/ Pull(k) \/ \E x \in Candidates : Open(k, x)
           \/ UNCHANGED vars
  <2>1. UNCHANGED <<call, lineage, roster>>
    BY <1>7 DEF Close, Pull, Open, vars
  <2> QED
    BY <1>1, <2>1, HealingLasts
<1> QED
  BY <1>3, <1>4, <1>5, <1>6, <1>7 DEF Next

\* refresh_roster itself: it adopts, follows the incumbent, and goes on to look at
\* every other entry.
LEMMA RefreshHealsBegin ==
  ASSUME IndInv, NEW c \in Callers, RefreshBegin(c)
  PROVE  Heals(c)'
<1>1. call'[c].step = "incumbent" /\ registered' = registered /\ registered \subseteq Candidates
  <2>1. call \in [Callers -> Handlers] /\ call[c] \in Handlers
    BY HandlerTyped DEF IndInv
  <2> QED
    BY <2>1 DEF RefreshBegin, Goto, IndInv, TypeOK, Handlers
<1>2. registered' \subseteq Tracked'
  BY <1>1 DEF RefreshBegin, Label, Tracked, IndInv, TypeOK
<1> QED
  BY <1>1, <1>2 DEF Heals

LEMMA RefreshHealsIncumbent ==
  ASSUME IndInv, NEW c \in Callers, Heals(c), RefreshIncumbent(c)
  PROVE  Heals(c)'
<1>1. call'[c].step = "reconcile" /\ call'[c].candidate = Incumbent(decisions)
  <2>1. call \in [Callers -> Handlers] /\ call[c] \in Handlers
    BY HandlerTyped DEF IndInv
  <2> QED
    BY <2>1 DEF RefreshIncumbent, Handlers
<1> QED
  BY <1>1 DEF Heals, RefreshIncumbent, Tracked

LEMMA RefreshHealsReconcile ==
  ASSUME IndInv, NEW c \in Callers, Heals(c), RefreshReconcile(c)
  PROVE  Heals(c)'
<1> DEFINE incumbent == Incumbent(decisions)
<1>1. registered \subseteq Candidates /\ roster \in [Candidates -> Labels] /\ UNCHANGED lineage
  BY DEF RefreshReconcile, IndInv, TypeOK
<1>2. call[c].candidate = incumbent /\ registered \subseteq Tracked
  BY DEF Heals, RefreshReconcile
<1>3. /\ roster' = Reconciled(incumbent)
      /\ call' = Looking(c, incumbent, roster')
  BY <1>2 DEF RefreshReconcile
<1>4. /\ call'[c].step = "recon" /\ call'[c].candidate = Nobody
      /\ call'[c].todo = {x \in Candidates \ {incumbent} : roster'[x] # "untracked"}
      /\ call'[c].reverted = {x \in Candidates : roster'[x] = "rolled_back"}
  <2>1. call \in [Callers -> Handlers] /\ call[c] \in Handlers
    BY HandlerTyped DEF IndInv
  <2> QED
    BY <1>3, <2>1 DEF Looking, Handlers
<1>5. \A x \in registered :
        /\ roster'[x] # "untracked"
        /\ roster'[x] = "champion" <=> x = incumbent
  BY <1>1, <1>2, <1>3 DEF Reconciled, Tracked
<1>6. ASSUME NEW x \in registered
      PROVE  roster'[x] = "rolled_back" <=>
               IF x \in Looked(c)' THEN Revoked(decisions, x) ELSE x \in call'[c].reverted
  <2>1. CASE x = incumbent
    <3>1. ~Revoked(decisions, x)
      BY <1>1, <2>1, IncumbentIsNotRevoked DEF IndInv
    <3> QED
      BY <1>1, <1>4, <1>5, <2>1, <3>1
  <2>2. CASE x # incumbent
    BY <1>1, <1>4, <1>5, <2>2 DEF Looked
  <2> QED
    BY <2>1, <2>2
<1>7. registered' \subseteq Tracked'
  BY <1>1, <1>5 DEF Tracked
<1> QED
  BY <1>1, <1>4, <1>5, <1>6, <1>7 DEF Heals

LEMMA RefreshHealsRead ==
  ASSUME IndInv, NEW c \in Callers, Heals(c), RefreshRead(c)
  PROVE  Heals(c)'
<1>1. PICK x \in call[c].todo :
        call' = [call EXCEPT ![c].step = "write", ![c].candidate = x,
                             ![c].todo = @ \ {x}, ![c].trail = Reading(decisions, x)]
  BY DEF RefreshRead
<1>2. /\ call'[c].step = "write" /\ call'[c].candidate = x /\ call'[c].todo = call[c].todo \ {x}
      /\ call'[c].trail = Reading(decisions, x) /\ call'[c].reverted = call[c].reverted
  <2>1. call \in [Callers -> Handlers] /\ call[c] \in Handlers
    BY HandlerTyped DEF IndInv
  <2> QED
    BY <1>1, <2>1 DEF Handlers
<1>3. call[c].step = "recon" /\ UNCHANGED <<lineage, roster>> /\ registered \subseteq Candidates
  BY DEF RefreshRead, IndInv, TypeOK
<1>4. Looked(c)' = Looked(c)
  BY <1>2, <1>3, NobodyAssumption DEF Looked, Heals
<1> QED
  BY <1>2, <1>3, <1>4 DEF Heals, Tracked

LEMMA RefreshHealsWrite ==
  ASSUME IndInv, NEW c \in Callers, Heals(c), RefreshWrite(c)
  PROVE  Heals(c)'
<1> DEFINE x == call[c].candidate
           isReverted == call[c].trail = "revoked"
<1>1. /\ call'[c].step = "recon" /\ call'[c].candidate = Nobody
      /\ call'[c].todo = call[c].todo /\ call'[c].reverted = call[c].reverted
  <2>1. call \in [Callers -> Handlers] /\ call[c] \in Handlers
    BY HandlerTyped DEF IndInv
  <2> QED
    BY <2>1 DEF RefreshWrite, Handlers
<1>2. /\ UNCHANGED lineage /\ registered \subseteq Candidates /\ x \in Candidates
      /\ roster \in [Candidates -> Labels]
  BY DEF RefreshWrite, IndInv, TypeOK, Known, Knows
<1>3. /\ call[c].step = "write" /\ x # Incumbent(decisions)
      /\ call[c].trail = Reading(decisions, x)
      /\ registered \subseteq Tracked /\ Incumbent(decisions) \notin call[c].todo
      /\ x \notin call[c].todo
  BY DEF Heals, RefreshWrite
<1>4. \A y \in Candidates \ {x} : roster'[y] = roster[y]
  BY <1>2 DEF RefreshWrite, Label
<1>5. isReverted <=> Revoked(decisions, x)
  BY <1>3 DEF Reading, Revoked
<1>6. call[c].trail = "silent" => ~Ruled(x, "rollback")
  BY <1>3 DEF Reading, Ruled
<1>7. ASSUME x \in registered
      PROVE  /\ roster'[x] # "untracked" /\ roster'[x] # "champion"
             /\ roster'[x] = "rolled_back" <=> Revoked(decisions, x)
  <2>1. /\ roster[x] = "rolled_back" <=> x \in call[c].reverted
        /\ roster[x] # "champion" /\ roster[x] # "untracked"
    BY <1>2, <1>3, <1>7 DEF Heals, Looked, Tracked
  <2>2. CASE call[c].trail = "silent"
    <3>1. roster[x] # "rolled_back"
      BY <1>2, <1>6, <2>2 DEF IndInv, LabelsAreBacked
    <3> QED
      BY <1>5, <2>1, <2>2, <3>1 DEF RefreshWrite
  <2>3. CASE call[c].trail # "silent"
    BY <1>2, <1>5, <2>1, <2>3 DEF RefreshWrite, Label
  <2> QED
    BY <2>2, <2>3
<1>8. registered' \subseteq Tracked'
  BY <1>2, <1>3, <1>4, <1>7 DEF Tracked
<1>9. ASSUME NEW y \in registered
      PROVE  /\ roster'[y] = "champion" <=> y = Incumbent(decisions)
             /\ roster'[y] = "rolled_back" <=>
                  IF y \in Looked(c)' THEN Revoked(decisions, y) ELSE y \in call'[c].reverted
  <2>1. CASE y = x
    <3>1. x \in registered
      BY <2>1
    <3>2. x \in Looked(c)'
      BY <1>1, <1>2, <1>3, <3>1, NobodyAssumption DEF Looked
    <3>3. roster'[x] # "champion" /\ (roster'[x] = "rolled_back" <=> Revoked(decisions, x))
      BY <1>7, <3>1
    <3> HIDE DEF x
    <3> QED
      BY <1>3, <2>1, <3>2, <3>3
  <2>2. CASE y # x
    <3>1. y \in Looked(c)' <=> y \in Looked(c)
      BY <1>1, <1>2, <2>2, NobodyAssumption DEF Looked
    <3> QED
      BY <1>1, <1>2, <1>3, <1>4, <2>2, <3>1 DEF Heals
  <2> QED
    BY <2>1, <2>2
<1> QED
  BY <1>1, <1>2, <1>3, <1>8, <1>9 DEF Heals

LEMMA RefreshKeepsHealing ==
  ASSUME IndInv, NEW c \in Callers, c \in undisturbed', Refreshing(c),
         c \in undisturbed => Heals(c)
  PROVE  Heals(c)'
<1>1. CASE RefreshBegin(c)
  BY <1>1, RefreshHealsBegin
<1>2. ASSUME ~RefreshBegin(c)
      PROVE  c \in undisturbed /\ ~RefreshNoAnswer(c) /\ ~RefreshSkip(c) /\ ~RefreshEnd(c)
  BY <1>2 DEF Refreshing, RefreshIncumbent, RefreshReconcile, RefreshNoAnswer, RefreshRead,
     RefreshSkip, RefreshWrite, RefreshEnd, DisturbAllBut
<1> QED
  BY <1>1, <1>2, RefreshHealsIncumbent, RefreshHealsReconcile, RefreshHealsRead,
     RefreshHealsWrite DEF Refreshing

LEMMA UndisturbedStep ==
  ASSUME IndInv, Undisturbed, [Next]_vars
  PROVE  Undisturbed'
<1>1. ASSUME NEW c \in undisturbed'
      PROVE  Heals(c)'
  <2>1. undisturbed' \subseteq Callers
    BY NextKeeps DEF IndInv, TypeOK
  <2>2. CASE Refreshing(c)
    BY <2>1, <2>2, RefreshKeepsHealing DEF Undisturbed
  <2>3. CASE ~Refreshing(c)
    <3>1. ASSUME NEW d \in Callers, RefreshBegin(d)
          PROVE  FALSE
      <4>1. c = d
        BY <3>1 DEF RefreshBegin
      <4> QED
        BY <2>3, <3>1, <4>1 DEF Refreshing
    <3>2. ASSUME NEW d \in Callers, Refreshing(d)
          PROVE  c \in undisturbed
      BY <3>1, <3>2 DEF Refreshing, RefreshIncumbent, RefreshReconcile, RefreshNoAnswer,
         RefreshRead, RefreshSkip, RefreshWrite, RefreshEnd, DisturbAllBut
    <3>3. ASSUME NEW d \in Callers, Deciding(d)
          PROVE  c \in undisturbed
      BY <3>3 DEF Deciding, VerdictBegin, VerdictApplied, VerdictGivenUp, VerdictRecorded,
         DisturbAllBut
    <3>4. ASSUME NEW x \in Candidates, Challenge(x)
          PROVE  c \in undisturbed
      BY <3>4 DEF Challenge, DisturbAllBut
    <3>5. ASSUME NEW k \in Campaigns, Close(k) \/ Pull(k) \/ \E x \in Candidates : Open(k, x)
          PROVE  c \in undisturbed
      BY <3>5 DEF Close, Pull, Open
    <3>6. ASSUME LateVerdict \/ Elsewhere \/ Crash \/ UNCHANGED vars
          PROVE  c \in undisturbed
      BY <3>6 DEF LateVerdict, Elsewhere, Crash, DisturbAllBut, vars
    <3>7. c \in undisturbed
      BY <3>2, <3>3, <3>4, <3>5, <3>6 DEF Next
    <3> QED
      BY <2>3, <3>7, OthersHeal DEF Undisturbed
  <2> QED
    BY <2>2, <2>3
<1> QED
  BY <1>1 DEF Undisturbed

\* refresh_roster heals any drift: at its end, if nothing came in between, the
\* roster is the mirror of the record upstream.
THEOREM HealsDrift == Spec => RefreshHeals
<1>1. Init => IndInv /\ Undisturbed
  BY InitIsInductive DEF Init, Undisturbed
<1>2. IndInv /\ Undisturbed /\ [Next]_vars => (IndInv /\ Undisturbed)'
  BY NextKeeps, UndisturbedStep
<1>3. IndInv /\ Undisturbed /\ [Next]_vars =>
        [\A c \in Callers : RefreshEnd(c) /\ c \in undisturbed => Mirrors]_vars
  <2>1. ASSUME IndInv, Undisturbed, NEW c \in Callers, RefreshEnd(c), c \in undisturbed
        PROVE  Mirrors
    <3>1. Heals(c) /\ call[c].step = "recon" /\ call[c].todo = {}
      BY <2>1 DEF Undisturbed, RefreshEnd
    <3>2. \A x \in registered : x \in Looked(c)
      BY <2>1, <3>1, NobodyAssumption DEF Heals, Looked, IndInv, TypeOK
    <3> QED
      BY <3>1, <3>2 DEF Heals, Mirrors
  <2> QED
    BY <2>1
<1> QED
  BY <1>1, <1>2, <1>3, PTL DEF Spec, RefreshHeals
=============================================================================
