---------------------------- MODULE Champion_proofs ----------------------------
(***************************************************************************)
(* What the arete server's improvers, decisions and policies keep to under *)
(* any overlap of the handlers, and the champion pointer under any overlap *)
(* that leaves the moves of the pointer alone.                             *)
(*                                                                         *)
(* The inductive invariant is the types and four parts.  Grounded: parents *)
(* come before their children, so that no chain of them comes back.        *)
(* Numbered: a decision's number is its own, recorded or about to be.      *)
(* Rested: a policy, minted or about to be, rests on a recorded decision.  *)
(* Pointed: as long as no move was run into there is one at most, and what *)
(* it has read of the pointer is still so at each of its statements.       *)
(*                                                                         *)
(* Arete's channel and its loop, beside each other in MCArmCampaigns, have *)
(* ChannelInv and LoopInv.                                                 *)
(***************************************************************************)
EXTENDS Champion, MCArmCampaigns, FiniteSetTheorems, WellFoundedInduction, TLAPS

-----------------------------------------------------------------------------
Proposing == {"digest", "register"}
Recording == {"decide", "minting", "restoring", "decision"}
Promoting == {"promote", "promoting", "policy", "displace", "crown"}
Restoring == {"dethrone", "take back", "restore"}
Steps == {"idle", "commit"} \cup Proposing \cup Recording \cup Promoting \cup Restoring

Handlers == [step : Steps, improver : Improvers \cup {None},
             decision : Decisions \cup {NoDecision}, policy : Policies \cup {NoPolicy},
             read : Improvers \cup {None}]

\* A registration and a decision are saved at once, also within a transaction.
Types ==
  /\ TypeOK
  /\ call \in [Callers -> Handlers]
  /\ disk.improvers = db.improvers /\ disk.decisions = db.decisions
  /\ disk.champions \subseteq disk.improvers
  /\ \A c \in Callers :
       /\ call[c].step \in Recording \cup Promoting \cup Restoring => call[c].improver \in db.improvers
       /\ call[c].step \in Recording \cup {"promote"} => call[c].decision \in Decisions
       /\ call[c].step \in {"promoting", "policy"} => call[c].policy \in Policies

Admitted(i) ==
  ParentOf[i] \in db.improvers \cup {None} /\ Admission(Touched[i]) # "rejected"
Rooted(S) == \A walk \in SUBSET S : walk # {} => \E a \in walk : ParentOf[a] \notin walk
Grounded ==
  /\ \A i \in db.improvers : Admitted(i)
  /\ Rooted(db.improvers)
  /\ \A c \in Callers :
       /\ call[c].step \in Proposing => call[c].improver \in Improvers \ db.improvers
       /\ At(c, "register") => Admitted(call[c].improver) /\ call[c].read \in {call[c].improver, None}
  /\ \A c, o \in Callers : c # o /\ call[c].step \in Proposing /\ call[o].step \in Proposing =>
                             call[c].improver # call[o].improver

Numbered ==
  /\ \A d \in db.decisions : d.no <= drawn /\ d.improver \in db.improvers
  /\ \A d, e \in db.decisions : d.no = e.no => d = e
  /\ \A c \in Callers : call[c].step \in Recording =>
       /\ call[c].decision.no <= drawn
       /\ call[c].decision.improver = call[c].improver
       /\ \A d \in db.decisions : d.no # call[c].decision.no
       /\ \A o \in Callers \ {c} : call[o].step \in Recording => call[o].decision.no # call[c].decision.no

\* The decision is to promote, and its author had the authority.
Promotes(d, i) == d.improver = i /\ d.verdict = "promote" /\ HasAuthority(i, d.human)
Rests(p) == \E d \in db.decisions : d.no = p.decision /\ Promotes(d, p.improver)
Rested ==
  /\ \A p \in db.policies \cup disk.policies : Rests(p)
  /\ \A c \in Callers :
       /\ At(c, "promote") => call[c].decision \in db.decisions /\ Promotes(call[c].decision, call[c].improver)
       /\ call[c].step \in {"promoting", "policy"} => Rests(call[c].policy)
       /\ call[c].step \in {"restoring", "decision", "dethrone", "take back"} =>
            call[c].policy = NoPolicy \/ Rests(call[c].policy)

One(S) == \A x, y \in S : x = y
Within == {"policy", "displace", "crown", "commit", "decision", "dethrone", "take back", "restore"}
\* What the mover relies on.
Sees(h) ==
  /\ h.step \in {"promoting", "policy", "displace"} => db.champions \subseteq {h.policy.previous}
  /\ h.step = "register" /\ h.read # None => db.champions = {}
  /\ h.step = "minting" /\ h.read # None => db.champions \subseteq {h.improver}
  /\ h.step \in {"restoring", "decision", "dethrone"} => db.champions \subseteq {h.improver}
  /\ h.step \in {"crown", "take back", "restore"} => db.champions = {}
Pointed == ~clash =>
  /\ One(db.champions) /\ One(disk.champions)
  /\ open => \E c \in Callers : call[c].step \in Within
  /\ \A c, o \in Callers : Moving(c) /\ Moving(o) => c = o
  /\ \A c \in Callers : Sees(call[c])

IndInv == Types /\ Grounded /\ Numbered /\ Rested /\ Pointed

-----------------------------------------------------------------------------
(***************************************************************************)
(* The rows that are chosen by their number.                               *)
(***************************************************************************)
Less == {ss \in Nat \X Nat : ss[1] < ss[2]}

LEMMA LessIsWellFounded == IsWellFoundedOn(Less, Nat)
BY NatLessThanWellFounded DEF OpToRel, Less

LEMMA LeastExists ==
  ASSUME NEW S \in SUBSET Nat, S # {}
  PROVE  \E i \in S : \A j \in S : i =< j
<1>1. PICK i \in S : \A j \in S : ~(<<j, i>> \in Less)
  BY LessIsWellFounded, WFMin
<1>2. ASSUME NEW j \in S
      PROVE  i =< j
  <2>1. ~(<<j, i>> \in Less) /\ <<j, i>> \in Nat \X Nat
    BY <1>1
  <2> QED
    BY <2>1 DEF Less
<1> QED
  BY <1>2

LEMMA GreatestExists ==
  ASSUME NEW n \in Nat, NEW S \in SUBSET (1 .. n), S # {}
  PROVE  \E i \in S : \A j \in S : j =< i
<1> DEFINE T == {n - i : i \in S}
<1>1. T \in SUBSET Nat /\ T # {}
  <2>1. \A i \in S : n - i \in Nat
    OBVIOUS
  <2> QED
    BY <2>1
<1>2. PICK least \in T : \A j \in T : least =< j
  <2> HIDE DEF T
  <2> QED
    BY <1>1, LeastExists
<1>3. PICK i \in S : least = n - i
  BY <1>2
<1>4. ASSUME NEW j \in S
      PROVE  j =< i
  <2>1. n - i =< n - j
    BY <1>2, <1>3
  <2> QED
    BY <2>1
<1> QED
  BY <1>4

\* What nobody has decided on has no decision, and otherwise one of its own.
LEMMA LatestIsRecorded ==
  ASSUME Types, NEW i \in Improvers, Latest(i).verdict = "promote"
  PROVE  Latest(i) \in db.decisions /\ Latest(i).improver = i
<1> DEFINE of == {d \in db.decisions : d.improver = i}
<1>1. of # {}
  BY DEF Latest, NoDecision
<1>2. MaxDecisions \in Nat /\ db.decisions \subseteq Decisions
  BY ChampionAssumption DEF Types, TypeOK, Database
<1>3. {d.no : d \in of} \in SUBSET (1 .. MaxDecisions) /\ {d.no : d \in of} # {}
  BY <1>1, <1>2 DEF Decisions
<1>4. PICK n \in {d.no : d \in of} : \A m \in {d.no : d \in of} : m =< n
  <2> HIDE DEF of
  <2> QED
    BY <1>2, <1>3, GreatestExists
<1>5. \E d \in of : \A e \in of : e.no =< d.no
  BY <1>4
<1>6. Latest(i) = CHOOSE d \in of : \A e \in of : e.no =< d.no
  BY <1>1 DEF Latest
<1>7. Latest(i) \in of
  <2> HIDE DEF of
  <2> QED
    BY <1>5, <1>6
<1> QED
  BY <1>7

LEMMA ActiveIsMinted ==
  ASSUME Types, NEW i \in Improvers, Active(i) # NoPolicy
  PROVE  Active(i) \in db.policies
<1> DEFINE of == {p \in db.policies : p.improver = i /\ p.status = "active"}
<1>1. of # {}
  BY DEF Active
<1>2. MaxDecisions \in Nat /\ db.policies \subseteq Policies
  BY ChampionAssumption DEF Types, TypeOK, Database
<1>3. {p.decision : p \in of} \in SUBSET (1 .. MaxDecisions) /\ {p.decision : p \in of} # {}
  BY <1>1, <1>2 DEF Policies
<1>4. PICK n \in {p.decision : p \in of} : \A m \in {p.decision : p \in of} : m =< n
  <2> HIDE DEF of
  <2> QED
    BY <1>2, <1>3, GreatestExists
<1>5. \E p \in of : \A q \in of : q.decision =< p.decision
  BY <1>4
<1>6. Active(i) = CHOOSE p \in of : \A q \in of : q.decision =< p.decision
  BY <1>1 DEF Active
<1>7. Active(i) \in of
  <2> HIDE DEF of
  <2> QED
    BY <1>5, <1>6
<1> QED
  BY <1>7

-----------------------------------------------------------------------------
(***************************************************************************)
(* What a step does to its handler and to the database.                    *)
(***************************************************************************)
Same(c, h) == /\ h.improver = call[c].improver /\ h.decision = call[c].decision
              /\ h.policy = call[c].policy /\ h.read = call[c].read

Begins(h) ==
  \/ /\ h.step = "digest" /\ drawn' = drawn /\ h.improver \in Improvers \ db.improvers
     /\ \A o \in Callers : call[o].improver = h.improver => call[o].step \notin Proposing
  \/ /\ h.step \in {"decide", "minting"} /\ drawn' = drawn + 1 /\ drawn < MaxDecisions
     /\ h.improver \in db.improvers /\ h.decision \in Decisions
     /\ h.decision.no = drawn + 1 /\ h.decision.improver = h.improver
  \/ /\ h.step = "promote" /\ drawn' = drawn /\ PromoteAllowed(h.improver)
     /\ h.improver \in Improvers /\ h.decision = Latest(h.improver)

Reads(c, h) ==
  \/ /\ At(c, "digest") /\ h.step = "register" /\ h.improver = call[c].improver
     /\ Admitted(h.improver) /\ h.read \in {h.improver, None}
  \/ /\ At(c, "promote") /\ h.step = "promoting" /\ h.improver = call[c].improver
     /\ h.policy \in Policies /\ h.policy.decision = call[c].decision.no
     /\ h.policy.improver = h.improver
  \/ /\ At(c, "minting") /\ h.step = "restoring"
     /\ h.improver = call[c].improver /\ h.decision = call[c].decision
     /\ h.policy = Active(h.improver)

Order == {<<"promoting", "policy">>, <<"policy", "displace">>, <<"displace", "crown">>,
          <<"crown", "commit">>, <<"restoring", "decision">>, <<"decision", "dethrone">>,
          <<"dethrone", "take back">>, <<"take back", "restore">>, <<"restore", "commit">>}
Advances(c, h) == <<call[c].step, h.step>> \in Order /\ Same(c, h)

Moved(c, h) ==
  \/ h = Idle /\ drawn' = drawn
  \/ At(c, "idle") /\ Begins(h)
  \/ Reads(c, h) /\ drawn' = drawn
  \/ Advances(c, h) /\ drawn' = drawn

Handle(c) ==
  \/ \E i \in Improvers :
       \/ RegisterBegin(c, i) \/ PromoteBegin(c, i) \/ RollbackBegin(c, i)
       \/ \E human \in BOOLEAN, verdict \in {"promote", "reject"} :
            DecideBegin(c, i, verdict, human)
  \/ RegisterRead(c) \/ RegisterRefused(c) \/ RegisterWrite(c) \/ Decide(c)
  \/ PromoteRead(c) \/ Enter(c) \/ EnterRefused(c)
  \/ PromotePolicy(c) \/ PromoteDisplace(c) \/ PromoteCrown(c) \/ Commit(c)
  \/ RollbackRead(c) \/ RollbackRecord(c) \/ RollbackDecision(c)
  \/ RollbackDethrone(c) \/ RollbackPolicy(c) \/ RollbackRestore(c)

LEMMA StepIsHandled ==
  ASSUME Next PROVE Crash \/ \E c \in Callers : Handle(c)
BY DEF Next, Handle

LEMMA HandlerFields ==
  ASSUME NEW h \in Handlers, NEW step \in Steps
  PROVE  /\ [h EXCEPT !.step = step] \in Handlers
         /\ [h EXCEPT !.step = step].step = step
         /\ [h EXCEPT !.step = step].improver = h.improver
         /\ [h EXCEPT !.step = step].decision = h.decision
         /\ [h EXCEPT !.step = step].policy = h.policy
         /\ [h EXCEPT !.step = step].read = h.read
BY DEF Handlers

LEMMA IdleIsHandler == Idle \in Handlers /\ Idle.step = "idle"
BY DEF Idle, Handlers, Steps

\* A handler's first step.
LEMMA BeginStep ==
  ASSUME Types, NEW c \in Callers, NEW i \in Improvers,
         \/ RegisterBegin(c, i) \/ PromoteBegin(c, i) \/ RollbackBegin(c, i)
         \/ \E human \in BOOLEAN, verdict \in {"promote", "reject"} : DecideBegin(c, i, verdict, human)
  PROVE  \E h \in Handlers : call' = [call EXCEPT ![c] = h] /\ Moved(c, h)
<1> USE DEF Moved, Begins, At
<1>1. CASE RegisterBegin(c, i)
  <2>1. PICK h : h = [Idle EXCEPT !.step = "digest", !.improver = i]
    OBVIOUS
  <2>2. h \in Handlers /\ h.step = "digest" /\ h.improver = i
    BY <2>1 DEF Idle, Handlers, Steps, Proposing
  <2>3. call' = [call EXCEPT ![c] = h] /\ call[c].step = "idle"
    BY <1>1, <2>1, IdleIsHandler DEF RegisterBegin, Become
  <2> QED
    BY <1>1, <2>2, <2>3 DEF RegisterBegin, Proposing
<1>2. CASE PromoteBegin(c, i)
  <2>1. PICK h : h = [Idle EXCEPT !.step = "promote", !.improver = i, !.decision = Latest(i)]
    OBVIOUS
  <2>2. Latest(i) \in Decisions
    BY <1>2, LatestIsRecorded DEF PromoteBegin, PromoteAllowed, Types, TypeOK, Database
  <2>3. h \in Handlers /\ h.step = "promote" /\ h.improver = i /\ h.decision = Latest(i)
    BY <2>1, <2>2 DEF Idle, Handlers, Steps, Promoting
  <2>4. call' = [call EXCEPT ![c] = h] /\ call[c].step = "idle"
    BY <1>2, <2>1, IdleIsHandler DEF PromoteBegin, Become
  <2> QED
    BY <1>2, <2>3, <2>4 DEF PromoteBegin
<1>3. ASSUME NEW verdict \in {"promote", "reject", "rollback"}, NEW human \in BOOLEAN,
             NEW step \in {"decide", "minting"}, NEW read \in Improvers \cup {None},
             Draw(c, i, verdict, human, step, read)
      PROVE  \E h \in Handlers : call' = [call EXCEPT ![c] = h] /\ Moved(c, h)
  <2>1. PICK d : d = [no |-> drawn + 1, improver |-> i, verdict |-> verdict, human |-> human]
    OBVIOUS
  <2>2. PICK h : h = [Idle EXCEPT !.step = step, !.improver = i, !.read = read, !.decision = d]
    OBVIOUS
  <2>3. d \in Decisions /\ d.no = drawn + 1 /\ d.improver = i
    <3>1. drawn + 1 \in 1 .. MaxDecisions
      BY <1>3, ChampionAssumption DEF Draw, Types, TypeOK
    <3> QED
      BY <2>1, <3>1 DEF Decisions
  <2>4. h \in Handlers /\ h.step = step /\ h.improver = i /\ h.decision = d
    BY <2>2, <2>3 DEF Idle, Handlers, Steps, Recording
  <2>5. call' = [call EXCEPT ![c] = h] /\ call[c].step = "idle"
    BY <1>3, <2>1, <2>2, IdleIsHandler DEF Draw, Become
  <2> QED
    BY <1>3, <2>3, <2>4, <2>5 DEF Draw
<1> QED
  BY <1>1, <1>2, <1>3 DEF RollbackBegin, DecideBegin

LEMMA CallStep ==
  ASSUME Types, NEW c \in Callers, Handle(c)
  PROVE  \E h \in Handlers : call' = [call EXCEPT ![c] = h] /\ Moved(c, h)
<1>1. call \in [Callers -> Handlers] /\ call[c] \in Handlers
  BY DEF Types
<1>2. CASE RegisterRead(c)
  <2>1. PICK read \in {call[c].improver, None} :
          /\ call' = [call EXCEPT ![c] = [call[c] EXCEPT !.step = "register", !.read = read]]
          /\ At(c, "digest") /\ drawn' = drawn /\ Admitted(call[c].improver)
    BY <1>2 DEF RegisterRead, Become, Admitted
  <2>2. PICK h : h = [call[c] EXCEPT !.step = "register", !.read = read]
    OBVIOUS
  <2>3. call[c].improver \in Improvers \cup {None}
    BY <1>1 DEF Handlers
  <2>4. h \in Handlers /\ h.step = "register" /\ h.improver = call[c].improver /\ h.read = read
    BY <1>1, <2>1, <2>2, <2>3 DEF Handlers, Steps, Proposing
  <2>5. Reads(c, h)
    BY <2>1, <2>4 DEF Reads
  <2> QED
    BY <2>1, <2>2, <2>4, <2>5 DEF Moved
<1>3. CASE PromoteRead(c)
  <2>1. PICK previous \in Improvers \cup {None} :
          call' = [call EXCEPT ![c] =
                     [call[c] EXCEPT !.step = "promoting",
                                     !.policy = [improver |-> call[c].improver, status |-> "active",
                                                 decision |-> call[c].decision.no, previous |-> previous]]]
    BY <1>3 DEF PromoteRead, Become, Types, TypeOK, Database
  <2>2. At(c, "promote") /\ drawn' = drawn
    BY <1>3 DEF PromoteRead
  <2>3. PICK p : p = [improver |-> call[c].improver, status |-> "active",
                      decision |-> call[c].decision.no, previous |-> previous]
    OBVIOUS
  <2>4. PICK h : h = [call[c] EXCEPT !.step = "promoting", !.policy = p]
    OBVIOUS
  <2>5. call[c].improver \in Improvers /\ call[c].decision.no \in 1 .. MaxDecisions
    BY <2>2 DEF Types, TypeOK, Database, At, Promoting, Decisions
  <2>6. p \in Policies /\ p.decision = call[c].decision.no /\ p.improver = call[c].improver
    BY <2>3, <2>5 DEF Policies
  <2>7. h \in Handlers /\ h.step = "promoting" /\ h.improver = call[c].improver /\ h.policy = p
    BY <1>1, <2>4, <2>6 DEF Handlers, Steps, Promoting
  <2>8. Reads(c, h)
    BY <2>2, <2>6, <2>7 DEF Reads
  <2> QED
    BY <2>1, <2>2, <2>3, <2>4, <2>7, <2>8 DEF Moved
<1>4. CASE RollbackRead(c)
  <2>1. At(c, "minting") /\ drawn' = drawn
          /\ call' = [call EXCEPT ![c] = [call[c] EXCEPT !.step = "restoring", !.policy = Active(call[c].improver)]]
    BY <1>4 DEF RollbackRead, Become
  <2>2. PICK h : h = [call[c] EXCEPT !.step = "restoring", !.policy = Active(call[c].improver)]
    OBVIOUS
  <2>3. call[c].improver \in Improvers
    BY <2>1 DEF Types, TypeOK, Database, At, Recording
  <2>4. Active(call[c].improver) \in Policies \cup {NoPolicy}
    BY <2>3, ActiveIsMinted DEF Types, TypeOK, Database
  <2>5. /\ h \in Handlers /\ h.step = "restoring" /\ h.improver = call[c].improver
        /\ h.decision = call[c].decision /\ h.policy = Active(call[c].improver)
    BY <1>1, <2>2, <2>4 DEF Handlers, Steps, Recording
  <2>6. Reads(c, h)
    BY <2>1, <2>5 DEF Reads
  <2> QED
    BY <2>1, <2>2, <2>5, <2>6 DEF Moved
<1>5. CASE \/ RegisterRefused(c) \/ RegisterWrite(c) \/ Decide(c) \/ EnterRefused(c)
           \/ Commit(c) \/ RollbackRecord(c)
  <2>1. Return(c) /\ drawn' = drawn
    BY <1>5 DEF RegisterRefused, RegisterWrite, Decide, EnterRefused, Commit, RollbackRecord
  <2> QED
    BY <2>1, IdleIsHandler DEF Return, Become, Moved
<1>6. CASE \/ Enter(c) \/ PromotePolicy(c) \/ PromoteDisplace(c) \/ PromoteCrown(c)
           \/ RollbackDecision(c) \/ RollbackDethrone(c) \/ RollbackPolicy(c) \/ RollbackRestore(c)
  <2>1. drawn' = drawn
    BY <1>6 DEF Enter, PromotePolicy, PromoteDisplace, PromoteCrown, RollbackDecision,
                RollbackDethrone, RollbackPolicy, RollbackRestore, Statement
  <2>2. \E step : <<call[c].step, step>> \in Order /\ Goto(c, step)
    <3>1. CASE Enter(c)
      <4>1. CASE At(c, "promoting") /\ Goto(c, "policy")
        BY <4>1 DEF At, Order
      <4>2. CASE At(c, "restoring") /\ Goto(c, "decision")
        BY <4>2 DEF At, Order
      <4> QED
        BY <3>1, <4>1, <4>2 DEF Enter
    <3>2. CASE PromotePolicy(c)
      BY <3>2 DEF PromotePolicy, Statement, At, Order
    <3>3. CASE PromoteDisplace(c)
      BY <3>3 DEF PromoteDisplace, Statement, At, Order
    <3>4. CASE PromoteCrown(c)
      BY <3>4 DEF PromoteCrown, Statement, At, Order
    <3>5. CASE RollbackDecision(c)
      <4>1. At(c, "decision") /\ Goto(c, "dethrone")
        BY <3>5 DEF RollbackDecision
      <4>2. <<"decision", "dethrone">> \in Order
        BY DEF Order
      <4> QED
        BY <4>1, <4>2 DEF At
    <3>6. CASE RollbackDethrone(c)
      <4>1. At(c, "dethrone") /\ Goto(c, "take back")
        BY <3>6 DEF RollbackDethrone, Statement
      <4>2. <<"dethrone", "take back">> \in Order
        BY DEF Order
      <4> QED
        BY <4>1, <4>2 DEF At
    <3>7. CASE RollbackPolicy(c)
      <4>1. At(c, "take back") /\ Goto(c, "restore")
        BY <3>7 DEF RollbackPolicy, Statement
      <4>2. <<"take back", "restore">> \in Order
        BY DEF Order
      <4> QED
        BY <4>1, <4>2 DEF At
    <3>8. CASE RollbackRestore(c)
      BY <3>8 DEF RollbackRestore, Statement, At, Order
    <3> QED
      BY <1>6, <3>1, <3>2, <3>3, <3>4, <3>5, <3>6, <3>7, <3>8
  <2>7. PICK step : <<call[c].step, step>> \in Order /\ Goto(c, step)
    BY <2>2
  <2>3. step \in Steps
    BY <2>7 DEF Order, Steps, Recording, Promoting, Restoring
  <2>4. PICK h : h = [call[c] EXCEPT !.step = step]
    OBVIOUS
  <2>5. h \in Handlers /\ h.step = step /\ Same(c, h)
    BY <1>1, <2>3, <2>4, HandlerFields DEF Same
  <2>6. Advances(c, h)
    BY <2>7, <2>5 DEF Advances
  <2> QED
    BY <2>1, <2>7, <2>4, <2>5, <2>6 DEF Goto, Become, Moved
<1> QED
  BY <1>2, <1>3, <1>4, <1>5, <1>6, BeginStep DEF Handle

LEMMA Moves ==
  ASSUME IndInv, [Next]_vars
  PROVE  \/ db' = db /\ disk' \in {db, disk}
         \/ db' = disk /\ disk' = disk
         \/ \E S \in SUBSET db.improvers : db' = [db EXCEPT !.champions = S] /\ disk' = disk
         \/ \E c \in Callers : RegisterWrite(c)
         \/ \E c \in Callers : Decide(c) \/ RollbackRecord(c) \/ RollbackDecision(c)
         \/ \E c \in Callers : PromotePolicy(c) \/ RollbackPolicy(c)
<1> USE DEF Conn!Exec, Conn!Save, Conn!Commit, Conn!Rollback, Conn!Reopen, Conn!BeginTx,
            Conn!BeginRefused, Conn!connection
<1>1. CASE UNCHANGED vars \/ Crash
  BY <1>1 DEF vars, Crash
<1>2. ASSUME NEW c \in Callers, NEW i \in Improvers,
             \/ RegisterBegin(c, i) \/ PromoteBegin(c, i) \/ RollbackBegin(c, i)
             \/ \E human \in BOOLEAN, verdict \in {"promote", "reject"} : DecideBegin(c, i, verdict, human)
      PROVE  db' = db /\ disk' = disk
  BY <1>2 DEF RegisterBegin, PromoteBegin, RollbackBegin, DecideBegin
<1>3. ASSUME NEW c \in Callers,
             \/ RegisterRead(c) \/ RegisterRefused(c) \/ PromoteRead(c) \/ Enter(c) \/ EnterRefused(c)
             \/ RollbackRead(c) \/ Commit(c)
      PROVE  db' = db /\ disk' \in {db, disk}
  BY <1>3 DEF RegisterRead, RegisterRefused, PromoteRead, Enter, EnterRefused, RollbackRead, Commit
<1>4. ASSUME NEW c \in Callers,
             PromoteDisplace(c) \/ PromoteCrown(c) \/ RollbackDethrone(c) \/ RollbackRestore(c)
      PROVE  \E S \in SUBSET db.improvers : db' = [db EXCEPT !.champions = S] /\ disk' = disk
  <2>1. db.champions \subseteq db.improvers
    BY DEF IndInv, Types, TypeOK
  <2>2. CASE PromoteDisplace(c)
    BY <2>1, <2>2 DEF PromoteDisplace, Statement
  <2>3. CASE RollbackDethrone(c)
    BY <2>1, <2>3 DEF RollbackDethrone, Statement
  <2>4. CASE PromoteCrown(c)
    <3>1. call[c].improver \in db.improvers
      BY <2>4 DEF PromoteCrown, Statement, At, IndInv, Types, Promoting
    <3> QED
      BY <2>1, <2>4, <3>1 DEF PromoteCrown, Statement
  <2>5. CASE RollbackRestore(c)
    BY <2>1, <2>5 DEF RollbackRestore, Statement
  <2> QED
    BY <1>4, <2>2, <2>3, <2>4, <2>5
<1> QED
  BY <1>1, <1>2, <1>3, <1>4, StepIsHandled DEF Handle

\* The rows that are inserted, and what they are inserted into.
LEMMA Registered ==
  ASSUME IndInv, NEW c \in Callers, RegisterWrite(c)
  PROVE  /\ call[c].improver \in Improvers \ db.improvers /\ Admitted(call[c].improver)
         /\ \E S \in SUBSET (db.improvers \cup {call[c].improver}) :
              db' = [db EXCEPT !.improvers = @ \cup {call[c].improver}, !.champions = S]
         /\ disk' = db' /\ drawn' = drawn
         /\ At(c, "register") /\ Return(c)
<1>1. /\ At(c, "register") /\ Return(c) /\ disk' = db' /\ drawn' = drawn
      /\ db' = [db EXCEPT !.improvers = @ \cup {call[c].improver},
                          !.champions = @ \cup ({call[c].read} \ {None})]
  BY DEF RegisterWrite, Conn!Save
<1>2. /\ call[c].improver \in Improvers \ db.improvers /\ Admitted(call[c].improver)
      /\ call[c].read \in {call[c].improver, None}
  BY <1>1 DEF IndInv, Grounded, At, Proposing
<1>3. db.champions \subseteq db.improvers /\ db \in Database
  BY DEF IndInv, Types, TypeOK
<1> QED
  BY <1>1, <1>2, <1>3

LEMMA Recorded ==
  ASSUME IndInv, NEW c \in Callers, Decide(c) \/ RollbackRecord(c) \/ RollbackDecision(c)
  PROVE  /\ db' = [db EXCEPT !.decisions = @ \cup {call[c].decision}] /\ disk' = db' /\ drawn' = drawn
         /\ call[c].step \in Recording /\ call[c].decision \in Decisions
         /\ call[c].decision.improver = call[c].improver /\ call[c].improver \in db.improvers
         /\ \E step \in {"idle", "dethrone"} : call'[c].step = step
<1>1. /\ db' = [db EXCEPT !.decisions = @ \cup {call[c].decision}] /\ disk' = db' /\ drawn' = drawn
      /\ call[c].step \in Recording
      /\ Return(c) \/ Goto(c, "dethrone")
  BY DEF Decide, RollbackRecord, RollbackDecision, Conn!Save, Recording, At
<1>2. call'[c].step \in {"idle", "dethrone"}
  BY <1>1 DEF Return, Goto, Become, Idle, IndInv, Types, Handlers
<1> QED
  BY <1>1, <1>2 DEF IndInv, Types, Numbered

LEMMA Minted ==
  ASSUME IndInv, NEW c \in Callers, PromotePolicy(c) \/ RollbackPolicy(c)
  PROVE  /\ \E S \in SUBSET Policies :
              /\ db' = [db EXCEPT !.policies = S]
              /\ \A p \in S : Rests(p)
         /\ disk' = disk /\ drawn' = drawn
<1>1. db \in Database /\ \A p \in db.policies : Rests(p)
  BY DEF IndInv, Types, TypeOK, Rested
<1>2. CASE PromotePolicy(c)
  <2>1. /\ db' = [db EXCEPT !.policies = @ \cup {call[c].policy}] /\ disk' = disk /\ drawn' = drawn
        /\ At(c, "policy")
    BY <1>2 DEF PromotePolicy, Statement, Conn!Exec
  <2>2. call[c].policy \in Policies /\ Rests(call[c].policy)
    BY <2>1 DEF IndInv, Types, Rested, At
  <2> QED
    BY <1>1, <2>1, <2>2 DEF Database
<1>3. CASE RollbackPolicy(c)
  <2>1. /\ db' = [db EXCEPT !.policies =
                    IF call[c].policy = NoPolicy THEN @
                    ELSE (@ \ {call[c].policy}) \cup {[call[c].policy EXCEPT !.status = "rolled_back"]}]
        /\ disk' = disk /\ drawn' = drawn /\ At(c, "take back")
    BY <1>3 DEF RollbackPolicy, Statement, Conn!Exec
  <2>2. call[c].policy \in Policies \cup {NoPolicy}
    BY DEF IndInv, Types, Handlers
  <2>3. call[c].policy = NoPolicy \/ Rests(call[c].policy)
    BY <2>1 DEF IndInv, Rested, At
  <2>4. ASSUME NEW p \in Policies, Rests(p)
        PROVE  /\ [p EXCEPT !.status = "rolled_back"] \in Policies
               /\ Rests([p EXCEPT !.status = "rolled_back"])
    <3>1. /\ [p EXCEPT !.status = "rolled_back"] \in Policies
          /\ [p EXCEPT !.status = "rolled_back"].decision = p.decision
          /\ [p EXCEPT !.status = "rolled_back"].improver = p.improver
      BY DEF Policies
    <3> QED
      BY <2>4, <3>1 DEF Rests
  <2>5. CASE call[c].policy = NoPolicy
    BY <1>1, <2>1, <2>5 DEF Database
  <2>6. CASE call[c].policy # NoPolicy
    <3>1. PICK q : q = [call[c].policy EXCEPT !.status = "rolled_back"]
      OBVIOUS
    <3>2. q \in Policies /\ Rests(q)
      BY <2>2, <2>3, <2>4, <2>6, <3>1
    <3>3. db' = [db EXCEPT !.policies = (@ \ {call[c].policy}) \cup {q}]
      BY <2>1, <2>6, <3>1
    <3>4. PICK S : S = (db.policies \ {call[c].policy}) \cup {q}
      OBVIOUS
    <3>5. S \in SUBSET Policies /\ \A p \in S : Rests(p)
      BY <1>1, <3>2, <3>4 DEF Database
    <3> QED
      BY <2>1, <3>3, <3>4, <3>5
  <2> QED
    BY <2>5, <2>6
<1> QED
  BY <1>2, <1>3

-----------------------------------------------------------------------------
(***************************************************************************)
(* The tables.                                                             *)
(***************************************************************************)
LEMMA TablesStep ==
  ASSUME IndInv, [Next]_vars
  PROVE  /\ db' \in Database /\ disk' \in Database
         /\ db'.champions \subseteq db'.improvers /\ disk'.champions \subseteq disk'.improvers
         /\ disk'.improvers = db'.improvers /\ disk'.decisions = db'.decisions
         /\ db.improvers \subseteq db'.improvers /\ db.decisions \subseteq db'.decisions
         /\ \A p \in db'.policies \cup disk'.policies : Rests(p)
<1> DEFINE Fine == /\ db' \in Database /\ disk' \in Database
                   /\ db'.champions \subseteq db'.improvers /\ disk'.champions \subseteq disk'.improvers
                   /\ disk'.improvers = db'.improvers /\ disk'.decisions = db'.decisions
                   /\ db.improvers \subseteq db'.improvers /\ db.decisions \subseteq db'.decisions
                   /\ \A p \in db'.policies \cup disk'.policies : Rests(p)
<1>1. /\ db \in Database /\ disk \in Database
      /\ db.champions \subseteq db.improvers /\ disk.champions \subseteq disk.improvers
      /\ disk.improvers = db.improvers /\ disk.decisions = db.decisions
      /\ \A p \in db.policies \cup disk.policies : Rests(p)
  BY DEF IndInv, Types, TypeOK, Rested
<1>2. CASE db' = db /\ disk' \in {db, disk}
  BY <1>1, <1>2
<1>3. CASE db' = disk /\ disk' = disk
  BY <1>1, <1>3
<1>4. ASSUME NEW S \in SUBSET db.improvers, db' = [db EXCEPT !.champions = S], disk' = disk
      PROVE  Fine
  BY <1>1, <1>4 DEF Database
<1>5. ASSUME NEW c \in Callers, RegisterWrite(c)
      PROVE  Fine
  <2>1. PICK S \in SUBSET (db.improvers \cup {call[c].improver}) :
          db' = [db EXCEPT !.improvers = @ \cup {call[c].improver}, !.champions = S]
    BY <1>5, Registered
  <2>2. call[c].improver \in Improvers /\ disk' = db'
    BY <1>5, Registered
  <2> QED
    BY <1>1, <2>1, <2>2 DEF Database
<1>6. ASSUME NEW c \in Callers, Decide(c) \/ RollbackRecord(c) \/ RollbackDecision(c)
      PROVE  Fine
  <2>1. /\ db' = [db EXCEPT !.decisions = @ \cup {call[c].decision}] /\ disk' = db'
        /\ call[c].decision \in Decisions
    BY <1>6, Recorded
  <2> QED
    BY <1>1, <2>1 DEF Database
<1>7. ASSUME NEW c \in Callers, PromotePolicy(c) \/ RollbackPolicy(c)
      PROVE  Fine
  <2>1. PICK S \in SUBSET Policies : db' = [db EXCEPT !.policies = S] /\ \A p \in S : Rests(p)
    BY <1>7, Minted
  <2>2. disk' = disk
    BY <1>7, Minted
  <2> QED
    BY <1>1, <2>1, <2>2 DEF Database
<1>8. Fine
  <2> HIDE DEF Fine
  <2>1. (db' = db /\ disk' \in {db, disk}) => Fine
    BY <1>2 DEF Fine
  <2>2. (db' = disk /\ disk' = disk) => Fine
    BY <1>3 DEF Fine
  <2> QED
    BY <1>4, <1>5, <1>6, <1>7, <2>1, <2>2, Moves
<1> QED
  BY <1>8

LEMMA TypesStep ==
  ASSUME IndInv, [Next]_vars
  PROVE  Types'
<1> USE DEF Conn!Exec, Conn!Save, Conn!Commit, Conn!Rollback, Conn!Reopen, Conn!BeginTx,
            Conn!BeginRefused, Conn!connection
<1>1. /\ open \in BOOLEAN /\ (open = FALSE => db = disk)
      /\ call \in [Callers -> Handlers] /\ drawn \in 0 .. MaxDecisions /\ MaxDecisions \in Nat
  BY ChampionAssumption DEF IndInv, Types, TypeOK
<1>2. open' \in BOOLEAN /\ (open' = FALSE => db' = disk')
  <2>1. CASE UNCHANGED vars \/ Crash
    BY <1>1, <2>1 DEF vars, Crash
  <2>2. ASSUME NEW c \in Callers,
               \/ \E i \in Improvers :
                    \/ RegisterBegin(c, i) \/ PromoteBegin(c, i) \/ RollbackBegin(c, i)
                    \/ \E human \in BOOLEAN, verdict \in {"promote", "reject"} :
                         DecideBegin(c, i, verdict, human)
               \/ RegisterRead(c) \/ RegisterRefused(c) \/ PromoteRead(c) \/ EnterRefused(c)
               \/ RollbackRead(c)
        PROVE  UNCHANGED <<db, disk, open>>
    BY <2>2 DEF RegisterBegin, PromoteBegin, RollbackBegin, DecideBegin, RegisterRead,
                RegisterRefused, PromoteRead, EnterRefused, RollbackRead
  <2>3. ASSUME NEW c \in Callers,
               \/ Enter(c) \/ PromotePolicy(c) \/ PromoteDisplace(c) \/ PromoteCrown(c)
               \/ RollbackDethrone(c) \/ RollbackPolicy(c) \/ RollbackRestore(c)
        PROVE  open' = TRUE
    BY <2>3 DEF Enter, PromotePolicy, PromoteDisplace, PromoteCrown, RollbackDethrone,
                RollbackPolicy, RollbackRestore, Statement
  <2>4. ASSUME NEW c \in Callers,
               RegisterWrite(c) \/ Decide(c) \/ RollbackRecord(c) \/ RollbackDecision(c) \/ Commit(c)
        PROVE  open' = FALSE /\ db' = disk'
    BY <2>4 DEF RegisterWrite, Decide, RollbackRecord, RollbackDecision, Commit
  <2> QED
    BY <1>1, <2>1, <2>2, <2>3, <2>4, StepIsHandled DEF Handle
<1>3. CASE UNCHANGED vars
  <2>1. UNCHANGED <<db, disk, call, open, drawn>>
    BY <1>3 DEF vars
  <2> QED
    BY <2>1 DEF IndInv, Types, TypeOK, At
<1>4. CASE Crash
  <2>1. call' = [c \in Callers |-> Idle] /\ drawn' = drawn
    BY <1>4 DEF Crash
  <2>2. call' \in [Callers -> Handlers] /\ \A c \in Callers : call'[c].step = "idle"
    BY <2>1, IdleIsHandler
  <2> QED
    BY <1>1, <1>2, <2>1, <2>2, TablesStep DEF Types, TypeOK, Recording, Promoting, Restoring
<1>5. ASSUME NEW c \in Callers, Handle(c)
      PROVE  Types'
  <2>1. PICK h \in Handlers : call' = [call EXCEPT ![c] = h] /\ Moved(c, h)
    BY <1>5, CallStep DEF IndInv
  <2>2. call' \in [Callers -> Handlers] /\ call'[c] = h /\ \A o \in Callers \ {c} : call'[o] = call[o]
    BY <1>1, <2>1
  <2>3. drawn' \in 0 .. MaxDecisions
    BY <1>1, <2>1 DEF Moved, Begins
  <2>4. /\ h.step \in Recording \cup Promoting \cup Restoring => h.improver \in db.improvers
        /\ h.step \in Recording \cup {"promote"} => h.decision \in Decisions
        /\ h.step \in {"promoting", "policy"} => h.policy \in Policies
    <3> USE DEF Recording, Promoting, Restoring
    <3>1. /\ call[c].step \in Recording \cup Promoting \cup Restoring => call[c].improver \in db.improvers
          /\ call[c].step \in Recording \cup {"promote"} => call[c].decision \in Decisions
          /\ call[c].step \in {"promoting", "policy"} => call[c].policy \in Policies
      BY DEF IndInv, Types
    <3>2. CASE h = Idle
      BY <3>2, IdleIsHandler
    <3>3. CASE Begins(h)
      <4>1. h.step = "promote" => Latest(h.improver) \in db.decisions
        BY <3>3, LatestIsRecorded DEF Begins, PromoteAllowed, IndInv
      <4> QED
        BY <3>3, <4>1 DEF Begins, PromoteAllowed, IndInv, Types, TypeOK, Database
    <3>4. CASE Reads(c, h)
      BY <3>1, <3>4 DEF Reads, At
    <3>5. CASE Advances(c, h)
      BY <3>1, <3>5 DEF Advances, Order, Same
    <3> QED
      BY <2>1, <3>2, <3>3, <3>4, <3>5 DEF Moved
  <2>5. \A o \in Callers :
          /\ call'[o].step \in Recording \cup Promoting \cup Restoring => call'[o].improver \in db'.improvers
          /\ call'[o].step \in Recording \cup {"promote"} => call'[o].decision \in Decisions
          /\ call'[o].step \in {"promoting", "policy"} => call'[o].policy \in Policies
    BY <1>5, <2>2, <2>4, TablesStep DEF IndInv, Types
  <2> QED
    BY <1>2, <2>2, <2>3, <2>5, TablesStep DEF Types, TypeOK
<1> QED
  BY <1>3, <1>4, <1>5, StepIsHandled

LEMMA OthersKeepImprovers ==
  ASSUME IndInv, [Next]_vars, \A c \in Callers : ~RegisterWrite(c)
  PROVE  db'.improvers = db.improvers
<1>1. db \in Database /\ disk.improvers = db.improvers
  BY DEF IndInv, Types, TypeOK
<1>2. ASSUME NEW c \in Callers, Decide(c) \/ RollbackRecord(c) \/ RollbackDecision(c)
      PROVE  db'.improvers = db.improvers
  <2>1. db' = [db EXCEPT !.decisions = @ \cup {call[c].decision}]
    BY <1>2, Recorded
  <2> QED
    BY <1>1, <2>1 DEF Database
<1>3. ASSUME NEW c \in Callers, PromotePolicy(c) \/ RollbackPolicy(c)
      PROVE  db'.improvers = db.improvers
  <2>1. PICK S : db' = [db EXCEPT !.policies = S]
    BY <1>3, Minted
  <2> QED
    BY <1>1, <2>1 DEF Database
<1>4. ASSUME NEW S, db' = [db EXCEPT !.champions = S]
      PROVE  db'.improvers = db.improvers
  BY <1>1, <1>4 DEF Database
<1> QED
  BY <1>1, <1>2, <1>3, <1>4, Moves

LEMMA OthersKeepDecisions ==
  ASSUME IndInv, [Next]_vars,
         \A c \in Callers : ~Decide(c) /\ ~RollbackRecord(c) /\ ~RollbackDecision(c)
  PROVE  db'.decisions = db.decisions
<1>1. db \in Database /\ disk.decisions = db.decisions
  BY DEF IndInv, Types, TypeOK
<1>2. ASSUME NEW c \in Callers, RegisterWrite(c)
      PROVE  db'.decisions = db.decisions
  <2>1. PICK S : db' = [db EXCEPT !.improvers = @ \cup {call[c].improver}, !.champions = S]
    BY <1>2, Registered
  <2> QED
    BY <1>1, <2>1 DEF Database
<1>3. ASSUME NEW c \in Callers, PromotePolicy(c) \/ RollbackPolicy(c)
      PROVE  db'.decisions = db.decisions
  <2>1. PICK S : db' = [db EXCEPT !.policies = S]
    BY <1>3, Minted
  <2> QED
    BY <1>1, <2>1 DEF Database
<1>4. ASSUME NEW S, db' = [db EXCEPT !.champions = S]
      PROVE  db'.decisions = db.decisions
  BY <1>1, <1>4 DEF Database
<1> QED
  BY <1>1, <1>2, <1>3, <1>4, Moves

-----------------------------------------------------------------------------
(***************************************************************************)
(* The parents.                                                            *)
(***************************************************************************)
\* A new improver is nobody's parent, so that no walk comes back to it.
LEMMA WalksStayGrounded ==
  ASSUME NEW old \in SUBSET Improvers, NEW i \in Improvers \ old,
         \A a \in old \cup {i} : ParentOf[a] \in old \cup {None}, Rooted(old)
  PROVE  Rooted(old \cup {i})
<1>1. None \notin Improvers
  BY ChampionAssumption
<1>2. ASSUME NEW walk \in SUBSET (old \cup {i}), walk # {}, \A a \in walk : ParentOf[a] \in walk
      PROVE  FALSE
  <2>1. \A a \in walk : ParentOf[a] \in walk \ {i}
    BY <1>1, <1>2
  <2>2. walk \ {i} \in SUBSET old /\ walk \ {i} # {}
    BY <1>2, <2>1
  <2> QED
    BY <2>1, <2>2 DEF Rooted
<1> QED
  BY <1>2 DEF Rooted

LEMMA GroundedStep ==
  ASSUME IndInv, [Next]_vars
  PROVE  Grounded'
<1>1. /\ \A i \in db.improvers : Admitted(i)
      /\ Rooted(db.improvers)
      /\ \A c \in Callers :
           /\ call[c].step \in Proposing => call[c].improver \in Improvers \ db.improvers
           /\ At(c, "register") => /\ Admitted(call[c].improver)
                                   /\ call[c].read \in {call[c].improver, None}
      /\ \A c, o \in Callers : c # o /\ call[c].step \in Proposing /\ call[o].step \in Proposing =>
                                 call[c].improver # call[o].improver
      /\ call \in [Callers -> Handlers]
  BY DEF IndInv, Grounded, Types
<1>2. \A i \in Improvers : Admitted(i) => Admitted(i)'
  BY TablesStep DEF Admitted, Admission
<1>3. ASSUME NEW c \in Callers, RegisterWrite(c)
      PROVE  Grounded'
  <2>1. /\ call[c].improver \in Improvers \ db.improvers /\ Admitted(call[c].improver)
        /\ At(c, "register") /\ Return(c)
    BY <1>3, Registered
  <2>2. db'.improvers = db.improvers \cup {call[c].improver} /\ db.improvers \subseteq Improvers
    <3>1. PICK S : db' = [db EXCEPT !.improvers = @ \cup {call[c].improver}, !.champions = S]
      BY <1>3, Registered
    <3> QED
      BY <3>1 DEF IndInv, Types, TypeOK, Database
  <2>3. call'[c].step = "idle" /\ \A o \in Callers \ {c} : call'[o] = call[o]
    BY <1>1, <2>1, IdleIsHandler DEF Return, Become
  <2>4. \A i \in db'.improvers : Admitted(i)'
    BY <1>1, <1>2, <2>1, <2>2
  <2>5. Rooted(db'.improvers)
    <3>1. \A a \in db.improvers \cup {call[c].improver} : ParentOf[a] \in db.improvers \cup {None}
      BY <1>1, <2>1 DEF Admitted
    <3>2. Rooted(db.improvers \cup {call[c].improver})
      BY <1>1, <2>1, <2>2, <3>1, WalksStayGrounded
    <3> QED
      BY <2>2, <3>2
  <2>6. \A o \in Callers :
          /\ call'[o].step \in Proposing => call'[o].improver \in Improvers \ db'.improvers
          /\ At(o, "register")' => /\ Admitted(call[o].improver)'
                                   /\ call'[o] = call[o]
                                   /\ call'[o].read \in {call'[o].improver, None}
    BY <1>1, <1>2, <2>1, <2>2, <2>3 DEF Proposing, At
  <2>7. \A o, p \in Callers : o # p /\ call'[o].step \in Proposing /\ call'[p].step \in Proposing =>
                                call'[o].improver # call'[p].improver
    BY <1>1, <2>3 DEF Proposing
  <2>8. \A o \in Callers : At(o, "register")' => Admitted(call[o].improver)'
    BY <2>6
  <2> QED
    BY <2>4, <2>5, <2>6, <2>7, <2>8 DEF Grounded, Admitted, Rooted
<1>4. CASE \A c \in Callers : ~RegisterWrite(c)
  <2>1. db'.improvers = db.improvers
    BY <1>4, OthersKeepImprovers
  <2>2. \A i : Admitted(i)' <=> Admitted(i)
    BY <2>1 DEF Admitted, Admission
  <2>3. CASE UNCHANGED vars
    <3>1. call' = call
      BY <2>3 DEF vars
    <3> QED
      BY <1>1, <2>1, <2>2, <3>1 DEF Grounded, Rooted, At
  <2>4. CASE Crash
    <3>1. \A c \in Callers : call'[c].step = "idle"
      BY <2>4, IdleIsHandler DEF Crash
    <3> QED
      BY <1>1, <2>1, <2>2, <3>1 DEF Grounded, Rooted, At, Proposing
  <2>5. ASSUME NEW c \in Callers, Handle(c)
        PROVE  Grounded'
    <3>1. PICK h \in Handlers : call' = [call EXCEPT ![c] = h] /\ Moved(c, h)
      BY <2>5, CallStep DEF IndInv
    <3>2. call'[c] = h /\ \A o \in Callers \ {c} : call'[o] = call[o]
      BY <1>1, <3>1
    <3>3. h.step \in Proposing =>
            /\ h.improver \in Improvers \ db.improvers
            /\ \A o \in Callers \ {c} : call[o].step \in Proposing => call[o].improver # h.improver
      <4>1. CASE h = Idle
        BY <4>1, IdleIsHandler DEF Proposing
      <4>2. CASE Begins(h)
        BY <4>2 DEF Begins, Proposing
      <4>3. CASE Reads(c, h)
        BY <1>1, <4>3 DEF Reads, Proposing, At
      <4>4. CASE Advances(c, h)
        BY <4>4 DEF Advances, Order, Proposing
      <4> QED
        BY <3>1, <4>1, <4>2, <4>3, <4>4 DEF Moved
    <3>4. h.step = "register" => Admitted(h.improver) /\ h.read \in {h.improver, None}
      BY <3>1, IdleIsHandler DEF Moved, Begins, Reads, Advances, Order
    <3>5. \A o \in Callers :
            /\ call'[o].step \in Proposing => call'[o].improver \in Improvers \ db'.improvers
            /\ At(o, "register")' => /\ Admitted(call'[o].improver)
                                     /\ call'[o].read \in {call'[o].improver, None}
      BY <1>1, <2>1, <3>2, <3>3, <3>4 DEF At
    <3>6. \A o, p \in Callers : o # p /\ call'[o].step \in Proposing /\ call'[p].step \in Proposing =>
                                  call'[o].improver # call'[p].improver
      BY <1>1, <3>2, <3>3
    <3>7. \A o \in Callers : Admitted(call[o].improver)' <=> Admitted(call'[o].improver)
      BY <2>1 DEF Admitted, Admission
    <3> QED
      BY <1>1, <2>1, <2>2, <3>5, <3>6, <3>7 DEF Grounded, Rooted
  <2> QED
    BY <2>3, <2>4, <2>5, StepIsHandled
<1> QED
  BY <1>3, <1>4

-----------------------------------------------------------------------------
(***************************************************************************)
(* The decisions and the policies that rest on them.                       *)
(***************************************************************************)
LEMMA NumberedStep ==
  ASSUME IndInv, [Next]_vars
  PROVE  Numbered'
<1>1. /\ \A d \in db.decisions : d.no <= drawn /\ d.improver \in db.improvers
      /\ \A d, e \in db.decisions : d.no = e.no => d = e
      /\ \A c \in Callers : call[c].step \in Recording =>
           /\ call[c].decision \in Decisions /\ call[c].decision.no <= drawn
           /\ call[c].decision.improver = call[c].improver
           /\ \A d \in db.decisions : d.no # call[c].decision.no
           /\ \A o \in Callers \ {c} : call[o].step \in Recording => call[o].decision.no # call[c].decision.no
      /\ call \in [Callers -> Handlers] /\ drawn \in Nat
      /\ db.decisions \subseteq Decisions /\ \A d \in Decisions : d.no \in Nat
  BY ChampionAssumption DEF IndInv, Numbered, Types, TypeOK, Database, Decisions
<1>2. db.improvers \subseteq db'.improvers
  BY TablesStep
<1>3. ASSUME NEW c \in Callers, Decide(c) \/ RollbackRecord(c) \/ RollbackDecision(c)
      PROVE  Numbered'
  <2>1. /\ drawn' = drawn /\ call[c].step \in Recording
        /\ call[c].decision.improver = call[c].improver /\ call[c].improver \in db.improvers
        /\ call'[c].step \notin Recording
    BY <1>3, Recorded DEF Recording
  <2>2. db'.decisions = db.decisions \cup {call[c].decision}
    <3>1. db' = [db EXCEPT !.decisions = @ \cup {call[c].decision}]
      BY <1>3, Recorded
    <3> QED
      BY <3>1 DEF IndInv, Types, TypeOK, Database
  <2>3. \A o \in Callers \ {c} : call'[o] = call[o]
    BY <1>1, <1>3 DEF Decide, RollbackRecord, RollbackDecision, Return, Goto, Become
  <2>4. \A d \in db'.decisions : d.no <= drawn' /\ d.improver \in db'.improvers
    BY <1>1, <1>2, <2>1, <2>2
  <2>5. \A d, e \in db'.decisions : d.no = e.no => d = e
    BY <1>1, <2>1, <2>2
  <2>6. \A o \in Callers : call'[o].step \in Recording =>
          /\ call'[o].decision.no <= drawn'
          /\ call'[o].decision.improver = call'[o].improver
          /\ \A d \in db'.decisions : d.no # call'[o].decision.no
          /\ \A p \in Callers \ {o} : call'[p].step \in Recording => call'[p].decision.no # call'[o].decision.no
    BY <1>1, <2>1, <2>2, <2>3
  <2> QED
    BY <2>4, <2>5, <2>6 DEF Numbered
<1>4. CASE \A c \in Callers : ~Decide(c) /\ ~RollbackRecord(c) /\ ~RollbackDecision(c)
  <2>1. db'.decisions = db.decisions
    BY <1>4, OthersKeepDecisions
  <2>2. CASE UNCHANGED vars
    <3>1. call' = call /\ drawn' = drawn
      BY <2>2 DEF vars
    <3> QED
      BY <1>1, <1>2, <2>1, <3>1 DEF Numbered
  <2>3. CASE Crash
    <3>1. drawn' = drawn /\ \A c \in Callers : call'[c].step = "idle"
      BY <2>3, IdleIsHandler DEF Crash
    <3> QED
      BY <1>1, <1>2, <2>1, <3>1 DEF Numbered, Recording
  <2>4. ASSUME NEW c \in Callers, Handle(c)
        PROVE  Numbered'
    <3>1. PICK h \in Handlers : call' = [call EXCEPT ![c] = h] /\ Moved(c, h)
      BY <2>4, CallStep DEF IndInv
    <3>2. call'[c] = h /\ \A o \in Callers \ {c} : call'[o] = call[o]
      BY <1>1, <3>1
    <3>3. \/ h.step \notin Recording /\ drawn' = drawn
          \/ /\ call[c].step \in Recording /\ h.decision = call[c].decision
             /\ h.improver = call[c].improver /\ drawn' = drawn
          \/ h.decision.no = drawn + 1 /\ h.decision.improver = h.improver /\ drawn' = drawn + 1
      <4> USE DEF Recording
      <4>1. CASE h = Idle
        BY <3>1, <4>1, IdleIsHandler DEF Moved, Begins, Reads, Advances, Order
      <4>2. CASE Begins(h)
        BY <4>2 DEF Begins
      <4>3. CASE Reads(c, h) /\ drawn' = drawn
        BY <4>3 DEF Reads, At
      <4>4. CASE Advances(c, h) /\ drawn' = drawn
        BY <4>4 DEF Advances, Order, Same
      <4> QED
        BY <3>1, <4>1, <4>2, <4>3, <4>4 DEF Moved
    <3>4. drawn <= drawn' /\ drawn' \in Nat
      BY <1>1, <3>3
    <3>5. h.step \in Recording =>
            /\ h.decision.no <= drawn' /\ h.decision.improver = h.improver
            /\ \A d \in db.decisions : d.no # h.decision.no
            /\ \A o \in Callers \ {c} : call[o].step \in Recording => call[o].decision.no # h.decision.no
      BY <1>1, <3>3
    <3>6. \A o \in Callers : call'[o].step \in Recording =>
            /\ call'[o].decision.no <= drawn'
            /\ call'[o].decision.improver = call'[o].improver
            /\ \A d \in db'.decisions : d.no # call'[o].decision.no
            /\ \A p \in Callers \ {o} : call'[p].step \in Recording => call'[p].decision.no # call'[o].decision.no
      <4>1. \A o \in Callers \ {c} : call[o].step \in Recording => call[o].decision.no <= drawn'
        BY <1>1, <3>4
      <4> QED
        BY <1>1, <2>1, <3>2, <3>5, <4>1
    <3>7. \A d \in db'.decisions : d.no <= drawn' /\ d.improver \in db'.improvers
      BY <1>1, <1>2, <2>1, <3>4
    <3> QED
      BY <1>1, <2>1, <3>6, <3>7 DEF Numbered
  <2> QED
    BY <2>2, <2>3, <2>4, StepIsHandled
<1> QED
  BY <1>3, <1>4

LEMMA RestedStep ==
  ASSUME IndInv, [Next]_vars
  PROVE  Rested'
<1>1. /\ \A c \in Callers :
           /\ At(c, "promote") => call[c].decision \in db.decisions /\ Promotes(call[c].decision, call[c].improver)
           /\ call[c].step \in {"promoting", "policy"} => Rests(call[c].policy)
           /\ call[c].step \in {"restoring", "decision", "dethrone", "take back"} =>
                call[c].policy = NoPolicy \/ Rests(call[c].policy)
      /\ call \in [Callers -> Handlers]
      /\ \A p \in db.policies : Rests(p)
  BY DEF IndInv, Rested, Types
<1>2. db.decisions \subseteq db'.decisions
  BY TablesStep
<1>3. \A p : Rests(p) => \E d \in db'.decisions : d.no = p.decision /\ Promotes(d, p.improver)
  BY <1>2 DEF Rests
<1>4. \A p \in db'.policies \cup disk'.policies : \E d \in db'.decisions : d.no = p.decision /\ Promotes(d, p.improver)
  BY <1>3, TablesStep
<1>5. ASSUME \A c \in Callers :
               /\ call'[c].step = "promote" =>
                    call'[c].decision \in db.decisions /\ Promotes(call'[c].decision, call'[c].improver)
               /\ call'[c].step \in {"promoting", "policy"} => Rests(call'[c].policy)
               /\ call'[c].step \in {"restoring", "decision", "dethrone", "take back"} =>
                    call'[c].policy = NoPolicy \/ Rests(call'[c].policy)
      PROVE  Rested'
  BY <1>2, <1>3, <1>4, <1>5 DEF Rested, Rests, At, Promotes, HasAuthority, Admission
<1>6. CASE UNCHANGED vars
  <2>1. call' = call
    BY <1>6 DEF vars
  <2> QED
    BY <1>1, <1>5, <2>1 DEF At
<1>7. CASE Crash
  <2>1. \A c \in Callers : call'[c].step = "idle"
    BY <1>7, IdleIsHandler DEF Crash
  <2> QED
    BY <1>5, <2>1
<1>8. ASSUME NEW c \in Callers, Handle(c)
      PROVE  Rested'
  <2>1. PICK h \in Handlers : call' = [call EXCEPT ![c] = h] /\ Moved(c, h)
    BY <1>8, CallStep DEF IndInv
  <2>2. call'[c] = h /\ \A o \in Callers \ {c} : call'[o] = call[o]
    BY <1>1, <2>1
  <2>3. /\ h.step = "promote" => h.decision \in db.decisions /\ Promotes(h.decision, h.improver)
        /\ h.step \in {"promoting", "policy"} => Rests(h.policy)
        /\ h.step \in {"restoring", "decision", "dethrone", "take back"} =>
             h.policy = NoPolicy \/ Rests(h.policy)
    <3>1. CASE h = Idle
      BY <3>1, IdleIsHandler
    <3>2. CASE Begins(h)
      <4>1. CASE h.step = "promote"
        <5>1. /\ PromoteAllowed(h.improver) /\ h.decision = Latest(h.improver)
              /\ h.improver \in Improvers
          BY <3>2, <4>1 DEF Begins
        <5>2. h.decision \in db.decisions /\ h.decision.improver = h.improver
          BY <5>1, LatestIsRecorded DEF PromoteAllowed, IndInv
        <5> QED
          BY <4>1, <5>1, <5>2 DEF PromoteAllowed, Promotes
      <4> QED
        BY <3>2, <4>1 DEF Begins
    <3>3. CASE Reads(c, h)
      <4>1. CASE h.step = "promoting"
        <5>1. /\ At(c, "promote") /\ h.improver = call[c].improver
              /\ h.policy.decision = call[c].decision.no /\ h.policy.improver = call[c].improver
          BY <3>3, <4>1 DEF Reads
        <5> QED
          BY <1>1, <4>1, <5>1 DEF Rests
      <4>2. CASE h.step = "restoring"
        <5>1. At(c, "minting") /\ h.policy = Active(call[c].improver)
          BY <3>3, <4>2 DEF Reads
        <5>2. call[c].improver \in Improvers
          BY <5>1 DEF IndInv, Types, TypeOK, Database, At, Recording
        <5>3. h.policy = NoPolicy \/ h.policy \in db.policies
          BY <5>1, <5>2, ActiveIsMinted DEF IndInv
        <5> QED
          BY <1>1, <4>2, <5>3
      <4> QED
        BY <3>3, <4>1, <4>2 DEF Reads
    <3>4. CASE Advances(c, h)
      BY <1>1, <3>4 DEF Advances, Order, Same
    <3> QED
      BY <2>1, <3>1, <3>2, <3>3, <3>4 DEF Moved
  <2> QED
    BY <1>1, <1>5, <2>2, <2>3 DEF At
<1> QED
  BY <1>6, <1>7, <1>8, StepIsHandled

-----------------------------------------------------------------------------
(***************************************************************************)
(* The pointer, as long as no move was run into.                           *)
(***************************************************************************)
Mover(h) == h.step \notin {"idle", "digest", "decide"}

\* A tracked step that sets no clash: whoever moves is the handler of the step.
LEMMA MoverIsAlone ==
  ASSUME NEW c \in Callers, Track(c), ~clash'
  PROVE  ~clash /\ \A o \in Callers \ {c} : ~Moving(o)
BY DEF Track

\* What has to be shown of a handler's step.
LEMMA PointedAfter ==
  ASSUME Types, NEW c \in Callers, NEW h, call' = [call EXCEPT ![c] = h],
         \A o \in Callers \ {c} : ~Moving(o),
         One(db'.champions), One(disk'.champions),
         open' => h.step \in Within,
         Sees(h)'
  PROVE  Pointed'
<1>1. call'[c] = h /\ \A o \in Callers \ {c} : call'[o] = call[o]
  BY DEF Types
<1>2. \A o \in Callers \ {c} : ~Moving(o)'
  BY <1>1 DEF Moving
<1>3. \A o \in Callers \ {c} : Sees(call[o])'
  BY <1>1 DEF Moving, Sees
<1> QED
  BY <1>1, <1>2, <1>3 DEF Pointed

\* Nothing is open unless somebody is within a transaction.
LEMMA NothingIsOpen ==
  ASSUME Pointed, NEW c \in Callers, Track(c), ~clash', call[c].step \notin Within
  PROVE  ~open
<1>1. \A o \in Callers : call[o].step \in Within => Moving(o)
  BY DEF Within, Moving
<1> QED
  BY <1>1, MoverIsAlone DEF Pointed

\* The steps that neither move the pointer nor look at it.
LEMMA PointedElsewhere ==
  ASSUME IndInv, NEW c \in Callers, UNCHANGED <<db, disk, open, clash>>,
         \/ \E i \in Improvers : RegisterBegin(c, i)
         \/ \E i \in Improvers, human \in BOOLEAN, verdict \in {"promote", "reject"} :
              DecideBegin(c, i, verdict, human)
         \/ RegisterRefused(c) \/ (EnterRefused(c) /\ ~clash)
  PROVE  Pointed'
<1>1. \E h : call' = [call EXCEPT ![c] = h] /\ h.step \in {"idle", "digest", "decide"}
  <2>1. CASE \E i \in Improvers : RegisterBegin(c, i)
    <3>1. PICK h : h.step = "digest" /\ call' = [call EXCEPT ![c] = h]
      <4>1. PICK i : Become(c, [Idle EXCEPT !.step = "digest", !.improver = i])
        BY <2>1 DEF RegisterBegin
      <4>2. [Idle EXCEPT !.step = "digest", !.improver = i].step = "digest"
        BY DEF Idle
      <4> QED
        BY <4>1, <4>2 DEF Become
    <3> QED
      BY <3>1
  <2>2. CASE \E i \in Improvers, human \in BOOLEAN, verdict \in {"promote", "reject"} :
               DecideBegin(c, i, verdict, human)
    <3>1. PICK h : h.step = "decide" /\ call' = [call EXCEPT ![c] = h]
      <4>1. PICK i, read, d : Become(c, [Idle EXCEPT !.step = "decide", !.improver = i, !.read = read, !.decision = d])
        BY <2>2 DEF DecideBegin, Draw
      <4>2. [Idle EXCEPT !.step = "decide", !.improver = i, !.read = read, !.decision = d].step = "decide"
        BY DEF Idle
      <4> QED
        BY <4>1, <4>2 DEF Become
    <3> QED
      BY <3>1
  <2>3. CASE RegisterRefused(c) \/ EnterRefused(c)
    BY <2>3, IdleIsHandler DEF RegisterRefused, EnterRefused, Return, Become
  <2> QED
    BY <2>1, <2>2, <2>3
<1>2. PICK h : call' = [call EXCEPT ![c] = h] /\ h.step \in {"idle", "digest", "decide"}
  BY <1>1
<1>3. call'[c] = h /\ \A o \in Callers \ {c} : call'[o] = call[o]
  BY <1>2 DEF IndInv, Types
<1>4. ~Moving(c)' /\ \A o \in Callers \ {c} : Moving(o)' <=> Moving(o)
  BY <1>2, <1>3 DEF Moving
<1>5. ~clash => call[c].step \notin Within \/ ~open
  <2>1. CASE EnterRefused(c)
    <3>1. call[c].step \notin Within
      BY <2>1 DEF EnterRefused, At, Within
    <3> QED
      BY <3>1
  <2>2. CASE ~EnterRefused(c)
    <3>1. call[c].step \in {"idle", "digest"}
      BY <2>2, IdleIsHandler DEF RegisterBegin, RegisterRefused, DecideBegin, Draw, At
    <3> QED
      BY <3>1 DEF Within
  <2> QED
    BY <2>1, <2>2
<1>6. Sees(call[c])'
  BY <1>2, <1>3 DEF Sees
<1>7. \A o \in Callers \ {c} : Sees(call[o]) => Sees(call[o])'
  BY <1>3 DEF Sees
<1> QED
  BY <1>3, <1>4, <1>5, <1>6, <1>7 DEF IndInv, Pointed

LEMMA PointedStep ==
  ASSUME IndInv, [Next]_vars
  PROVE  Pointed'
<1> USE DEF Conn!Exec, Conn!Save, Conn!Commit, Conn!Rollback, Conn!Reopen, Conn!BeginTx,
            Conn!BeginRefused, Conn!connection
<1>1. Types /\ Pointed /\ call \in [Callers -> Handlers] /\ db \in Database
  BY DEF IndInv, Types, TypeOK
<1>2. CASE UNCHANGED vars
  <2>1. UNCHANGED <<db, disk, open, call, clash>>
    BY <1>2 DEF vars
  <2> QED
    BY <1>1, <2>1 DEF Pointed, Moving, Sees
<1>3. CASE Crash
  <2>1. db' = disk /\ disk' = disk /\ open' = FALSE /\ clash' = clash
          /\ \A c \in Callers : call'[c].step = "idle"
    BY <1>3, IdleIsHandler DEF Crash
  <2> QED
    BY <1>1, <2>1 DEF Pointed, Moving, Sees
<1>4. ASSUME NEW c \in Callers, Track(c), ~clash',
             NEW h \in Handlers, call' = [call EXCEPT ![c] = h],
             One(db'.champions), One(disk'.champions), open' => h.step \in Within, Sees(h)'
      PROVE  Pointed'
  BY <1>1, <1>4, PointedAfter, MoverIsAlone
<1>5. ASSUME NEW c \in Callers, Track(c), ~clash'
      PROVE  /\ One(db.champions) /\ One(disk.champions) /\ Sees(call[c])
             /\ call[c].step \notin Within => ~open
             /\ call[c] \in Handlers
  BY <1>1, <1>5, MoverIsAlone, NothingIsOpen DEF Pointed
<1>6. ASSUME NEW c \in Callers, ~clash',
             \/ RegisterWrite(c) \/ Decide(c) \/ RollbackRecord(c) \/ Commit(c)
      PROVE  Pointed'
  <2>1. Track(c) /\ call' = [call EXCEPT ![c] = Idle] /\ open' = FALSE /\ disk' = db'
    BY <1>6 DEF RegisterWrite, Decide, RollbackRecord, Commit, Return, Become
  <2>2. One(db'.champions)
    <3>1. CASE RegisterWrite(c)
      <4>1. db'.champions = db.champions \cup ({call[c].read} \ {None})
        BY <1>1, <3>1 DEF RegisterWrite, Database
      <4>2. call[c].read # None => db.champions = {}
        BY <1>5, <1>6, <2>1, <3>1 DEF RegisterWrite, At, Sees
      <4> QED
        BY <1>5, <1>6, <2>1, <4>1, <4>2 DEF One
    <3>2. CASE ~RegisterWrite(c)
      <4>1. db'.champions = db.champions
        BY <1>1, <1>6, <3>2 DEF Decide, RollbackRecord, Commit, Database
      <4> QED
        BY <1>5, <1>6, <2>1, <4>1
    <3> QED
      BY <3>1, <3>2
  <2>3. Sees(Idle)'
    BY IdleIsHandler DEF Sees
  <2> QED
    BY <1>4, <1>6, <2>1, <2>2, <2>3, IdleIsHandler
<1>7. ASSUME NEW c \in Callers, ~clash',
             \/ RegisterRead(c) \/ PromoteRead(c) \/ RollbackRead(c)
             \/ \E i \in Improvers : PromoteBegin(c, i) \/ RollbackBegin(c, i)
      PROVE  Pointed'
  <2>1. Track(c) /\ db' = db /\ disk' = disk /\ open' = open /\ call[c].step \notin Within
    BY <1>7, IdleIsHandler DEF RegisterRead, PromoteRead, RollbackRead, PromoteBegin,
       RollbackBegin, Draw,
                               At, Within
  <2>2. \E h \in Handlers : call' = [call EXCEPT ![c] = h] /\ Sees(h)
    <3>1. CASE RegisterRead(c)
      <4>1. PICK read \in {call[c].improver, None} :
              /\ call' = [call EXCEPT ![c] = [call[c] EXCEPT !.step = "register", !.read = read]]
              /\ read # None => db.champions = {}
        BY <3>1 DEF RegisterRead, Become
      <4>2. PICK h : h = [call[c] EXCEPT !.step = "register", !.read = read]
        OBVIOUS
      <4>3. call[c].improver \in Improvers \cup {None}
        BY <1>1 DEF Handlers
      <4>4. h \in Handlers /\ h.step = "register" /\ h.read = read
        BY <1>1, <4>2, <4>3 DEF Handlers, Steps, Proposing
      <4> QED
        BY <4>1, <4>2, <4>4 DEF Sees
    <3>2. CASE PromoteRead(c)
      <4>1. PICK h \in Handlers : call' = [call EXCEPT ![c] = h]
        BY <1>7, CallStep DEF Handle, IndInv
      <4>2. PICK previous :
              /\ previous \in IF db.champions = {} THEN {None} ELSE db.champions
              /\ call' = [call EXCEPT ![c] =
                            [call[c] EXCEPT !.step = "promoting",
                               !.policy = [improver |-> call[c].improver, status |-> "active",
                                           decision |-> call[c].decision.no, previous |-> previous]]]
        BY <3>2 DEF PromoteRead, Become
      <4>3. h.step = "promoting" /\ h.policy.previous = previous
        <5>1. h = [call[c] EXCEPT !.step = "promoting",
                     !.policy = [improver |-> call[c].improver, status |-> "active",
                                 decision |-> call[c].decision.no, previous |-> previous]]
          BY <1>1, <4>1, <4>2
        <5> QED
          BY <1>1, <5>1 DEF Handlers
      <4>4. db.champions \subseteq {previous}
        BY <1>5, <1>7, <2>1, <4>2 DEF One
      <4> QED
        BY <4>1, <4>3, <4>4 DEF Sees
    <3>3. CASE RollbackRead(c)
      <4>1. PICK h \in Handlers : call' = [call EXCEPT ![c] = h]
        BY <1>7, CallStep DEF Handle, IndInv
      <4>2. call' = [call EXCEPT ![c] = [call[c] EXCEPT !.step = "restoring", !.policy = Active(call[c].improver)]]
        BY <3>3 DEF RollbackRead, Become
      <4>3. h.step = "restoring" /\ h.improver = call[c].improver
        <5>1. h = [call[c] EXCEPT !.step = "restoring", !.policy = Active(call[c].improver)]
          BY <1>1, <4>1, <4>2
        <5> QED
          BY <1>1, <5>1 DEF Handlers
      <4>4. db.champions \subseteq {call[c].improver}
        BY <1>5, <1>7, <2>1, <3>3 DEF RollbackRead, At, Sees
      <4> QED
        BY <4>1, <4>3, <4>4 DEF Sees
    <3>4. ASSUME NEW i \in Improvers, PromoteBegin(c, i)
          PROVE  \E h \in Handlers : call' = [call EXCEPT ![c] = h] /\ Sees(h)
      <4>1. PICK h \in Handlers : call' = [call EXCEPT ![c] = h]
        BY <1>7, CallStep DEF Handle, IndInv
      <4>2. h.step = "promote"
        <5>1. h = [Idle EXCEPT !.step = "promote", !.improver = i, !.decision = Latest(i)]
          BY <1>1, <3>4, <4>1 DEF PromoteBegin, Become
        <5> QED
          BY <5>1 DEF Idle
      <4> QED
        BY <4>1, <4>2 DEF Sees
    <3>5. ASSUME NEW i \in Improvers, RollbackBegin(c, i)
          PROVE  \E h \in Handlers : call' = [call EXCEPT ![c] = h] /\ Sees(h)
      <4>1. PICK h \in Handlers : call' = [call EXCEPT ![c] = h]
        BY <1>7, CallStep DEF Handle, IndInv
      <4>2. PICK read, d :
              /\ read = IF i \in db.champions THEN i ELSE None
              /\ call' = [call EXCEPT ![c] = [Idle EXCEPT !.step = "minting", !.improver = i, !.read = read, !.decision = d]]
        BY <3>5 DEF RollbackBegin, Draw, Become
      <4>3. h.step = "minting" /\ h.improver = i /\ h.read = read
        <5>1. h = [Idle EXCEPT !.step = "minting", !.improver = i, !.read = read, !.decision = d]
          BY <1>1, <4>1, <4>2
        <5> QED
          BY <5>1 DEF Idle
      <4>4. read # None => db.champions \subseteq {i}
        BY <1>5, <1>7, <2>1, <4>2 DEF One
      <4> QED
        BY <4>1, <4>3, <4>4 DEF Sees
    <3> QED
      BY <1>7, <3>1, <3>2, <3>3, <3>4, <3>5
  <2>3. PICK h \in Handlers : call' = [call EXCEPT ![c] = h] /\ Sees(h)
    BY <2>2
  <2>4. Sees(h)'
    BY <2>1, <2>3 DEF Sees
  <2>5. ~open
    BY <1>5, <1>7, <2>1
  <2> QED
    BY <1>4, <1>5, <1>7, <2>1, <2>3, <2>4, <2>5
<1>8. ASSUME NEW c \in Callers, ~clash',
             \/ Enter(c) \/ PromotePolicy(c) \/ PromoteDisplace(c) \/ PromoteCrown(c)
             \/ RollbackDecision(c) \/ RollbackDethrone(c) \/ RollbackPolicy(c) \/ RollbackRestore(c)
      PROVE  Pointed'
  <2>1. Track(c)
    BY <1>8 DEF Enter, PromotePolicy, PromoteDisplace, PromoteCrown, RollbackDecision,
                RollbackDethrone, RollbackPolicy, RollbackRestore, Statement
  <2>2. PICK h \in Handlers : call' = [call EXCEPT ![c] = h] /\ Moved(c, h)
    BY <1>8, CallStep DEF Handle, IndInv
  <2>3. One(db.champions) /\ One(disk.champions) /\ Sees(call[c])
    BY <1>5, <1>8, <2>1
  <2>4. ASSUME NEW step \in Steps, Goto(c, step)
        PROVE  h.step = step /\ h.policy = call[c].policy /\ h.improver = call[c].improver
    <3>1. h = [call[c] EXCEPT !.step = step]
      BY <1>1, <2>2, <2>4 DEF Goto, Become
    <3> QED
      BY <1>1, <3>1, HandlerFields
  <2>5. CASE Enter(c)
    <3>1. db' = db /\ disk' = disk
      BY <2>5 DEF Enter
    <3>2. \/ At(c, "promoting") /\ Goto(c, "policy")
          \/ At(c, "restoring") /\ Goto(c, "decision")
      BY <2>5 DEF Enter
    <3>3. \/ At(c, "promoting") /\ h.step = "policy" /\ h.policy = call[c].policy
          \/ At(c, "restoring") /\ h.step = "decision" /\ h.improver = call[c].improver
      BY <2>4, <3>2 DEF Steps, Promoting, Recording
    <3>4. Sees(h)'
      BY <2>3, <3>1, <3>3 DEF Sees, At
    <3> QED
      BY <1>4, <1>8, <2>1, <2>2, <2>3, <3>1, <3>3, <3>4 DEF Within
  <2>6. CASE PromotePolicy(c)
    <3>1. /\ db'.champions = db.champions /\ disk' = disk
          /\ At(c, "policy") /\ Goto(c, "displace")
      BY <1>1, <2>6 DEF PromotePolicy, Statement, Database
    <3>2. h.step = "displace" /\ h.policy = call[c].policy
      BY <2>4, <3>1 DEF Steps, Promoting
    <3>3. Sees(h)'
      BY <2>3, <3>1, <3>2 DEF Sees, At
    <3> QED
      BY <1>4, <1>8, <2>1, <2>2, <2>3, <3>1, <3>2, <3>3 DEF Within
  <2>7. CASE PromoteDisplace(c)
    <3>1. /\ db'.champions = db.champions \ {call[c].policy.previous} /\ disk' = disk
          /\ At(c, "displace") /\ Goto(c, "crown")
      BY <1>1, <2>7 DEF PromoteDisplace, Statement, Database
    <3>2. h.step = "crown"
      BY <2>4, <3>1 DEF Steps, Promoting
    <3>3. db'.champions = {}
      BY <2>3, <3>1 DEF Sees, At
    <3>4. Sees(h)' /\ One(db'.champions)
      BY <3>2, <3>3 DEF Sees, One
    <3> QED
      BY <1>4, <1>8, <2>1, <2>2, <2>3, <3>1, <3>2, <3>4 DEF Within
  <2>8. CASE PromoteCrown(c)
    <3>1. /\ db'.champions = db.champions \cup {call[c].improver} /\ disk' = disk
          /\ At(c, "crown") /\ Goto(c, "commit")
      BY <1>1, <2>8 DEF PromoteCrown, Statement, Database
    <3>2. h.step = "commit"
      BY <2>4, <3>1 DEF Steps
    <3>3. One(db'.champions)
      BY <2>3, <3>1 DEF Sees, At, One
    <3>4. Sees(h)'
      BY <3>2 DEF Sees
    <3> QED
      BY <1>4, <1>8, <2>1, <2>2, <2>3, <3>1, <3>2, <3>3, <3>4 DEF Within
  <2>9. CASE RollbackDecision(c)
    <3>1. /\ db'.champions = db.champions /\ disk' = db' /\ open' = FALSE
          /\ At(c, "decision") /\ Goto(c, "dethrone")
      BY <1>1, <2>9 DEF RollbackDecision, Database
    <3>2. h.step = "dethrone" /\ h.improver = call[c].improver
      BY <2>4, <3>1 DEF Steps, Restoring
    <3>3. Sees(h)'
      BY <2>3, <3>1, <3>2 DEF Sees, At
    <3> QED
      BY <1>4, <1>8, <2>1, <2>2, <2>3, <3>1, <3>3
  <2>10. CASE RollbackDethrone(c)
    <3>1. /\ db'.champions = db.champions \ {call[c].improver} /\ disk' = disk
          /\ At(c, "dethrone") /\ Goto(c, "take back")
      BY <1>1, <2>10 DEF RollbackDethrone, Statement, Database
    <3>2. h.step = "take back"
      BY <2>4, <3>1 DEF Steps, Restoring
    <3>3. db'.champions = {}
      BY <2>3, <3>1 DEF Sees, At
    <3>4. Sees(h)' /\ One(db'.champions)
      BY <3>2, <3>3 DEF Sees, One
    <3> QED
      BY <1>4, <1>8, <2>1, <2>2, <2>3, <3>1, <3>2, <3>4 DEF Within
  <2>11. CASE RollbackPolicy(c)
    <3>1. disk' = disk /\ At(c, "take back") /\ Goto(c, "restore")
      BY <2>11 DEF RollbackPolicy, Statement
    <3>2. db'.champions = db.champions
      <4>1. PICK S : db' = [db EXCEPT !.policies = S]
        BY <2>11, Minted
      <4> QED
        BY <1>1, <4>1 DEF Database
    <3>3. h.step = "restore"
      BY <2>4, <3>1 DEF Steps, Restoring
    <3>4. Sees(h)'
      BY <2>3, <3>1, <3>2, <3>3 DEF Sees, At
    <3> QED
      BY <1>4, <1>8, <2>1, <2>2, <2>3, <3>1, <3>2, <3>3, <3>4 DEF Within
  <2>12. CASE RollbackRestore(c)
    <3>1. /\ db'.champions = db.champions \cup ({Restored(c)} \cap db.improvers) /\ disk' = disk
          /\ At(c, "restore") /\ Goto(c, "commit")
      BY <1>1, <2>12 DEF RollbackRestore, Statement, Database
    <3>2. h.step = "commit"
      BY <2>4, <3>1 DEF Steps
    <3>3. One(db'.champions)
      BY <2>3, <3>1 DEF Sees, At, One
    <3>4. Sees(h)'
      BY <3>2 DEF Sees
    <3> QED
      BY <1>4, <1>8, <2>1, <2>2, <2>3, <3>1, <3>2, <3>3, <3>4 DEF Within
  <2> QED
    BY <1>8, <2>5, <2>6, <2>7, <2>8, <2>9, <2>10, <2>11, <2>12
<1>9. ASSUME NEW c \in Callers, Handle(c)
      PROVE  Pointed'
  <2>1. CASE clash'
    BY <2>1 DEF Pointed
  <2>2. CASE ~clash'
    <3>1. ASSUME \/ \E i \in Improvers : RegisterBegin(c, i)
                 \/ \E i \in Improvers, human \in BOOLEAN, verdict \in {"promote", "reject"} :
                      DecideBegin(c, i, verdict, human)
                 \/ RegisterRefused(c) \/ EnterRefused(c)
          PROVE  Pointed'
      <4>1. UNCHANGED <<db, disk, open, clash>>
        BY <3>1 DEF RegisterBegin, DecideBegin, RegisterRefused, EnterRefused
      <4> QED
        BY <2>2, <3>1, <4>1, PointedElsewhere
    <3> QED
      BY <1>6, <1>7, <1>8, <1>9, <2>2, <3>1 DEF Handle
  <2> QED
    BY <2>1, <2>2
<1> QED
  BY <1>2, <1>3, <1>9, StepIsHandled

-----------------------------------------------------------------------------
(***************************************************************************)
(* The theorems.                                                           *)
(***************************************************************************)
\* Whatever handlers overlap and whenever the process dies, the server's tables
\* keep to the inductive invariant.
THEOREM Invariance == Spec => []IndInv
<1>1. Init => IndInv
  <2> SUFFICES ASSUME Init PROVE IndInv
    OBVIOUS
  <2>1. /\ db = [improvers |-> {}, champions |-> {}, decisions |-> {}, policies |-> {}]
        /\ disk = db /\ open = FALSE /\ drawn = 0
        /\ call \in [Callers -> Handlers] /\ \A c \in Callers : call[c].step = "idle"
    <3>1. call = [c \in Callers |-> Idle]
      BY DEF Init
    <3>2. call \in [Callers -> Handlers] /\ \A c \in Callers : call[c].step = "idle"
      BY <3>1, IdleIsHandler
    <3> QED
      BY <3>2 DEF Init
  <2>2. Types
    <3>1. db \in Database /\ db.champions = {}
      BY <2>1 DEF Database
    <3>2. drawn \in 0 .. MaxDecisions
      BY <2>1, ChampionAssumption
    <3> QED
      BY <2>1, <3>1, <3>2 DEF Types, TypeOK, Recording, Promoting, Restoring
  <2>3. Grounded
    BY <2>1 DEF Grounded, Rooted, Proposing, At
  <2>4. Numbered
    BY <2>1 DEF Numbered, Recording
  <2>5. Rested
    BY <2>1 DEF Rested, At
  <2>6. Pointed
    BY <2>1 DEF Pointed, One, Moving, Sees
  <2> QED
    BY <2>2, <2>3, <2>4, <2>5, <2>6 DEF IndInv
<1>2. IndInv /\ [Next]_vars => IndInv'
  BY TypesStep, GroundedStep, NumberedStep, RestedStep, PointedStep DEF IndInv
<1> QED
  BY <1>1, <1>2, PTL DEF Spec

\* single_champion finds nothing on the disk, whatever is promoted, rolled back
\* and registered in whichever order and wherever the process dies, unless a
\* handler ran into another one's move of the pointer.
THEOREM OnePointer == Spec => []SingleChampion
<1>1. ASSUME IndInv PROVE SingleChampion
  <2>1. SUFFICES ASSUME ~clash PROVE Cardinality(disk.champions) <= 1
    BY DEF SingleChampion, single_champion
  <2>2. \A x, y \in disk.champions : x = y
    BY <1>1, <2>1 DEF IndInv, Pointed, One
  <2>3. disk.champions = {} \/ \E x : disk.champions = {x}
    BY <2>2
  <2>4. CASE disk.champions = {}
    <3>1. Cardinality(disk.champions) = 0
      BY <2>4, FS_EmptySet
    <3> QED
      BY <3>1
  <2>5. CASE \E x : disk.champions = {x}
    <3>1. Cardinality(disk.champions) = 1
      BY <2>5, FS_Singleton
    <3> QED
      BY <3>1
  <2> QED
    BY <2>3, <2>4, <2>5
<1> QED
  BY <1>1, Invariance, PTL

\* The lineage is sound, every decision is about an improver that exists, and a
\* policy rests on a recorded decision to promote its improver, a person's
\* unless only modifiable components were touched, whatever overlaps.
THEOREM AuthorisedPolicies == Spec => []PoliciesAreAuthorised
<1>1. ASSUME IndInv PROVE PoliciesAreAuthorised
  <2>1. /\ disk.improvers = db.improvers /\ disk.decisions = db.decisions
        /\ disk.decisions \subseteq Decisions /\ disk.policies \subseteq Policies
        /\ disk.improvers \subseteq Improvers
    BY <1>1 DEF IndInv, Types, TypeOK, Database
  <2>2. lineage_integrity = {}
    BY <1>1, <2>1 DEF lineage_integrity, IndInv, Grounded, Rooted, Admitted
  <2>3. decisions_reference_candidates = {}
    BY <1>1, <2>1 DEF decisions_reference_candidates, IndInv, Numbered
  <2>4. ASSUME NEW p \in disk.policies
        PROVE  \E d \in disk.decisions : d.no = p.decision /\ Promotes(d, p.improver)
    BY <1>1, <2>1 DEF IndInv, Rested, Rests
  <2>5. conditional_human_gate = {}
    <3>1. ASSUME NEW p \in disk.policies, Admission(Touched[p.improver]) = "conditional",
                 NEW d \in disk.decisions, d.no = p.decision, ~d.human
          PROVE  FALSE
      <4>1. PICK e \in disk.decisions : e.no = p.decision /\ Promotes(e, p.improver)
        BY <2>4
      <4>2. e = d
        BY <1>1, <2>1, <3>1, <4>1 DEF IndInv, Numbered
      <4> QED
        BY <3>1, <4>1, <4>2 DEF Promotes, HasAuthority
    <3> QED
      BY <3>1 DEF conditional_human_gate
  <2>6. ASSUME NEW i \in disk.improvers, Admission(Touched[i]) # "conditional"
        PROVE  Touched[i] \subseteq {"modifiable"}
    <3>1. Touched[i] \subseteq Classes /\ Admission(Touched[i]) # "rejected"
      BY <1>1, <2>1, ChampionAssumption DEF IndInv, Grounded, Admitted
    <3> QED
      BY <2>6, <3>1 DEF Admission, Classes
  <2>7. ASSUME NEW p \in disk.policies
        PROVE  \E d \in disk.decisions :
                 /\ d.no = p.decision /\ d.improver = p.improver /\ d.verdict = "promote"
                 /\ Touched[p.improver] \subseteq {"modifiable"} \/ d.human
    <3>1. PICK d \in disk.decisions : d.no = p.decision /\ Promotes(d, p.improver)
      BY <2>4
    <3>2. p.improver \in disk.improvers
      BY <1>1, <2>1, <3>1 DEF IndInv, Numbered, Promotes
    <3>3. Touched[p.improver] \subseteq {"modifiable"} \/ d.human
      BY <2>6, <3>1, <3>2 DEF Promotes, HasAuthority
    <3> QED
      BY <3>1, <3>3 DEF Promotes
  <2> QED
    BY <2>2, <2>3, <2>5, <2>7 DEF PoliciesAreAuthorised
<1> QED
  BY <1>1, Invariance, PTL
-----------------------------------------------------------------------------
(***************************************************************************)
(* The channel and the campaigns of arms. A call is in one place, in the   *)
(* queue or in what one task awaits, until the peer has executed it        *)
(* (Placed), and whose future has an answer was executed (Answered); on    *)
(* the hub no ping reports a failure, so that nothing that works is        *)
(* dropped (Probed). Who opened a campaign for an arm that is not unsure   *)
(* is alone, and once it has returned the arm is linked (Linking).         *)
(***************************************************************************)
Queued == [op : {"call"}, id : Requests] \cup [op : {"ping"}, id : Nat]
Awaited == Queued \cup [op : {"executed"}, id : Requests] \cup {Arm!Nothing}
Links == [arm : Arms \cup {Nobody}, verb : {"none", "open", "verb"}]

ChannelTypes ==
  /\ server \in {"loop", "hub"}
  /\ queue \in Seq(Queued) /\ serving \in [Arm!Attempts -> Awaited]
  /\ probes \in Seq([answer : {"ok", "error"}, id : Nat]) /\ seq \in Nat
  /\ future \in [Requests -> {"new", "waiting", "timeout", "ok", "error"}]
  /\ executed \in [Requests -> {0, 1}]

\* A call is in one place until it is executed.
Placed ==
  /\ \A i, j \in 1..Len(queue) :
       queue[i].op = "call" /\ queue[j].op = "call" /\ queue[i].id = queue[j].id => i = j
  /\ \A i \in 1..Len(queue), t \in Arm!Attempts :
       queue[i].op = "call" /\ serving[t].op = "call" => queue[i].id # serving[t].id
  /\ \A t, u \in Arm!Attempts :
       serving[t].op = "call" /\ serving[u].op = "call" /\ serving[t].id = serving[u].id => t = u

Unexecuted(r) == future[r] # "new" /\ executed[r] = 0
Answered ==
  /\ \A i \in 1..Len(queue) : queue[i].op = "call" => Unexecuted(queue[i].id)
  /\ \A t \in Arm!Attempts : serving[t].op = "call" => Unexecuted(serving[t].id)
  /\ \A t \in Arm!Attempts : serving[t].op = "executed" => executed[serving[t].id] = 1
  /\ \A r \in Requests : executed[r] = 1 => future[r] # "new"
  /\ \A r \in Requests : future[r] = "ok" => executed[r] = 1

\* On the hub no ping ever reports a failure.
Probed == server = "hub" => cut = 0 /\ \A i \in 1..Len(probes) : probes[i].answer = "ok"

Opens(r, arm) == about[r] = [arm |-> arm, verb |-> "open"] /\ future[r] # "new"
LinkTypes ==
  /\ link \in [Arms -> Requests \cup {Nobody}]
  /\ about \in [Requests -> Links]
  /\ handled \subseteq Requests /\ unsure \subseteq Arms
  /\ \A r \in Requests : about[r].verb = "open" => about[r].arm \in Arms

\* Whoever opened a campaign for an arm is alone, or it is unsure, and once it
\* has returned the arm is linked.
Linking ==
  /\ \A arm \in Arms : link[arm] # Nobody => Opens(link[arm], arm) /\ executed[link[arm]] = 1
  /\ \A arm \in Arms \ unsure, r \in Requests :
       /\ Opens(r, arm) /\ r \in handled => link[arm] # Nobody
       /\ \A s \in Requests : Opens(r, arm) /\ Opens(s, arm) => r = s
  /\ \A r \in handled : future[r] # "new"

ChannelInv == ChannelTypes /\ Placed /\ Answered /\ Probed /\ LinkTypes /\ Linking
-----------------------------------------------------------------------------
LEMMA QueuedIsEither ==
  ASSUME ChannelTypes
  PROVE  /\ \A i \in 1..Len(queue) : queue[i] \in Queued /\ (queue[i].op = "call" => queue[i].id \in Requests)
         /\ \A t \in Arm!Attempts :
              /\ serving[t] \in Awaited
              /\ serving[t].op \in {"call", "executed"} => serving[t].id \in Requests
              /\ serving[t].op = "ping" => serving[t].id \in Nat
         /\ Arm!Nothing \in Awaited /\ Arm!Nothing.op = "none" /\ Len(queue) \in Nat
<1>1. \A i \in 1..Len(queue) : queue[i] \in Queued
  BY DEF ChannelTypes
<1>2. \A x \in Queued : x.op = "call" => x.id \in Requests
  BY DEF Queued
<1>3. \A x \in Awaited : /\ x.op \in {"call", "executed"} => x.id \in Requests
                         /\ x.op = "ping" => x.id \in Nat
  BY DEF Queued, Awaited, Arm!Nothing
<1>4. Len(queue) \in Nat
  BY DEF ChannelTypes
<1>5. Arm!Nothing \in Awaited /\ Arm!Nothing.op = "none"
  BY DEF Awaited, Arm!Nothing
<1>6. \A t \in Arm!Attempts : serving[t] \in Awaited
  BY DEF ChannelTypes
<1> QED BY <1>1, <1>2, <1>3, <1>4, <1>5, <1>6

\* What is queued and awaited only becomes less, and futures are settled.
LEMMA Fewer ==
  ASSUME ChannelTypes, Placed, Answered, queue' \in {queue, << >>},
         \A t \in Arm!Attempts : serving'[t] \in {serving[t], Arm!Nothing}, UNCHANGED executed,
         \A r \in Requests : future[r] # "new" => future'[r] # "new",
         \A r \in Requests : future'[r] = "ok" => executed[r] = 1
  PROVE  Placed' /\ Answered'
<1>1. Arm!Nothing.op = "none" /\ Len(<< >>) = 0
  BY DEF Arm!Nothing
<1>2. \A t \in Arm!Attempts : serving'[t] = serving[t] \/ serving'[t].op = "none"
  BY <1>1
<1>3. \A i \in 1..Len(queue') : i \in 1..Len(queue) /\ queue'[i] = queue[i]
  BY <1>1
<1>4. Placed'
  BY <1>2, <1>3 DEF Placed
<1>5. \A i \in 1..Len(queue') : queue'[i].op = "call" =>
          future'[queue'[i].id] # "new" /\ executed'[queue'[i].id] = 0
  <2> SUFFICES ASSUME NEW i \in 1..Len(queue'), queue'[i].op = "call" PROVE future'[queue'[i].id] # "new" /\ executed'[queue'[i].id] = 0
    OBVIOUS
  <2>1. queue[i].id \in Requests /\ future[queue[i].id] # "new" /\ executed[queue[i].id] = 0 /\ queue'[i] = queue[i]
    BY <1>3, QueuedIsEither DEF Answered, Unexecuted
  <2> QED BY <2>1 DEF Unexecuted
<1>6. \A t \in Arm!Attempts : serving'[t].op = "call" =>
          future'[serving'[t].id] # "new" /\ executed'[serving'[t].id] = 0
  <2> SUFFICES ASSUME NEW t \in Arm!Attempts, serving'[t].op = "call" PROVE future'[serving'[t].id] # "new" /\ executed'[serving'[t].id] = 0
    OBVIOUS
  <2>1. /\ serving[t].id \in Requests /\ future[serving[t].id] # "new" /\ executed[serving[t].id] = 0
        /\ serving'[t] = serving[t]
    BY <1>2, QueuedIsEither DEF Answered, Unexecuted
  <2> QED BY <2>1 DEF Unexecuted
<1>7. \A t \in Arm!Attempts : serving'[t].op = "executed" => executed'[serving'[t].id] = 1
  BY <1>2 DEF Answered
<1>8. \A r \in Requests : (executed'[r] = 1 => future'[r] # "new") /\ (future'[r] = "ok" => executed'[r] = 1)
  BY DEF Answered
<1> QED BY <1>4, <1>5, <1>6, <1>7, <1>8 DEF Answered, Unexecuted

\* Nothing that links rest on changes.
LEMMA LinksKeep ==
  ASSUME LinkTypes, Linking, UNCHANGED Arm!armVars,
         \A r \in Requests : (future'[r] = "new") = (future[r] = "new"),
         \A r \in Requests : executed[r] = 1 => executed'[r] = 1
  PROVE  LinkTypes' /\ Linking'
<1>1. UNCHANGED <<link, about, handled, unsure>>
  BY DEF Arm!armVars
<1>2. LinkTypes'
  BY <1>1 DEF LinkTypes
<1>3. ASSUME NEW r \in Requests, NEW arm PROVE Opens(r, arm)' <=> Opens(r, arm)
  BY <1>1 DEF Opens
<1>4. ASSUME NEW arm \in Arms, link[arm] # Nobody PROVE Opens(link[arm], arm)' /\ executed'[link[arm]] = 1
  <2>1. link[arm] \in Requests /\ Opens(link[arm], arm) /\ executed[link[arm]] = 1
    BY <1>4 DEF LinkTypes, Linking
  <2> QED BY <1>1, <2>1 DEF Opens
<1>5. \A r \in handled' : future'[r] # "new"
  BY <1>1 DEF LinkTypes, Linking
<1> QED BY <1>1, <1>2, <1>3, <1>4, <1>5 DEF Linking

LEMMA FewerKeeps ==
  ASSUME ChannelInv, UNCHANGED <<server, executed, Arm!armVars>>, queue' \in {queue, << >>},
         serving' \in [Arm!Attempts -> Awaited], \A t \in Arm!Attempts : serving'[t] \in {serving[t], Arm!Nothing},
         probes' \in Seq([answer : {"ok", "error"}, id : Nat]), seq' \in Nat, Probed',
         \/ UNCHANGED future
         \/ \E r \in Requests, answer \in {"timeout", "ok", "error"} :
              /\ future[r] = "waiting" /\ future' = [future EXCEPT ![r] = answer]
              /\ answer = "ok" => executed[r] = 1
  PROVE  ChannelInv'
<1>1. /\ future' \in [Requests -> {"new", "waiting", "timeout", "ok", "error"}]
      /\ \A r \in Requests : (future'[r] = "new") = (future[r] = "new")
      /\ \A r \in Requests : future'[r] = "ok" => executed[r] = 1
  BY DEF ChannelInv, ChannelTypes, Answered
<1>2. ChannelTypes'
  <2>1. queue' \in Seq(Queued)
    <3>1. queue \in Seq(Queued) /\ << >> \in Seq(Queued)
      BY DEF ChannelInv, ChannelTypes
    <3> QED BY <3>1
  <2> QED BY <1>1, <2>1 DEF ChannelInv, ChannelTypes
<1>3. Placed' /\ Answered'
  BY <1>1, Fewer DEF ChannelInv
<1>4. LinkTypes' /\ Linking'
  BY <1>1, LinksKeep DEF ChannelInv
<1> QED BY <1>2, <1>3, <1>4 DEF ChannelInv

-----------------------------------------------------------------------------
\* Steps that touch neither the queues nor what is awaited.
LEMMA QuietKeeps ==
  ASSUME ChannelInv, UNCHANGED <<server, queue, serving, probes, seq, future, executed, cut, Arm!armVars>>
  PROVE  ChannelInv'
BY FewerKeeps DEF ChannelInv, ChannelTypes, Probed

LEMMA CallTimeoutKeeps ==
  ASSUME ChannelInv, UNCHANGED Arm!armVars, NEW r \in Requests, Arm!CallTimeout(r)
  PROVE  ChannelInv'
<1>1. future[r] = "waiting" /\ future' = [future EXCEPT ![r] = "timeout"]
      /\ UNCHANGED <<server, queue, serving, probes, seq, executed, cut>>
  BY DEF Arm!CallTimeout, Arm!adaptor
<1> QED BY <1>1, FewerKeeps DEF ChannelInv, ChannelTypes, Probed

\* A task awaits nothing any more.
LEMMA ServedKeeps ==
  ASSUME ChannelInv, UNCHANGED <<server, queue, probes, seq, executed, cut, Arm!armVars>>,
         NEW t \in Arm!Attempts, Arm!Served(t),
         \/ UNCHANGED future
         \/ \E r \in Requests, answer \in {"timeout", "ok", "error"} :
              /\ future[r] = "waiting" /\ future' = [future EXCEPT ![r] = answer]
              /\ answer = "ok" => executed[r] = 1
  PROVE  ChannelInv'
<1>1. /\ serving' \in [Arm!Attempts -> Awaited] /\ \A u \in Arm!Attempts : serving'[u] \in {serving[u], Arm!Nothing}
  BY QueuedIsEither DEF ChannelInv, ChannelTypes, Arm!Served
<1> QED BY <1>1, FewerKeeps DEF ChannelInv, ChannelTypes, Probed

LEMMA AnswersKeep ==
  ASSUME ChannelInv, UNCHANGED Arm!armVars, NEW t \in Arm!Attempts, Arm!CallAnswered(t) \/ Arm!CallFails(t)
  PROVE  ChannelInv'
<1>1. /\ Arm!Served(t) /\ UNCHANGED <<server, queue, probes, seq, executed, cut>>
      /\ serving[t].op \in {"call", "executed"}
  BY DEF Arm!CallAnswered, Arm!CallFails, Arm!Serving
<1>2. PICK r \in Requests : r = serving[t].id
  BY <1>1, QueuedIsEither DEF ChannelInv
<1>3. CASE Arm!CallAnswered(t)
  <2>1. serving[t].op = "executed" /\ Arm!Resolve(r, "ok")
    BY <1>2, <1>3 DEF Arm!CallAnswered, Arm!Serving
  <2>2. executed[r] = 1
    BY <1>2, <2>1 DEF ChannelInv, Answered
  <2> QED BY <1>1, <2>1, <2>2, ServedKeeps DEF Arm!Resolve
<1>4. CASE Arm!CallFails(t)
  <2>1. Arm!Resolve(r, "error")
    BY <1>2, <1>4 DEF Arm!CallFails
  <2> QED BY <1>1, <2>1, ServedKeeps DEF Arm!Resolve
<1> QED BY <1>3, <1>4

LEMMA EndsKeep ==
  ASSUME ChannelInv, UNCHANGED Arm!armVars, NEW t \in Arm!Attempts, Arm!RunFails(t) \/ Arm!HubPingFails(t)
  PROVE  ChannelInv'
<1>1. Arm!Served(t) /\ UNCHANGED <<server, queue, probes, seq, future, executed, cut>>
  BY DEF Arm!RunFails, Arm!HubPingFails, Arm!Served
<1> QED BY <1>1, ServedKeeps

LEMMA AppendProbe ==
  ASSUME NEW s \in Seq([answer : {"ok", "error"}, id : Nat]), NEW e \in [answer : {"ok", "error"}, id : Nat]
  PROVE  /\ Append(s, e) \in Seq([answer : {"ok", "error"}, id : Nat])
         /\ \A i \in 1..Len(Append(s, e)) : Append(s, e)[i] = e \/ (i \in 1..Len(s) /\ Append(s, e)[i] = s[i])
OBVIOUS

LEMMA PingsKeep ==
  ASSUME ChannelInv, UNCHANGED Arm!armVars, NEW t \in Arm!Attempts, Arm!PingAnswered(t) \/ Arm!PingFails(t)
  PROVE  ChannelInv'
<1>1. Arm!Served(t) /\ UNCHANGED <<server, queue, seq, future, executed, cut>> /\ serving[t].op = "ping"
  BY DEF Arm!PingAnswered, Arm!PingFails, Arm!Serving
<1>2. serving[t].id \in Nat
  BY <1>1, QueuedIsEither DEF ChannelInv
<1>3. PICK e \in [answer : {"ok", "error"}, id : Nat] :
        probes' = Append(probes, e) /\ (server = "hub" => e.answer = "ok")
  <2>1. CASE Arm!PingAnswered(t)
    <3> DEFINE e == [answer |-> "ok", id |-> serving[t].id]
    <3>1. e \in [answer : {"ok", "error"}, id : Nat] /\ e.answer = "ok" /\ probes' = Append(probes, e)
      BY <1>2, <2>1 DEF Arm!PingAnswered
    <3> QED BY <3>1
  <2>2. CASE Arm!PingFails(t)
    <3> DEFINE e == [answer |-> "error", id |-> serving[t].id]
    <3>1. e \in [answer : {"ok", "error"}, id : Nat] /\ server = "loop" /\ probes' = Append(probes, e)
      BY <1>2, <2>2 DEF Arm!PingFails
    <3> QED BY <3>1
  <2> QED BY <2>1, <2>2
<1>4. probes \in Seq([answer : {"ok", "error"}, id : Nat])
  BY DEF ChannelInv, ChannelTypes
<1>5. probes' \in Seq([answer : {"ok", "error"}, id : Nat]) /\ Probed'
  BY <1>1, <1>3, <1>4, AppendProbe DEF ChannelInv, Probed
<1>6. serving' \in [Arm!Attempts -> Awaited] /\ \A u \in Arm!Attempts : serving'[u] \in {serving[u], Arm!Nothing}
  BY <1>1, QueuedIsEither DEF ChannelInv, ChannelTypes, Arm!Served
<1> QED BY <1>1, <1>5, <1>6, FewerKeeps DEF ChannelInv, ChannelTypes

-----------------------------------------------------------------------------
\* The supervisor.
LEMMA TickDeadKeeps == ASSUME ChannelInv, UNCHANGED Arm!armVars, Arm!TickDead PROVE ChannelInv'
<1>1. /\ UNCHANGED <<server, queue, probes, seq, future, executed>> /\ cut' = cut
      /\ serving' = [t \in Arm!Attempts |-> IF t = current THEN Arm!Nothing ELSE serving[t]]
  BY DEF Arm!TickDead, Arm!Disconnect, Arm!bounds
<1>2. serving' \in [Arm!Attempts -> Awaited] /\ \A u \in Arm!Attempts : serving'[u] \in {serving[u], Arm!Nothing}
  BY <1>1, QueuedIsEither DEF ChannelInv
<1> QED BY <1>1, <1>2, FewerKeeps DEF ChannelInv, ChannelTypes, Probed

LEMMA TailProbe ==
  ASSUME NEW s \in Seq([answer : {"ok", "error"}, id : Nat]), s # << >>
  PROVE  /\ Tail(s) \in Seq([answer : {"ok", "error"}, id : Nat])
         /\ \A i \in 1..Len(Tail(s)) : i + 1 \in 1..Len(s) /\ Tail(s)[i] = s[i + 1]
         /\ 1 \in 1..Len(s) /\ Head(s) = s[1]
OBVIOUS

LEMMA PingEndsKeeps == ASSUME ChannelInv, UNCHANGED Arm!armVars, Arm!PingEnds PROVE ChannelInv'
<1>1. /\ UNCHANGED <<server, queue, serving, seq, future, executed, cut>>
      /\ probes # << >> /\ probes' = Tail(probes)
  BY DEF Arm!PingEnds, Arm!adaptor
<1>2. probes' \in Seq([answer : {"ok", "error"}, id : Nat]) /\ Probed'
  BY <1>1, TailProbe DEF ChannelInv, ChannelTypes, Probed
<1> QED BY <1>1, <1>2, FewerKeeps DEF ChannelInv, ChannelTypes

LEMMA PingDropsKeeps == ASSUME ChannelInv, UNCHANGED Arm!armVars, Arm!PingDrops PROVE ChannelInv'
<1>1. /\ UNCHANGED <<server, queue, seq, future, executed>>
      /\ probes # << >> /\ probes' = Tail(probes) /\ Head(probes).answer = "error"
      /\ serving' = [t \in Arm!Attempts |-> IF t = current THEN Arm!Nothing ELSE serving[t]]
  BY DEF Arm!PingDrops, Arm!Disconnect, Arm!bounds
<1>2. server # "hub"
  BY <1>1, TailProbe DEF ChannelInv, ChannelTypes, Probed
<1>3. probes' \in Seq([answer : {"ok", "error"}, id : Nat]) /\ Probed'
  BY <1>1, <1>2, TailProbe DEF ChannelInv, ChannelTypes, Probed
<1>4. serving' \in [Arm!Attempts -> Awaited] /\ \A u \in Arm!Attempts : serving'[u] \in {serving[u], Arm!Nothing}
  BY <1>1, QueuedIsEither DEF ChannelInv
<1> QED BY <1>1, <1>3, <1>4, FewerKeeps DEF ChannelInv, ChannelTypes

LEMMA TickConnectKeeps == ASSUME ChannelInv, UNCHANGED Arm!armVars, Arm!TickConnect PROVE ChannelInv'
<1>1. UNCHANGED <<server, serving, probes, seq, future, executed, cut>> /\ queue' = << >>
  BY DEF Arm!TickConnect
<1> QED BY <1>1, FewerKeeps DEF ChannelInv, ChannelTypes, Probed

-----------------------------------------------------------------------------
\* What goes to the end of the queue.
LEMMA AppendQueued ==
  ASSUME NEW s \in Seq(Queued), NEW e \in Queued
  PROVE  /\ Append(s, e) \in Seq(Queued) /\ Len(Append(s, e)) = Len(s) + 1 /\ Len(s) \in Nat
         /\ Append(s, e)[Len(s) + 1] = e
         /\ \A i \in 1..Len(s) : Append(s, e)[i] = s[i]
OBVIOUS

LEMMA TickPingKeeps == ASSUME ChannelInv, UNCHANGED Arm!armVars, Arm!TickPing PROVE ChannelInv'
<1>1. /\ UNCHANGED <<server, serving, probes, future, executed, cut>> /\ seq' = seq + 1
      /\ queue' = Append(queue, Arm!Ping(seq + 1))
  BY DEF Arm!TickPing, Arm!adaptor
<1>2. Arm!Ping(seq + 1) \in Queued /\ Arm!Ping(seq + 1).op = "ping" /\ queue \in Seq(Queued) /\ seq' \in Nat
  BY <1>1 DEF ChannelInv, ChannelTypes, Queued, Arm!Ping
<1>3. /\ queue' \in Seq(Queued) /\ Len(queue) \in Nat
      /\ \A i \in 1..Len(queue') : queue'[i].op = "call" => i \in 1..Len(queue) /\ queue'[i] = queue[i]
  BY <1>1, <1>2, AppendQueued
<1>4. ChannelTypes' /\ Probed'
  BY <1>1, <1>2, <1>3 DEF ChannelInv, ChannelTypes, Probed
<1>5. Placed'
  BY <1>1, <1>3 DEF ChannelInv, Placed
<1>6. Answered'
  BY <1>1, <1>3 DEF ChannelInv, Answered, Unexecuted
<1>7. LinkTypes' /\ Linking'
  BY <1>1, LinksKeep DEF ChannelInv
<1> QED BY <1>4, <1>5, <1>6, <1>7 DEF ChannelInv

LEMMA SendPlaces ==
  ASSUME ChannelInv, NEW r \in Requests, Arm!Send(r),
         UNCHANGED <<server, Arm!adaptor, probes, seq, executed, cut>>
  PROVE  /\ ChannelTypes' /\ Placed' /\ Answered' /\ Probed'
         /\ future[r] = "new" /\ future'[r] = "waiting" /\ \A s \in Requests \ {r} : future'[s] = future[s]
<1>1. /\ future[r] = "new" /\ queue' = Append(queue, Arm!Call(r)) /\ UNCHANGED serving
      /\ future' = [future EXCEPT ![r] = "waiting"]
  BY DEF Arm!Send, Arm!adaptor
<1>2. /\ future'[r] = "waiting" /\ \A s \in Requests \ {r} : future'[s] = future[s]
      /\ future' \in [Requests -> {"new", "waiting", "timeout", "ok", "error"}]
  BY <1>1 DEF ChannelInv, ChannelTypes
<1>3. Arm!Call(r) \in Queued /\ Arm!Call(r).op = "call" /\ Arm!Call(r).id = r /\ queue \in Seq(Queued)
  BY DEF ChannelInv, ChannelTypes, Queued, Arm!Call
<1>4. /\ queue' \in Seq(Queued) /\ Len(queue) \in Nat /\ Len(queue') = Len(queue) + 1
      /\ queue'[Len(queue) + 1] = Arm!Call(r) /\ \A i \in 1..Len(queue) : queue'[i] = queue[i]
  BY <1>1, <1>3, AppendQueued
<1>5. ChannelTypes' /\ Probed'
  BY <1>1, <1>2, <1>4 DEF ChannelInv, ChannelTypes, Probed
<1>6. /\ \A i \in 1..Len(queue) : queue[i].op = "call" => queue[i].id # r
      /\ \A t \in Arm!Attempts : serving[t].op = "call" => serving[t].id # r
  BY <1>1 DEF ChannelInv, Answered, Unexecuted
<1>7. executed[r] = 0
  BY <1>1 DEF ChannelInv, ChannelTypes, Answered
<1>8. \A i \in 1..Len(queue') : i \in 1..Len(queue) \/ i = Len(queue) + 1
  BY <1>4
<1>9. Placed'
  BY <1>1, <1>3, <1>4, <1>6, <1>8 DEF ChannelInv, Placed
<1>10. \A s \in Requests : Unexecuted(s) => Unexecuted(s)'
  BY <1>2, <1>1 DEF Unexecuted
<1>11. \A i \in 1..Len(queue') : queue'[i].op = "call" =>
          future'[queue'[i].id] # "new" /\ executed'[queue'[i].id] = 0
  <2> SUFFICES ASSUME NEW i \in 1..Len(queue'), queue'[i].op = "call"
               PROVE  future'[queue'[i].id] # "new" /\ executed'[queue'[i].id] = 0
    BY DEF Unexecuted
  <2>1. CASE i \in 1..Len(queue)
    <3>1. queue'[i] = queue[i] /\ queue[i].id \in Requests /\ Unexecuted(queue[i].id) /\ queue[i].id # r
      BY <1>4, <1>6, <2>1, QueuedIsEither DEF ChannelInv, Answered
    <3> QED BY <1>2, <3>1 DEF Unexecuted
  <2>2. CASE i = Len(queue) + 1
    BY <1>2, <1>3, <1>4, <1>7, <2>2
  <2> QED BY <1>8, <2>1, <2>2
<1>12. \A t \in Arm!Attempts : serving'[t].op = "call" =>
          future'[serving'[t].id] # "new" /\ executed'[serving'[t].id] = 0
  <2> SUFFICES ASSUME NEW t \in Arm!Attempts, serving'[t].op = "call"
               PROVE  future'[serving'[t].id] # "new" /\ executed'[serving'[t].id] = 0
    BY DEF Unexecuted
  <2>1. serving'[t] = serving[t] /\ serving[t].id \in Requests /\ Unexecuted(serving[t].id) /\ serving[t].id # r
    BY <1>1, <1>6, QueuedIsEither DEF ChannelInv, Answered
  <2> QED BY <1>2, <2>1 DEF Unexecuted
<1>13. Answered'
  BY <1>1, <1>2, <1>7, <1>11, <1>12 DEF ChannelInv, Answered, Unexecuted
<1> QED BY <1>1, <1>2, <1>5, <1>9, <1>13

LEMMA ServeTakesKeeps ==
  ASSUME ChannelInv, UNCHANGED Arm!armVars, NEW t \in Arm!Attempts, Arm!ServeTakes(t)
  PROVE  ChannelInv'
<1>1. /\ serving[t] = Arm!Nothing /\ queue # << >>
      /\ serving' = [serving EXCEPT ![t] = Head(queue)] /\ queue' = Tail(queue)
      /\ UNCHANGED <<server, probes, seq, future, executed, cut>>
  BY DEF Arm!ServeTakes
<1>2. /\ queue \in Seq(Queued) /\ Tail(queue) \in Seq(Queued) /\ Len(queue) \in Nat /\ 1 \in 1..Len(queue)
      /\ Head(queue) = queue[1] /\ queue[1] \in Queued
      /\ \A i \in 1..Len(Tail(queue)) : i + 1 \in 1..Len(queue) /\ Tail(queue)[i] = queue[i + 1] /\ i + 1 # 1
      /\ \A i, j \in 1..Len(Tail(queue)) : i + 1 = j + 1 => i = j
  BY <1>1 DEF ChannelInv, ChannelTypes
<1>3. /\ serving' \in [Arm!Attempts -> Awaited] /\ serving'[t] = queue[1]
      /\ \A u \in Arm!Attempts \ {t} : serving'[u] = serving[u]
  BY <1>1, <1>2 DEF ChannelInv, ChannelTypes, Awaited
<1>4. ChannelTypes' /\ Probed'
  BY <1>1, <1>2, <1>3 DEF ChannelInv, ChannelTypes, Probed
<1>5. Placed'
  <2>1. \A i, j \in 1..Len(queue') :
          queue'[i].op = "call" /\ queue'[j].op = "call" /\ queue'[i].id = queue'[j].id => i = j
    <3> SUFFICES ASSUME NEW i \in 1..Len(queue'), NEW j \in 1..Len(queue'), queue'[i].op = "call",
                        queue'[j].op = "call", queue'[i].id = queue'[j].id
                 PROVE  i = j
      OBVIOUS
    <3>1. i + 1 = j + 1
      BY <1>1, <1>2 DEF ChannelInv, Placed
    <3> QED BY <1>1, <1>2, <3>1
  <2>2. \A i \in 1..Len(queue'), u \in Arm!Attempts :
          queue'[i].op = "call" /\ serving'[u].op = "call" => queue'[i].id # serving'[u].id
    <3> SUFFICES ASSUME NEW i \in 1..Len(queue'), NEW u \in Arm!Attempts, queue'[i].op = "call", serving'[u].op = "call"
                 PROVE  queue'[i].id # serving'[u].id
      OBVIOUS
    <3>1. queue'[i] = queue[i + 1] /\ i + 1 \in 1..Len(queue) /\ i + 1 # 1
      BY <1>1, <1>2
    <3>2. CASE u = t
      BY <1>2, <1>3, <3>1, <3>2 DEF ChannelInv, Placed
    <3>3. CASE u # t
      BY <1>3, <3>1, <3>3 DEF ChannelInv, Placed
    <3> QED BY <3>2, <3>3
  <2>3. \A u, v \in Arm!Attempts :
          serving'[u].op = "call" /\ serving'[v].op = "call" /\ serving'[u].id = serving'[v].id => u = v
    BY <1>2, <1>3 DEF ChannelInv, Placed
  <2> QED BY <2>1, <2>2, <2>3 DEF Placed
<1>6. \A i \in 1..Len(queue') : queue'[i].op = "call" =>
          future'[queue'[i].id] # "new" /\ executed'[queue'[i].id] = 0
  <2> SUFFICES ASSUME NEW i \in 1..Len(queue'), queue'[i].op = "call"
               PROVE  future'[queue'[i].id] # "new" /\ executed'[queue'[i].id] = 0
    BY DEF Unexecuted
  <2> QED BY <1>1, <1>2 DEF ChannelInv, Answered, Unexecuted
<1>7. \A u \in Arm!Attempts : serving'[u].op = "call" =>
          future'[serving'[u].id] # "new" /\ executed'[serving'[u].id] = 0
  <2> SUFFICES ASSUME NEW u \in Arm!Attempts, serving'[u].op = "call"
               PROVE  future'[serving'[u].id] # "new" /\ executed'[serving'[u].id] = 0
    BY DEF Unexecuted
  <2> QED BY <1>1, <1>2, <1>3 DEF ChannelInv, Answered, Unexecuted
<1>8. queue[1].op # "executed"
  BY <1>2 DEF Queued
<1>9. Answered'
  BY <1>1, <1>3, <1>6, <1>7, <1>8 DEF ChannelInv, Answered, Unexecuted
<1>10. LinkTypes' /\ Linking'
  BY <1>1, LinksKeep DEF ChannelInv
<1> QED BY <1>4, <1>5, <1>9, <1>10 DEF ChannelInv

LEMMA PeerExecutesKeeps ==
  ASSUME ChannelInv, UNCHANGED Arm!armVars, NEW t \in Arm!Attempts, Arm!PeerExecutes(t)
  PROVE  ChannelInv'
<1>1. /\ serving[t].op = "call" /\ executed' = [executed EXCEPT ![serving[t].id] = @ + 1]
      /\ serving' = [serving EXCEPT ![t].op = "executed"]
      /\ UNCHANGED <<server, queue, probes, seq, future, cut>>
  BY DEF Arm!PeerExecutes, Arm!Serving
<1>2. PICK r \in Requests : r = serving[t].id
  BY <1>1, QueuedIsEither DEF ChannelInv
<1>3. executed[r] = 0 /\ future[r] # "new"
  BY <1>1, <1>2 DEF ChannelInv, Answered, Unexecuted
<1>4. /\ executed' \in [Requests -> {0, 1}] /\ executed'[r] = 1
      /\ \A s \in Requests \ {r} : executed'[s] = executed[s]
  BY <1>1, <1>2, <1>3 DEF ChannelInv, ChannelTypes
<1>5. /\ serving[t] \in [op : {"call"}, id : Requests]
  BY <1>1 DEF ChannelInv, ChannelTypes, Awaited, Queued, Arm!Nothing
<1>6. [serving[t] EXCEPT !.op = "executed"] \in [op : {"executed"}, id : Requests]
  BY <1>5
<1>7. /\ serving' \in [Arm!Attempts -> Awaited] /\ serving'[t] \in [op : {"executed"}, id : Requests]
      /\ serving'[t].op = "executed" /\ serving'[t].id = r
      /\ \A u \in Arm!Attempts \ {t} : serving'[u] = serving[u]
  BY <1>1, <1>2, <1>5, <1>6 DEF ChannelInv, ChannelTypes, Awaited
<1>8. ChannelTypes' /\ Probed'
  BY <1>1, <1>4, <1>7 DEF ChannelInv, ChannelTypes, Probed
<1>9. Placed'
  BY <1>1, <1>7 DEF ChannelInv, Placed
<1>10. \A i \in 1..Len(queue) : queue[i].op = "call" => queue[i].id # r /\ queue[i].id \in Requests
  BY <1>1, <1>2, QueuedIsEither DEF ChannelInv, Placed
<1>11. \A i \in 1..Len(queue') : queue'[i].op = "call" =>
          future'[queue'[i].id] # "new" /\ executed'[queue'[i].id] = 0
  <2> SUFFICES ASSUME NEW i \in 1..Len(queue'), queue'[i].op = "call"
               PROVE  future'[queue'[i].id] # "new" /\ executed'[queue'[i].id] = 0
    BY DEF Unexecuted
  <2> QED BY <1>1, <1>4, <1>10 DEF ChannelInv, Answered, Unexecuted
<1>12. \A u \in Arm!Attempts : serving'[u].op = "call" =>
          future'[serving'[u].id] # "new" /\ executed'[serving'[u].id] = 0
  <2> SUFFICES ASSUME NEW u \in Arm!Attempts, serving'[u].op = "call"
               PROVE  future'[serving'[u].id] # "new" /\ executed'[serving'[u].id] = 0
    BY DEF Unexecuted
  <2>1. u # t /\ serving'[u] = serving[u]
    BY <1>7
  <2>2. serving[u].id # r /\ serving[u].id \in Requests
    BY <1>1, <1>2, <2>1, QueuedIsEither DEF ChannelInv, Placed
  <2> QED BY <1>1, <1>4, <2>1, <2>2 DEF ChannelInv, Answered, Unexecuted
<1>13. \A u \in Arm!Attempts : serving'[u].op = "executed" => executed'[serving'[u].id] = 1
  <2> SUFFICES ASSUME NEW u \in Arm!Attempts, serving'[u].op = "executed", u # t
               PROVE  executed'[serving'[u].id] = 1
    BY <1>4, <1>7
  <2>1. serving'[u] = serving[u] /\ serving[u].id \in Requests /\ executed[serving[u].id] = 1
    BY <1>7, QueuedIsEither DEF ChannelInv, Answered
  <2> QED BY <1>4, <2>1
<1>14. \A s \in Requests : (executed'[s] = 1 => future'[s] # "new") /\ (future'[s] = "ok" => executed'[s] = 1)
  BY <1>1, <1>3, <1>4 DEF ChannelInv, Answered
<1>15. Answered'
  BY <1>11, <1>12, <1>13, <1>14 DEF Answered, Unexecuted
<1>16. LinkTypes' /\ Linking'
  BY <1>1, <1>3, <1>4, LinksKeep DEF ChannelInv
<1> QED BY <1>8, <1>9, <1>15, <1>16 DEF ChannelInv

LEMMA ChannelNextKeeps == ASSUME ChannelInv, Arm!ChannelNext, UNCHANGED Arm!armVars PROVE ChannelInv'
<1>1. CASE \E t \in Arm!Attempts : Arm!RunInitialized(t) \/ Arm!ServeStops(t)
  BY <1>1, QuietKeeps DEF Arm!RunInitialized, Arm!ServeStops
<1>2. CASE Arm!Outage \/ Arm!PingTimeout \/ Arm!ConnectEnds \/ Arm!ConnectTimeout
  BY <1>2, QuietKeeps DEF Arm!Outage, Arm!PingTimeout, Arm!ConnectEnds, Arm!ConnectTimeout, Arm!adaptor
<1>3. CASE \E t \in Arm!Attempts :
             \/ Arm!RunFails(t) \/ Arm!ServeTakes(t) \/ Arm!PeerExecutes(t) \/ Arm!CallAnswered(t) \/ Arm!CallFails(t)
             \/ Arm!PingAnswered(t) \/ Arm!PingFails(t) \/ Arm!HubPingFails(t)
  BY <1>3, EndsKeep, ServeTakesKeeps, PeerExecutesKeeps, AnswersKeep, PingsKeep
<1>4. CASE (\E r \in Requests : Arm!CallTimeout(r)) \/ Arm!TickDead \/ Arm!TickPing \/ Arm!PingEnds \/ Arm!PingDrops \/ Arm!TickConnect
  BY <1>4, CallTimeoutKeeps, TickDeadKeeps, TickPingKeeps, PingEndsKeeps, PingDropsKeeps,
     TickConnectKeeps
<1> QED BY <1>1, <1>2, <1>3, <1>4 DEF Arm!ChannelNext

-----------------------------------------------------------------------------
\* A call is put on the queue by a handler of arete.
LEMMA PushKeeps ==
  ASSUME ChannelInv, NEW r \in Requests, NEW arm \in Arms, NEW verb \in {"open", "verb"}, Arm!Push(r, arm, verb),
         unsure \subseteq unsure', unsure' \subseteq Arms,
         verb = "open" => link[arm] = Nobody,
         verb = "open" /\ Arm!Opening(arm) # {} => arm \in unsure'
  PROVE  ChannelInv'
<1>1. /\ Arm!Send(r) /\ UNCHANGED <<server, Arm!adaptor, probes, seq, executed, cut, link, handled>>
      /\ about' = [about EXCEPT ![r] = [arm |-> arm, verb |-> verb]]
  BY DEF Arm!Push
<1>2. /\ ChannelTypes' /\ Placed' /\ Answered' /\ Probed'
      /\ future[r] = "new" /\ future'[r] = "waiting" /\ \A s \in Requests \ {r} : future'[s] = future[s]
  BY <1>1, SendPlaces
<1>3. /\ about' \in [Requests -> Links] /\ about'[r] = [arm |-> arm, verb |-> verb]
      /\ \A s \in Requests \ {r} : about'[s] = about[s]
  BY <1>1 DEF ChannelInv, LinkTypes, Links
<1>4. LinkTypes'
  BY <1>1, <1>3 DEF ChannelInv, LinkTypes
<1>5. ASSUME NEW s \in Requests \ {r}, NEW a PROVE Opens(s, a)' <=> Opens(s, a)
  BY <1>2, <1>3 DEF Opens
<1>6. ASSUME NEW a PROVE ~Opens(r, a) /\ (Opens(r, a)' => a = arm /\ verb = "open")
  BY <1>2, <1>3 DEF Opens
<1>7. r \notin handled
  BY <1>2 DEF ChannelInv, Linking
<1>8. ASSUME NEW a \in Arms, link'[a] # Nobody PROVE Opens(link[a], a)' /\ executed'[link[a]] = 1
  <2>1. link[a] \in Requests /\ Opens(link[a], a) /\ executed[link[a]] = 1
    BY <1>1, <1>8 DEF ChannelInv, LinkTypes, Linking
  <2>2. link[a] # r
    BY <1>6, <2>1
  <2> QED BY <1>1, <1>2, <1>3, <2>1, <2>2 DEF Opens
<1>9. ASSUME NEW a \in Arms \ unsure', NEW s \in Requests, Opens(s, a)', s \in handled PROVE link'[a] # Nobody
  BY <1>1, <1>5, <1>7, <1>9 DEF ChannelInv, Linking
<1>10. ASSUME NEW a \in Arms \ unsure', NEW s \in Requests, Opens(s, a)', s # r PROVE ~Opens(r, a)'
  <2> SUFFICES ASSUME Opens(r, a)' PROVE FALSE
    OBVIOUS
  <2>1. a = arm /\ verb = "open" /\ link[arm] = Nobody /\ Arm!Opening(arm) = {} /\ Opens(s, arm)
    BY <1>5, <1>6, <1>10
  <2>2. s \in handled
    BY <2>1 DEF Arm!Opening, Opens
  <2> QED BY <1>10, <2>1, <2>2 DEF ChannelInv, Linking
<1>11. ASSUME NEW a \in Arms \ unsure', NEW s \in Requests, NEW u \in Requests, Opens(s, a)', Opens(u, a)'
       PROVE  s = u
  BY <1>5, <1>10, <1>11 DEF ChannelInv, Linking
<1>12. \A s \in handled' : future'[s] # "new"
  BY <1>1, <1>2, <1>7 DEF ChannelInv, Linking, LinkTypes
<1>13. Linking'
  BY <1>1, <1>8, <1>9, <1>11, <1>12 DEF Linking
<1> QED BY <1>2, <1>4, <1>13 DEF ChannelInv

LEMMA OpenArmKeeps ==
  ASSUME ChannelInv, NEW r \in Requests, NEW arm \in Arms, Arm!OpenArm(r, arm)
  PROVE  ChannelInv'
<1>1. /\ link[arm] = Nobody /\ Arm!Push(r, arm, "open")
      /\ unsure' = IF Arm!Opening(arm) # {} THEN unsure \cup {arm} ELSE unsure
  BY DEF Arm!OpenArm
<1>2. unsure \subseteq unsure' /\ unsure' \subseteq Arms /\ (Arm!Opening(arm) # {} => arm \in unsure')
  BY <1>1 DEF ChannelInv, LinkTypes
<1> QED BY <1>1, <1>2, PushKeeps

LEMMA VerbKeeps ==
  ASSUME ChannelInv, NEW r \in Requests, NEW arm \in Arms, Arm!Verb(r, arm)
  PROVE  ChannelInv'
BY PushKeeps DEF Arm!Verb, ChannelInv, LinkTypes

\* A handler returns, and the channel is as it was.
LEMMA HandledKeeps ==
  ASSUME ChannelInv, NEW r \in Requests, UNCHANGED <<Arm!channelVars, about>>, future[r] # "new",
         handled' = handled \cup {r}, link' \in [Arms -> Requests \cup {Nobody}],
         unsure \subseteq unsure', unsure' \subseteq Arms,
         \A arm \in Arms : link[arm] # Nobody => link'[arm] = link[arm],
         \A arm \in Arms : link'[arm] # link[arm] =>
           link'[arm] = r /\ Opens(r, arm) /\ executed[r] = 1,
         \A arm \in Arms \ unsure' : Opens(r, arm) => link'[arm] # Nobody
  PROVE  ChannelInv'
<1>1. UNCHANGED <<server, serving, queue, probes, seq, future, executed, cut>>
  BY DEF Arm!channelVars, Arm!adaptor
<1>2. ChannelTypes' /\ Placed' /\ Answered' /\ Probed'
  BY <1>1 DEF ChannelInv, ChannelTypes, Placed, Answered, Unexecuted, Probed
<1>3. LinkTypes'
  BY DEF ChannelInv, LinkTypes
<1>4. ASSUME NEW s \in Requests, NEW arm PROVE Opens(s, arm)' <=> Opens(s, arm)
  BY <1>1 DEF Opens
<1>5. ASSUME NEW arm \in Arms, link'[arm] # Nobody PROVE Opens(link[arm], arm)' /\ executed'[link'[arm]] = 1
  <2>1. link'[arm] \in Requests /\ Opens(link'[arm], arm) /\ executed[link'[arm]] = 1
    BY <1>5 DEF ChannelInv, Linking
  <2> QED BY <1>1, <2>1 DEF Opens
<1>6. \A s \in handled' : future'[s] # "new"
  BY <1>1 DEF ChannelInv, Linking
<1>7. ASSUME NEW arm \in Arms \ unsure', NEW s \in Requests
      PROVE  /\ Opens(s, arm)' /\ s \in handled' => link'[arm] # Nobody
             /\ \A u \in Requests : Opens(s, arm)' /\ Opens(u, arm)' => s = u
  <2>1. /\ arm \notin unsure
        /\ Opens(s, arm) /\ s \in handled => link[arm] # Nobody
        /\ \A u \in Requests : Opens(s, arm) /\ Opens(u, arm) => s = u
    BY <1>7 DEF ChannelInv, Linking
  <2> QED BY <1>4, <2>1
<1>8. Linking'
  BY <1>5, <1>6, <1>7 DEF Linking
<1> QED BY <1>2, <1>3, <1>8 DEF ChannelInv

LEMMA LinkedKeeps == ASSUME ChannelInv, NEW r \in Requests, Arm!Linked(r) PROVE ChannelInv'
<1>1. /\ future[r] = "ok" /\ about[r].verb = "open" /\ Arm!InsertLink(about[r].arm, r)
      /\ handled' = handled \cup {r} /\ UNCHANGED <<Arm!channelVars, about, unsure>>
  BY DEF Arm!Linked
<1>2. PICK arm \in Arms : arm = about[r].arm
  BY <1>1 DEF ChannelInv, LinkTypes
<1>3. Opens(r, arm) /\ executed[r] = 1 /\ \A a \in Arms : Opens(r, a) => a = arm
  BY <1>1, <1>2 DEF ChannelInv, LinkTypes, Links, Answered, Opens
<1>4. /\ link' \in [Arms -> Requests \cup {Nobody}]
      /\ link'[arm] # Nobody /\ (link[arm] # Nobody => link'[arm] = link[arm]) /\ link'[arm] \in {link[arm], r}
      /\ \A a \in Arms \ {arm} : link'[a] = link[a]
  BY <1>1, <1>2, OverTheChannel DEF Arm!ArmCampaignsAssumption, ChannelInv, LinkTypes, Arm!InsertLink
<1> QED BY <1>1, <1>3, <1>4, HandledKeeps DEF ChannelInv, LinkTypes

LEMMA ReturnedKeeps ==
  ASSUME ChannelInv, NEW r \in Requests, Arm!VerbDone(r) \/ Arm!OpenFailed(r)
  PROVE  ChannelInv'
<1>1. CASE Arm!VerbDone(r)
  <2>1. /\ future[r] # "new" /\ about[r].verb = "verb" /\ handled' = handled \cup {r}
        /\ UNCHANGED <<Arm!channelVars, link, about, unsure>>
    BY <1>1 DEF Arm!VerbDone
  <2>2. \A a \in Arms : ~Opens(r, a)
    BY <2>1 DEF Opens
  <2> QED BY <2>1, <2>2, HandledKeeps DEF ChannelInv, LinkTypes
<1>2. CASE Arm!OpenFailed(r)
  <2>1. /\ future[r] # "new" /\ about[r].verb = "open" /\ handled' = handled \cup {r}
        /\ unsure' = unsure \cup {about[r].arm} /\ UNCHANGED <<Arm!channelVars, link, about>>
    BY <1>2 DEF Arm!OpenFailed
  <2>2. about[r].arm \in Arms /\ \A a \in Arms : Opens(r, a) => a \in unsure'
    BY <2>1 DEF Opens, ChannelInv, LinkTypes
  <2> QED BY <2>1, <2>2, HandledKeeps DEF ChannelInv, LinkTypes
<1> QED BY <1>1, <1>2

LEMMA ChannelBegins == Arm!Init => ChannelInv
<1> SUFFICES ASSUME Arm!Init PROVE ChannelInv
  OBVIOUS
<1>1. ChannelTypes
  BY DEF Arm!Init, Arm!ChannelInit, ChannelTypes, Awaited
<1>2. Len(queue) = 0 /\ Len(probes) = 0 /\ \A t \in Arm!Attempts : serving[t].op = "none"
  BY DEF Arm!Init, Arm!ChannelInit, Arm!Nothing
<1>3. Placed /\ Answered /\ Probed
  BY <1>2 DEF Arm!Init, Arm!ChannelInit, Placed, Answered, Probed
<1>4. LinkTypes /\ Linking
  BY DEF Arm!Init, Arm!ChannelInit, LinkTypes, Links, Linking, Opens
<1> QED BY <1>1, <1>3, <1>4 DEF ChannelInv

LEMMA ChannelSteadiness == ChannelInv /\ [Arm!Next]_(Arm!vars) => ChannelInv'
<1> SUFFICES ASSUME ChannelInv, [Arm!Next]_(Arm!vars) PROVE ChannelInv'
  OBVIOUS
<1>1. CASE UNCHANGED (Arm!vars)
  BY <1>1, QuietKeeps DEF Arm!vars, Arm!channelVars, Arm!adaptor
<1>2. CASE Arm!Next
  BY <1>2, ChannelNextKeeps, OpenArmKeeps, VerbKeeps, LinkedKeeps, ReturnedKeeps DEF Arm!Next
<1> QED BY <1>1, <1>2

LEMMA ChannelInvAnswers == ChannelInv => Arm!AnswersMatch /\ Arm!HealthyIsKept
BY DEF ChannelInv, ChannelTypes, Answered, Probed, Arm!AnswersMatch, Arm!HealthyIsKept

LEMMA ChannelInvLinks == ChannelInv => Arm!OneCampaignPerArm
<1> SUFFICES ASSUME ChannelInv PROVE Arm!OneCampaignPerArm
  OBVIOUS
<1>1. Arm!dangling_campaign_links = {}
  BY DEF ChannelInv, LinkTypes, Linking, Opens, Arm!dangling_campaign_links, Arm!Campaigns
<1>2. \A arm \in Arms \ unsure, r, s \in Requests : {r, s} \subseteq Arm!Campaigns(arm) => r = s
  BY DEF ChannelInv, ChannelTypes, Answered, Linking, Opens, Arm!Campaigns
<1> QED BY <1>1, <1>2 DEF Arm!OneCampaignPerArm

-----------------------------------------------------------------------------
(***************************************************************************)
(* The loop. A status read that is under way holds the first               *)
(* recommendation unless it slipped, and a hint is the first               *)
(* recommendation unless that is excused or the note of a call is still to *)
(* come (Recommended); what is logged is of kinds that have a remedy.      *)
(***************************************************************************)
Tracked(record) ==
  /\ record = [fresh |-> record.fresh, digest |-> record.digest, mutated |-> record.mutated]
  /\ record.fresh \in BOOLEAN /\ record.mutated \in BOOLEAN
Called(record) == record = [step |-> record.step, tool |-> record.tool, on |-> record.on]

LoopTypes ==
  /\ Tracked(tracker)
  /\ asked = [c \in Drivers |-> asked[c]] /\ \A c \in Drivers : Called(asked[c])
  /\ reading = [r \in Watchers |-> reading[r]]
  /\ slipped \subseteq Watchers /\ excused \in BOOLEAN
  /\ \A v \in log : v[1] \in DOMAIN Loop!REMEDY_TOOLS

\* A call whose note is still to come, and which is to be noted.
Unmarked == \E c \in Drivers : Loop!At(c, "handled") /\ ~Loop!Free(asked[c].tool, Loop!ALWAYS_EXEMPT)

Recommended ==
  /\ \A r \in Watchers : reading[r] = Nobody \/ r \in slipped \/ reading[r] = Loop!Top
  /\ Loop!Hinting => tracker.digest \in {Nobody, Loop!Top} \/ excused \/ Unmarked

LoopInv == LoopTypes /\ Recommended

-----------------------------------------------------------------------------
LEMMA NowIsRemedied == \A v \in Loop!Now : v[1] \in DOMAIN Loop!REMEDY_TOOLS
BY DEF Loop!Now, Loop!REMEDY_TOOLS

LEMMA TopStays == ASSUME UNCHANGED Loop!registry PROVE Loop!Top' = Loop!Top
<1>1. UNCHANGED <<improvers, proposal, tournament>>
  BY DEF Loop!registry
<1>2. Loop!Ready' = Loop!Ready /\ Loop!Waiting' = Loop!Waiting
  BY <1>1 DEF Loop!Ready, Loop!Waiting, Loop!Is, Loop!Paired
<1>3. Loop!Proposed("conditional")' = Loop!Proposed("conditional") /\ Loop!Proposed("admitted")' = Loop!Proposed("admitted")
  BY <1>1 DEF Loop!Proposed
<1> QED BY <1>1, <1>2, <1>3 DEF Loop!Top

\* A call moves on, and nothing that is recommended changes.
LEMMA CallMoves ==
  ASSUME LoopInv, UNCHANGED <<Loop!registry, tracker, reading, slipped, excused, log>>,
         NEW c \in Drivers, NEW to, asked' = [asked EXCEPT ![c] = to], Called(to),
         to.step # "handled", asked[c].step # "handled"
  PROVE  LoopInv'
<1>1. asked' = [d \in Drivers |-> asked'[d]] /\ asked'[c] = to /\ \A d \in Drivers \ {c} : asked'[d] = asked[d]
  BY DEF LoopInv, LoopTypes
<1>2. LoopTypes'
  BY <1>1 DEF LoopInv, LoopTypes
<1>3. Unmarked' <=> Unmarked
  BY <1>1 DEF Unmarked, Loop!At
<1>4. Loop!Hinting' <=> Loop!Hinting
  BY DEF Loop!Hinting
<1>5. Recommended'
  BY <1>3, <1>4, TopStays DEF LoopInv, Recommended
<1> QED BY <1>2, <1>5 DEF LoopInv

LEMMA BeginKeeps == ASSUME LoopInv, NEW c \in Drivers, Loop!Begin(c) PROVE LoopInv'
<1>1. PICK use \in Loop!Tools : Loop!CallBegin(c, use[1], use[2], Loop!ALWAYS_EXEMPT, Loop!Refused(use[1]))
  BY DEF Loop!Begin
<1> DEFINE to == [step |-> "handler", tool |-> use[1], on |-> use[2]]
<1>2. asked' = [asked EXCEPT ![c] = to] /\ Called(to) /\ to.step = "handler" /\ asked[c].step = "idle"
  BY <1>1 DEF Loop!CallBegin, Loop!Become, Called, Loop!Idle
<1>3. UNCHANGED <<Loop!registry, tracker, reading, slipped, excused, log>>
  BY <1>1 DEF Loop!CallBegin, Loop!Begin, Loop!world
<1> HIDE DEF to
<1> QED BY <1>2, <1>3, CallMoves

LEMMA EndKeeps == ASSUME LoopInv, NEW c \in Drivers, Loop!Refuse(c) \/ Loop!Expire(c) PROVE LoopInv'
<1>1. PICK to \in {Loop!Idle, [asked[c] EXCEPT !.step = "late"]} : asked' = [asked EXCEPT ![c] = to]
  BY DEF Loop!Refuse, Loop!Expire, Loop!HandlerRefuses, Loop!Overrun, Loop!Become
<1>2. Called(to) /\ to.step # "handled"
  BY DEF LoopInv, LoopTypes, Called, Loop!Idle
<1>3. UNCHANGED <<Loop!registry, tracker, reading, slipped, excused, log>> /\ asked[c].step # "handled"
  BY DEF Loop!Refuse, Loop!Expire, Loop!HandlerRefuses, Loop!Overrun, Loop!world, Loop!Working, Loop!At
<1> QED BY <1>1, <1>2, <1>3, CallMoves

\* The first recommendation changes under the hint and the reads.
LEMMA Recommendation ==
  ASSUME LoopInv, UNCHANGED <<tracker, reading>>,
         slipped' = IF Loop!Top = Loop!Top' THEN slipped ELSE slipped \cup {r \in Watchers : reading[r] # Nobody},
         excused' \in BOOLEAN, excused => excused',
         Loop!Hinting /\ Loop!Top # Loop!Top' => excused' \/ Unmarked',
         Unmarked => Unmarked'
  PROVE  slipped' \subseteq Watchers /\ Recommended'
<1>1. Loop!Hinting' <=> Loop!Hinting
  BY DEF Loop!Hinting
<1>2. \A r \in Watchers : reading'[r] = Nobody \/ r \in slipped' \/ reading'[r] = Loop!Top'
  BY DEF LoopInv, Recommended
<1>3. Loop!Hinting' => tracker'.digest \in {Nobody, Loop!Top'} \/ excused' \/ Unmarked'
  BY <1>1 DEF LoopInv, Recommended
<1> QED BY <1>2, <1>3 DEF Recommended, LoopInv, LoopTypes

LEMMA HandleKeeps == ASSUME LoopInv, NEW c \in Drivers, Loop!Handle(c) PROVE LoopInv'
<1> DEFINE to == IF Loop!At(c, "handler") THEN [step |-> "handled", tool |-> asked[c].tool, on |-> Nobody] ELSE Loop!Idle
<1>1. /\ UNCHANGED <<tracker, reading, log>> /\ asked[c].step \in {"handler", "late"}
      /\ asked' = [asked EXCEPT ![c] = to]
      /\ slipped' = IF Loop!Top = Loop!Top' THEN slipped ELSE slipped \cup {r \in Watchers : reading[r] # Nobody}
      /\ excused' = (excused \/ (Loop!Hinting /\ Loop!Top # Loop!Top'
                                   /\ (Loop!At(c, "late") \/ Loop!Free(asked[c].tool, Loop!ALWAYS_EXEMPT))))
  BY DEF Loop!Handle, Loop!Handled, Loop!world, Loop!Become, Loop!Working
<1>2. Called(to) /\ (Loop!At(c, "handler") => to.step = "handled" /\ to.tool = asked[c].tool)
  BY DEF Called, Loop!Idle
<1> HIDE DEF to
<1>3. asked' = [d \in Drivers |-> asked'[d]] /\ asked'[c] = to /\ \A d \in Drivers \ {c} : asked'[d] = asked[d]
  BY <1>1 DEF LoopInv, LoopTypes
<1>4. Unmarked => Unmarked'
  BY <1>1, <1>3 DEF Unmarked, Loop!At
<1>5. Loop!Hinting /\ Loop!Top # Loop!Top' => excused' \/ Unmarked'
  <2>1. CASE Loop!At(c, "late") \/ Loop!Free(asked[c].tool, Loop!ALWAYS_EXEMPT)
    BY <1>1, <2>1
  <2>2. CASE ~Loop!At(c, "late") /\ ~Loop!Free(asked[c].tool, Loop!ALWAYS_EXEMPT)
    <3>1. asked'[c].step = "handled" /\ asked'[c].tool = asked[c].tool
      BY <1>1, <1>2, <1>3, <2>2 DEF Loop!At
    <3>2. Loop!At(c, "handled")' /\ ~Loop!Free(asked'[c].tool, Loop!ALWAYS_EXEMPT)
      BY <2>2, <3>1 DEF Loop!At
    <3> QED BY <3>2 DEF Unmarked, Loop!Free, Loop!ALWAYS_EXEMPT, Loop!READ_PREFIXES
  <2> QED BY <2>1, <2>2
<1>6. excused' \in BOOLEAN /\ (excused => excused')
  BY <1>1 DEF LoopInv, LoopTypes
<1>7. slipped' \subseteq Watchers /\ Recommended'
  BY <1>1, <1>4, <1>5, <1>6, Recommendation
<1>8. LoopTypes'
  BY <1>1, <1>2, <1>3, <1>6, <1>7 DEF LoopInv, LoopTypes
<1> QED BY <1>7, <1>8 DEF LoopInv

LEMMA ElapseKeeps == ASSUME LoopInv, NEW t \in Contests, Loop!Elapse(t) PROVE LoopInv'
<1>1. /\ UNCHANGED <<tracker, reading, asked, log>>
      /\ slipped' = IF Loop!Top = Loop!Top' THEN slipped ELSE slipped \cup {r \in Watchers : reading[r] # Nobody}
      /\ excused' = (excused \/ (Loop!Hinting /\ Loop!Top # Loop!Top'))
  BY DEF Loop!Elapse, Loop!Unnoted, Loop!world
<1>2. excused' \in BOOLEAN /\ (excused => excused') /\ (Loop!Hinting /\ Loop!Top # Loop!Top' => excused')
  BY <1>1 DEF LoopInv, LoopTypes
<1>3. Unmarked => Unmarked'
  BY <1>1 DEF Unmarked, Loop!At
<1>4. slipped' \subseteq Watchers /\ Recommended'
  BY <1>1, <1>2, <1>3, Recommendation
<1>5. LoopTypes'
  BY <1>1, <1>2, <1>4 DEF LoopInv, LoopTypes
<1> QED BY <1>4, <1>5 DEF LoopInv

LEMMA AnswerKeeps == ASSUME LoopInv, NEW c \in Drivers, Loop!Answer(c) PROVE LoopInv'
<1> DEFINE noted == ~Loop!Free(asked[c].tool, Loop!ALWAYS_EXEMPT)
<1>1. /\ UNCHANGED <<Loop!registry, reading, slipped, excused, log>> /\ asked[c].step = "handled"
      /\ asked' = [asked EXCEPT ![c] = Loop!Idle]
      /\ tracker' = [tracker EXCEPT !.mutated = @ \/ (tracker.fresh /\ noted)]
  BY DEF Loop!Answer, Loop!Note, Loop!world, Loop!Become, Loop!At
<1>2. /\ asked' = [d \in Drivers |-> asked'[d]] /\ asked'[c] = Loop!Idle /\ Called(Loop!Idle)
      /\ \A d \in Drivers \ {c} : asked'[d] = asked[d]
  BY <1>1 DEF LoopInv, LoopTypes, Called, Loop!Idle
<1>3. /\ Tracked(tracker') /\ tracker'.fresh = tracker.fresh /\ tracker'.digest = tracker.digest
      /\ tracker'.mutated = (tracker.mutated \/ (tracker.fresh /\ noted))
  BY <1>1 DEF LoopInv, LoopTypes, Tracked
<1>4. LoopTypes'
  BY <1>1, <1>2, <1>3 DEF LoopInv, LoopTypes
<1>5. Loop!Hinting' => Loop!Hinting /\ ~noted
  BY <1>3 DEF Loop!Hinting
<1>6. Unmarked /\ ~noted => Unmarked'
  <2> SUFFICES ASSUME NEW d \in Drivers, Loop!At(d, "handled"), ~Loop!Free(asked[d].tool, Loop!ALWAYS_EXEMPT), ~noted
               PROVE  Unmarked'
    BY DEF Unmarked
  <2>1. d # c
    OBVIOUS
  <2>2. asked'[d] = asked[d]
    BY <1>2, <2>1
  <2> QED BY <2>2 DEF Unmarked, Loop!At, Loop!Free, Loop!ALWAYS_EXEMPT, Loop!READ_PREFIXES
<1> HIDE DEF noted
<1>7. Loop!Hinting' => tracker'.digest \in {Nobody, Loop!Top'} \/ excused' \/ Unmarked'
  BY <1>1, <1>3, <1>5, <1>6, TopStays DEF LoopInv, Recommended
<1>8. \A r \in Watchers : reading'[r] = Nobody \/ r \in slipped' \/ reading'[r] = Loop!Top'
  BY <1>1, TopStays DEF LoopInv, Recommended
<1> QED BY <1>4, <1>7, <1>8 DEF LoopInv, Recommended

LEMMA StatusReadKeeps == ASSUME LoopInv, NEW r \in Watchers, Loop!StatusRead(r) PROVE LoopInv'
<1>1. /\ UNCHANGED <<Loop!registry, tracker, asked, excused, log>>
      /\ reading' = [reading EXCEPT ![r] = Loop!Top] /\ slipped' = slipped \ {r}
  BY DEF Loop!StatusRead, Loop!Collect, Loop!world
<1>2. /\ reading' = [s \in Watchers |-> reading'[s]] /\ reading'[r] = Loop!Top
      /\ \A s \in Watchers \ {r} : reading'[s] = reading[s]
  BY <1>1 DEF LoopInv, LoopTypes
<1>3. LoopTypes'
  BY <1>1, <1>2 DEF LoopInv, LoopTypes
<1>4. (Unmarked' <=> Unmarked) /\ (Loop!Hinting' <=> Loop!Hinting)
  BY <1>1 DEF Unmarked, Loop!At, Loop!Hinting
<1>5. Recommended'
  BY <1>1, <1>2, <1>4, TopStays DEF LoopInv, Recommended
<1> QED BY <1>3, <1>5 DEF LoopInv

LEMMA StatusMarkedKeeps == ASSUME LoopInv, NEW r \in Watchers, Loop!StatusMarked(r) PROVE LoopInv'
<1>1. /\ UNCHANGED <<Loop!registry, asked, slipped, log>> /\ reading[r] # Nobody
      /\ tracker' = [fresh |-> TRUE, digest |-> reading[r], mutated |-> FALSE]
      /\ reading' = [reading EXCEPT ![r] = Nobody] /\ excused' = (r \in slipped)
  BY DEF Loop!StatusMarked, Loop!Mark, Loop!world
<1>2. /\ reading' = [s \in Watchers |-> reading'[s]] /\ reading'[r] = Nobody
      /\ \A s \in Watchers \ {r} : reading'[s] = reading[s]
  BY <1>1 DEF LoopInv, LoopTypes
<1>3. Tracked(tracker') /\ tracker'.digest = reading[r]
  BY <1>1 DEF Tracked
<1>4. LoopTypes'
  BY <1>1, <1>2, <1>3 DEF LoopInv, LoopTypes
<1>5. reading[r] = Loop!Top \/ excused'
  BY <1>1 DEF LoopInv, Recommended
<1>6. Recommended'
  BY <1>1, <1>2, <1>3, <1>5, TopStays DEF LoopInv, Recommended
<1> QED BY <1>4, <1>6 DEF LoopInv

LEMMA LapsesKeep == ASSUME LoopInv, Loop!Lapses PROVE LoopInv'
<1>1. UNCHANGED <<Loop!registry, asked, reading, slipped, log>> /\ tracker' = Loop!NeverRead /\ excused' = FALSE
  BY DEF Loop!Lapses, Loop!Lapse, Loop!world
<1>2. LoopTypes' /\ ~Loop!Hinting'
  BY <1>1 DEF LoopInv, LoopTypes, Loop!NeverRead, Tracked, Loop!Hinting
<1> QED BY <1>1, <1>2, TopStays DEF LoopInv, Recommended

\* Steps of the world around the loop.
LEMMA WorldKeeps ==
  ASSUME LoopInv, UNCHANGED <<Loop!consulting, Loop!registry>>, log' \in {log, Loop!Now}
  PROVE  LoopInv'
<1>1. UNCHANGED <<tracker, asked, reading, slipped, excused>>
  BY DEF Loop!consulting
<1>2. LoopTypes'
  BY <1>1, NowIsRemedied DEF LoopInv, LoopTypes
<1>3. (Unmarked' <=> Unmarked) /\ (Loop!Hinting' <=> Loop!Hinting)
  BY <1>1 DEF Unmarked, Loop!At, Loop!Hinting
<1>4. Recommended'
  BY <1>1, <1>3, TopStays DEF LoopInv, Recommended
<1> QED BY <1>2, <1>4 DEF LoopInv

LEMMA RestartKeeps == ASSUME LoopInv, Loop!Restart PROVE LoopInv'
<1>1. /\ tracker' = Loop!NeverRead /\ asked' = [c \in Drivers |-> Loop!Idle] /\ reading' = [r \in Watchers |-> Nobody]
      /\ slipped' = {} /\ excused' = FALSE /\ log' = Loop!Now
  BY DEF Loop!Restart, Loop!Forget
<1>2. LoopTypes' /\ ~Loop!Hinting'
  BY <1>1, NowIsRemedied DEF LoopTypes, Loop!NeverRead, Tracked, Called, Loop!Idle, Loop!Hinting
<1> QED BY <1>1, <1>2 DEF LoopInv, Recommended

LEMMA LoopBegins == Loop!Init => LoopInv
<1> SUFFICES ASSUME Loop!Init PROVE LoopInv
  OBVIOUS
<1>1. /\ tracker = Loop!NeverRead /\ asked = [c \in Drivers |-> Loop!Idle] /\ reading = [r \in Watchers |-> Nobody]
      /\ slipped = {} /\ excused = FALSE /\ log = {}
  BY DEF Loop!Init, Loop!ConsultationInit
<1>2. LoopTypes /\ ~Loop!Hinting
  BY <1>1 DEF LoopTypes, Loop!NeverRead, Tracked, Called, Loop!Idle, Loop!Hinting
<1> QED BY <1>1, <1>2 DEF LoopInv, Recommended

LEMMA LoopSteadiness == LoopInv /\ [Loop!Next]_(Loop!vars) => LoopInv'
<1> SUFFICES ASSUME LoopInv, [Loop!Next]_(Loop!vars) PROVE LoopInv'
  OBVIOUS
<1>1. CASE UNCHANGED (Loop!vars)
  BY <1>1, WorldKeeps DEF Loop!vars, Loop!world
<1>2. CASE Loop!Sweep \/ \E x \in Routes : Loop!Channel(x)
  BY <1>2, WorldKeeps DEF Loop!Sweep, Loop!Channel
<1>3. CASE \E c \in Drivers : Loop!Begin(c) \/ Loop!Handle(c) \/ Loop!Refuse(c) \/ Loop!Expire(c) \/ Loop!Answer(c)
  BY <1>3, BeginKeeps, HandleKeeps, EndKeeps, AnswerKeeps
<1>4. CASE \/ \E r \in Watchers : Loop!StatusRead(r) \/ Loop!StatusMarked(r)
           \/ Loop!Lapses \/ Loop!Restart
           \/ \E t \in Contests : Loop!Elapse(t)
  BY <1>4, StatusReadKeeps, StatusMarkedKeeps, LapsesKeep, RestartKeeps, ElapseKeeps
<1> QED BY <1>1, <1>2, <1>3, <1>4 DEF Loop!Next

LEMMA LoopInvHints == LoopInv => Loop!HintIsCurrent
BY DEF LoopInv, Recommended, Loop!HintIsCurrent, Loop!Hint, Unmarked, Loop!InFlight

LEMMA LoopInvExits == LoopInv => Loop!DebtsLeaveAnExit
<1> SUFFICES ASSUME LoopInv PROVE Loop!DebtsLeaveAnExit
  OBVIOUS
<1>1. \A v \in Loop!Gate!Open(Loop!Now) : v[1] \in DOMAIN Loop!REMEDY_TOOLS
  BY NowIsRemedied DEF LoopInv, LoopTypes, Loop!Gate!Open
<1>2. DOMAIN Loop!REMEDY_TOOLS = {"stale_open_tournaments", "decision_debt", "upstream_connectivity"}
  BY DEF Loop!REMEDY_TOOLS
<1>3. ASSUME NEW t \in Loop!decision_debt
      PROVE  Loop!Passes("pull_evidence") \/ \E v \in Loop!Gate!Open(Loop!Now) : v[1] = "upstream_connectivity"
  <2>1. ~Loop!Owing("pull_evidence")
    BY DEF Loop!Owing, Loop!DEBT_DISCHARGE_TOOLS
  <2>2. \A v \in Loop!Gate!Open(Loop!Now) : v[1] # "upstream_connectivity" => "pull_evidence" \in Loop!REMEDY_TOOLS[v[1]]
    BY <1>1, <1>2 DEF Loop!REMEDY_TOOLS
  <2> QED BY <2>1, <2>2 DEF Loop!Passes, Loop!Refused, Loop!Gate!Refused
<1>4. ASSUME NEW t, <<"stale_open_tournaments", t>> \in Loop!Gate!Open(Loop!Now), Loop!decision_debt = {},
             NEW tool \in {"close_tournament", "void_tournament", "record_tournament_result"}
      PROVE  Loop!Passes(tool)
  <2>1. ~Loop!Owing(tool)
    BY <1>4 DEF Loop!Owing
  <2>2. tool \in Loop!REMEDY_TOOLS["stale_open_tournaments"]
    BY DEF Loop!REMEDY_TOOLS
  <2>3. <<"stale_open_tournaments", t>>[1] = "stale_open_tournaments"
    OBVIOUS
  <2> QED BY <1>4, <2>1, <2>2, <2>3 DEF Loop!Passes, Loop!Refused, Loop!Gate!Refused
<1>5. ASSUME NEW t \in Loop!stale_open_tournaments, <<"stale_open_tournaments", t>> \in Loop!Gate!Open(Loop!Now),
             Loop!decision_debt = {}
      PROVE  /\ Loop!Passes(IF Loop!Paired(t) THEN "close_tournament" ELSE "void_tournament")
             /\ Loop!Passes("record_tournament_result")
  BY <1>4, <1>5
<1> QED BY <1>3, <1>5 DEF Loop!DebtsLeaveAnExit

-----------------------------------------------------------------------------
\* A behaviour of the model is one of each part.
LEMMA PartsConnect == Parts => Arm!Init /\ [][Arm!Next]_(Arm!vars)
<1>1. Start => Arm!Init
  BY DEF Start
<1>2. [Step]_<<part, armCampaigns, improverLoop>> => [Arm!Next]_(Arm!vars)
  BY DEF Step, armCampaigns, Arm!vars, Arm!armVars, Arm!channelVars, Arm!adaptor, Arm!bounds
<1> QED BY <1>1, <1>2, PTL DEF Parts

LEMMA PartsLoop == Parts => Loop!Init /\ [][Loop!Next]_(Loop!vars)
<1>1. Start => Loop!Init
  BY DEF Start
<1>2. [Step]_<<part, armCampaigns, improverLoop>> => [Loop!Next]_(Loop!vars)
  BY DEF Step, improverLoop, Loop!vars, Loop!consulting, Loop!registry, Loop!world
<1> QED BY <1>1, <1>2, PTL DEF Parts

LEMMA ChannelInvariance == Parts => []ChannelInv
BY PartsConnect, ChannelBegins, ChannelSteadiness, PTL

LEMMA LoopInvariance == Parts => []LoopInv
BY PartsLoop, LoopBegins, LoopSteadiness, PTL

\* A caller that is answered is answered with what the peer did for that call,
\* once, whatever was lost, timed out or reconnected.
THEOREM AnswersAreOwn == Parts => []AnswersMatch
<1>1. ChannelInv => AnswersMatch
  BY ChannelInvAnswers DEF AnswersMatch
<1> QED BY <1>1, ChannelInvariance, PTL

\* The hub never drops a session that works and whose task serves it.
THEOREM HubKeepsSessions == Parts => []HealthyIsKept
<1>1. ChannelInv => HealthyIsKept
  BY ChannelInvAnswers DEF HealthyIsKept
<1> QED BY <1>1, ChannelInvariance, PTL

\* No link of an arm dangles, and an arm whose openings neither failed nor
\* overlapped has one campaign at most.
THEOREM ArmsAreOpenedOnce == Parts => []OneCampaignPerArm
<1>1. ChannelInv => OneCampaignPerArm
  BY ChannelInvLinks DEF OneCampaignPerArm
<1> QED BY <1>1, ChannelInvariance, PTL

\* The hint on a result is what the status would recommend, however calls,
\* reads and deadlines overlap, but for what is excused or in flight.
THEOREM HintsAreCurrent == Parts => []HintIsCurrent
<1>1. LoopInv => HintIsCurrent
  BY LoopInvHints DEF HintIsCurrent
<1> QED BY <1>1, LoopInvariance, PTL

\* No gate strands what pays its own debt.
THEOREM DebtsHaveExits == Parts => []DebtsLeaveAnExit
<1>1. LoopInv => DebtsLeaveAnExit
  BY LoopInvExits DEF DebtsLeaveAnExit
<1> QED BY <1>1, LoopInvariance, PTL
================================================================================
