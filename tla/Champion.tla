------------------------------- MODULE Champion -------------------------------
(***************************************************************************)
(* The champion pointer of the arete server: improvers are registered,     *)
(* decisions recorded, a policy promoted, a candidate rolled back.         *)
(*                                                                         *)
(* register_improver, record_meta_decision and rollback are coroutines     *)
(* that check, await another server and then write without looking again;  *)
(* promote_policy runs in a worker thread.  All of them write over one     *)
(* connection, so the statements of a thread fall between those of the     *)
(* event loop, and inside its transactions.                                *)
(***************************************************************************)
EXTENDS Naturals, FiniteSets

CONSTANTS Improvers,
          ParentOf,       \* parent_id
          Touched,        \* classes of the components its proposal touches
          None,
          Callers,        \* requests the server handles at the same time
          MaxDecisions,   \* bound: decisions that are drawn up
          MaxCrashes      \* bound: process deaths

Classes == {"immutable", "conditional", "modifiable", "unknown"}

ASSUME ChampionAssumption ==
  /\ None \notin Improvers
  /\ ParentOf \in [Improvers -> Improvers \cup {None}]
  /\ Touched \in [Improvers -> SUBSET Classes]
  /\ \A i \in Improvers : ParentOf[i] = None => Touched[i] = {}
  /\ IsFiniteSet(Callers) /\ IsFiniteSet(Improvers)
  /\ {MaxDecisions, MaxCrashes} \subseteq Nat

VARIABLES db, disk, open,   \* improver_versions, meta_decisions, policy_versions
          call,             \* where each handler is
          drawn,            \* decisions drawn up so far: their created_at
          clash,            \* auxiliary: a move of the pointer was run into
          crashes

Conn == INSTANCE Connection
vars == <<db, disk, open, call, drawn, clash, crashes>>

Decisions == [no : 1..MaxDecisions, improver : Improvers,
              verdict : {"promote", "reject", "rollback"}, human : BOOLEAN]
Policies == [improver : Improvers, decision : 1..MaxDecisions,
             previous : Improvers \cup {None}, status : {"active", "rolled_back"}]
Database == [improvers : SUBSET Improvers, champions : SUBSET Improvers,
             decisions : SUBSET Decisions, policies : SUBSET Policies]

NoDecision == [no |-> 0, improver |-> None, verdict |-> "none", human |-> FALSE]
NoPolicy == [improver |-> None, decision |-> 0, previous |-> None, status |-> "none"]

\* A handler: its step, the improver it is about, the decision it records or
\* rests on, the policy it mints or takes back, and what it has read.
Idle == [step |-> "idle", improver |-> None, decision |-> NoDecision,
         policy |-> NoPolicy, read |-> None]
At(c, step) == call[c].step = step
Become(c, record) == call' = [call EXCEPT ![c] = record]
Goto(c, step) == Become(c, [call[c] EXCEPT !.step = step])
Return(c) == Become(c, Idle)

\* Between reading who is champion and having moved the pointer.
Moving(c) == call[c].step \notin {"idle", "digest", "decide"}
Track(c) == clash' = (clash \/ \E o \in Callers \ {c} : Moving(o))

-----------------------------------------------------------------------------
(***************************************************************************)
(* What the checks ask.                                                    *)
(***************************************************************************)
\* mutant: a component the table does not know is as good as a modifiable one
AdmissionTrusting(classes) ==
  IF "immutable" \in classes THEN "rejected"
  ELSE IF "conditional" \in classes THEN "conditional" ELSE "admitted"

\* admission_verdict of propose_meta_change.
Admission(classes) ==
  IF "immutable" \in classes THEN "rejected"
  ELSE IF classes \cap {"conditional", "unknown"} # {} THEN "conditional"
  ELSE "admitted"

\* check_promote_authority: a human decides on what is conditional.
HasAuthority(i, human) == human \/ Admission(Touched[i]) # "conditional"

\* latest_decision: by the time it was drawn up, not by its insertion.
Latest(i) ==
  LET of == {d \in db.decisions : d.improver = i}
  IN  IF of = {} THEN NoDecision ELSE CHOOSE d \in of : \A e \in of : e.no <= d.no

\* get_active_policy: the newest one that has not been taken back.
Active(i) ==
  LET of == {p \in db.policies : p.improver = i /\ p.status = "active"}
  IN  IF of = {} THEN NoPolicy ELSE CHOOSE p \in of : \A q \in of : q.decision <= p.decision

-----------------------------------------------------------------------------
(***************************************************************************)
(* register_improver.                                                      *)
(***************************************************************************)
\* check_digest_claim awaits the episteme server.
RegisterBegin(c, i) ==
  /\ call[c] = Idle
  /\ i \notin db.improvers
  /\ \A o \in Callers : call[o].improver = i => call[o].step \notin {"digest", "register"}
  /\ Become(c, [Idle EXCEPT !.step = "digest", !.improver = i])
  /\ UNCHANGED <<db, disk, open, drawn, clash, crashes>>

\* The parent, the proposal, and whether there is a champion.
RegisterRead(c) ==
  LET i == call[c].improver
  IN  /\ At(c, "digest")
      /\ ParentOf[i] \in db.improvers \cup {None}
      /\ Admission(Touched[i]) # "rejected"
      /\ Become(c, [call[c] EXCEPT !.step = "register",
                                   !.read = IF db.champions = {} THEN i ELSE None])
      /\ Track(c)
      /\ UNCHANGED <<db, disk, open, drawn, crashes>>

RegisterRefused(c) ==
  /\ At(c, "digest")
  /\ Return(c)
  /\ UNCHANGED <<db, disk, open, drawn, clash, crashes>>

RegisterWrite(c) ==
  /\ At(c, "register")
  /\ Conn!Save([db EXCEPT !.improvers = @ \cup {call[c].improver},
                          !.champions = @ \cup ({call[c].read} \ {None})])
  /\ Track(c)
  /\ Return(c)
  /\ UNCHANGED <<drawn, crashes>>

-----------------------------------------------------------------------------
(***************************************************************************)
(* record_meta_decision.  The tournament it may cite is Tournament's.      *)
(***************************************************************************)
Draw(c, i, verdict, human, step, read) ==
  /\ call[c] = Idle
  /\ i \in db.improvers
  /\ drawn < MaxDecisions
  /\ drawn' = drawn + 1
  /\ Become(c, [Idle EXCEPT !.step = step, !.improver = i, !.read = read,
                            !.decision = [no |-> drawn + 1, improver |-> i,
                                          verdict |-> verdict, human |-> human]])

\* Who decides is asked of a promotion only.
DecideBegin(c, i, verdict, human) ==
  /\ IF verdict = "promote" THEN HasAuthority(i, human) ELSE ~human
  /\ Draw(c, i, verdict, human, "decide", None)
  /\ UNCHANGED <<db, disk, open, clash, crashes>>

\* The claim is minted or not: the decision is recorded all the same.
Decide(c) ==
  /\ At(c, "decide")
  /\ Conn!Save([db EXCEPT !.decisions = @ \cup {call[c].decision}])
  /\ Track(c)
  /\ Return(c)
  /\ UNCHANGED <<drawn, crashes>>

-----------------------------------------------------------------------------

\* check_promote_allowed.
PromoteAllowed(i) ==
  /\ i \in db.improvers \ db.champions
  /\ Latest(i).verdict = "promote"
  /\ HasAuthority(i, Latest(i).human)

PromoteBegin(c, i) ==
  /\ call[c] = Idle
  /\ PromoteAllowed(i)
  /\ Become(c, [Idle EXCEPT !.step = "promote", !.improver = i, !.decision = Latest(i)])
  /\ Track(c)
  /\ UNCHANGED <<db, disk, open, drawn, crashes>>

\* get_champion, and the policy that names it.
PromoteRead(c) ==
  /\ At(c, "promote")
  /\ \E previous \in IF db.champions = {} THEN {None} ELSE db.champions :
       Become(c, [call[c] EXCEPT !.step = "promoting",
                    !.policy = [improver |-> call[c].improver, status |-> "active",
                                decision |-> call[c].decision.no, previous |-> previous]])
  /\ Track(c)
  /\ UNCHANGED <<db, disk, open, drawn, crashes>>

Enter(c) ==
  /\ \/ At(c, "promoting") /\ Goto(c, "policy")
     \/ At(c, "restoring") /\ Goto(c, "decision")
  /\ Conn!BeginTx
  /\ Track(c)
  /\ UNCHANGED <<drawn, crashes>>

\* Another handler's transaction is open: the call ends in an error.
EnterRefused(c) ==
  /\ At(c, "promoting") \/ At(c, "restoring")
  /\ Conn!BeginRefused
  /\ Return(c)
  /\ UNCHANGED <<drawn, clash, crashes>>

\* One statement of a transaction.
Statement(c, from, rows, to) ==
  /\ At(c, from)
  /\ Conn!Exec(rows)
  /\ Goto(c, to)
  /\ Track(c)
  /\ UNCHANGED <<drawn, crashes>>

PromotePolicy(c) ==
  Statement(c, "policy", [db EXCEPT !.policies = @ \cup {call[c].policy}], "displace")
\* set_champion_flag, twice.
PromoteDisplace(c) ==
  Statement(c, "displace", [db EXCEPT !.champions = @ \ {call[c].policy.previous}], "crown")
PromoteCrown(c) ==
  Statement(c, "crown", [db EXCEPT !.champions = @ \cup {call[c].improver}], "commit")

Commit(c) ==
  /\ At(c, "commit")
  /\ Conn!Commit
  /\ Track(c)
  /\ Return(c)
  /\ UNCHANGED <<drawn, crashes>>

-----------------------------------------------------------------------------
(***************************************************************************)
(* rollback.                                                               *)
(***************************************************************************)
\* The candidate's row is read before the claim is minted, and not again.
RollbackBegin(c, i) ==
  /\ Draw(c, i, "rollback", FALSE, "minting", IF i \in db.champions THEN i ELSE None)
  /\ Track(c)
  /\ UNCHANGED <<db, disk, open, crashes>>

\* mutant: the pointer is restored whoever holds it
RollbackReadAlways(c) ==
  /\ At(c, "minting")
  /\ Become(c, [call[c] EXCEPT !.step = "restoring", !.policy = Active(call[c].improver)])
  /\ Track(c)
  /\ UNCHANGED <<db, disk, open, drawn, crashes>>

RollbackRead(c) ==
  /\ At(c, "minting")
  /\ call[c].read # None
  /\ Become(c, [call[c] EXCEPT !.step = "restoring", !.policy = Active(call[c].improver)])
  /\ Track(c)
  /\ UNCHANGED <<db, disk, open, drawn, crashes>>

\* It was not the champion: the decision is all there is to record.
RollbackRecord(c) ==
  /\ At(c, "minting")
  /\ call[c].read = None
  /\ Conn!Save([db EXCEPT !.decisions = @ \cup {call[c].decision}])
  /\ Track(c)
  /\ Return(c)
  /\ UNCHANGED <<drawn, crashes>>

\* create_meta_decision commits, which ends the transaction it is part of.
RollbackDecision(c) ==
  /\ At(c, "decision")
  /\ Conn!Save([db EXCEPT !.decisions = @ \cup {call[c].decision}])
  /\ Goto(c, "dethrone")
  /\ Track(c)
  /\ UNCHANGED <<drawn, crashes>>

RollbackDethrone(c) ==
  Statement(c, "dethrone", [db EXCEPT !.champions = @ \ {call[c].improver}], "take back")
RollbackPolicy(c) ==
  LET old == call[c].policy
  IN  Statement(c, "take back",
        [db EXCEPT !.policies = IF old = NoPolicy THEN @
                                ELSE (@ \ {old}) \cup {[old EXCEPT !.status = "rolled_back"]}],
        "restore")
\* The champion it displaced, or else its parent.
Restored(c) ==
  IF call[c].policy.previous # None THEN call[c].policy.previous ELSE ParentOf[call[c].improver]

RollbackRestore(c) ==
  Statement(c, "restore", [db EXCEPT !.champions = @ \cup ({Restored(c)} \cap db.improvers)],
            "commit")

Crash ==
  /\ crashes < MaxCrashes
  /\ crashes' = crashes + 1
  /\ Conn!Reopen
  /\ call' = [c \in Callers |-> Idle]
  /\ UNCHANGED <<drawn, clash>>

-----------------------------------------------------------------------------
Init ==
  /\ db = [improvers |-> {}, champions |-> {}, decisions |-> {}, policies |-> {}]
  /\ disk = db
  /\ open = FALSE
  /\ call = [c \in Callers |-> Idle]
  /\ drawn = 0 /\ clash = FALSE /\ crashes = 0

Next ==
  \/ Crash
  \/ \E c \in Callers :
       \/ \E i \in Improvers :
            \/ RegisterBegin(c, i) \/ PromoteBegin(c, i) \/ RollbackBegin(c, i)
            \/ \E human \in BOOLEAN, verdict \in {"promote", "reject"} :
                 DecideBegin(c, i, verdict, human)
       \/ RegisterRead(c) \/ RegisterRefused(c) \/ RegisterWrite(c) \/ Decide(c)
       \/ PromoteRead(c) \/ Enter(c) \/ EnterRefused(c)
       \/ PromotePolicy(c) \/ PromoteDisplace(c) \/ PromoteCrown(c) \/ Commit(c)
       \/ RollbackRead(c) \/ RollbackRecord(c) \/ RollbackDecision(c)
       \/ RollbackDethrone(c) \/ RollbackPolicy(c) \/ RollbackRestore(c)

Spec == Init /\ [][Next]_vars

-----------------------------------------------------------------------------
\* The types of the rows; what nobody has open is on disk, and a champion is
\* an improver.
TypeOK ==
  /\ db \in Database /\ disk \in Database
  /\ open \in BOOLEAN
  /\ open = FALSE => db = disk
  /\ db.champions \subseteq db.improvers
  /\ drawn \in 0..MaxDecisions

-----------------------------------------------------------------------------
(***************************************************************************)
(* The audits of integrity/checks.py, over what is on disk.                *)
(***************************************************************************)
single_champion == Cardinality(disk.champions) <= 1

\* The parent is missing, or the walk to genesis meets an improver again, which
\* it does in a set of improvers that all have their parents in it.
lineage_integrity ==
  {i \in disk.improvers :
     \/ ParentOf[i] \notin disk.improvers \cup {None}
     \/ \E walk \in SUBSET disk.improvers : i \in walk /\ \A a \in walk : ParentOf[a] \in walk}

decisions_reference_candidates == {d \in disk.decisions : d.improver \notin disk.improvers}

\* An active policy for what is conditional that rests on no person's decision.
conditional_human_gate ==
  {p \in disk.policies :
     /\ p.status = "active" /\ Admission(Touched[p.improver]) = "conditional"
     /\ \E d \in disk.decisions : d.no = p.decision /\ ~d.human}

-----------------------------------------------------------------------------
\* single_champion: at most one improver holds the pointer, after every death
\* and whatever the order of promotions and rollbacks, as long as no handler
\* runs into another one's move.
SingleChampion == ~clash => single_champion

\* The other audits stay clean whatever overlaps, and more: a policy rests on a
\* decision to promote that improver that is on disk when it is, and on a
\* person's if a component that is not plainly modifiable was touched.
PoliciesAreAuthorised ==
  /\ lineage_integrity = {} /\ decisions_reference_candidates = {}
  /\ conditional_human_gate = {}
  /\ \A p \in disk.policies : \E d \in disk.decisions :
       /\ d.no = p.decision /\ d.improver = p.improver /\ d.verdict = "promote"
       /\ Touched[p.improver] \subseteq {"modifiable"} \/ d.human

===============================================================================
