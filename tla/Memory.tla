-------------------------------- MODULE Memory --------------------------------
(***************************************************************************)
(* The claim graph of the anamnesis server: assert_claim and relate, which *)
(* run in worker threads over one connection.  A handler checks, looks up, *)
(* and writes in statements of its own; statements of other handlers fall  *)
(* between them, and inside its transaction.                               *)
(***************************************************************************)
EXTENDS Naturals, FiniteSets

CONSTANTS Claims,        \* claim ids: each is drawn once
          Contents,
          ContentOf,     \* the text a claim id is drawn for
          Evidence,      \* bound: the evidence lists that callers pass
          Targets,       \* bound: the claims that callers want to replace
          Callers,       \* requests the server handles at the same time
          MaxCrashes     \* bound: process deaths

\* An opaque reference, an entry without "to_ref", no claim at all.
Trial == "trial"
NoKey == "no to_ref"
None == "none"

ASSUME MemoryAssumption ==
  /\ ContentOf \in [Claims -> Contents]
  /\ {Trial, NoKey, None} \cap Claims = {}
  /\ Evidence \subseteq SUBSET (Claims \cup {Trial, NoKey})
  /\ Targets \subseteq Claims
  /\ MaxCrashes \in Nat

VARIABLES db, disk, open,
          call,       \* where each handler is
          drawn,      \* ids that have been drawn
          asserted,   \* auxiliary: the edges a claim was asserted with
          mixed,      \* auxiliary: claims whose transaction others ran into
          answered,   \* auxiliary: claims a caller was told of
          crashes

Conn == INSTANCE Connection
aux == <<drawn, asserted, mixed, answered, crashes>>
vars == <<db, disk, open, call, aux>>

Edge(i, ref, relation) == [from |-> i, to |-> ref, relation |-> relation]
Edges == [from : Claims, to : Claims \cup {Trial}, relation : {"evidence", "supersedes"}]
Row(i, supersedes) == [id |-> i, supersedes |-> supersedes]
Rows == [id : Claims, supersedes : Claims \cup {None}]
Ids(d) == {r.id : r \in d.claims}
\* Edges without a "to_ref" fail when the loop of the insertions reaches them.
Lacking(todo) == {e \in todo : e.to = NoKey}

Idle == [step |-> "idle", row |-> Row(None, None), todo |-> {}]
At(c, step) == call[c].step = step
Goto(c, step) == call' = [call EXCEPT ![c].step = step]
Return(c) == call' = [call EXCEPT ![c] = Idle]

\* Inside `with store.transaction()`, on behalf of a claim that is minted.
Minting(c) == call[c].step \in {"claim", "edges"}
\* Every statement that writes, commits or rolls back runs into the
\* transactions the others are inside of.
Intrude(c) == mixed' = mixed \cup {call[o].row.id : o \in {o \in Callers \ {c} : Minting(o)}}
                             \cup IF Minting(c) /\ \E o \in Callers \ {c} : Minting(o)
                                  THEN {call[c].row.id} ELSE {}

-----------------------------------------------------------------------------
(***************************************************************************)
(* assert_claim.                                                           *)
(***************************************************************************)
\* Claim-typed references have to exist; the others are not looked at.
AssertBegin(c, i, evidence, supersedes) ==
  /\ call[c] = Idle
  /\ i \notin drawn
  /\ evidence \cap Claims \subseteq Ids(db)
  /\ call' = [call EXCEPT ![c] =
                [step |-> "lookup", row |-> Row(i, supersedes),
                 todo |-> {Edge(i, ref, "evidence") : ref \in evidence}]]
  /\ drawn' = drawn \cup {i}
  /\ UNCHANGED <<db, disk, open, asserted, mixed, answered, crashes>>

\* The content is known: the edges go to the claim that has it.
Attach(c) ==
  /\ At(c, "lookup")
  /\ \E i \in Ids(db) :
       /\ ContentOf[i] = ContentOf[call[c].row.id]
       /\ call' = [call EXCEPT ![c].step = "attach",
                               ![c].todo = {[e EXCEPT !.from = i] : e \in call[c].todo}]
  /\ UNCHANGED <<db, disk, open, aux>>

\* It is new: check_supersedes_exists, and the supersedes edge is added.
Mint(c) ==
  LET row == call[c].row
      todo == call[c].todo \cup
                IF row.supersedes = None THEN {}
                ELSE {Edge(row.id, row.supersedes, "supersedes")}
  IN  /\ At(c, "lookup")
      /\ \A i \in Ids(db) : ContentOf[i] # ContentOf[row.id]
      /\ row.supersedes \in Ids(db) \cup {None}
      /\ call' = [call EXCEPT ![c].step = "mint", ![c].todo = todo]
      /\ asserted' = [asserted EXCEPT ![row.id] = todo]
      /\ UNCHANGED <<db, disk, open, drawn, mixed, answered, crashes>>

\* The claim to supersede is not there.
MintRefused(c) ==
  /\ At(c, "lookup")
  /\ \A i \in Ids(db) : ContentOf[i] # ContentOf[call[c].row.id]
  /\ call[c].row.supersedes \notin Ids(db) \cup {None}
  /\ Return(c)
  /\ UNCHANGED <<db, disk, open, aux>>

Enter(c) ==
  /\ \/ At(c, "mint") /\ Goto(c, "claim")
     \/ At(c, "attach") /\ Goto(c, "attaching")
  /\ Conn!BeginTx
  /\ UNCHANGED aux

\* The refusal is raised by __enter__, so nothing is rolled back.
EnterRefused(c) ==
  /\ At(c, "mint") \/ At(c, "attach")
  /\ Conn!BeginRefused
  /\ Return(c)
  /\ UNCHANGED aux

\* mutant: no FOREIGN KEY on supersedes_id
AcceptsClaimUnreferenced(row) == \A i \in Ids(db) : ContentOf[i] # ContentOf[row.id]

\* The constraints of claims: UNIQUE content_hash, REFERENCES claims(id).
AcceptsClaim(row) ==
  /\ \A i \in Ids(db) : ContentOf[i] # ContentOf[row.id]
  /\ row.supersedes \in Ids(db) \cup {None}

\* mutant: create_claim commits, as other stores' inserts do
InsertClaimCommits(c) ==
  LET rows == [db EXCEPT !.claims = @ \cup {call[c].row}]
  IN  /\ At(c, "claim")
      /\ AcceptsClaim(call[c].row)
      /\ db' = rows /\ disk' = rows /\ open' = FALSE
      /\ Intrude(c)
      /\ Goto(c, "edges")
      /\ UNCHANGED <<drawn, asserted, answered, crashes>>

InsertClaim(c) ==
  /\ At(c, "claim")
  /\ AcceptsClaim(call[c].row)
  /\ Conn!Exec([db EXCEPT !.claims = @ \cup {call[c].row}])
  /\ Intrude(c)
  /\ Goto(c, "edges")
  /\ UNCHANGED <<drawn, asserted, answered, crashes>>

InsertEdge(c) ==
  /\ At(c, "edges") \/ At(c, "attaching")
  /\ \E e \in call[c].todo \ Lacking(call[c].todo) :
       /\ e.from \in Ids(db)
       /\ Conn!Exec([db EXCEPT !.edges = @ \cup {e}])
       /\ call' = [call EXCEPT ![c].todo = @ \ {e}]
  /\ Intrude(c)
  /\ UNCHANGED <<drawn, asserted, answered, crashes>>

\* A constraint fails, or an entry lacks its reference: __exit__ rolls back.
Fail(c) ==
  /\ \/ At(c, "claim") /\ ~AcceptsClaim(call[c].row)
     \/ /\ At(c, "edges") \/ At(c, "attaching")
        /\ \/ Lacking(call[c].todo) # {}
           \/ \E e \in call[c].todo : e.from \notin Ids(db)
  /\ Conn!Rollback
  /\ Intrude(c)
  /\ Return(c)
  /\ UNCHANGED <<drawn, asserted, answered, crashes>>

\* __exit__ commits and the caller is answered.
Leave(c) ==
  /\ At(c, "edges") \/ At(c, "attaching")
  /\ call[c].todo = {}
  /\ Conn!Commit
  /\ Intrude(c)
  /\ answered' = IF At(c, "edges") THEN answered \cup {call[c].row.id} ELSE answered
  /\ Return(c)
  /\ UNCHANGED <<drawn, asserted, crashes>>

-----------------------------------------------------------------------------
(***************************************************************************)
(* relate, and acknowledge_violation, whose row is not modelled.           *)
(***************************************************************************)
\* check_edge_valid.
EdgeValid(i, ref) == i \in Ids(db) /\ ref # i /\ (ref \in Claims => ref \in Ids(db))

\* find_edge.
Related(i, ref) == Edge(i, ref, "evidence") \in db.edges

RelateBegin(c, i, ref) ==
  /\ call[c] = Idle
  /\ EdgeValid(i, ref) /\ ~Related(i, ref)
  /\ call' = [call EXCEPT ![c] = [step |-> "relate", row |-> Row(None, None),
                                  todo |-> {Edge(i, ref, "evidence")}]]
  /\ UNCHANGED <<db, disk, open, aux>>

Relate(c) ==
  /\ At(c, "relate")
  /\ \E e \in call[c].todo :
       IF e.from \in Ids(db)
       THEN Conn!Exec([db EXCEPT !.edges = @ \cup {e}]) /\ Goto(c, "commit")
       ELSE Conn!ExecFails /\ Return(c)      \* REFERENCES claims(id)
  /\ Intrude(c)
  /\ UNCHANGED <<drawn, asserted, answered, crashes>>

Acknowledge(c) ==
  /\ call[c] = Idle
  /\ Conn!Exec(db)
  /\ Goto(c, "commit")
  /\ Intrude(c)
  /\ UNCHANGED <<drawn, asserted, answered, crashes>>

CommitOne(c) ==
  /\ At(c, "commit")
  /\ Conn!Commit
  /\ Intrude(c)
  /\ Return(c)
  /\ UNCHANGED <<drawn, asserted, answered, crashes>>

Crash ==
  /\ crashes < MaxCrashes
  /\ crashes' = crashes + 1
  /\ Conn!Reopen
  /\ call' = [c \in Callers |-> Idle]
  /\ UNCHANGED <<drawn, asserted, mixed, answered>>

-----------------------------------------------------------------------------
(***************************************************************************)
(* What check_invariants looks for in a database.                          *)
(***************************************************************************)
Dangling(d) == {e \in d.edges : e.to \in Claims \ Ids(d)}

\* Targets that are missing, and chains that come back: a set of claims that
\* all replace a claim of the set.
Broken(d) ==
  {r \in d.claims :
     \/ r.supersedes \notin Ids(d) \cup {None}
     \/ \E chain \in SUBSET d.claims :
          r \in chain /\ \A s \in chain : s.supersedes \in {t.id : t \in chain}}

Init ==
  /\ db = [claims |-> {}, edges |-> {}]
  /\ disk = db
  /\ open = FALSE
  /\ call = [c \in Callers |-> Idle]
  /\ drawn = {} /\ mixed = {} /\ answered = {}
  /\ asserted = [i \in Claims |-> {}]
  /\ crashes = 0

Next ==
  \/ Crash
  \/ \E c \in Callers :
       \/ \E i \in Claims, evidence \in Evidence, supersedes \in Targets \cup {None} :
            AssertBegin(c, i, evidence, supersedes)
       \/ Attach(c) \/ Mint(c) \/ MintRefused(c)
       \/ Enter(c) \/ EnterRefused(c)
       \/ InsertClaim(c) \/ InsertEdge(c) \/ Fail(c) \/ Leave(c)
       \/ \E i \in Claims, ref \in (UNION Evidence) \ {NoKey} : RelateBegin(c, i, ref)
       \/ Relate(c) \/ Acknowledge(c) \/ CommitOne(c)

Spec == Init /\ [][Next]_vars

-----------------------------------------------------------------------------
Database == [claims : SUBSET Rows, edges : SUBSET Edges]

TypeOK ==
  /\ db \in Database /\ disk \in Database
  /\ open \in BOOLEAN
  /\ open = FALSE => db = disk
  /\ drawn \subseteq Claims /\ answered \subseteq drawn
  /\ Ids(db) \cup Ids(disk) \subseteq drawn

\* A claim that replaces another names one that is there, for every reader
\* and after every death, and following the chain comes to an end: what one
\* handler has checked, another one's rollback may since have taken away.
SupersessionIsSound == \A d \in {db, disk} : Broken(d) = {}

\* No content is minted twice, whichever handlers looked it up before either
\* of them had written it.
OneClaimPerContent ==
  \A d \in {db, disk} : \A r, s \in d.claims : ContentOf[r.id] = ContentOf[s.id] => r = s

\* A claim whose transaction no other statement ran into is on disk with all
\* the edges it was asserted with, and one that was answered is there: whatever
\* the audit of the references reports as dangling was never answered, or shared
\* its transaction.
TransactionsHoldAlone ==
  /\ \A i \in Ids(disk) \ mixed : asserted[i] \subseteq disk.edges
  /\ answered \ mixed \subseteq Ids(disk)
  /\ {e.to : e \in Dangling(disk)} \cap answered \subseteq mixed

===============================================================================
