----------------------------- MODULE Memory_proofs -----------------------------
(***************************************************************************)
(* What the claim graph keeps to although the handlers' statements run     *)
(* into one another's transactions, for any claims and handlers.           *)
(*                                                                         *)
(* The inductive invariant is the types and three parts.  Chained, of the  *)
(* connection's view and of the disk: no two rows of one id or one text,   *)
(* and the chains are sound; the check and the constraints of the insert   *)
(* establish it and the rest goes back to the disk.  Fresh: until its row  *)
(* is inserted, the id a handler has drawn is nowhere else.  Whole: the    *)
(* claims nobody ran into have their edges, or their handler is still      *)
(* about to insert the others.                                             *)
(*                                                                         *)
(* The tournaments of arete, beside it in MCRecords, have TournamentInv.   *)
(***************************************************************************)
EXTENDS MCRecords, TLAPS

-----------------------------------------------------------------------------
Steps == {"idle", "lookup", "attach", "attaching", "mint", "claim", "edges", "relate", "commit"}
Entries == [from : Claims, to : Claims \cup {Trial, NoKey}, relation : {"evidence", "supersedes"}]
Drafts == [id : Claims \cup {None}, supersedes : Claims \cup {None}]
Handlers == [step : Steps, row : Drafts, todo : SUBSET Entries]

\* A handler that has drawn an id and not returned.
Asserting(c) == call[c].step \in {"lookup", "attach", "attaching", "mint", "claim", "edges"}

Types ==
  /\ TypeOK
  /\ call \in [Callers -> Handlers]
  /\ asserted \in [Claims -> SUBSET Entries]
  /\ \A c \in Callers : Asserting(c) => call[c].row.id \in drawn
  /\ \A c \in Callers : At(c, "relate") => call[c].todo \subseteq Edges
  /\ disk.claims \subseteq db.claims /\ disk.edges \subseteq db.edges

Closed(chain) == \A r \in chain : r.supersedes \in {s.id : s \in chain}
Chained(d) ==
  /\ \A r, s \in d.claims : ContentOf[r.id] = ContentOf[s.id] => r = s
  /\ \A r \in d.claims : r.supersedes \in Ids(d) \cup {None}
  /\ \A chain \in SUBSET d.claims : chain # {} => ~Closed(chain)

Fresh ==
  /\ \A c, o \in Callers : Asserting(c) /\ Asserting(o) /\ c # o => call[c].row.id # call[o].row.id
  /\ \A c \in Callers : Asserting(c) /\ ~At(c, "edges") => call[c].row.id \notin Ids(db)

Whole ==
  /\ \A i \in Ids(disk) \ mixed : asserted[i] \subseteq disk.edges
  /\ \A i \in Ids(db) \ mixed :
       asserted[i] \subseteq db.edges \/ \E c \in Callers : At(c, "edges") /\ call[c].row.id = i
  /\ \A c \in Callers :
       /\ call[c].step \in {"mint", "claim"} => asserted[call[c].row.id] = call[c].todo
       /\ At(c, "edges") /\ call[c].row.id \notin mixed =>
            call[c].row.id \in Ids(db) /\ asserted[call[c].row.id] \ call[c].todo \subseteq db.edges
  /\ answered \ mixed \subseteq Ids(disk)

IndInv == Types /\ Chained(db) /\ Chained(disk) /\ Fresh /\ Whole

-----------------------------------------------------------------------------
(***************************************************************************)
(* The chains.                                                             *)
(***************************************************************************)
LEMMA ChainedRows ==
  ASSUME NEW d, NEW e, e.claims = d.claims, Chained(d)
  PROVE  Chained(e)
BY DEF Chained, Ids

\* An accepted row has a new text, hence a new id: nothing replaces it yet, so
\* that it closes no chain.
LEMMA InsertKeepsChains ==
  ASSUME NEW row \in Rows, NEW claims \in SUBSET Rows, NEW d, NEW e, d.claims = claims,
         e.claims = claims \cup {row}, Chained(d),
         \A i \in Ids(d) : ContentOf[i] # ContentOf[row.id],
         row.supersedes \in Ids(d) \cup {None}
  PROVE  Chained(e)
<1>1. row.id \in Claims /\ None \notin Claims
  BY MemoryAssumption DEF Rows
<1>2. row.id \notin Ids(d) /\ row \notin d.claims
  BY DEF Ids
<1>3. Ids(e) = Ids(d) \cup {row.id}
  BY DEF Ids
<1>4. \A r, s \in e.claims : ContentOf[r.id] = ContentOf[s.id] => r = s
  BY DEF Chained, Ids
<1>5. \A r \in e.claims : r.supersedes \in Ids(e) \cup {None}
  BY <1>3 DEF Chained
<1>6. ASSUME NEW chain \in SUBSET e.claims, chain # {}, Closed(chain)
      PROVE  FALSE
  <2>1. CASE row \notin chain
    BY <1>6, <2>1 DEF Chained
  <2>2. CASE row \in chain
    <3>1. \A r \in chain \ {row} : r.supersedes # row.id
      BY <1>1, <1>2 DEF Chained
    <3>2. row.supersedes # row.id
      BY <1>1, <1>2
    <3>3. \A r \in chain : \E s \in chain \ {row} : s.id = r.supersedes
      BY <1>6, <3>1, <3>2 DEF Closed
    <3>4. chain \ {row} \in SUBSET d.claims /\ chain \ {row} # {} /\ Closed(chain \ {row})
      BY <2>2, <3>3 DEF Closed
    <3> QED
      BY <3>4 DEF Chained
  <2> QED
    BY <2>1, <2>2
<1> QED
  BY <1>4, <1>5, <1>6 DEF Chained

LEMMA ChainedIsSound ==
  ASSUME NEW d, Chained(d)
  PROVE  Broken(d) = {}
<1>1. ASSUME NEW r \in d.claims, NEW chain \in SUBSET d.claims,
             r \in chain, \A s \in chain : s.supersedes \in {t.id : t \in chain}
      PROVE  FALSE
  BY <1>1 DEF Chained, Closed
<1> QED
  BY <1>1 DEF Chained, Broken

\* What a step does to the database.
LEMMA Moves ==
  ASSUME Types, [Next]_vars
  PROVE  \/ db' = db /\ disk' \in {db, disk}
         \/ db' = disk /\ disk' = disk
         \/ \E c \in Callers : InsertClaim(c)
         \/ \E e \in Edges : db' = [db EXCEPT !.edges = @ \cup {e}] /\ disk' = disk
<1> USE DEF Conn!Exec, Conn!ExecFails, Conn!Commit, Conn!Rollback, Conn!Reopen, Conn!BeginTx,
            Conn!BeginRefused, Conn!connection
<1>1. CASE UNCHANGED vars \/ Crash
  BY <1>1 DEF vars, Crash
<1>2. ASSUME NEW c \in Callers,
             \/ \E i \in Claims, evidence \in Evidence, supersedes \in Targets \cup {None} :
                  AssertBegin(c, i, evidence, supersedes)
             \/ Attach(c) \/ Mint(c) \/ MintRefused(c) \/ Enter(c) \/ EnterRefused(c)
             \/ \E i \in Claims, ref \in (UNION Evidence) \ {NoKey} : RelateBegin(c, i, ref)
      PROVE  db' = db /\ disk' = disk
  BY <1>2 DEF AssertBegin, Attach, Mint, MintRefused, Enter, EnterRefused, RelateBegin
<1>3. ASSUME NEW c \in Callers, Fail(c) \/ Leave(c) \/ CommitOne(c)
      PROVE  \/ db' = db /\ disk' \in {db, disk}
             \/ db' = disk /\ disk' = disk
  BY <1>3 DEF Fail, Leave, CommitOne
<1>4. ASSUME NEW c \in Callers, Acknowledge(c)
      PROVE  db' = db /\ disk' = disk
  BY <1>4 DEF Acknowledge
<1>5. ASSUME NEW c \in Callers, InsertEdge(c)
      PROVE  \E e \in Edges : db' = [db EXCEPT !.edges = @ \cup {e}] /\ disk' = disk
  <2>1. PICK e \in call[c].todo \ Lacking(call[c].todo) : db' = [db EXCEPT !.edges = @ \cup {e}] /\ disk' = disk
    BY <1>5 DEF InsertEdge
  <2>2. e \in Edges
    BY <2>1 DEF Types, Handlers, Entries, Lacking, Edges
  <2> QED
    BY <2>1, <2>2
<1>6. ASSUME NEW c \in Callers, Relate(c)
      PROVE  \/ db' = db /\ disk' = disk
             \/ \E e \in Edges : db' = [db EXCEPT !.edges = @ \cup {e}] /\ disk' = disk
  <2>1. PICK e \in call[c].todo : \/ db' = db /\ disk' = disk
                                  \/ db' = [db EXCEPT !.edges = @ \cup {e}] /\ disk' = disk
    BY <1>6 DEF Relate
  <2>2. e \in Edges
    BY <1>6, <2>1 DEF Types, Relate
  <2> QED
    BY <2>1, <2>2
<1> QED
  BY <1>1, <1>2, <1>3, <1>4, <1>5, <1>6 DEF Next

LEMMA ChainedStep ==
  ASSUME Types, Chained(db), Chained(disk), [Next]_vars
  PROVE  Chained(db)' /\ Chained(disk)'
<1>1. CASE db' \in {db, disk} /\ disk' \in {db, disk}
  <2>1. Chained(db') /\ Chained(disk')
    BY <1>1
  <2> QED
    BY <2>1 DEF Chained, Ids
<1>2. ASSUME NEW c \in Callers, InsertClaim(c)
      PROVE  Chained(db)' /\ Chained(disk)'
  <2>1. /\ db' = [db EXCEPT !.claims = @ \cup {call[c].row}] /\ disk' = disk
        /\ AcceptsClaim(call[c].row) /\ At(c, "claim")
    BY <1>2 DEF InsertClaim, Conn!Exec
  <2>2. db.claims \in SUBSET Rows /\ db'.claims = db.claims \cup {call[c].row}
    BY <2>1 DEF Types, TypeOK, Database
  <2>3. call[c].row \in Rows
    <3>1. call[c].row \in Drafts /\ call[c].row.id \in Claims
      BY <2>1 DEF Types, TypeOK, Handlers, Asserting, At
    <3> QED
      BY <3>1 DEF Drafts, Rows
  <2>4. Chained(db')
    BY <2>1, <2>2, <2>3, InsertKeepsChains DEF AcceptsClaim
  <2> QED
    BY <2>1, <2>4 DEF Chained, Ids
<1>3. ASSUME NEW e \in Edges, db' = [db EXCEPT !.edges = @ \cup {e}], disk' = disk
      PROVE  Chained(db)' /\ Chained(disk)'
  <2>1. db'.claims = db.claims
    BY <1>3 DEF Types, TypeOK, Database
  <2>2. Chained(db')
    BY <2>1, ChainedRows
  <2> QED
    BY <1>3, <2>2 DEF Chained, Ids
<1> QED
  BY <1>1, <1>2, <1>3, Moves

-----------------------------------------------------------------------------
(***************************************************************************)
(* The types and the ids that are drawn.                                   *)
(***************************************************************************)
LEMMA DatabaseStep ==
  ASSUME Types, [Next]_vars
  PROVE  /\ db' \in Database /\ disk' \in Database
         /\ disk'.claims \subseteq db'.claims /\ disk'.edges \subseteq db'.edges
         /\ Ids(db)' \cup Ids(disk)' \subseteq drawn
         /\ disk.claims \subseteq disk'.claims /\ disk.edges \subseteq disk'.edges
<1>1. db \in Database /\ disk \in Database /\ disk.claims \subseteq db.claims /\ disk.edges \subseteq db.edges
        /\ Ids(db) \cup Ids(disk) \subseteq drawn
  BY DEF Types, TypeOK
<1>2. CASE \/ db' = db /\ disk' \in {db, disk}
           \/ db' = disk /\ disk' = disk
  BY <1>1, <1>2 DEF Ids
<1>3. ASSUME NEW c \in Callers, InsertClaim(c)
      PROVE  /\ db' = [db EXCEPT !.claims = @ \cup {call[c].row}] /\ disk' = disk
             /\ call[c].row \in Rows /\ call[c].row.id \in drawn
  <2>1. /\ db' = [db EXCEPT !.claims = @ \cup {call[c].row}] /\ disk' = disk
        /\ At(c, "claim")
    BY <1>3 DEF InsertClaim, Conn!Exec
  <2>2. call[c].row \in Drafts /\ call[c].row.id \in drawn /\ drawn \subseteq Claims
    BY <2>1 DEF Types, TypeOK, Handlers, Asserting, At
  <2> QED
    BY <2>1, <2>2 DEF Drafts, Rows
<1>4. ASSUME NEW row \in Rows, row.id \in drawn, db' = [db EXCEPT !.claims = @ \cup {row}], disk' = disk
      PROVE  /\ db' \in Database /\ disk' \in Database
             /\ disk'.claims \subseteq db'.claims /\ disk'.edges \subseteq db'.edges
             /\ Ids(db)' \cup Ids(disk)' \subseteq drawn
             /\ disk.claims \subseteq disk'.claims /\ disk.edges \subseteq disk'.edges
  BY <1>1, <1>4 DEF Database, Ids
<1>5. ASSUME NEW e \in Edges, db' = [db EXCEPT !.edges = @ \cup {e}], disk' = disk
      PROVE  /\ db' \in Database /\ disk' \in Database
             /\ disk'.claims \subseteq db'.claims /\ disk'.edges \subseteq db'.edges
             /\ Ids(db)' \cup Ids(disk)' \subseteq drawn
             /\ disk.claims \subseteq disk'.claims /\ disk.edges \subseteq disk'.edges
  BY <1>1, <1>5 DEF Database, Ids
<1> DEFINE Fine == /\ db' \in Database /\ disk' \in Database
                   /\ disk'.claims \subseteq db'.claims /\ disk'.edges \subseteq db'.edges
                   /\ Ids(db)' \cup Ids(disk)' \subseteq drawn
                   /\ disk.claims \subseteq disk'.claims /\ disk.edges \subseteq disk'.edges
<1>6. CASE \E c \in Callers : InsertClaim(c)
  BY <1>3, <1>4, <1>6
<1>7. CASE \E e \in Edges : db' = [db EXCEPT !.edges = @ \cup {e}] /\ disk' = disk
  BY <1>5, <1>7
<1>8. Fine
  <2> HIDE DEF Fine
  <2>1. (\/ db' = db /\ disk' \in {db, disk}
         \/ db' = disk /\ disk' = disk) => Fine
    BY <1>2 DEF Fine
  <2>2. (\E c \in Callers : InsertClaim(c)) => Fine
    BY <1>6 DEF Fine
  <2>3. (\E e \in Edges : db' = [db EXCEPT !.edges = @ \cup {e}] /\ disk' = disk) => Fine
    BY <1>7 DEF Fine
  <2>4. \/ db' = db /\ disk' \in {db, disk}
        \/ db' = disk /\ disk' = disk
        \/ \E c \in Callers : InsertClaim(c)
        \/ \E e \in Edges : db' = [db EXCEPT !.edges = @ \cup {e}] /\ disk' = disk
    BY Moves
  <2> QED
    BY <2>1, <2>2, <2>3, <2>4
<1> QED
  BY <1>8

\* Where each step leaves its handler.
LEMMA CallStep ==
  ASSUME Types, NEW c \in Callers, Fresh,
         \/ \E i \in Claims, evidence \in Evidence, supersedes \in Targets \cup {None} :
              AssertBegin(c, i, evidence, supersedes)
         \/ Attach(c) \/ Mint(c) \/ MintRefused(c)
         \/ Enter(c) \/ EnterRefused(c)
         \/ InsertClaim(c) \/ InsertEdge(c) \/ Fail(c) \/ Leave(c)
         \/ \E i \in Claims, ref \in (UNION Evidence) \ {NoKey} : RelateBegin(c, i, ref)
         \/ Relate(c) \/ Acknowledge(c) \/ CommitOne(c)
  PROVE  \E h \in Handlers :
           /\ call' = [call EXCEPT ![c] = h]
           /\ h.step = "relate" => h.todo \subseteq Edges
           /\ \/ h.step \in {"idle", "relate", "commit"} /\ drawn' = drawn
              \/ h.step = "lookup" /\ h.row.id \in Claims \ drawn /\ drawn' = drawn \cup {h.row.id}
              \/ /\ h.step \in {"attach", "mint", "attaching", "claim", "edges"}
                 /\ h.row = call[c].row /\ Asserting(c) /\ drawn' = drawn
                 /\ h.step = "edges" => At(c, "claim") \/ At(c, "edges")
                 /\ At(c, "edges") => h.step = "edges"
<1> USE DEF Steps
<1>1. call \in [Callers -> Handlers] /\ call[c] \in Handlers
  BY DEF Types
<1>2. Idle \in Handlers /\ Idle.step = "idle"
  BY DEF Idle, Handlers, Drafts, Row
<1>3. ASSUME Return(c), drawn' = drawn
      PROVE  \E h \in Handlers :
               call' = [call EXCEPT ![c] = h] /\ h.step = "idle" /\ drawn' = drawn
  BY <1>2, <1>3 DEF Return
<1>4. ASSUME NEW step \in Steps
      PROVE  /\ Goto(c, step) => call' = [call EXCEPT ![c] = [call[c] EXCEPT !.step = step]]
             /\ [call[c] EXCEPT !.step = step] \in Handlers
             /\ [call[c] EXCEPT !.step = step].step = step
             /\ [call[c] EXCEPT !.step = step].row = call[c].row
  BY <1>1 DEF Goto, Handlers
<1>5. ASSUME NEW i \in Claims, NEW evidence \in Evidence, NEW supersedes \in Targets \cup {None},
             AssertBegin(c, i, evidence, supersedes)
      PROVE  \E h \in Handlers :
               /\ call' = [call EXCEPT ![c] = h] /\ h.step = "lookup"
               /\ h.row.id \in Claims \ drawn /\ drawn' = drawn \cup {h.row.id}
  <2>1. {Edge(i, ref, "evidence") : ref \in evidence} \in SUBSET Entries
    BY MemoryAssumption DEF Edge, Entries
  <2>2. Row(i, supersedes) \in Drafts /\ Row(i, supersedes).id = i
    BY MemoryAssumption DEF Row, Drafts
  <2>3. PICK h : h = [step |-> "lookup", row |-> Row(i, supersedes),
                      todo |-> {Edge(i, ref, "evidence") : ref \in evidence}]
    OBVIOUS
  <2>4. h \in Handlers
    BY <2>1, <2>2, <2>3 DEF Handlers
  <2> QED
    BY <1>5, <2>2, <2>3, <2>4 DEF AssertBegin
<1>6. ASSUME Attach(c)
      PROVE  \E h \in Handlers :
               /\ call' = [call EXCEPT ![c] = h] /\ h.step = "attach" /\ h.row = call[c].row
  <2>1. PICK i \in Ids(db) : call' = [call EXCEPT ![c].step = "attach",
                                                  ![c].todo = {[e EXCEPT !.from = i] : e \in call[c].todo}]
    BY <1>6 DEF Attach
  <2>2. i \in Claims /\ call[c].todo \in SUBSET Entries
    BY <1>1 DEF Types, TypeOK, Handlers
  <2>3. {[e EXCEPT !.from = i] : e \in call[c].todo} \in SUBSET Entries
    BY <2>2 DEF Entries
  <2>4. ASSUME NEW todo \in SUBSET Entries
        PROVE  /\ [call[c] EXCEPT !.step = "attach", !.todo = todo] \in Handlers
               /\ [call[c] EXCEPT !.step = "attach", !.todo = todo].step = "attach"
               /\ [call[c] EXCEPT !.step = "attach", !.todo = todo].row = call[c].row
    BY <1>1 DEF Handlers
  <2>5. call' = [call EXCEPT ![c] = [call[c] EXCEPT !.step = "attach",
                                                    !.todo = {[e EXCEPT !.from = i] : e \in call[c].todo}]]
    BY <1>1, <2>1
  <2> QED
    BY <2>3, <2>4, <2>5
<1>7. ASSUME Mint(c)
      PROVE  \E h \in Handlers :
               /\ call' = [call EXCEPT ![c] = h] /\ h.step = "mint" /\ h.row = call[c].row
  <2>1. PICK todo : /\ todo = call[c].todo \cup
                                IF call[c].row.supersedes = None THEN {}
                                ELSE {Edge(call[c].row.id, call[c].row.supersedes, "supersedes")}
                    /\ call' = [call EXCEPT ![c].step = "mint", ![c].todo = todo]
    BY <1>7 DEF Mint
  <2>2. call[c].row \in Drafts /\ call[c].row.id \in Claims /\ call[c].todo \in SUBSET Entries
    BY <1>1, <1>7 DEF Types, TypeOK, Handlers, Mint, At, Asserting
  <2>3. todo \in SUBSET Entries
    BY <2>1, <2>2 DEF Edge, Entries, Drafts
  <2>4. /\ [call[c] EXCEPT !.step = "mint", !.todo = todo] \in Handlers
        /\ [call[c] EXCEPT !.step = "mint", !.todo = todo].step = "mint"
        /\ [call[c] EXCEPT !.step = "mint", !.todo = todo].row = call[c].row
    BY <1>1, <2>3 DEF Handlers
  <2>5. call' = [call EXCEPT ![c] = [call[c] EXCEPT !.step = "mint", !.todo = todo]]
    BY <1>1, <2>1
  <2> QED
    BY <2>4, <2>5
<1>8. ASSUME InsertEdge(c)
      PROVE  \E h \in Handlers :
               call' = [call EXCEPT ![c] = h] /\ h.step = call[c].step /\ h.row = call[c].row
  <2>1. PICK e : call' = [call EXCEPT ![c].todo = @ \ {e}]
    BY <1>8 DEF InsertEdge
  <2>2. call[c].todo \ {e} \in SUBSET Entries
    BY <1>1 DEF Handlers
  <2>3. ASSUME NEW todo \in SUBSET Entries
        PROVE  /\ [call[c] EXCEPT !.todo = todo] \in Handlers
               /\ [call[c] EXCEPT !.todo = todo].step = call[c].step
               /\ [call[c] EXCEPT !.todo = todo].row = call[c].row
    BY <1>1 DEF Handlers
  <2>4. call' = [call EXCEPT ![c] = [call[c] EXCEPT !.todo = call[c].todo \ {e}]]
    BY <1>1, <2>1
  <2> QED
    BY <2>2, <2>3, <2>4
<1>9. ASSUME NEW i \in Claims, NEW ref \in (UNION Evidence) \ {NoKey}, RelateBegin(c, i, ref)
      PROVE  \E h \in Handlers :
               call' = [call EXCEPT ![c] = h] /\ h.step = "relate" /\ h.todo \subseteq Edges
  <2>1. Edge(i, ref, "evidence") \in Entries \cap Edges
    <3>1. ref \in Claims \cup {Trial}
      BY MemoryAssumption
    <3> QED
      BY <3>1 DEF Edge, Edges, Entries
  <2>2. PICK h : h = [step |-> "relate", row |-> Row(None, None), todo |-> {Edge(i, ref, "evidence")}]
    OBVIOUS
  <2>3. h \in Handlers /\ h.step = "relate" /\ h.todo \subseteq Edges
    BY <2>1, <2>2 DEF Handlers, Row, Drafts
  <2> QED
    BY <1>9, <2>2, <2>3 DEF RelateBegin
<1>10. ASSUME Enter(c)
       PROVE  \/ Goto(c, "claim") /\ At(c, "mint")
              \/ Goto(c, "attaching") /\ At(c, "attach")
  BY <1>10 DEF Enter
<1>11. ASSUME MintRefused(c) \/ EnterRefused(c) \/ Fail(c) \/ Leave(c) \/ CommitOne(c)
       PROVE  Return(c) /\ drawn' = drawn
  BY <1>11 DEF MintRefused, EnterRefused, Fail, Leave, CommitOne, aux
<1>12. ASSUME InsertClaim(c)
       PROVE  Goto(c, "edges") /\ drawn' = drawn /\ At(c, "claim")
  BY <1>12 DEF InsertClaim
<1>13. ASSUME Relate(c) \/ Acknowledge(c)
       PROVE  (Return(c) \/ Goto(c, "commit")) /\ drawn' = drawn
  BY <1>13 DEF Relate, Acknowledge
<1>14. CASE Attach(c) \/ Mint(c) \/ Enter(c) \/ InsertEdge(c)
  <2>1. drawn' = drawn /\ Asserting(c)
    BY <1>14 DEF Attach, Mint, Enter, InsertEdge, aux, Asserting, At
  <2>2. CASE Attach(c) \/ Mint(c)
    <3>1. At(c, "lookup")
      BY <2>2 DEF Attach, Mint
    <3> QED
      BY <1>6, <1>7, <2>1, <2>2, <3>1 DEF At
  <2>3. CASE Enter(c)
    BY <1>4, <1>10, <2>1, <2>3 DEF At
  <2>4. CASE InsertEdge(c)
    <3>1. At(c, "edges") \/ At(c, "attaching")
      BY <2>4 DEF InsertEdge
    <3> QED
      BY <1>8, <2>1, <2>4, <3>1 DEF At
  <2> QED
    BY <1>14, <2>2, <2>3, <2>4
<1>15. CASE MintRefused(c) \/ EnterRefused(c) \/ Fail(c) \/ Leave(c) \/ CommitOne(c)
  BY <1>3, <1>11, <1>15
<1>16. CASE InsertClaim(c)
  BY <1>4, <1>12, <1>16 DEF At, Asserting
<1>17. CASE Relate(c) \/ Acknowledge(c)
  BY <1>3, <1>4, <1>13, <1>17
<1>18. CASE \E i \in Claims, evidence \in Evidence, supersedes \in Targets \cup {None} :
              AssertBegin(c, i, evidence, supersedes)
  BY <1>5, <1>18
<1>19. CASE \E i \in Claims, ref \in (UNION Evidence) \ {NoKey} : RelateBegin(c, i, ref)
  BY <1>9, <1>19 DEF RelateBegin, aux
<1> QED
  BY <1>14, <1>15, <1>16, <1>17, <1>18, <1>19

LEMMA FreshStep ==
  ASSUME Types, Fresh, [Next]_vars
  PROVE  /\ call' \in [Callers -> Handlers] /\ drawn' \subseteq Claims /\ drawn \subseteq drawn'
         /\ \A c \in Callers : Asserting(c)' => call'[c].row.id \in drawn'
         /\ \A c \in Callers : At(c, "relate")' => call'[c].todo \subseteq Edges
         /\ Fresh'
<1>1. /\ call \in [Callers -> Handlers] /\ drawn \subseteq Claims
      /\ \A c \in Callers : Asserting(c) => call[c].row.id \in drawn
      /\ \A c \in Callers : At(c, "relate") => call[c].todo \subseteq Edges
  BY DEF Types, TypeOK
<1>2. \A c \in Callers : Asserting(c) /\ ~At(c, "edges") /\ ~At(c, "edges")' => call[c].row.id \notin Ids(db)'
  <2>1. ASSUME NEW c \in Callers, InsertClaim(c), NEW o \in Callers,
               Asserting(o), ~At(o, "edges"), ~At(o, "edges")'
        PROVE  call[o].row.id \notin Ids(db)'
    <3>1. /\ db' = [db EXCEPT !.claims = @ \cup {call[c].row}] /\ At(c, "claim") /\ Goto(c, "edges")
      BY <2>1 DEF InsertClaim, Conn!Exec
    <3>2. At(c, "edges")' /\ Asserting(c)
      BY <1>1, <3>1 DEF Goto, At, Asserting, Handlers
    <3>3. Ids(db)' = Ids(db) \cup {call[c].row.id}
      BY <3>1 DEF Ids, Types, TypeOK, Database
    <3> QED
      BY <2>1, <3>2, <3>3 DEF Fresh
  <2>2. ASSUME \/ db' = db /\ disk' \in {db, disk}
               \/ db' = disk /\ disk' = disk
               \/ \E e \in Edges : db' = [db EXCEPT !.edges = @ \cup {e}] /\ disk' = disk
        PROVE  Ids(db)' \subseteq Ids(db)
    BY <2>2 DEF Ids, Types, TypeOK, Database
  <2> QED
    BY <2>1, <2>2, Moves DEF Fresh
<1>3. ASSUME NEW c \in Callers, NEW h \in Handlers, call' = [call EXCEPT ![c] = h],
             h.step = "relate" => h.todo \subseteq Edges,
             \/ h.step \in {"idle", "relate", "commit"} /\ drawn' = drawn
             \/ h.step = "lookup" /\ h.row.id \in Claims \ drawn /\ drawn' = drawn \cup {h.row.id}
             \/ /\ h.step \in {"attach", "mint", "attaching", "claim", "edges"}
                /\ h.row = call[c].row /\ Asserting(c) /\ drawn' = drawn
                /\ h.step = "edges" => At(c, "claim") \/ At(c, "edges")
                /\ At(c, "edges") => h.step = "edges"
      PROVE  /\ call' \in [Callers -> Handlers] /\ drawn' \subseteq Claims /\ drawn \subseteq drawn'
             /\ \A o \in Callers : Asserting(o)' => call'[o].row.id \in drawn'
             /\ \A o \in Callers : At(o, "relate")' => call'[o].todo \subseteq Edges
             /\ Fresh'
  <2>1. call' \in [Callers -> Handlers] /\ drawn' \subseteq Claims /\ drawn \subseteq drawn'
    BY <1>1, <1>3
  <2>2. call'[c] = h /\ \A o \in Callers \ {c} : call'[o] = call[o]
    BY <1>1, <1>3
  <2>3. \A o \in Callers \ {c} : /\ Asserting(o)' <=> Asserting(o)
                                 /\ At(o, "relate")' <=> At(o, "relate")
                                 /\ At(o, "edges")' <=> At(o, "edges")
    BY <2>2 DEF Asserting, At
  <2>4. Asserting(c)' => \/ h.row.id \in Claims \ drawn /\ h.step = "lookup" /\ drawn' = drawn \cup {h.row.id}
                         \/ h.row = call[c].row /\ Asserting(c)
    BY <1>3, <2>2 DEF Asserting
  <2>5. \A o \in Callers : Asserting(o)' => call'[o].row.id \in drawn'
    BY <1>1, <2>1, <2>2, <2>3, <2>4
  <2>6. \A o \in Callers : At(o, "relate")' => call'[o].todo \subseteq Edges
    BY <1>1, <1>3, <2>2, <2>3 DEF At
  <2>7. \A o, p \in Callers : Asserting(o)' /\ Asserting(p)' /\ o # p => call'[o].row.id # call'[p].row.id
    BY <1>1, <2>2, <2>3, <2>4 DEF Fresh
  <2>8. \A o \in Callers : Asserting(o)' /\ ~At(o, "edges")' => call'[o].row.id \notin Ids(db)'
    <3>1. ASSUME NEW o \in Callers \ {c}, Asserting(o)', ~At(o, "edges")'
          PROVE  call'[o].row.id \notin Ids(db)'
      BY <1>2, <2>2, <2>3, <3>1
    <3>2. ASSUME Asserting(c)', ~At(c, "edges")'
          PROVE  call'[c].row.id \notin Ids(db)'
      <4>1. CASE h.row = call[c].row /\ Asserting(c)
        <5>1. ~At(c, "edges")
          BY <1>1, <1>3, <2>2, <3>2, <4>1 DEF At, Asserting
        <5> QED
          BY <1>2, <2>2, <3>2, <4>1, <5>1
      <4>2. CASE h.row.id \in Claims \ drawn /\ h.step = "lookup"
        <5>1. \A o \in Callers : InsertClaim(o) => o = c /\ h.step = "edges"
          <6>1. ASSUME NEW o \in Callers, InsertClaim(o)
                PROVE  call'[o].step = "edges" /\ call[o].step = "claim"
            BY <1>1, <6>1 DEF InsertClaim, Goto, At, Handlers
          <6> QED
            BY <2>2, <6>1
        <5>2. Ids(db)' \subseteq Ids(db) \cup Ids(disk)
          <6>1. \A o \in Callers : ~InsertClaim(o)
            BY <4>2, <5>1
          <6> QED
            BY <6>1, Moves DEF Ids, Types, TypeOK, Database
        <5> QED
          BY <2>2, <4>2, <5>2 DEF Types, TypeOK
      <4> QED
        BY <2>4, <3>2, <4>1, <4>2
    <3> QED
      BY <3>1, <3>2
  <2> QED
    BY <2>1, <2>5, <2>6, <2>7, <2>8 DEF Fresh
<1>4. CASE Crash
  <2>1. call' = [c \in Callers |-> Idle] /\ drawn' = drawn
    BY <1>4 DEF Crash
  <2>2. call' \in [Callers -> Handlers] /\ \A c \in Callers : call'[c].step = "idle"
    BY <2>1 DEF Idle, Handlers, Row, Drafts, Steps
  <2> QED
    BY <1>1, <2>1, <2>2 DEF Fresh, Asserting, At
<1>5. CASE UNCHANGED vars
  <2>1. UNCHANGED <<call, drawn, db>>
    BY <1>5 DEF vars, aux
  <2> QED
    BY <1>1, <2>1 DEF Fresh, Asserting, At, Ids
<1>6. ASSUME NEW c \in Callers,
             \/ \E i \in Claims, evidence \in Evidence, supersedes \in Targets \cup {None} :
                  AssertBegin(c, i, evidence, supersedes)
             \/ Attach(c) \/ Mint(c) \/ MintRefused(c)
             \/ Enter(c) \/ EnterRefused(c)
             \/ InsertClaim(c) \/ InsertEdge(c) \/ Fail(c) \/ Leave(c)
             \/ \E i \in Claims, ref \in (UNION Evidence) \ {NoKey} : RelateBegin(c, i, ref)
             \/ Relate(c) \/ Acknowledge(c) \/ CommitOne(c)
      PROVE  /\ call' \in [Callers -> Handlers] /\ drawn' \subseteq Claims /\ drawn \subseteq drawn'
             /\ \A o \in Callers : Asserting(o)' => call'[o].row.id \in drawn'
             /\ \A o \in Callers : At(o, "relate")' => call'[o].todo \subseteq Edges
             /\ Fresh'
  <2>1. PICK h \in Handlers :
           /\ call' = [call EXCEPT ![c] = h]
           /\ h.step = "relate" => h.todo \subseteq Edges
           /\ \/ h.step \in {"idle", "relate", "commit"} /\ drawn' = drawn
              \/ h.step = "lookup" /\ h.row.id \in Claims \ drawn /\ drawn' = drawn \cup {h.row.id}
              \/ /\ h.step \in {"attach", "mint", "attaching", "claim", "edges"}
                 /\ h.row = call[c].row /\ Asserting(c) /\ drawn' = drawn
                 /\ h.step = "edges" => At(c, "claim") \/ At(c, "edges")
                 /\ At(c, "edges") => h.step = "edges"
    BY <1>6, CallStep
  <2> QED
    BY <1>3, <2>1
<1> QED
  BY <1>4, <1>5, <1>6 DEF Next

LEMMA TypesStep ==
  ASSUME Types, Fresh, [Next]_vars
  PROVE  Types'
<1> USE DEF Conn!Exec, Conn!ExecFails, Conn!Commit, Conn!Rollback, Conn!Reopen, Conn!BeginTx,
            Conn!BeginRefused, Conn!connection
<1>1. /\ open \in BOOLEAN /\ (open = FALSE => db = disk)
      /\ answered \subseteq drawn /\ asserted \in [Claims -> SUBSET Entries]
  BY DEF Types, TypeOK
<1>2. open' \in BOOLEAN /\ (open' = FALSE => db' = disk')
  <2>1. CASE UNCHANGED vars \/ Crash
    BY <1>1, <2>1 DEF vars, Crash
  <2>2. ASSUME NEW c \in Callers,
               \/ \E i \in Claims, evidence \in Evidence, supersedes \in Targets \cup {None} :
                    AssertBegin(c, i, evidence, supersedes)
               \/ Attach(c) \/ Mint(c) \/ MintRefused(c) \/ EnterRefused(c)
               \/ \E i \in Claims, ref \in (UNION Evidence) \ {NoKey} : RelateBegin(c, i, ref)
        PROVE  UNCHANGED <<db, disk, open>>
    BY <2>2 DEF AssertBegin, Attach, Mint, MintRefused, EnterRefused, RelateBegin
  <2>3. ASSUME NEW c \in Callers,
               Enter(c) \/ InsertClaim(c) \/ InsertEdge(c) \/ Relate(c) \/ Acknowledge(c)
        PROVE  open' = TRUE
    BY <2>3 DEF Enter, InsertClaim, InsertEdge, Relate, Acknowledge
  <2>4. ASSUME NEW c \in Callers, Fail(c) \/ Leave(c) \/ CommitOne(c)
        PROVE  open' = FALSE /\ db' = disk'
    BY <2>4 DEF Fail, Leave, CommitOne
  <2> QED
    BY <1>1, <2>1, <2>2, <2>3, <2>4 DEF Next
<1>3. answered' \subseteq drawn /\ asserted' \in [Claims -> SUBSET Entries]
  <2>1. CASE UNCHANGED vars \/ Crash
    BY <1>1, <2>1 DEF vars, aux, Crash
  <2>2. ASSUME NEW c \in Callers,
               \/ \E i \in Claims, evidence \in Evidence, supersedes \in Targets \cup {None} :
                    AssertBegin(c, i, evidence, supersedes)
               \/ Attach(c) \/ MintRefused(c) \/ Enter(c) \/ EnterRefused(c)
               \/ InsertClaim(c) \/ InsertEdge(c) \/ Fail(c) \/ CommitOne(c)
               \/ \E i \in Claims, ref \in (UNION Evidence) \ {NoKey} : RelateBegin(c, i, ref)
               \/ Relate(c) \/ Acknowledge(c)
        PROVE  UNCHANGED <<answered, asserted>>
    BY <2>2 DEF AssertBegin, Attach, MintRefused, Enter, EnterRefused, InsertClaim, InsertEdge, Fail,
                CommitOne, RelateBegin, Relate, Acknowledge, aux
  <2>3. ASSUME NEW c \in Callers, Leave(c)
        PROVE  answered' \subseteq drawn /\ asserted' = asserted
    BY <1>1, <2>3 DEF Leave, Types, Asserting, At
  <2>4. ASSUME NEW c \in Callers, Mint(c)
        PROVE  answered' = answered /\ asserted' \in [Claims -> SUBSET Entries]
    <3>1. PICK todo : /\ todo = call[c].todo \cup
                                  IF call[c].row.supersedes = None THEN {}
                                  ELSE {Edge(call[c].row.id, call[c].row.supersedes, "supersedes")}
                      /\ asserted' = [asserted EXCEPT ![call[c].row.id] = todo]
                      /\ answered' = answered
      BY <2>4 DEF Mint
    <3>2. call[c].row \in Drafts /\ call[c].row.id \in Claims /\ call[c].todo \in SUBSET Entries
      BY <2>4 DEF Types, TypeOK, Handlers, Mint, At, Asserting
    <3>3. todo \in SUBSET Entries
      BY <3>1, <3>2 DEF Edge, Entries, Drafts
    <3> QED
      BY <1>1, <3>1, <3>3
  <2> QED
    BY <1>1, <2>1, <2>2, <2>3, <2>4 DEF Next
<1>4. Ids(db)' \cup Ids(disk)' \subseteq drawn'
  BY DatabaseStep, FreshStep
<1> QED
  BY <1>2, <1>3, <1>4, DatabaseStep, FreshStep DEF Types, TypeOK

-----------------------------------------------------------------------------
(***************************************************************************)
(* The transactions nobody ran into.                                       *)
(***************************************************************************)
\* A handler moves and the claims stay as they are.
LEMMA WholeWhenQuiet ==
  ASSUME Types, Whole, NEW c \in Callers, NEW h,
         call' = [call EXCEPT ![c] = h], ~At(c, "edges"), h.step # "edges",
         h.step \in {"mint", "claim"} =>
           At(c, "mint") /\ h.row = call[c].row /\ h.todo = call[c].todo,
         disk' = disk, db'.claims = db.claims, db.edges \subseteq db'.edges,
         mixed \subseteq mixed', UNCHANGED <<asserted, answered>>
  PROVE  Whole'
<1>1. call'[c] = h /\ \A o \in Callers \ {c} : call'[o] = call[o]
  BY DEF Types
<1>2. Ids(db)' = Ids(db) /\ Ids(disk)' = Ids(disk)
  BY DEF Ids
<1>3. \A o \in Callers : /\ At(o, "edges")' <=> At(o, "edges")
                         /\ At(o, "edges") => call'[o] = call[o]
  BY <1>1 DEF At
<1>4. \A i \in Ids(disk)' \ mixed' : asserted'[i] \subseteq disk'.edges
  BY <1>2 DEF Whole
<1>5. \A i \in Ids(db)' \ mixed' :
        asserted'[i] \subseteq db'.edges \/ \E o \in Callers : At(o, "edges")' /\ call'[o].row.id = i
  BY <1>2, <1>3 DEF Whole
<1>6. ASSUME NEW o \in Callers
      PROVE  /\ call'[o].step \in {"mint", "claim"} => asserted'[call'[o].row.id] = call'[o].todo
             /\ At(o, "edges")' /\ call'[o].row.id \notin mixed' =>
                  /\ call'[o].row.id \in Ids(db)'
                  /\ asserted'[call'[o].row.id] \ call'[o].todo \subseteq db'.edges
  <2>1. call'[o].step \in {"mint", "claim"} => asserted'[call'[o].row.id] = call'[o].todo
    BY <1>1 DEF Whole, At
  <2> QED
    BY <1>2, <1>3, <2>1 DEF Whole
<1>7. answered' \ mixed' \subseteq Ids(disk)'
  BY <1>2 DEF Whole
<1> QED
  BY <1>4, <1>5, <1>6, <1>7 DEF Whole

\* What a commit or a rollback does to the others: whoever is inside of a
\* transaction has been run into.
LEMMA EverybodyElseIsMixed ==
  ASSUME NEW c \in Callers, Intrude(c)
  PROVE  /\ mixed \subseteq mixed'
         /\ \A o \in Callers \ {c} : At(o, "edges") => call[o].row.id \in mixed'
BY DEF Intrude, Minting, At

\* A rollback: what is on the disk is whole already.
LEMMA WholeAfterRollback ==
  ASSUME Types, Whole, db' = disk, disk' = disk, mixed \subseteq mixed', UNCHANGED <<asserted, answered>>,
         \A o \in Callers : \/ call'[o].step = "idle"
                            \/ call'[o] = call[o] /\ (At(o, "edges") => call[o].row.id \in mixed')
  PROVE  Whole'
<1>1. Ids(db)' = Ids(disk) /\ Ids(disk)' = Ids(disk)
  BY DEF Ids
<1>2. ASSUME NEW o \in Callers
      PROVE  /\ call'[o].step \in {"mint", "claim"} => asserted'[call'[o].row.id] = call'[o].todo
             /\ At(o, "edges")' => call'[o].row.id \in mixed'
  BY DEF Whole, At
<1>3. /\ \A i \in Ids(disk)' \ mixed' : asserted'[i] \subseteq disk'.edges
      /\ \A i \in Ids(db)' \ mixed' : asserted'[i] \subseteq db'.edges
      /\ answered' \ mixed' \subseteq Ids(disk)'
  BY <1>1 DEF Whole
<1> QED
  BY <1>2, <1>3 DEF Whole

\* A commit: what is not mixed has its edges, or belongs to the handler that
\* commits and has no edge left to insert.
LEMMA WholeAfterCommit ==
  ASSUME Types, Whole, NEW c \in Callers, db' = db, disk' = db, Intrude(c), Return(c),
         At(c, "edges") => call[c].todo = {},
         asserted' = asserted,
         answered' \subseteq answered \cup (IF At(c, "edges") THEN {call[c].row.id} ELSE {})
  PROVE  Whole'
<1>1. call'[c] = Idle /\ \A o \in Callers \ {c} : call'[o] = call[o]
  BY DEF Types, Return
<1>2. Ids(db)' = Ids(db) /\ Ids(disk)' = Ids(db) /\ Ids(disk) \subseteq Ids(db)
  BY DEF Ids, Types
<1>3. ~At(c, "edges")' /\ call'[c].step = "idle"
  BY <1>1 DEF Idle, At
<1>4. \A i \in Ids(db) \ mixed' : asserted[i] \subseteq db.edges
  <2>1. ASSUME NEW i \in Ids(db) \ mixed', ~(asserted[i] \subseteq db.edges)
        PROVE  FALSE
    <3>1. PICK o \in Callers : At(o, "edges") /\ call[o].row.id = i
      BY <2>1, EverybodyElseIsMixed DEF Whole
    <3>2. o = c
      BY <2>1, <3>1, EverybodyElseIsMixed
    <3>3. i \notin mixed /\ asserted[i] \ call[c].todo \subseteq db.edges
      BY <2>1, <3>1, <3>2, EverybodyElseIsMixed DEF Whole
    <3> QED
      BY <2>1, <3>1, <3>2, <3>3
  <2> QED
    BY <2>1
<1>5. answered' \ mixed' \subseteq Ids(db)
  BY <1>2, EverybodyElseIsMixed DEF Whole
<1>6. ASSUME NEW o \in Callers
      PROVE  /\ call'[o].step \in {"mint", "claim"} => asserted'[call'[o].row.id] = call'[o].todo
             /\ At(o, "edges")' => call'[o].row.id \in mixed'
  BY <1>1, <1>3, EverybodyElseIsMixed DEF Whole, At
<1> QED
  BY <1>2, <1>4, <1>5, <1>6 DEF Whole

\* The row of a claim: its id is new, and its handler has all its edges to insert.
LEMMA WholeWhenInserted ==
  ASSUME Types, Fresh, Whole, NEW c \in Callers, InsertClaim(c)
  PROVE  Whole'
<1>1. /\ db' = [db EXCEPT !.claims = @ \cup {call[c].row}] /\ disk' = disk
      /\ At(c, "claim") /\ Goto(c, "edges") /\ Intrude(c) /\ UNCHANGED <<asserted, answered>>
  BY DEF InsertClaim, Conn!Exec
<1>2. /\ Ids(db)' = Ids(db) \cup {call[c].row.id} /\ Ids(disk)' = Ids(disk)
      /\ db'.edges = db.edges
  BY <1>1 DEF Ids, Types, TypeOK, Database
<1>3. /\ call'[c].step = "edges" /\ call'[c].row = call[c].row /\ call'[c].todo = call[c].todo
      /\ \A o \in Callers \ {c} : call'[o] = call[o]
  BY <1>1 DEF Goto, Types, Handlers
<1>4. asserted[call[c].row.id] = call[c].todo
  BY <1>1 DEF Whole, At
<1>5. /\ \A i \in Ids(disk)' \ mixed' : asserted'[i] \subseteq disk'.edges
      /\ answered' \ mixed' \subseteq Ids(disk)'
  BY <1>1, <1>2, EverybodyElseIsMixed DEF Whole
<1>6. ASSUME NEW i \in Ids(db)' \ mixed'
      PROVE  \/ asserted'[i] \subseteq db'.edges
             \/ \E o \in Callers : At(o, "edges")' /\ call'[o].row.id = i
  <2>1. CASE i = call[c].row.id
    BY <1>3, <2>1 DEF At
  <2>2. CASE i # call[c].row.id
    <3>1. \/ asserted[i] \subseteq db.edges
          \/ \E o \in Callers : At(o, "edges") /\ call[o].row.id = i
      BY <1>1, <1>2, <1>6, <2>2, EverybodyElseIsMixed DEF Whole
    <3> QED
      BY <1>1, <1>2, <1>3, <3>1 DEF At
  <2> QED
    BY <2>1, <2>2
<1>7. ASSUME NEW o \in Callers
      PROVE  /\ call'[o].step \in {"mint", "claim"} => asserted'[call'[o].row.id] = call'[o].todo
             /\ At(o, "edges")' /\ call'[o].row.id \notin mixed' =>
                  /\ call'[o].row.id \in Ids(db)'
                  /\ asserted'[call'[o].row.id] \ call'[o].todo \subseteq db'.edges
  <2>1. CASE o = c
    BY <1>1, <1>2, <1>3, <1>4, <2>1
  <2>2. CASE o # c
    BY <1>1, <1>2, <1>3, <2>2, EverybodyElseIsMixed DEF Whole, At
  <2> QED
    BY <2>1, <2>2
<1> QED
  BY <1>5, <1>6, <1>7 DEF Whole

\* An edge leaves what is to be done only into the database.
LEMMA WholeWhenEdged ==
  ASSUME Types, Whole, NEW c \in Callers, InsertEdge(c)
  PROVE  Whole'
<1>1. PICK e : /\ db' = [db EXCEPT !.edges = @ \cup {e}] /\ disk' = disk
               /\ call' = [call EXCEPT ![c].todo = @ \ {e}]
  BY DEF InsertEdge, Conn!Exec
<1>2. Intrude(c) /\ UNCHANGED <<asserted, answered>>
  BY DEF InsertEdge
<1>3. /\ Ids(db)' = Ids(db) /\ Ids(disk)' = Ids(disk)
      /\ db'.edges = db.edges \cup {e}
  BY <1>1 DEF Ids, Types, TypeOK, Database
<1>4. /\ call'[c].step = call[c].step /\ call'[c].row = call[c].row
      /\ call'[c].todo = call[c].todo \ {e}
      /\ \A o \in Callers \ {c} : call'[o] = call[o]
  BY <1>1 DEF Types, Handlers
<1>5. \A o \in Callers : At(o, "edges")' <=> At(o, "edges")
  BY <1>4 DEF At
<1>6. call[c].step \notin {"mint", "claim"}
  BY DEF InsertEdge, At
<1>7. /\ \A i \in Ids(disk)' \ mixed' : asserted'[i] \subseteq disk'.edges
      /\ answered' \ mixed' \subseteq Ids(disk)'
  BY <1>1, <1>2, <1>3, EverybodyElseIsMixed DEF Whole
<1>8. \A o \in Callers : call'[o].row = call[o].row
  BY <1>4
<1>9. \A i \in Ids(db)' \ mixed' :
        asserted'[i] \subseteq db'.edges \/ \E o \in Callers : At(o, "edges")' /\ call'[o].row.id = i
  BY <1>2, <1>3, <1>5, <1>8, EverybodyElseIsMixed DEF Whole
<1>10. ASSUME NEW o \in Callers
       PROVE  /\ call'[o].step \in {"mint", "claim"} => asserted'[call'[o].row.id] = call'[o].todo
              /\ At(o, "edges")' /\ call'[o].row.id \notin mixed' =>
                   /\ call'[o].row.id \in Ids(db)'
                   /\ asserted'[call'[o].row.id] \ call'[o].todo \subseteq db'.edges
  <2>1. CASE o = c
    BY <1>2, <1>3, <1>4, <1>5, <1>6, <2>1, EverybodyElseIsMixed DEF Whole
  <2>2. CASE o # c
    BY <1>2, <1>3, <1>4, <1>5, <2>2, EverybodyElseIsMixed DEF Whole
  <2> QED
    BY <2>1, <2>2
<1> QED
  BY <1>7, <1>9, <1>10 DEF Whole

\* A claim is minted under an id that no database has.
LEMMA WholeWhenMinted ==
  ASSUME Types, Fresh, Whole, NEW c \in Callers, Mint(c)
  PROVE  Whole'
<1>1. PICK todo : /\ call' = [call EXCEPT ![c].step = "mint", ![c].todo = todo]
                  /\ asserted' = [asserted EXCEPT ![call[c].row.id] = todo]
  BY DEF Mint
<1>2. At(c, "lookup") /\ UNCHANGED <<db, disk, mixed, answered>>
  BY DEF Mint
<1>3. /\ call'[c].step = "mint" /\ call'[c].row = call[c].row /\ call'[c].todo = todo
      /\ \A o \in Callers \ {c} : call'[o] = call[o]
  BY <1>1 DEF Types, Handlers
<1>4. call[c].row.id \in Claims /\ call[c].row.id \notin Ids(db)
  BY <1>2 DEF Types, TypeOK, Fresh, Asserting, At
<1>5. Ids(disk) \subseteq Ids(db) /\ Ids(db) \subseteq Claims
  BY DEF Types, TypeOK, Ids
<1>6. /\ asserted'[call[c].row.id] = todo
      /\ \A i \in Claims \ {call[c].row.id} : asserted'[i] = asserted[i]
  BY <1>1, <1>4 DEF Types
<1>7. Ids(db)' = Ids(db) /\ Ids(disk)' = Ids(disk)
  BY <1>2 DEF Ids
<1>8. \A o \in Callers : At(o, "edges")' <=> At(o, "edges")
  BY <1>2, <1>3 DEF At
<1>9. /\ \A i \in Ids(disk)' \ mixed' : asserted'[i] \subseteq disk'.edges
      /\ answered' \ mixed' \subseteq Ids(disk)'
  BY <1>2, <1>4, <1>5, <1>6, <1>7 DEF Whole
<1>10. \A i \in Ids(db)' \ mixed' :
         asserted'[i] \subseteq db'.edges \/ \E o \in Callers : At(o, "edges")' /\ call'[o].row.id = i
  <2>1. \A o \in Callers : call'[o].row = call[o].row
    BY <1>3
  <2>2. ASSUME NEW i \in Ids(db) \ mixed
        PROVE  asserted'[i] = asserted[i]
    BY <1>4, <1>5, <1>6
  <2> QED
    BY <1>2, <1>7, <1>8, <2>1, <2>2 DEF Whole
<1>11. ASSUME NEW o \in Callers
       PROVE  /\ call'[o].step \in {"mint", "claim"} => asserted'[call'[o].row.id] = call'[o].todo
              /\ At(o, "edges")' /\ call'[o].row.id \notin mixed' =>
                   /\ call'[o].row.id \in Ids(db)'
                   /\ asserted'[call'[o].row.id] \ call'[o].todo \subseteq db'.edges
  <2>1. CASE o = c
    BY <1>3, <1>6, <2>1 DEF At
  <2>2. CASE o # c /\ Asserting(o)
    <3>1. call[o].row.id \in Claims \ {call[c].row.id}
      BY <1>2, <2>2 DEF Types, TypeOK, Fresh, Asserting, At
    <3> QED
      BY <1>2, <1>3, <1>6, <1>7, <2>2, <3>1 DEF Whole, At
  <2>3. CASE o # c /\ ~Asserting(o)
    BY <1>3, <2>3 DEF Asserting, At
  <2> QED
    BY <2>1, <2>2, <2>3
<1> QED
  BY <1>9, <1>10, <1>11 DEF Whole

LEMMA WholeStep ==
  ASSUME Types, Fresh, Whole, [Next]_vars
  PROVE  Whole'
<1> USE DEF Conn!Exec, Conn!ExecFails, Conn!Commit, Conn!Rollback, Conn!Reopen, Conn!BeginTx,
            Conn!BeginRefused, Conn!connection
<1>1. CASE UNCHANGED vars
  <2>1. UNCHANGED <<db, disk, call, mixed, asserted, answered>>
    BY <1>1 DEF vars, aux
  <2> QED
    BY <2>1 DEF Whole, Ids, At
<1>2. CASE Crash
  <2>1. db' = disk /\ disk' = disk /\ UNCHANGED <<mixed, asserted, answered>>
          /\ \A o \in Callers : call'[o].step = "idle"
    BY <1>2 DEF Crash, Idle
  <2> QED
    BY <2>1, WholeAfterRollback
<1>3. ASSUME NEW c \in Callers,
             \/ \E i \in Claims, evidence \in Evidence, supersedes \in Targets \cup {None} :
                  AssertBegin(c, i, evidence, supersedes)
             \/ Attach(c) \/ MintRefused(c) \/ Enter(c) \/ EnterRefused(c)
             \/ \E i \in Claims, ref \in (UNION Evidence) \ {NoKey} : RelateBegin(c, i, ref)
      PROVE  Whole'
  <2>1. db' = db /\ disk' = disk /\ UNCHANGED <<mixed, asserted, answered>>
    BY <1>3 DEF AssertBegin, Attach, MintRefused, Enter, EnterRefused, RelateBegin, aux
  <2>2. \E h : /\ call' = [call EXCEPT ![c] = h] /\ ~At(c, "edges") /\ h.step # "edges"
               /\ h.step \in {"mint", "claim"} =>
                    At(c, "mint") /\ h.row = call[c].row /\ h.todo = call[c].todo
    <3>1. CASE \E i \in Claims, evidence \in Evidence, supersedes \in Targets \cup {None} :
                 AssertBegin(c, i, evidence, supersedes)
      <4>1. PICK row, todo : /\ call' = [call EXCEPT ![c] = [step |-> "lookup", row |-> row, todo |-> todo]]
                             /\ call[c] = Idle
        BY <3>1 DEF AssertBegin
      <4>2. PICK h : h = [step |-> "lookup", row |-> row, todo |-> todo]
        OBVIOUS
      <4>3. h.step = "lookup" /\ ~At(c, "edges")
        BY <4>1, <4>2 DEF Idle, At
      <4>4. call' = [call EXCEPT ![c] = h]
        BY <4>1, <4>2
      <4> QED
        BY <4>3, <4>4
    <3>2. CASE \E i \in Claims, ref \in (UNION Evidence) \ {NoKey} : RelateBegin(c, i, ref)
      <4>1. PICK row, todo : /\ call' = [call EXCEPT ![c] = [step |-> "relate", row |-> row, todo |-> todo]]
                             /\ call[c] = Idle
        BY <3>2 DEF RelateBegin
      <4>2. PICK h : h = [step |-> "relate", row |-> row, todo |-> todo]
        OBVIOUS
      <4>3. h.step = "relate" /\ ~At(c, "edges")
        BY <4>1, <4>2 DEF Idle, At
      <4>4. call' = [call EXCEPT ![c] = h]
        BY <4>1, <4>2
      <4> QED
        BY <4>3, <4>4
    <3>3. CASE MintRefused(c) \/ EnterRefused(c)
      BY <3>3 DEF MintRefused, EnterRefused, Return, Idle, At
    <3>4. CASE Attach(c)
      <4>1. PICK todo : call' = [call EXCEPT ![c].step = "attach", ![c].todo = todo]
        BY <3>4 DEF Attach
      <4>2. call' = [call EXCEPT ![c] = [call[c] EXCEPT !.step = "attach", !.todo = todo]]
        BY <4>1 DEF Types
      <4>3. [call[c] EXCEPT !.step = "attach", !.todo = todo].step = "attach"
        BY DEF Types, Handlers
      <4> QED
        BY <3>4, <4>2, <4>3 DEF Attach, At
    <3>5. CASE Enter(c)
      <4>1. PICK step \in {"claim", "attaching"} :
              /\ call' = [call EXCEPT ![c].step = step]
              /\ step = "claim" => At(c, "mint")
              /\ ~At(c, "edges")
        BY <3>5 DEF Enter, Goto, At
      <4>2. call' = [call EXCEPT ![c] = [call[c] EXCEPT !.step = step]]
        BY <4>1 DEF Types
      <4>3. /\ [call[c] EXCEPT !.step = step].step = step
            /\ [call[c] EXCEPT !.step = step].row = call[c].row
            /\ [call[c] EXCEPT !.step = step].todo = call[c].todo
        BY DEF Types, Handlers
      <4> QED
        BY <4>1, <4>2, <4>3
    <3> QED
      BY <1>3, <3>1, <3>2, <3>3, <3>4, <3>5
  <2> QED
    BY <2>1, <2>2, WholeWhenQuiet
<1>4. ASSUME NEW c \in Callers, Relate(c) \/ Acknowledge(c)
      PROVE  Whole'
  <2>1. disk' = disk /\ Intrude(c) /\ UNCHANGED <<asserted, answered>>
    BY <1>4 DEF Relate, Acknowledge
  <2>2. db'.claims = db.claims /\ db.edges \subseteq db'.edges
    BY <1>4 DEF Relate, Acknowledge, Types, TypeOK, Database
  <2>3. ~At(c, "edges") /\ (Return(c) \/ Goto(c, "commit"))
    <3>1. CASE Relate(c)
      BY <3>1 DEF Relate, At
    <3>2. CASE Acknowledge(c)
      BY <3>2 DEF Acknowledge, Idle, At
    <3> QED
      BY <1>4, <3>1, <3>2
  <2>4. CASE Return(c)
    <3>1. call' = [call EXCEPT ![c] = Idle] /\ Idle.step = "idle"
      BY <2>4 DEF Return, Idle
    <3> QED
      BY <2>1, <2>2, <2>3, <3>1, WholeWhenQuiet, EverybodyElseIsMixed
  <2>5. CASE Goto(c, "commit")
    <3>1. call' = [call EXCEPT ![c] = [call[c] EXCEPT !.step = "commit"]]
      BY <2>5 DEF Types, Goto
    <3>2. [call[c] EXCEPT !.step = "commit"].step = "commit"
      BY DEF Types, Handlers
    <3> QED
      BY <2>1, <2>2, <2>3, <3>1, <3>2, WholeWhenQuiet, EverybodyElseIsMixed
  <2> QED
    BY <2>3, <2>4, <2>5
<1>5. ASSUME NEW c \in Callers, Fail(c)
      PROVE  Whole'
  <2>1. db' = disk /\ disk' = disk /\ Intrude(c) /\ Return(c) /\ UNCHANGED <<asserted, answered>>
    BY <1>5 DEF Fail
  <2>2. call'[c].step = "idle" /\ \A o \in Callers \ {c} : call'[o] = call[o]
    BY <2>1 DEF Return, Idle, Types
  <2> QED
    BY <2>1, <2>2, WholeAfterRollback, EverybodyElseIsMixed
<1>6. ASSUME NEW c \in Callers, Leave(c) \/ CommitOne(c)
      PROVE  Whole'
  <2>1. db' = db /\ disk' = db /\ Intrude(c) /\ Return(c) /\ asserted' = asserted
    BY <1>6 DEF Leave, CommitOne
  <2>2. /\ At(c, "edges") => call[c].todo = {}
        /\ answered' \subseteq answered \cup (IF At(c, "edges") THEN {call[c].row.id} ELSE {})
    BY <1>6 DEF Leave, CommitOne, At
  <2> QED
    BY <2>1, <2>2, WholeAfterCommit
<1> QED
  BY <1>1, <1>2, <1>3, <1>4, <1>5, <1>6, WholeWhenInserted, WholeWhenEdged, WholeWhenMinted DEF Next

-----------------------------------------------------------------------------
(***************************************************************************)
(* The theorems.                                                           *)
(***************************************************************************)
\* Whatever the handlers do to one another's transactions, and whenever the
\* process dies, the database keeps to the inductive invariant.
THEOREM Invariance == Spec => []IndInv
<1>1. Init => IndInv
  <2> SUFFICES ASSUME Init PROVE IndInv
    OBVIOUS
  <2>1. /\ db.claims = {} /\ db.edges = {} /\ disk.claims = {} /\ disk.edges = {}
        /\ Ids(db) = {} /\ Ids(disk) = {} /\ db \in Database /\ disk \in Database
    BY DEF Init, Ids, Database
  <2>2. call \in [Callers -> Handlers] /\ \A c \in Callers : call[c].step = "idle"
    BY DEF Init, Idle, Handlers, Drafts, Row, Steps
  <2>3. Types
    BY <2>1, <2>2 DEF Init, Types, TypeOK, Asserting, At
  <2>4. Chained(db) /\ Chained(disk)
    BY <2>1 DEF Chained
  <2> QED
    BY <2>1, <2>2, <2>3, <2>4 DEF Init, IndInv, Fresh, Whole, Asserting, At
<1>2. IndInv /\ [Next]_vars => IndInv'
  BY TypesStep, ChainedStep, FreshStep, WholeStep DEF IndInv
<1> QED
  BY <1>1, <1>2, PTL DEF Spec

\* supersedes_id always names a claim that is there and no chain comes back to
\* itself, in what is read and on the disk: a rollback takes away no claim that
\* a later insert was checked against and kept.
THEOREM SoundChains == Spec => []SupersessionIsSound
<1>1. ASSUME IndInv PROVE SupersessionIsSound
  BY <1>1, ChainedIsSound DEF IndInv, SupersessionIsSound
<1> QED
  BY <1>1, Invariance, PTL

\* One claim per content hash, although handlers look a content up before
\* another one inserts it.
THEOREM OneContentOneClaim == Spec => []OneClaimPerContent
<1>1. ASSUME IndInv PROVE OneClaimPerContent
  BY <1>1 DEF IndInv, OneClaimPerContent, Chained
<1> QED
  BY <1>1, Invariance, PTL

\* The transaction of assert_claim holds whatever nobody runs into: such a claim
\* is on the disk with all its edges or not at all, and once its caller is
\* answered it is there.
THEOREM WholeTransactions == Spec => []TransactionsHoldAlone
<1>1. ASSUME IndInv PROVE TransactionsHoldAlone
  <2>1. \A e \in Dangling(disk) : e.to \notin Ids(disk)
    BY DEF Dangling
  <2> QED
    BY <1>1, <2>1 DEF IndInv, Whole, TransactionsHoldAlone
<1> QED
  BY <1>1, Invariance, PTL
-----------------------------------------------------------------------------
(***************************************************************************)
(* The tournaments, whose handlers check, read and write in statements of  *)
(* their own.  Lone: two calls at work on the same tournament are noted as *)
(* an overlap from then on.  Where there was none, what a call has read is *)
(* still what is there (Calling), a tournament that is closed was sealed   *)
(* with all its results and one that was voided had nothing to compare     *)
(* (Settled), and a result has every correction (CorrectionsAgree).  The   *)
(* rest holds of overlapping calls too: what was read is of results that   *)
(* are recorded, and an arm of a result never changes.                     *)
(***************************************************************************)
Outcomes == [of : Tournaments \cup {NoOne}, arm : Arete!Arms \cup {"none"}, trail : Nat]
Plays == [step : {"idle", "record", "correct", "close", "closing", "void", "decide", "pull"},
          of : Tournaments \cup {NoOne}, arm : {"none"}, item : Results \cup {NoOne},
          read : SUBSET (Results \X Nat), row : Outcomes, declared : Arete!Rungs \cup {NoOne},
          claimed : Arete!Rungs \cup {NoOne}, on : {"none", "open", "closed", "voided"}]
Contests == [status : {"none", "open", "closed", "voided"}, sealed : SUBSET (Results \X Nat),
             measured : Arete!Rungs \cup {NoOne}]

ContestTypes ==
  /\ tournament \in [Tournaments -> Contests]
  /\ result \in [Results -> Outcomes]
  /\ play \in [Callers -> Plays]
  /\ corrected \in [Results -> Nat]
  /\ ran \in SUBSET Tournaments
  /\ \A r \in Results : result[r] # Arete!NoResult => result[r].of \in Tournaments /\ result[r].arm \in Arete!Arms

\* What has been read of results is of results that are recorded.
Recorded == {p \in Results \X Nat : result[p[1]] # Arete!NoResult}
AllRead(t) == Arete!ReadOf(t, "parent") \cup Arete!ReadOf(t, "candidate")

InRows(c) == play[c].step \in Arete!Rows
Calling(c) ==
  /\ InRows(c) => play[c].of \in Tournaments
  /\ Arete!At(c, "record") =>
       /\ play[c].item \in Results /\ result[play[c].item] = Arete!NoResult
       /\ play[c].row.of = play[c].of /\ play[c].row.arm \in Arete!Arms /\ play[c].row.trail = 0
  /\ Arete!At(c, "correct") =>
       /\ play[c].item \in Results /\ result[play[c].item] # Arete!NoResult
       /\ play[c].row.of = play[c].of /\ result[play[c].item].of = play[c].of
       /\ play[c].row.arm = result[play[c].item].arm
       /\ play[c].of \notin ran => play[c].row.trail = result[play[c].item].trail + 1
  /\ play[c].step \in {"close", "closing"} => play[c].read \subseteq Recorded
  /\ InRows(c) /\ play[c].of \notin ran =>
       /\ tournament[play[c].of].status = "open"
       /\ Arete!At(c, "close") => play[c].read = Arete!ReadOf(play[c].of, "parent")
       /\ Arete!At(c, "closing") => play[c].read = AllRead(play[c].of)
       /\ Arete!At(c, "void") => ~Arete!Spans(AllRead(play[c].of))

Lone ==
  \A c, d \in Callers :
    c # d =>
      /\ Arete!At(c, "record") /\ Arete!At(d, "record") => play[c].item # play[d].item
      /\ InRows(c) /\ InRows(d) /\ play[c].of = play[d].of => play[c].of \in ran

Settled(t) ==
  /\ tournament[t].sealed \subseteq Recorded
  /\ tournament[t].status = "closed" => Arete!Spans(tournament[t].sealed)
  /\ t \notin ran =>
       /\ tournament[t].status # "closed" => tournament[t].sealed = {}
       /\ tournament[t].status = "closed" => Arete!Spans(AllRead(t)) /\ tournament[t].sealed = AllRead(t)
       /\ tournament[t].status = "voided" => ~Arete!Spans(AllRead(t))

CorrectionsAgree ==
  \A r \in Results :
    /\ result[r] = Arete!NoResult => corrected[r] = 0
    /\ result[r] # Arete!NoResult /\ result[r].of \notin ran => result[r].trail = corrected[r]

TournamentInv ==
  /\ ContestTypes /\ (\A c \in Callers : Calling(c)) /\ Lone
  /\ (\A t \in Tournaments : Settled(t)) /\ CorrectionsAgree

-----------------------------------------------------------------------------
Turns(c) == play' \in [Callers -> Plays] /\ \A d \in Callers \ {c} : play'[d] = play[d]

LEMMA IdleIsCall == Arete!Idle \in Plays /\ Arete!Idle.step = "idle"
BY DEF Arete!Idle, Plays, Outcomes, Arete!NoResult

LEMMA PlayReturns ==
  ASSUME ContestTypes, NEW c \in Callers, Arete!Return(c)
  PROVE  Turns(c) /\ play'[c].step = "idle"
BY IdleIsCall DEF ContestTypes, Arete!Return, Turns

LEMMA PlayStarts ==
  ASSUME ContestTypes, NEW c \in Callers, NEW w \in Plays, play' = [play EXCEPT ![c] = w]
  PROVE  Turns(c) /\ play'[c] = w
BY DEF ContestTypes, Turns

LEMMA IdlePlays == ASSUME NEW c, play[c].step \in {"idle", "decide", "pull"} PROVE Calling(c)
BY DEF Calling, Arete!At, InRows, Arete!Rows

\* A step that changes no row of a tournament or a result.
LEMMA TurnKeeps ==
  ASSUME TournamentInv, NEW c \in Callers, Turns(c), UNCHANGED <<tournament, result, corrected>>,
         ran \subseteq ran', ran' \subseteq Tournaments, Calling(c)',
         \A d \in Callers \ {c} :
           /\ Arete!At(c, "record")' /\ Arete!At(d, "record") => play'[c].item # play[d].item
           /\ InRows(c)' /\ InRows(d) /\ play'[c].of = play[d].of => play'[c].of \in ran'
  PROVE  TournamentInv'
<1>1. ContestTypes'
  BY DEF TournamentInv, ContestTypes, Turns
<1>2. (\A t \in Tournaments : \A arm : Arete!ReadOf(t, arm)' = Arete!ReadOf(t, arm)) /\ Recorded' = Recorded
  BY DEF Arete!ReadOf, Arete!ResultsOf, Recorded
<1>3. \A read : Arete!Spans(read)' <=> Arete!Spans(read)
  BY DEF Arete!Spans
<1>4. ASSUME NEW d \in Callers PROVE Calling(d)'
  <2>1. CASE d = c
    BY <2>1
  <2>2. CASE d # c
    <3>1. play'[d] = play[d] /\ Calling(d)
      BY <2>2 DEF Turns, TournamentInv
    <3>2. InRows(d) => Arete!ReadOf(play[d].of, "parent")' = Arete!ReadOf(play'[d].of, "parent")
      BY <3>1 DEF Arete!ReadOf, Arete!ResultsOf
    <3>3. InRows(d) => AllRead(play[d].of)' = AllRead(play[d].of)
      BY <3>1 DEF Arete!ReadOf, Arete!ResultsOf, AllRead
    <3>4. InRows(d) => Arete!ReadOf(play[d].of, "parent")' = Arete!ReadOf(play[d].of, "parent")
      BY <3>1 DEF Arete!ReadOf, Arete!ResultsOf
    <3>5. Arete!Spans(AllRead(play[d].of))' <=> Arete!Spans(AllRead(play[d].of))
      BY <3>1 DEF Arete!Spans, AllRead, Arete!ReadOf, Arete!ResultsOf
    <3> QED BY <1>2, <3>1, <3>3, <3>4, <3>5 DEF Calling, InRows, Arete!At
  <2> QED BY <2>1, <2>2
<1>5. Lone'
  BY DEF TournamentInv, Lone, Turns, Arete!At, InRows
<1>6. ASSUME NEW t \in Tournaments PROVE Settled(t)'
  <2>1. Settled(t)
    BY DEF TournamentInv
  <2>2. AllRead(t)' = AllRead(t)
    BY <1>2 DEF AllRead
  <2>3. (Arete!Spans(AllRead(t))' <=> Arete!Spans(AllRead(t))) /\ (Arete!Spans(tournament[t].sealed)' <=> Arete!Spans(tournament[t].sealed))
    BY <2>2 DEF Arete!Spans
  <2> QED BY <1>2, <2>1, <2>2, <2>3 DEF Settled
<1>7. CorrectionsAgree'
  BY DEF TournamentInv, CorrectionsAgree
<1> QED BY <1>1, <1>4, <1>5, <1>6, <1>7 DEF TournamentInv

\* What Overlap says of a call that begins to work on rows.
LEMMA OverlapIsSeen ==
  ASSUME TournamentInv, NEW c \in Callers, NEW t \in Tournaments, ran' = Arete!Overlap(c, t)
  PROVE  /\ ran \subseteq ran' /\ ran' \subseteq Tournaments
         /\ \A d \in Callers \ {c} : InRows(d) /\ play[d].of = t => t \in ran'
BY DEF Arete!Overlap, InRows, TournamentInv, ContestTypes

\* A step that changes nothing but its own call, and is no work on rows.
LEMMA EndKeeps ==
  ASSUME TournamentInv, NEW c \in Callers, Turns(c), play'[c].step \in {"idle", "decide", "pull"},
         UNCHANGED <<tournament, result, corrected, ran>>
  PROVE  TournamentInv'
<1>1. Calling(c)'
  BY DEF Calling, Arete!At, InRows, Arete!Rows
<1> QED BY <1>1, TurnKeeps DEF Arete!At, InRows, Arete!Rows, TournamentInv, ContestTypes

LEMMA RecordBeginKeeps ==
  ASSUME TournamentInv, NEW c \in Callers, NEW t \in Tournaments, NEW arm \in Arete!Arms, NEW r \in Results,
         Arete!RecordBegin(c, t, arm, r)
  PROVE  TournamentInv'
<1> DEFINE w == [Arete!Idle EXCEPT !.step = "record", !.of = t, !.item = r,
                   !.row = [of |-> t, arm |-> arm, trail |-> 0]]
<1>1. /\ w \in Plays /\ w.step = "record" /\ w.of = t /\ w.item = r
      /\ w.row.of = t /\ w.row.arm = arm /\ w.row.trail = 0
  BY DEF Plays, Outcomes, Arete!Idle, Arete!NoResult
<1> HIDE DEF w
<1>2. Turns(c) /\ play'[c] = w
  BY <1>1, PlayStarts DEF Arete!RecordBegin, Arete!Begin, TournamentInv, w
<1>3. /\ UNCHANGED <<tournament, result, corrected>> /\ ran' = Arete!Overlap(c, t)
      /\ Arete!IsOpen(t) /\ result[r] = Arete!NoResult /\ \A d \in Callers : play[d].item # r
  BY DEF Arete!RecordBegin, Arete!rows
<1>4. Calling(c)'
  BY <1>1, <1>2, <1>3 DEF Calling, Arete!At, InRows, Arete!Rows, Arete!IsOpen
<1> QED BY <1>1, <1>2, <1>3, <1>4, OverlapIsSeen, TurnKeeps

LEMMA CorrectBeginKeeps ==
  ASSUME TournamentInv, NEW c \in Callers, NEW r \in Results, Arete!CorrectBegin(c, r)
  PROVE  TournamentInv'
<1> DEFINE w == [Arete!Idle EXCEPT !.step = "correct", !.of = result[r].of, !.item = r,
                   !.row = [result[r] EXCEPT !.trail = @ + 1]]
<1>0. result[r] \in Outcomes /\ result[r] # Arete!NoResult /\ result[r].of \in Tournaments /\ result[r].arm \in Arete!Arms
  BY DEF Arete!CorrectBegin, TournamentInv, ContestTypes
<1> DEFINE row == [result[r] EXCEPT !.trail = @ + 1]
<1>a. /\ row \in Outcomes /\ row.of = result[r].of /\ row.arm = result[r].arm
      /\ row.trail = result[r].trail + 1
  BY <1>0 DEF Outcomes
<1>b. w = [Arete!Idle EXCEPT !.step = "correct", !.of = result[r].of, !.item = r, !.row = row]
  OBVIOUS
<1> HIDE DEF row, w
<1>1. /\ w \in Plays /\ w.step = "correct" /\ w.of = result[r].of /\ w.item = r
      /\ w.row.of = result[r].of /\ w.row.arm = result[r].arm /\ w.row.trail = result[r].trail + 1
  BY <1>0, <1>a, <1>b DEF Plays, Arete!Idle
<1>2. Turns(c) /\ play'[c] = w
  BY <1>1, PlayStarts DEF Arete!CorrectBegin, TournamentInv, w
<1>3. /\ UNCHANGED <<tournament, result, corrected>> /\ ran' = Arete!Overlap(c, result[r].of)
      /\ Arete!IsOpen(result[r].of)
  BY DEF Arete!CorrectBegin, Arete!rows
<1>4. Calling(c)'
  BY <1>0, <1>1, <1>2, <1>3 DEF Calling, Arete!At, InRows, Arete!Rows, Arete!IsOpen
<1> QED BY <1>0, <1>1, <1>2, <1>3, <1>4, OverlapIsSeen, TurnKeeps DEF Arete!At

LEMMA ReadsAreRecorded ==
  ASSUME ContestTypes, NEW t \in Tournaments, NEW arm
  PROVE  Arete!ReadOf(t, arm) \subseteq Recorded
<1> SUFFICES ASSUME NEW r \in Results, result[r].of = t
             PROVE  <<r, result[r].trail>> \in Recorded
  BY DEF Arete!ReadOf, Arete!ResultsOf
<1>1. result[r] \in Outcomes /\ result[r] # Arete!NoResult
  BY TournamentsAssumption DEF ContestTypes, Arete!TournamentAssumption, Arete!NoResult
<1> QED BY <1>1 DEF Recorded, Outcomes

LEMMA CloseBeginKeeps ==
  ASSUME TournamentInv, NEW c \in Callers, NEW t \in Tournaments, Arete!CloseBegin(c, t)
  PROVE  TournamentInv'
<1> DEFINE w == [Arete!Idle EXCEPT !.step = "close", !.of = t, !.read = Arete!ReadOf(t, "parent")]
<1>0. Arete!ReadOf(t, "parent") \subseteq Recorded /\ Recorded \subseteq Results \X Nat
  BY ReadsAreRecorded DEF TournamentInv, Recorded
<1>1. w \in Plays /\ w.step = "close" /\ w.of = t /\ w.read = Arete!ReadOf(t, "parent")
  BY <1>0 DEF Plays, Outcomes, Arete!Idle, Arete!NoResult
<1> HIDE DEF w
<1>2. Turns(c) /\ play'[c] = w
  BY <1>1, PlayStarts DEF Arete!CloseBegin, Arete!Begin, TournamentInv, w
<1>3. UNCHANGED <<tournament, result, corrected>> /\ ran' = Arete!Overlap(c, t) /\ Arete!IsOpen(t)
  BY DEF Arete!CloseBegin, Arete!rows
<1>4. Arete!ReadOf(t, "parent")' = Arete!ReadOf(t, "parent") /\ Recorded' = Recorded
  BY <1>3 DEF Arete!ReadOf, Arete!ResultsOf, Recorded
<1>5. Calling(c)'
  <2>1. play'[c].of = t
    BY <1>1, <1>2
  <2>2. Arete!ReadOf(play[c].of, "parent")' = Arete!ReadOf(t, "parent")
    BY <1>3, <2>1 DEF Arete!ReadOf, Arete!ResultsOf
  <2> QED BY <1>0, <1>1, <1>2, <1>3, <1>4, <2>1, <2>2 DEF Calling, Arete!At, InRows, Arete!Rows,
     Arete!IsOpen
<1> QED BY <1>1, <1>2, <1>3, <1>5, OverlapIsSeen, TurnKeeps DEF Arete!At

LEMMA VoidBeginKeeps ==
  ASSUME TournamentInv, NEW c \in Callers, NEW t \in Tournaments, Arete!VoidBegin(c, t)
  PROVE  TournamentInv'
<1> DEFINE w == [Arete!Idle EXCEPT !.step = "void", !.of = t]
<1>1. w \in Plays /\ w.step = "void" /\ w.of = t
  BY DEF Plays, Outcomes, Arete!Idle, Arete!NoResult
<1> HIDE DEF w
<1>2. Turns(c) /\ play'[c] = w
  BY <1>1, PlayStarts DEF Arete!VoidBegin, Arete!Begin, TournamentInv, w
<1>3. UNCHANGED <<tournament, result, corrected>> /\ ran' = Arete!Overlap(c, t) /\ Arete!IsOpen(t)
      /\ ~Arete!Spans(AllRead(t))
  BY DEF Arete!VoidBegin, Arete!rows, AllRead
<1>4. ~Arete!Spans(AllRead(t))'
  BY <1>3 DEF Arete!Spans, AllRead, Arete!ReadOf, Arete!ResultsOf
<1>5. Calling(c)'
  <2>1. ~Arete!Spans(AllRead(play[c].of))'
    BY <1>1, <1>2, <1>3 DEF Arete!Spans, AllRead, Arete!ReadOf, Arete!ResultsOf
  <2> QED BY <1>1, <1>2, <1>3, <2>1 DEF Calling, Arete!At, InRows, Arete!Rows, Arete!IsOpen
<1> QED BY <1>1, <1>2, <1>3, <1>5, OverlapIsSeen, TurnKeeps DEF Arete!At

LEMMA CloseReadKeeps ==
  ASSUME TournamentInv, NEW c \in Callers, Arete!CloseRead(c)
  PROVE  TournamentInv'
<1> PICK t \in Tournaments : t = play[c].of
  BY DEF Arete!CloseRead, Arete!At, TournamentInv, Calling, InRows, Arete!Rows
<1> DEFINE w == [play[c] EXCEPT !.step = "closing", !.read = play[c].read \cup Arete!ReadOf(t, "candidate")]
<1>0. /\ Arete!ReadOf(t, "candidate") \subseteq Recorded /\ Recorded \subseteq Results \X Nat
      /\ play[c] \in Plays /\ Calling(c) /\ Arete!At(c, "close") /\ InRows(c)
      /\ play[c].read \subseteq Recorded
  BY ReadsAreRecorded DEF TournamentInv, Recorded, ContestTypes, Arete!CloseRead, Arete!At,
     InRows, Arete!Rows, Calling
<1>1. /\ w \in Plays /\ w.step = "closing" /\ w.of = t
      /\ w.read = play[c].read \cup Arete!ReadOf(t, "candidate")
  BY <1>0 DEF Plays
<1>2. play' = [play EXCEPT ![c] = w]
  BY DEF Arete!CloseRead
<1> HIDE DEF w
<1>3. Turns(c) /\ play'[c] = w
  BY <1>1, <1>2, PlayStarts DEF TournamentInv
<1>4. UNCHANGED <<tournament, result, corrected, ran>>
  BY DEF Arete!CloseRead, Arete!rows
<1>5. AllRead(t)' = AllRead(t) /\ Recorded' = Recorded
  BY <1>4 DEF AllRead, Arete!ReadOf, Arete!ResultsOf, Recorded
<1>6. Calling(c)'
  <2>1. AllRead(play[c].of)' = AllRead(t)
    BY <1>1, <1>3, <1>4 DEF AllRead, Arete!ReadOf, Arete!ResultsOf
  <2>2. t \notin ran => tournament[t].status = "open" /\ w.read = AllRead(t)
    BY <1>0, <1>1 DEF Calling, AllRead
  <2> QED BY <1>0, <1>1, <1>3, <1>4, <1>5, <2>1, <2>2 DEF Calling, Arete!At, InRows, Arete!Rows
<1>7. \A d \in Callers \ {c} : InRows(d) /\ play[d].of = t => t \in ran
  BY <1>0 DEF TournamentInv, Lone
<1> QED BY <1>1, <1>3, <1>4, <1>6, <1>7, TurnKeeps DEF Arete!At, TournamentInv, ContestTypes

LEMMA OpenKeeps ==
  ASSUME TournamentInv, NEW c \in Callers, NEW t \in Tournaments, Arete!Open(c, t)
  PROVE  TournamentInv'
<1>1. /\ tournament[t] = Arete!NoTournament /\ UNCHANGED <<result, play, corrected, ran>>
      /\ tournament' = [tournament EXCEPT ![t].status = "open"]
  BY DEF Arete!Open
<1>2. ContestTypes'
  BY <1>1 DEF TournamentInv, ContestTypes, Contests
<1>3. /\ \A u \in Tournaments \ {t} : tournament'[u] = tournament[u]
      /\ tournament'[t].status = "open" /\ tournament'[t].sealed = {}
      /\ tournament[t].status = "none"
  BY <1>1 DEF TournamentInv, ContestTypes, Contests, Arete!NoTournament
<1>4. ASSUME NEW d \in Callers PROVE Calling(d)'
  <2>1. Calling(d) /\ (InRows(d) => play[d].of \in Tournaments)
    BY DEF TournamentInv, Calling
  <2>2. /\ Arete!ReadOf(play[d].of, "parent")' = Arete!ReadOf(play[d].of, "parent")
        /\ AllRead(play[d].of)' = AllRead(play[d].of)
        /\ (Arete!Spans(AllRead(play[d].of))' <=> Arete!Spans(AllRead(play[d].of)))
        /\ Recorded' = Recorded
    BY <1>1 DEF Arete!ReadOf, Arete!ResultsOf, AllRead, Arete!Spans, Recorded
  <2> QED BY <1>1, <1>3, <2>1, <2>2 DEF Calling, Arete!At, InRows
<1>5. Lone' /\ CorrectionsAgree'
  BY <1>1 DEF TournamentInv, Lone, CorrectionsAgree, Arete!At, InRows
<1>6. ASSUME NEW u \in Tournaments PROVE Settled(u)'
  <2>1. Settled(u)
    BY DEF TournamentInv
  <2>2. /\ AllRead(u)' = AllRead(u) /\ Recorded' = Recorded
        /\ (Arete!Spans(AllRead(u))' <=> Arete!Spans(AllRead(u)))
    BY <1>1 DEF Arete!ReadOf, Arete!ResultsOf, AllRead, Arete!Spans, Recorded
  <2>3. CASE u = t
    BY <1>3, <2>3 DEF Settled
  <2>4. CASE u # t
    <3>1. tournament'[u] = tournament[u]
      BY <1>3, <2>4
    <3>2. Arete!Spans(tournament[u].sealed)' <=> Arete!Spans(tournament[u].sealed)
      BY <1>1, <3>1 DEF Arete!Spans
    <3> QED BY <1>1, <2>1, <2>2, <3>1, <3>2 DEF Settled
  <2> QED BY <2>3, <2>4
<1> QED BY <1>2, <1>4, <1>5, <1>6 DEF TournamentInv

\* A result is written: recorded, or corrected by one who has read it.
LEMMA WriteKeeps ==
  ASSUME TournamentInv, NEW c \in Callers, play[c].step \in {"record", "correct"},
         result' = [result EXCEPT ![play[c].item] = play[c].row], Arete!Return(c),
         corrected' = [corrected EXCEPT ![play[c].item] = @ + (IF Arete!At(c, "correct") THEN 1 ELSE 0)],
         UNCHANGED <<tournament, ran>>
  PROVE  TournamentInv'
<1> PICK t, r, row : t = play[c].of /\ r = play[c].item /\ row = play[c].row
  OBVIOUS
<1>1. /\ Calling(c) /\ InRows(c) /\ t \in Tournaments /\ r \in Results /\ row \in Outcomes
      /\ row.of = t /\ row.arm \in Arete!Arms /\ result[r].of \in {NoOne, t}
      /\ (result[r] # Arete!NoResult => result[r].arm = row.arm /\ result[r].of = t)
      /\ row # Arete!NoResult
  BY TournamentsAssumption DEF TournamentInv, ContestTypes, Calling, InRows, Arete!Rows, Arete!At,
     Plays, Arete!NoResult, Arete!TournamentAssumption
<1>2. Turns(c) /\ play'[c].step = "idle"
  BY PlayReturns DEF TournamentInv
<1>3. /\ result' = [result EXCEPT ![r] = row]
      /\ result'[r] = row /\ \A s \in Results \ {r} : result'[s] = result[s]
  BY <1>1 DEF TournamentInv, ContestTypes
<1>4. corrected' \in [Results -> Nat] /\ \A s \in Results \ {r} : corrected'[s] = corrected[s]
  BY <1>1 DEF TournamentInv, ContestTypes
<1>5. ContestTypes'
  BY <1>1, <1>2, <1>3, <1>4 DEF TournamentInv, ContestTypes, Turns
<1>6. Recorded \subseteq Recorded'
  BY <1>1, <1>3 DEF Recorded
<1>7. ASSUME NEW read \in SUBSET Recorded PROVE Arete!Spans(read)' <=> Arete!Spans(read)
  <2>1. \A p \in read : result'[p[1]].arm = result[p[1]].arm
    BY <1>1, <1>3 DEF Recorded
  <2> QED BY <2>1 DEF Arete!Spans
<1>8. ASSUME NEW u \in Tournaments \ {t}, NEW arm PROVE Arete!ReadOf(u, arm)' = Arete!ReadOf(u, arm)
  <2>1. {s \in Results : result'[s].of = u} = {s \in Results : result[s].of = u}
    BY <1>1, <1>3, TournamentsAssumption DEF Arete!TournamentAssumption
  <2>2. \A s \in Results : result[s].of = u => result'[s] = result[s]
    BY <1>1, <1>3, TournamentsAssumption DEF Arete!TournamentAssumption
  <2> QED BY <2>1, <2>2 DEF Arete!ReadOf, Arete!ResultsOf
<1>9. ASSUME NEW u \in Tournaments \ {t}
      PROVE  AllRead(u)' = AllRead(u) /\ (Arete!Spans(AllRead(u))' <=> Arete!Spans(AllRead(u)))
  <2>1. AllRead(u)' = AllRead(u)
    BY <1>8 DEF AllRead
  <2>2. AllRead(u) \in SUBSET Recorded
    BY ReadsAreRecorded DEF AllRead, TournamentInv
  <2>3. PICK read \in SUBSET Recorded : read = AllRead(u)
    BY <2>2
  <2>4. AllRead(u)' = read
    BY <2>1, <2>3
  <2>5. Arete!Spans(AllRead(u)) <=> Arete!Spans(read)
    BY <2>3
  <2>6. Arete!Spans(AllRead(u))' <=> Arete!Spans(read)'
    BY <2>4 DEF Arete!Spans
  <2> QED BY <1>7, <2>1, <2>5, <2>6
<1>10. ASSUME NEW d \in Callers PROVE Calling(d)'
  <2>1. CASE d = c
    BY <1>2, <2>1 DEF Calling, Arete!At, InRows, Arete!Rows
  <2>2. CASE d # c
    <3>1. play'[d] = play[d] /\ Calling(d) /\ (InRows(d) => play[d].of \in Tournaments)
      BY <1>2, <2>2 DEF Turns, TournamentInv, Calling
    <3>2. InRows(d) /\ play[d].of \notin ran => play[d].of # t
      BY <1>1, <2>2 DEF TournamentInv, Lone
    <3>3. Arete!At(d, "record") => play[d].item # r
      BY <1>1, <2>2 DEF TournamentInv, Lone, Calling, Arete!At
    <3>4. Arete!At(d, "correct") => result'[play[d].item] # Arete!NoResult /\ result'[play[d].item].of = play[d].of
                              /\ play[d].row.arm = result'[play[d].item].arm
      BY <1>1, <1>3, <3>1 DEF Calling
    <3>5. Arete!At(d, "correct") /\ play[d].of \notin ran => play[d].row.trail = result'[play[d].item].trail + 1
      BY <1>1, <1>3, <3>1, <3>2 DEF Calling, InRows, Arete!Rows, Arete!At
    <3>6. ASSUME InRows(d), play[d].of \notin ran
          PROVE  /\ tournament[play[d].of].status = "open"
                 /\ Arete!At(d, "close") => play[d].read = Arete!ReadOf(play[d].of, "parent")'
                 /\ Arete!At(d, "closing") => play[d].read = AllRead(play[d].of)'
                 /\ Arete!At(d, "void") => ~Arete!Spans(AllRead(play[d].of))'
      <4>1. PICK u \in Tournaments \ {t} : u = play[d].of
        BY <3>1, <3>2, <3>6
      <4>2. /\ Arete!ReadOf(play[d].of, "parent")' = Arete!ReadOf(u, "parent")'
            /\ AllRead(play[d].of)' = AllRead(u)'
            /\ Arete!Spans(AllRead(play[d].of))' <=> Arete!Spans(AllRead(u))'
        BY <3>1, <4>1
      <4> QED BY <1>8, <1>9, <3>1, <3>6, <4>1, <4>2 DEF Calling
    <3> QED BY <1>3, <1>6, <3>1, <3>3, <3>4, <3>5, <3>6 DEF Calling, Arete!At, InRows
  <2> QED BY <2>1, <2>2
<1>11. Lone'
  BY <1>2 DEF TournamentInv, Lone, Turns, Arete!At, InRows, Arete!Rows
<1>12. ASSUME NEW u \in Tournaments PROVE Settled(u)'
  <2>1. Settled(u)
    BY DEF TournamentInv
  <2>2. PICK read \in SUBSET Recorded : read = tournament[u].sealed
    BY <2>1 DEF Settled
  <2>3. Arete!Spans(tournament[u].sealed)' <=> Arete!Spans(tournament[u].sealed)
    <3>1. tournament'[u].sealed = read
      BY <2>2
    <3>2. Arete!Spans(tournament[u].sealed)' <=> Arete!Spans(read)'
      BY <3>1 DEF Arete!Spans
    <3>3. Arete!Spans(tournament[u].sealed) <=> Arete!Spans(read)
      BY <2>2
    <3> QED BY <1>7, <3>2, <3>3
  <2>4. CASE u # t
    BY <1>6, <1>9, <2>1, <2>3, <2>4 DEF Settled
  <2>5. CASE u = t
    <3>1. t \notin ran => tournament[t].status = "open"
      BY <1>1 DEF Calling
    <3> QED BY <1>6, <2>1, <2>3, <2>5, <3>1 DEF Settled
  <2> QED BY <2>4, <2>5
<1>13. CorrectionsAgree'
  <2>1. result[r] = Arete!NoResult => corrected[r] = 0 /\ Arete!At(c, "record") /\ row.trail = 0
    BY <1>1 DEF TournamentInv, CorrectionsAgree, Calling, Arete!At
  <2>2. result[r] # Arete!NoResult => Arete!At(c, "correct") /\ (t \notin ran => row.trail = result[r].trail + 1)
    BY <1>1 DEF Calling, Arete!At
  <2>3. corrected'[r] = corrected[r] + (IF Arete!At(c, "correct") THEN 1 ELSE 0) /\ corrected[r] \in Nat
    BY <1>1 DEF TournamentInv, ContestTypes
  <2>4. t \notin ran => row.trail = corrected'[r]
    <3>1. CASE result[r] = Arete!NoResult
      BY <2>1, <2>3, <3>1 DEF Arete!At
    <3>2. CASE result[r] # Arete!NoResult
      BY <1>1, <2>2, <2>3, <3>2 DEF TournamentInv, CorrectionsAgree
    <3> QED BY <3>1, <3>2
  <2> QED BY <1>1, <1>3, <1>4, <2>4 DEF TournamentInv, CorrectionsAgree
<1> QED BY <1>5, <1>10, <1>11, <1>12, <1>13 DEF TournamentInv

LEMMA RecordKeeps == ASSUME TournamentInv, NEW c \in Callers, Arete!Record(c) PROVE TournamentInv'
<1>1. corrected' = [corrected EXCEPT ![play[c].item] = @ + 0]
  BY DEF Arete!Record, TournamentInv, ContestTypes, Calling
<1> QED BY <1>1, WriteKeeps DEF Arete!Record, Arete!At

LEMMA CorrectKeeps == ASSUME TournamentInv, NEW c \in Callers, Arete!Correct(c) PROVE TournamentInv'
BY WriteKeeps DEF Arete!Correct, Arete!At

\* A tournament is closed or voided by a call that has it alone, or that has run.
LEMMA SealKeeps ==
  ASSUME TournamentInv, NEW c \in Callers, play[c].step \in {"closing", "void"}, NEW k \in Contests,
         tournament' = [tournament EXCEPT ![play[c].of] = k], Arete!Return(c),
         UNCHANGED <<result, corrected, ran>>,
         k.sealed \subseteq Recorded, k.status = "closed" => Arete!Spans(k.sealed),
         play[c].of \notin ran =>
           /\ k.status # "closed" => k.sealed = {}
           /\ k.status = "closed" => Arete!Spans(AllRead(play[c].of)) /\ k.sealed = AllRead(play[c].of)
           /\ k.status = "voided" => ~Arete!Spans(AllRead(play[c].of))
  PROVE  TournamentInv'
<1> PICK t : t = play[c].of
  OBVIOUS
<1>1. InRows(c) /\ t \in Tournaments
  BY DEF TournamentInv, Calling, InRows, Arete!Rows
<1>2. Turns(c) /\ play'[c].step = "idle"
  BY PlayReturns DEF TournamentInv
<1>3. tournament'[t] = k /\ \A u \in Tournaments \ {t} : tournament'[u] = tournament[u]
  BY <1>1 DEF TournamentInv, ContestTypes
<1>4. ContestTypes'
  BY <1>1, <1>2 DEF TournamentInv, ContestTypes, Turns
<1>5. ASSUME NEW d \in Callers PROVE Calling(d)'
  <2>1. CASE d = c
    BY <1>2, <2>1 DEF Calling, Arete!At, InRows, Arete!Rows
  <2>2. CASE d # c
    <3>1. play'[d] = play[d] /\ Calling(d) /\ (InRows(d) => play[d].of \in Tournaments)
      BY <1>2, <2>2 DEF Turns, TournamentInv, Calling
    <3>2. InRows(d) /\ play[d].of \notin ran => play[d].of # t
      BY <1>1, <2>2 DEF TournamentInv, Lone
    <3>3. /\ Arete!ReadOf(play[d].of, "parent")' = Arete!ReadOf(play[d].of, "parent")
          /\ AllRead(play[d].of)' = AllRead(play[d].of)
          /\ (Arete!Spans(AllRead(play[d].of))' <=> Arete!Spans(AllRead(play[d].of)))
          /\ Recorded' = Recorded
      BY <3>1 DEF Arete!ReadOf, Arete!ResultsOf, AllRead, Arete!Spans, Recorded
    <3> QED BY <1>3, <3>1, <3>2, <3>3 DEF Calling, Arete!At, InRows
  <2> QED BY <2>1, <2>2
<1>6. Lone' /\ CorrectionsAgree'
  BY <1>2 DEF TournamentInv, Lone, CorrectionsAgree, Turns, Arete!At, InRows, Arete!Rows
<1>7. ASSUME NEW u \in Tournaments PROVE Settled(u)'
  <2>1. Settled(u)
    BY DEF TournamentInv
  <2>2. /\ AllRead(u)' = AllRead(u) /\ Recorded' = Recorded
        /\ (Arete!Spans(AllRead(u))' <=> Arete!Spans(AllRead(u)))
    BY DEF Arete!ReadOf, Arete!ResultsOf, AllRead, Arete!Spans, Recorded
  <2>3. CASE u = t
    <3>1. Arete!Spans(tournament[u].sealed)' <=> Arete!Spans(k.sealed)
      BY <1>3, <2>3 DEF Arete!Spans
    <3> QED BY <1>3, <2>2, <2>3, <3>1 DEF Settled
  <2>4. CASE u # t
    <3>1. tournament'[u] = tournament[u]
      BY <1>3, <2>4
    <3>2. Arete!Spans(tournament[u].sealed)' <=> Arete!Spans(tournament[u].sealed)
      BY <3>1 DEF Arete!Spans
    <3> QED BY <2>1, <2>2, <3>1, <3>2 DEF Settled
  <2> QED BY <2>3, <2>4
<1> QED BY <1>4, <1>5, <1>6, <1>7 DEF TournamentInv

LEMMA CloseKeeps == ASSUME TournamentInv, NEW c \in Callers, Arete!Close(c) PROVE TournamentInv'
<1>1. /\ play[c].step = "closing" /\ Calling(c) /\ InRows(c) /\ play[c].of \in Tournaments
      /\ play[c].read \subseteq Recorded /\ Arete!Spans(play[c].read)
  BY DEF Arete!Close, Arete!At, TournamentInv, Calling, InRows, Arete!Rows, Arete!Gain
<1>2. PICK rung \in Arete!Measures(play[c].read) :
        tournament' = [tournament EXCEPT ![play[c].of] =
                         [@ EXCEPT !.status = "closed", !.sealed = play[c].read, !.measured = rung]]
  BY DEF Arete!Close
<1> DEFINE k == [tournament[play[c].of] EXCEPT !.status = "closed", !.sealed = play[c].read, !.measured = rung]
<1>3. rung \in Arete!Rungs \cup {NoOne} /\ tournament[play[c].of] \in Contests /\ Recorded \subseteq Results \X Nat
  BY <1>1 DEF Arete!Measures, TournamentInv, ContestTypes, Recorded
<1>4. k \in Contests /\ k.status = "closed" /\ k.sealed = play[c].read
  BY <1>1, <1>3 DEF Contests
<1>5. tournament' = [tournament EXCEPT ![play[c].of] = k]
  BY <1>2
<1> HIDE DEF k
<1>6. play[c].of \notin ran => play[c].read = AllRead(play[c].of)
  BY <1>1 DEF Calling, Arete!At
<1> QED BY <1>1, <1>4, <1>5, <1>6, SealKeeps DEF Arete!Close

LEMMA VoidKeeps == ASSUME TournamentInv, NEW c \in Callers, Arete!Void(c) PROVE TournamentInv'
<1>1. /\ play[c].step = "void" /\ Calling(c) /\ InRows(c) /\ play[c].of \in Tournaments
  BY DEF Arete!Void, Arete!At, TournamentInv, Calling, InRows, Arete!Rows
<1> DEFINE k == [tournament[play[c].of] EXCEPT !.status = "voided"]
<1>2. tournament[play[c].of] \in Contests /\ Settled(play[c].of)
  BY <1>1 DEF TournamentInv, ContestTypes
<1>3. k \in Contests /\ k.status = "voided" /\ k.sealed = tournament[play[c].of].sealed
  BY <1>2 DEF Contests
<1>4. tournament' = [tournament EXCEPT ![play[c].of] = k]
  BY DEF Arete!Void
<1> HIDE DEF k
<1>5. play[c].of \notin ran => k.sealed = {} /\ ~Arete!Spans(AllRead(play[c].of))
  BY <1>1, <1>2, <1>3 DEF Calling, Arete!At, Settled
<1> QED BY <1>1, <1>2, <1>3, <1>4, <1>5, SealKeeps DEF Arete!Void, Settled

LEMMA DecideBeginKeeps ==
  ASSUME TournamentInv, NEW c \in Callers, NEW t \in Tournaments, NEW declared \in {Declared, NoOne},
         NEW claimed \in Arete!Rungs \cup {NoOne}, Arete!DecideBegin(c, t, declared, claimed)
  PROVE  TournamentInv'
<1> DEFINE w == [Arete!Idle EXCEPT !.step = "decide", !.of = t, !.on = tournament[t].status,
                             !.declared = declared, !.claimed = claimed]
<1>1. w \in Plays /\ w.step = "decide"
  BY TournamentsAssumption DEF Plays, Outcomes, Arete!Idle, Arete!NoResult, TournamentInv,
     ContestTypes, Contests, Arete!TournamentAssumption
<1>2. play' = [play EXCEPT ![c] = w] /\ UNCHANGED <<tournament, result, corrected, ran>>
  BY DEF Arete!DecideBegin, Arete!rows
<1> HIDE DEF w
<1> QED BY <1>1, <1>2, PlayStarts, EndKeeps DEF TournamentInv

LEMMA PullBeginKeeps == ASSUME TournamentInv, NEW c \in Callers, NEW t \in Tournaments, Arete!PullBegin(c, t) PROVE TournamentInv'
<1> DEFINE w == [Arete!Idle EXCEPT !.step = "pull", !.of = t]
<1>1. w \in Plays /\ w.step = "pull"
  BY DEF Plays, Outcomes, Arete!Idle, Arete!NoResult
<1>2. play' = [play EXCEPT ![c] = w] /\ UNCHANGED <<tournament, result, corrected, ran>>
  BY DEF Arete!PullBegin, Arete!rows
<1> HIDE DEF w
<1> QED BY <1>1, <1>2, PlayStarts, EndKeeps DEF TournamentInv

LEMMA EndingsKeep ==
  ASSUME TournamentInv, NEW c \in Callers, Arete!CloseRefused(c) \/ Arete!Decide(c) \/ Arete!Pull(c)
  PROVE  TournamentInv'
BY PlayReturns, EndKeeps DEF Arete!CloseRefused, Arete!Decide, Arete!Pull, Arete!rows, TournamentInv

LEMMA ServerCrashKeeps == ASSUME TournamentInv, Arete!Crash PROVE TournamentInv'
<1>1. UNCHANGED <<tournament, result, corrected, ran>> /\ play' = [c \in Callers |-> Arete!Idle]
  BY DEF Arete!Crash, Arete!rows
<1>2. play' \in [Callers -> Plays] /\ \A c \in Callers : play'[c].step = "idle"
  BY <1>1, IdleIsCall
<1>3. ContestTypes' /\ Lone' /\ CorrectionsAgree' /\ \A c \in Callers : Calling(c)'
  BY <1>1, <1>2 DEF TournamentInv, ContestTypes, Lone, CorrectionsAgree, Calling, Arete!At,
     InRows, Arete!Rows
<1>4. ASSUME NEW u \in Tournaments PROVE Settled(u)'
  <2>1. /\ AllRead(u)' = AllRead(u) /\ Recorded' = Recorded
        /\ (Arete!Spans(AllRead(u))' <=> Arete!Spans(AllRead(u)))
        /\ (Arete!Spans(tournament[u].sealed)' <=> Arete!Spans(tournament[u].sealed))
    BY <1>1 DEF Arete!ReadOf, Arete!ResultsOf, AllRead, Arete!Spans, Recorded
  <2> QED BY <1>1, <2>1 DEF TournamentInv, Settled
<1> QED BY <1>3, <1>4 DEF TournamentInv

LEMMA NothingMoves == ASSUME TournamentInv, UNCHANGED (Arete!vars) PROVE TournamentInv'
<1>1. UNCHANGED <<tournament, result, corrected, ran, play>>
  BY DEF Arete!vars, Arete!rows
<1>2. ContestTypes' /\ Lone' /\ CorrectionsAgree'
  BY <1>1 DEF TournamentInv, ContestTypes, Lone, CorrectionsAgree, Arete!At, InRows
<1>3. ASSUME NEW u \in Tournaments PROVE Settled(u)'
  <2>1. /\ AllRead(u)' = AllRead(u) /\ Recorded' = Recorded
        /\ (Arete!Spans(AllRead(u))' <=> Arete!Spans(AllRead(u)))
        /\ (Arete!Spans(tournament[u].sealed)' <=> Arete!Spans(tournament[u].sealed))
    BY <1>1 DEF Arete!ReadOf, Arete!ResultsOf, AllRead, Arete!Spans, Recorded
  <2> QED BY <1>1, <2>1 DEF TournamentInv, Settled
<1>4. ASSUME NEW d \in Callers PROVE Calling(d)'
  <2>1. /\ Arete!ReadOf(play[d].of, "parent")' = Arete!ReadOf(play[d].of, "parent")
        /\ AllRead(play[d].of)' = AllRead(play[d].of)
        /\ (Arete!Spans(AllRead(play[d].of))' <=> Arete!Spans(AllRead(play[d].of)))
        /\ Recorded' = Recorded
    BY <1>1 DEF Arete!ReadOf, Arete!ResultsOf, AllRead, Arete!Spans, Recorded
  <2> QED BY <1>1, <2>1 DEF TournamentInv, Calling, Arete!At, InRows
<1> QED BY <1>2, <1>3, <1>4 DEF TournamentInv

LEMMA BeginsSettled == Arete!Init => TournamentInv
<1> SUFFICES ASSUME Arete!Init PROVE TournamentInv
  OBVIOUS
<1>1. ContestTypes
  BY IdleIsCall DEF Arete!Init, ContestTypes, Contests, Arete!NoTournament, Outcomes, Arete!NoResult
<1>2. \A c \in Callers : play[c].step = "idle"
  BY IdleIsCall DEF Arete!Init
<1>3. (\A c \in Callers : Calling(c)) /\ Lone /\ CorrectionsAgree
  BY <1>2 DEF Calling, Lone, Arete!At, InRows, Arete!Rows, CorrectionsAgree, Arete!Init
<1>4. \A t \in Tournaments : Settled(t)
  BY DEF Arete!Init, Settled, Arete!NoTournament
<1> QED BY <1>1, <1>3, <1>4 DEF TournamentInv

LEMMA TournamentsStaySettled == TournamentInv /\ [Arete!Next]_(Arete!vars) => TournamentInv'
<1> SUFFICES ASSUME TournamentInv, [Arete!Next]_(Arete!vars) PROVE TournamentInv'
  OBVIOUS
<1>1. CASE Arete!Crash \/ UNCHANGED (Arete!vars)
  BY <1>1, ServerCrashKeeps, NothingMoves
<1>2. ASSUME NEW c \in Callers, NEW t \in Tournaments,
             \/ Arete!Open(c, t) \/ Arete!CloseBegin(c, t) \/ Arete!VoidBegin(c, t) \/ Arete!PullBegin(c, t)
             \/ \E declared \in {Declared, NoOne}, claimed \in Arete!Rungs \cup {NoOne} :
                  Arete!DecideBegin(c, t, declared, claimed)
             \/ \E arm \in Arete!Arms, r \in Results : Arete!RecordBegin(c, t, arm, r)
      PROVE  TournamentInv'
  BY <1>2, OpenKeeps, CloseBeginKeeps, VoidBeginKeeps, PullBeginKeeps, DecideBeginKeeps, RecordBeginKeeps
<1>3. ASSUME NEW c \in Callers, NEW r \in Results, Arete!CorrectBegin(c, r) PROVE TournamentInv'
  BY <1>3, CorrectBeginKeeps
<1>4. ASSUME NEW c \in Callers,
             \/ Arete!Record(c) \/ Arete!Correct(c)
             \/ Arete!CloseRead(c) \/ Arete!Close(c) \/ Arete!CloseRefused(c) \/ Arete!Void(c) \/ Arete!Decide(c) \/ Arete!Pull(c)
      PROVE  TournamentInv'
  BY <1>4, RecordKeeps, CorrectKeeps, CloseReadKeeps, CloseKeeps, VoidKeeps, EndingsKeep
<1> QED BY <1>1, <1>2, <1>3, <1>4 DEF Arete!Next

LEMMA SettledIsSealed == TournamentInv => Arete!SealedWhenAlone
<1> SUFFICES ASSUME TournamentInv PROVE Arete!SealedWhenAlone
  OBVIOUS
<1>1. Arete!closed_have_gain = {}
  BY DEF TournamentInv, Settled, Arete!closed_have_gain, Arete!Gain
<1>2. ASSUME NEW t \in Tournaments \ ran
      PROVE  LET now == Arete!ReadOf(t, "parent") \cup Arete!ReadOf(t, "candidate")
             IN  /\ tournament[t].status = "closed" => Arete!Spans(now) /\ tournament[t].sealed = now
                 /\ tournament[t].status = "voided" => ~Arete!Spans(now) /\ tournament[t].sealed = {}
                 /\ \A r \in Arete!ResultsOf(t) : result[r].trail = corrected[r]
  <2>1. \A r \in Arete!ResultsOf(t) : result[r].trail = corrected[r]
    BY TournamentsAssumption DEF TournamentInv, CorrectionsAgree, Arete!ResultsOf, Arete!NoResult,
       Arete!TournamentAssumption
  <2> QED BY <2>1 DEF TournamentInv, Settled, AllRead
<1> QED BY <1>1, <1>2 DEF Arete!SealedWhenAlone

-----------------------------------------------------------------------------
\* A behaviour of the model is one of each server.
LEMMA ServersPlay == Servers => Arete!Init /\ [][Arete!Next]_(Arete!vars)
<1>1. Start => Arete!Init
  BY DEF Start
<1>2. [Step]_<<server, vars, areteVars>> => [Arete!Next]_(Arete!vars)
  BY DEF Step, areteVars, Arete!vars, Arete!rows
<1> QED BY <1>1, <1>2, PTL DEF Servers

LEMMA TournamentInvariance == Servers => []TournamentInv
BY ServersPlay, BeginsSettled, TournamentsStaySettled, PTL

\* No tournament is ever closed without a gain, and as long as no two calls
\* met on it, a closed one is sealed with the results it still has, a voided
\* one had none to compare, and each result carries every correction.
THEOREM LoneTournamentsAreSealed == Servers => []SealedWhenAlone
<1>1. TournamentInv => SealedWhenAlone
  BY SettledIsSealed DEF SealedWhenAlone
<1> QED BY <1>1, TournamentInvariance, PTL
================================================================================
