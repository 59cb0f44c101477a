------------------------------ MODULE Tournament ------------------------------
(***************************************************************************)
(* The life of a tournament in the arete server: it is opened under a      *)
(* contract, results are recorded and corrected, it is closed or voided, a *)
(* decision cites it.  (Its campaigns are the subject of ArmCampaigns.)    *)
(*                                                                         *)
(* What works on the tournament's own rows runs in worker threads: they    *)
(* check, read and write in statements of their own.  Deciding and pulling *)
(* evidence are coroutines that check, await another server and write      *)
(* without looking again.                                                  *)
(***************************************************************************)
EXTENDS Naturals, FiniteSets

CONSTANTS Tournaments,
          Results,       \* a bound as well: results that may be recorded
          None,
          Declared,      \* min_evidence_rung of the contract
          Callers,       \* requests the server handles at the same time
          MaxCorrections, \* bound: corrections of a result
          MaxDecisions   \* bound: decisions that are recorded

\* The ladder of evidence: none, positive, strong.
Rungs == 0..2
Arms == {"parent", "candidate"}

TournamentAssumption ==
  /\ None \notin Tournaments \cup Results \cup Rungs
  /\ Declared \in Rungs
  /\ {MaxCorrections, MaxDecisions} \subseteq Nat
  /\ IsFiniteSet(Callers)

VARIABLES
  tournament,  \* tournaments
  result,      \* tournament_results
  decisions,   \* meta_decisions that cite a tournament
  evidence,    \* tournaments with an evidence_ref
  call,        \* where each handler is
  corrected,   \* auxiliary: corrections that were written
  ran          \* auxiliary: tournaments on which calls overlapped

rows == <<tournament, result, decisions, evidence>>
vars == <<rows, call, corrected, ran>>

\* sealed: the results a closing has read; measured: the rung of its bf_2ln,
\* None where no statistic could be computed.
NoTournament == [status |-> "none", sealed |-> {}, measured |-> None]
\* A result's value is told apart by the corrections it has had.
NoResult == [of |-> None, arm |-> "none", trail |-> 0]
ResultsOf(t) == {r \in Results : result[r].of = t}
\* list_tournament_results.
ReadOf(t, arm) == {<<r, result[r].trail>> : r \in {r \in ResultsOf(t) : result[r].arm = arm}}
Spans(read) == \A arm \in Arms : \E p \in read : result[p[1]].arm = arm

\* A handler: its step, what it is about, and what it carries over.
Idle == [step |-> "idle", of |-> None, arm |-> "none", item |-> None, read |-> {},
         row |-> NoResult, declared |-> None, claimed |-> None, on |-> "none"]
At(c, step) == call[c].step = step
Return(c) == call' = [call EXCEPT ![c] = Idle]

\* Another call is at work on the rows of the tournament.
Rows == {"record", "correct", "close", "closing", "void"}
Overlap(c, t) ==
  IF \E o \in Callers \ {c} : call[o].step \in Rows /\ call[o].of = t THEN ran \cup {t} ELSE ran

\* undecided_tournaments: every tool but those that pay the debt is refused.
Debt == {t \in Tournaments : tournament[t].status = "closed" /\ \A d \in decisions : d.of # t}
Begin(c, record) ==
  /\ call[c] = Idle
  /\ Debt = {}
  /\ call' = [call EXCEPT ![c] = record]

-----------------------------------------------------------------------------
\* open_tournament.  (The contract's frozen flag, which nothing reads, is left
\* out.)
Open(c, t) ==
  /\ tournament[t] = NoTournament
  /\ call[c] = Idle /\ Debt = {}
  /\ tournament' = [tournament EXCEPT ![t].status = "open"]
  /\ UNCHANGED <<result, decisions, evidence, call, corrected, ran>>

-----------------------------------------------------------------------------
(***************************************************************************)
(* record_tournament_result and correct_tournament_result.                 *)
(***************************************************************************)
\* check_tournament_open.
IsOpen(t) == tournament[t].status = "open"

\* mutant: the tournament is not looked at
RecordBeginAnyTime(c, t, arm, r) ==
  /\ result[r] = NoResult
  /\ \A o \in Callers : call[o].item # r
  /\ Begin(c, [Idle EXCEPT !.step = "record", !.of = t, !.item = r,
                 !.row = [of |-> t, arm |-> arm, trail |-> 0]])
  /\ ran' = Overlap(c, t)
  /\ UNCHANGED <<rows, corrected>>

RecordBegin(c, t, arm, r) ==
  /\ IsOpen(t)
  /\ result[r] = NoResult
  /\ \A o \in Callers : call[o].item # r
  /\ Begin(c, [Idle EXCEPT !.step = "record", !.of = t, !.item = r,
                 !.row = [of |-> t, arm |-> arm, trail |-> 0]])
  /\ ran' = Overlap(c, t)
  /\ UNCHANGED <<rows, corrected>>

Record(c) ==
  /\ At(c, "record")
  /\ result' = [result EXCEPT ![call[c].item] = call[c].row]
  /\ Return(c)
  /\ UNCHANGED <<tournament, decisions, evidence, corrected, ran>>

\* mutant: the tournament is not looked at
CorrectBeginAnyTime(c, r) ==
  /\ result[r] # NoResult /\ result[r].trail < MaxCorrections
  /\ call[c] = Idle
  /\ call' = [call EXCEPT ![c] = [Idle EXCEPT !.step = "correct", !.of = result[r].of, !.item = r,
                !.row = [result[r] EXCEPT !.trail = @ + 1]]]
  /\ ran' = Overlap(c, result[r].of)
  /\ UNCHANGED <<rows, corrected>>

\* The row with its trail, and the tournament.  It is exempt from the debt.
CorrectBegin(c, r) ==
  /\ result[r] # NoResult /\ result[r].trail < MaxCorrections
  /\ IsOpen(result[r].of)
  /\ call[c] = Idle
  /\ call' = [call EXCEPT ![c] = [Idle EXCEPT !.step = "correct", !.of = result[r].of, !.item = r,
                !.row = [result[r] EXCEPT !.trail = @ + 1]]]
  /\ ran' = Overlap(c, result[r].of)
  /\ UNCHANGED <<rows, corrected>>

Correct(c) ==
  /\ At(c, "correct")
  /\ result' = [result EXCEPT ![call[c].item] = call[c].row]
  /\ corrected' = [corrected EXCEPT ![call[c].item] = @ + 1]
  /\ Return(c)
  /\ UNCHANGED <<tournament, decisions, evidence, ran>>

-----------------------------------------------------------------------------
(***************************************************************************)
(* close_tournament and void_tournament.                                   *)
(***************************************************************************)
CloseBegin(c, t) ==
  /\ IsOpen(t)
  /\ Begin(c, [Idle EXCEPT !.step = "close", !.of = t, !.read = ReadOf(t, "parent")])
  /\ ran' = Overlap(c, t)
  /\ UNCHANGED <<rows, corrected>>

CloseRead(c) ==
  /\ At(c, "close")
  /\ call' = [call EXCEPT ![c].step = "closing",
                          ![c].read = @ \cup ReadOf(call[c].of, "candidate")]
  /\ UNCHANGED <<rows, corrected, ran>>

\* compute_recursive_gain: both arms have a result (its value, and the zero
\* that makes it undefined, are left out).
Gain(read) == Spans(read)

\* arm_evidence: no statistic below two results of each arm.
Measures(read) ==
  IF \A arm \in Arms : Cardinality({p \in read : result[p[1]].arm = arm}) >= 2
  THEN Rungs ELSE {None}

Close(c) ==
  /\ At(c, "closing")
  /\ Gain(call[c].read)
  /\ \E rung \in Measures(call[c].read) :
       tournament' = [tournament EXCEPT ![call[c].of] =
                        [@ EXCEPT !.status = "closed", !.sealed = call[c].read, !.measured = rung]]
  /\ Return(c)
  /\ UNCHANGED <<result, decisions, evidence, corrected, ran>>

CloseRefused(c) ==
  /\ At(c, "closing")
  /\ ~Gain(call[c].read)
  /\ Return(c)
  /\ UNCHANGED <<rows, corrected, ran>>

\* A tournament that is paired is not voided.
VoidBegin(c, t) ==
  /\ IsOpen(t)
  /\ ~Spans(ReadOf(t, "parent") \cup ReadOf(t, "candidate"))
  /\ Begin(c, [Idle EXCEPT !.step = "void", !.of = t])
  /\ ran' = Overlap(c, t)
  /\ UNCHANGED <<rows, corrected>>

Void(c) ==
  /\ At(c, "void")
  /\ tournament' = [tournament EXCEPT ![call[c].of].status = "voided"]
  /\ Return(c)
  /\ UNCHANGED <<result, decisions, evidence, corrected, ran>>

-----------------------------------------------------------------------------

\* The measured rung, or the minimum of the cited contract where nothing was
\* measured.
Ceiling(t, declared) ==
  IF tournament[t].measured # None THEN tournament[t].measured
  ELSE IF declared # None THEN declared ELSE 2

\* declared: None where no contract is cited; claimed: None where it is no
\* promotion, and where a promotion that cites no contract claims nothing.
DecideBegin(c, t, declared, claimed) ==
  /\ call[c] = Idle
  /\ tournament[t].status \in {"open", "closed"}
  /\ t \in evidence
  /\ Cardinality(decisions) < MaxDecisions
  /\ claimed # None => claimed <= Ceiling(t, declared) /\ (declared # None => declared <= claimed)
  /\ call' = [call EXCEPT ![c] = [Idle EXCEPT !.step = "decide", !.of = t, !.on = tournament[t].status,
                                              !.declared = declared, !.claimed = claimed]]
  /\ UNCHANGED <<rows, corrected, ran>>

Decide(c) ==
  /\ At(c, "decide")
  /\ decisions' = decisions \cup {[of |-> call[c].of, declared |-> call[c].declared,
                                   claimed |-> call[c].claimed, on |-> call[c].on]}
  /\ Return(c)
  /\ UNCHANGED <<tournament, result, evidence, corrected, ran>>

PullBegin(c, t) ==
  /\ call[c] = Idle
  /\ tournament[t] # NoTournament /\ t \notin evidence
  /\ call' = [call EXCEPT ![c] = [Idle EXCEPT !.step = "pull", !.of = t]]
  /\ UNCHANGED <<rows, corrected, ran>>

Pull(c) ==
  /\ At(c, "pull")
  /\ evidence' = evidence \cup {call[c].of}
  /\ Return(c)
  /\ UNCHANGED <<tournament, result, decisions, corrected, ran>>

-----------------------------------------------------------------------------
\* The process dies.
Crash ==
  /\ call' = [c \in Callers |-> Idle]
  /\ UNCHANGED <<rows, corrected, ran>>

-----------------------------------------------------------------------------
Init ==
  /\ tournament = [t \in Tournaments |-> NoTournament]
  /\ result = [r \in Results |-> NoResult]
  /\ decisions = {} /\ evidence = {}
  /\ call = [c \in Callers |-> Idle]
  /\ corrected = [r \in Results |-> 0]
  /\ ran = {}

Next ==
  \/ Crash
  \/ \E c \in Callers :
       \/ \E t \in Tournaments :
            \/ Open(c, t) \/ CloseBegin(c, t) \/ VoidBegin(c, t) \/ PullBegin(c, t)
            \/ \E declared \in {Declared, None}, claimed \in Rungs \cup {None} :
                 DecideBegin(c, t, declared, claimed)
            \/ \E arm \in Arms, r \in Results : RecordBegin(c, t, arm, r)
       \/ \E r \in Results : CorrectBegin(c, r)
       \/ Record(c) \/ Correct(c)
       \/ CloseRead(c) \/ Close(c) \/ CloseRefused(c) \/ Void(c) \/ Decide(c) \/ Pull(c)

Spec == Init /\ [][Next]_vars

-----------------------------------------------------------------------------
\* The rows are of their types, and a result is of a tournament that exists.
TypeOK ==
  /\ \A t \in Tournaments :
       /\ tournament[t].status \in {"none", "open", "closed", "voided"}
       /\ tournament[t].measured \in Rungs \cup {None}
       /\ tournament[t].sealed \subseteq Results \X (0..MaxCorrections)
  /\ \A r \in Results :
       /\ result[r].of \in Tournaments \cup {None} /\ result[r].trail \in 0..MaxCorrections
       /\ result[r] # NoResult => tournament[result[r].of].status # "none"

\* closed_have_gain: closed, and no gain was computed.
closed_have_gain ==
  {t \in Tournaments : tournament[t].status = "closed" /\ ~Gain(tournament[t].sealed)}

\* No overlap leaves a tournament closed without a gain.  The gain is computed
\* from the results it still has, one that was voided has no comparison to lose,
\* and a result carries every correction: as long as no two calls overlap on it,
\* whatever happens to other tournaments and whenever the process dies.
SealedWhenAlone ==
  /\ closed_have_gain = {}
  /\ \A t \in Tournaments \ ran :
    LET now == ReadOf(t, "parent") \cup ReadOf(t, "candidate")
    IN  /\ tournament[t].status = "closed" => Spans(now) /\ tournament[t].sealed = now
        /\ tournament[t].status = "voided" => ~Spans(now) /\ tournament[t].sealed = {}
        /\ \A r \in ResultsOf(t) : result[r].trail = corrected[r]

===============================================================================
