----------------------------- MODULE Investigation -----------------------------
(***************************************************************************)
(* The investigations of the zetesis server, under its write gate:         *)
(* evidence is pulled, findings are recorded and dropped, and a conclusion *)
(* mints the findings that are left as claims of the anamnesis server.     *)
(*                                                                         *)
(* Recording, dropping and abandoning run in worker threads; pulling and   *)
(* concluding are coroutines that check, await the other servers, and      *)
(* write without looking again.                                            *)
(***************************************************************************)
EXTENDS Naturals, FiniteSets, WriteGate

CONSTANTS Investigations, Findings,
          Callers,       \* requests the server handles at the same time
          MaxOutages     \* bound: outages of the claims channel

VARIABLES
  inv,       \* investigations
  finding,   \* findings
  memory,    \* the findings the claims server has a claim for
  claimsUp,  \* the claims channel is connected
  outages,   \* outages so far
  call,      \* where each handler is
  unsure     \* auxiliary: investigations on which calls overlapped, or a
             \* conclusion was cut short or could not mint

rows == <<inv, finding, memory, claimsUp, outages>>
vars == <<rows, call, unsure, gateVars>>

Absent == [status |-> "none", verdict |-> "none", stale |-> FALSE]
NoFinding == [of |-> {}, status |-> "none", claim |-> FALSE]
Idle == [step |-> "idle", of |-> {}, item |-> {}, todo |-> {}, verdict |-> "none"]

FindingsOf(i) == {f \in Findings : finding[f].of = {i}}

\* mutant: the dropped ones as well
LiveAll(i) == FindingsOf(i)

\* list_findings(status="provisional").
LiveOnes(i) == {f \in FindingsOf(i) : finding[f].status = "provisional"}
IsOpen(i) == inv[i].status = "open"

-----------------------------------------------------------------------------
(***************************************************************************)
(* The integrity checks.                                                   *)
(***************************************************************************)
StaleOpen == {<<"stale_open_investigations", i>> : i \in {i \in Investigations : IsOpen(i) /\ inv[i].stale}}
ConcludedUnminted ==
  {<<"concluded_unminted", f>> : f \in {f \in Findings :
     /\ finding[f].status = "provisional"
     /\ \E i \in finding[f].of : inv[i].status = "concluded" /\ inv[i].verdict = "findings"}}
AssertedWithoutClaim ==
  {<<"asserted_without_claim", f>> : f \in {f \in Findings : finding[f].status = "asserted" /\ ~finding[f].claim}}
ClaimsResolve == {<<"minted_claims_resolve", f>> : f \in {f \in Findings : finding[f].claim /\ f \notin memory}}
Connectivity == IF claimsUp THEN {} ELSE {<<"upstream_connectivity", "claims">>}

Violations == StaleOpen \cup ConcludedUnminted \cup AssertedWithoutClaim \cup ClaimsResolve \cup Connectivity

\* REMEDY_TOOLS.
Remedies ==
  [c \in {"stale_open_investigations", "concluded_unminted", "asserted_without_claim",
          "minted_claims_resolve", "upstream_connectivity"} |->
     IF c = "stale_open_investigations" THEN {"conclude", "abandon"} ELSE {}]

-----------------------------------------------------------------------------
At(c, step) == call[c].step = step
Return(c) == call' = [call EXCEPT ![c] = Idle]

\* A tool passes the gate and is on its way.
Begin(c, tool, i, record) ==
  /\ call[c] = Idle
  /\ ~Refused(tool, Remedies, Violations)
  /\ call' = [call EXCEPT ![c] = record]
  /\ unsure' = IF \E o \in Callers : call[o].of = {i} THEN unsure \cup {i} ELSE unsure
  /\ UNCHANGED <<rows, gate>>

OpenInvestigation(c, i) ==
  /\ call[c] = Idle /\ ~Refused("open", Remedies, Violations)
  /\ inv[i] = Absent
  /\ inv' = [inv EXCEPT ![i].status = "open"]
  /\ UNCHANGED <<finding, memory, claimsUp, outages, call, unsure, gate>>

PullBegin(c, i) == IsOpen(i) /\ Begin(c, "pull", i, [Idle EXCEPT !.step = "pull", !.of = {i}])

\* The evidence_ref is activity.
Pull(c) ==
  /\ At(c, "pull")
  /\ inv' = [i \in Investigations |-> IF {i} = call[c].of THEN [inv[i] EXCEPT !.stale = FALSE] ELSE inv[i]]
  /\ Return(c)
  /\ UNCHANGED <<finding, memory, claimsUp, outages, unsure, gate>>

\* mutant: the investigation is not looked at
RecordBeginAnyTime(c, i, f) ==
  /\ finding[f] = NoFinding /\ \A o \in Callers : call[o].item # {f}
  /\ Begin(c, "record", i, [Idle EXCEPT !.step = "record", !.of = {i}, !.item = {f}])

RecordBegin(c, i, f) ==
  /\ IsOpen(i)
  /\ finding[f] = NoFinding /\ \A o \in Callers : call[o].item # {f}
  /\ Begin(c, "record", i, [Idle EXCEPT !.step = "record", !.of = {i}, !.item = {f}])

Record(c) ==
  /\ At(c, "record")
  /\ finding' = [f \in Findings |-> IF {f} = call[c].item
                                   THEN [of |-> call[c].of, status |-> "provisional", claim |-> FALSE]
                                   ELSE finding[f]]
  /\ Return(c)
  /\ UNCHANGED <<inv, memory, claimsUp, outages, unsure, gate>>

\* drop_finding looks at the finding, not at the investigation.
DropBegin(c, i, f) ==
  /\ f \in LiveOnes(i)
  /\ Begin(c, "drop", i, [Idle EXCEPT !.step = "drop", !.of = {i}, !.item = {f}])

Drop(c) ==
  /\ At(c, "drop")
  /\ finding' = [f \in Findings |-> IF {f} = call[c].item THEN [finding[f] EXCEPT !.status = "dropped"]
                                   ELSE finding[f]]
  /\ Return(c)
  /\ UNCHANGED <<inv, memory, claimsUp, outages, unsure, gate>>

AbandonBegin(c, i) == IsOpen(i) /\ Begin(c, "abandon", i, [Idle EXCEPT !.step = "abandon", !.of = {i}])

Abandon(c) ==
  /\ At(c, "abandon")
  /\ inv' = [i \in Investigations |-> IF {i} = call[c].of THEN [inv[i] EXCEPT !.status = "abandoned", !.stale = FALSE] ELSE inv[i]]
  /\ Return(c)
  /\ UNCHANGED <<finding, memory, claimsUp, outages, unsure, gate>>

-----------------------------------------------------------------------------
(***************************************************************************)
(* conclude_investigation: the live findings are minted one by one, a      *)
(* failure ends the minting, and the conclusion is written in any case.    *)
(***************************************************************************)
MayConclude(i, verdict) == verdict = "findings" => LiveOnes(i) # {}

ConcludeBegin(c, i, verdict) ==
  /\ IsOpen(i) /\ MayConclude(i, verdict)
  /\ Begin(c, "conclude", i,
       [step |-> IF verdict = "findings" THEN "mint" ELSE "finish",
        of |-> {i}, item |-> {}, todo |-> IF verdict = "findings" THEN LiveOnes(i) ELSE {},
        verdict |-> verdict])

\* The claims server finds a claim of the same content, or mints one.
Mint(c, f) ==
  /\ At(c, "mint") /\ f \in call[c].todo /\ claimsUp
  /\ memory' = memory \cup {f}
  /\ call' = [call EXCEPT ![c].step = "claim", ![c].item = {f}]
  /\ UNCHANGED <<inv, finding, claimsUp, outages, unsure, gate>>

\* The channel is down, or fails before or after the claim was minted.
MintFails(c, f) ==
  /\ At(c, "mint") /\ f \in call[c].todo
  /\ memory' \in {memory, memory \cup {f}}
  /\ memory' # memory => claimsUp
  /\ call' = [call EXCEPT ![c].step = "finish", ![c].todo = {}]
  /\ unsure' = unsure \cup call[c].of
  /\ UNCHANGED <<inv, finding, claimsUp, outages, gate>>

\* mutant: the status is written before the claim
SetClaimLast(c) ==
  /\ At(c, "claim")
  /\ finding' = [f \in Findings |-> IF {f} = call[c].item THEN [finding[f] EXCEPT !.status = "asserted"]
                                   ELSE finding[f]]
  /\ call' = [call EXCEPT ![c].step = "assert"]
  /\ UNCHANGED <<inv, memory, claimsUp, outages, unsure, gate>>

SetClaim(c) ==
  /\ At(c, "claim")
  /\ finding' = [f \in Findings |-> IF {f} = call[c].item THEN [finding[f] EXCEPT !.claim = TRUE] ELSE finding[f]]
  /\ call' = [call EXCEPT ![c].step = "assert"]
  /\ UNCHANGED <<inv, memory, claimsUp, outages, unsure, gate>>

SetAsserted(c) ==
  /\ At(c, "assert")
  /\ finding' = [f \in Findings |-> IF {f} = call[c].item THEN [finding[f] EXCEPT !.status = "asserted"]
                                   ELSE finding[f]]
  /\ call' = [call EXCEPT ![c].step = IF call[c].todo = call[c].item THEN "finish" ELSE "mint",
                          ![c].todo = @ \ call[c].item, ![c].item = {}]
  /\ UNCHANGED <<inv, memory, claimsUp, outages, unsure, gate>>

Conclude(c) ==
  /\ At(c, "finish")
  /\ inv' = [i \in Investigations |-> IF {i} = call[c].of
               THEN [status |-> "concluded", verdict |-> call[c].verdict, stale |-> FALSE] ELSE inv[i]]
  /\ Return(c)
  /\ UNCHANGED <<finding, memory, claimsUp, outages, unsure, gate>>

-----------------------------------------------------------------------------
\* An open investigation has had no pull for too long.  (The age of a closed one is not followed.)
Lapse(i) ==
  /\ IsOpen(i) /\ ~inv[i].stale
  /\ inv' = [inv EXCEPT ![i].stale = TRUE]
  /\ UNCHANGED <<finding, memory, claimsUp, outages, call, unsure, gate>>

Channel ==
  /\ claimsUp => outages < MaxOutages
  /\ claimsUp' = ~claimsUp /\ outages' = IF claimsUp THEN outages + 1 ELSE outages
  /\ UNCHANGED <<inv, finding, memory, call, unsure, gate>>

\* The process dies and comes up again.
Crash ==
  /\ \E c \in Callers : call[c] # Idle
  /\ call' = [c \in Callers |-> Idle]
  /\ unsure' = unsure \cup UNION {call[c].of : c \in {c \in Callers : call[c].step \in {"mint", "claim", "assert", "finish"}}}
  /\ GateRestart(Violations)
  /\ UNCHANGED rows

Sweep(m) ==
  /\ SweepRead(m, Violations) \/ SweepLogged(m)
  /\ UNCHANGED <<rows, call, unsure>>

Ack ==
  /\ \E v \in Open(Violations) : Acknowledge(v, Violations)
  /\ UNCHANGED <<rows, call, unsure>>

-----------------------------------------------------------------------------
Init ==
  /\ inv = [i \in Investigations |-> Absent]
  /\ finding = [f \in Findings |-> NoFinding]
  /\ memory = {} /\ claimsUp = TRUE /\ outages = 0
  /\ call = [c \in Callers |-> Idle] /\ unsure = {}
  /\ GateInit

Step ==
  \/ \E c \in Callers :
       \/ \E i \in Investigations :
            \/ OpenInvestigation(c, i) \/ PullBegin(c, i) \/ AbandonBegin(c, i)
            \/ \E f \in Findings : RecordBegin(c, i, f) \/ DropBegin(c, i, f)
            \/ \E verdict \in {"findings", "null_result"} : ConcludeBegin(c, i, verdict)
       \/ \E f \in Findings : Mint(c, f) \/ MintFails(c, f)
       \/ Pull(c) \/ Record(c) \/ Drop(c) \/ Abandon(c)
       \/ SetClaim(c) \/ SetAsserted(c) \/ Conclude(c)
  \/ \E i \in Investigations : Lapse(i)
  \/ \E m \in Sweepers : Sweep(m)
  \/ Channel \/ Crash \/ Ack

Next == Step /\ Witness(Violations')

Spec == Init /\ [][Next]_vars

-----------------------------------------------------------------------------
\* The rows are of their types, and a finding is of an investigation that
\* was opened.
TypeOK ==
  /\ \A i \in Investigations : inv[i].status \in {"none", "open", "concluded", "abandoned"}
  /\ \A f \in Findings :
       /\ finding[f].status \in {"none", "provisional", "dropped", "asserted"}
       /\ \A i \in finding[f].of : inv[i] # Absent
  /\ memory \subseteq Findings

\* An asserted finding has its claim, and the claims server has it too, at
\* every point where the process may die and whatever is dropped, abandoned
\* or concluded meanwhile.
AssertedHasClaim == AssertedWithoutClaim = {} /\ ClaimsResolve = {}

\* An investigation that no two calls met on, and whose conclusion was not
\* cut short, has distilled its findings: the claims server has exactly the
\* asserted ones, none of a conclusion without findings, and a conclusion
\* with findings leaves none behind.
DistilledWhenAlone ==
  \A i \in Investigations \ unsure :
    LET asserted == {f \in FindingsOf(i) : finding[f].status = "asserted"}
    IN  (\A c \in Callers : call[c].of # {i}) =>
          /\ FindingsOf(i) \cap memory = asserted
          /\ asserted # {} => inv[i].status = "concluded" /\ inv[i].verdict = "findings"
          /\ inv[i].verdict = "findings" => LiveOnes(i) = {}

\* A violation that the checks have logged gates the writes as long as it
\* holds and nobody acknowledges it.
LoggedDebtGates == DebtIsSeen(Violations)
===============================================================================
