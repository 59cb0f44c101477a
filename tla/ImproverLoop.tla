------------------------------ MODULE ImproverLoop ------------------------------
(***************************************************************************)
(* Arete's loop as the one who drives it meets it: the status recommends,  *)
(* the gates refuse, the tools change the registry, the monitor audits it. *)
(*                                                                         *)
(* A handler's checks and writes are one step (what overlapping handlers   *)
(* do to a tournament and to the champion is Tournament's and Champion's   *)
(* subject); what is interleaved are the steps of the wrapper around it,   *)
(* the reads of the status, and the passing of time.                       *)
(***************************************************************************)
EXTENDS Consultation

CONSTANTS Improvers, ParentOf,    \* the lineage; Nothing: it is a genesis
          Proposals, Touched,     \* numbers, and the classes of what they touch
          ProposalOf,             \* of an improver: what it implements
          Contracts, PolicyOf,    \* the designs that are submitted
          Tournaments,            \* numbers, in the order they are opened
          CandidateOf,            \* of a tournament
          Channels                \* those evidence is pulled through

POWER_POLICY_KEYS == {"sesoi_d", "target_power", "min_evidence_rung"}
BothArms == {"parent", "candidate"}

ImproverLoopAssumption ==
  /\ Nothing \notin Improvers \cup Contracts \cup Channels
  /\ ParentOf \in [Improvers -> Improvers \cup {Nothing}]
  /\ ProposalOf \in [Improvers -> Proposals \cup {Nothing}]
  /\ Proposals \subseteq Nat /\ Tournaments \subseteq Nat
  /\ PolicyOf \in [Contracts -> [POWER_POLICY_KEYS -> {"absent", "sound", "unsound"}]]
  /\ CandidateOf \in [Tournaments -> {i \in Improvers : ParentOf[i] # Nothing}]

VARIABLES
  improvers,   \* improver_versions
  contracts,   \* meta_contracts
  proposal,    \* meta_change_proposals: their status
  tournament,  \* tournaments: status, arms with a result, recent stamps
  evidence,    \* tournaments with an evidence_ref
  decided,     \* tournaments a meta_decision cites
  down,        \* channels that are down
  log          \* that of WriteGate

registry == <<improvers, contracts, proposal, tournament, evidence, decided>>
world == <<down, log>>
vars == <<consulting, registry, world>>

\* (Nothing is acknowledged here.)
Gate == INSTANCE WriteGate WITH
          acks <- {}, MaxAcks <- 0, Sweepers <- {}, Live <- "upstream_connectivity",
          sweep <- <<>>, seen <- <<>>, known <- {}, crossed <- FALSE

NoTournament == [status |-> "none", arms |-> {}, recent |-> {}]
Is(t, status) == tournament[t].status = status
Newest(S) == CHOOSE n \in S : \A m \in S : m <= n

-----------------------------------------------------------------------------
(***************************************************************************)
(* The audit.  (Checks of what a single step cannot break are in Champion, *)
(* Tournament and ArmCampaigns.)                                           *)
(***************************************************************************)
\* The last result counts; without one the last evidence, without either the
\* opening.
Stale(t) ==
  LET last == IF tournament[t].arms # {} THEN "result"
              ELSE IF t \in evidence THEN "evidence" ELSE "created"
  IN  last \notin tournament[t].recent

stale_open_tournaments == {t \in Tournaments : Is(t, "open") /\ Stale(t)}

\* undecided_tournaments, and the check of the same name.
decision_debt == {t \in Tournaments : Is(t, "closed") /\ t \notin decided}

\* run_checks.
Now ==
  ({"stale_open_tournaments"} \X stale_open_tournaments)
    \cup ({"decision_debt"} \X decision_debt)
    \cup ({"upstream_connectivity"} \X down)

-----------------------------------------------------------------------------
(***************************************************************************)
(* The gates.                                                              *)
(***************************************************************************)
ALWAYS_EXEMPT == {"check_invariants", "acknowledge_violation", "record_meta_decision"}

RemediesForget ==  \* mutant: what pays a debt cannot be prepared while it is owed
  [ stale_open_tournaments |->
      {"close_tournament", "void_tournament", "record_tournament_result", "pull_evidence"},
    decision_debt |-> {"record_meta_decision"},
    upstream_connectivity |-> {} ]
REMEDY_TOOLS ==
  [ stale_open_tournaments |->
      {"close_tournament", "void_tournament", "record_tournament_result", "pull_evidence"},
    decision_debt |-> {"record_meta_decision", "pull_evidence"},
    upstream_connectivity |-> {} ]

\* Those that mint what a decision must cite.
DEBT_DISCHARGE_TOOLS == {"pull_evidence"}

\* check_no_decision_debt.
Owing(tool) == tool \notin DEBT_DISCHARGE_TOOLS /\ decision_debt # {}

Refused(tool) == Gate!Refused(tool, REMEDY_TOOLS, Now) \/ Owing(tool)
Passes(tool) == Free(tool, ALWAYS_EXEMPT) \/ ~Refused(tool)

-----------------------------------------------------------------------------
(***************************************************************************)
(* The status digest.                                                      *)
(***************************************************************************)
Paired(t) == tournament[t].arms = BothArms

\* _collect_open_work.
Ready == {t \in Tournaments : Is(t, "open") /\ Paired(t)}
Waiting == {t \in Tournaments : Is(t, "open") /\ ~Paired(t)}
Proposed(status) == {p \in Proposals : proposal[p] = status}

\* _recommend, its first entry.
Top ==
  IF Ready # {} THEN <<"close_tournament", Newest(Ready)>>
  ELSE IF Waiting # {} THEN <<"record_tournament_result", Newest(Waiting)>>
  ELSE IF Proposed("conditional") # {}
       THEN <<"record_meta_decision", Newest(Proposed("conditional"))>>
  ELSE IF Proposed("admitted") # {} THEN <<"open_tournament", Newest(Proposed("admitted"))>>
  ELSE IF improvers = {} THEN <<"register_improver", 0>>
  ELSE <<"propose_meta_change", 0>>

-----------------------------------------------------------------------------
(***************************************************************************)
(* The handlers: what each does, or why it refuses.                        *)
(***************************************************************************)
Keep(rows) == UNCHANGED rows

Register(i) ==
  /\ i \notin improvers
  /\ ParentOf[i] \in improvers \cup {Nothing}
  /\ ProposalOf[i] # Nothing => proposal[ProposalOf[i]] \in {"admitted", "conditional"}
  /\ improvers' = improvers \cup {i}
  /\ Keep(<<contracts, proposal, tournament, evidence, decided>>)

\* check_promotion_policy_power.
Powered(policy) == \A k \in POWER_POLICY_KEYS : policy[k] = "sound"

InsertContract(d) == contracts' = contracts \cup {d}

\* create_meta_contract.  The same design again is the same contract.
Contract(d) ==
  /\ Powered(PolicyOf[d])
  /\ InsertContract(d)
  /\ Keep(<<improvers, proposal, tournament, evidence, decided>>)

\* admission_verdict.
Admission(classes) ==
  IF "immutable" \in classes THEN "rejected"
  ELSE IF classes \cap {"conditional", "unknown"} # {} THEN "conditional"
  ELSE "admitted"

InsertProposal(p, status) == proposal' = [proposal EXCEPT ![p] = status]

Propose(p) ==
  /\ improvers # {} /\ proposal[p] = "none"
  /\ InsertProposal(p, Admission(Touched[p]))
  /\ Keep(<<improvers, contracts, tournament, evidence, decided>>)

InsertTournament(t) ==
  tournament' = [tournament EXCEPT ![t] = [status |-> "open", arms |-> {}, recent |-> {"created"}]]

Open(t) ==
  /\ \A u \in Tournaments : (u < t) = ~Is(u, "none")
  /\ contracts # {} /\ {CandidateOf[t], ParentOf[CandidateOf[t]]} \subseteq improvers
  /\ InsertTournament(t)
  /\ Keep(<<improvers, contracts, proposal, evidence, decided>>)

Record(t, arm) ==
  /\ Is(t, "open")
  /\ tournament' = [tournament EXCEPT ![t].arms = @ \cup {arm}, ![t].recent = @ \cup {"result"}]
  /\ Keep(<<improvers, contracts, proposal, evidence, decided>>)

Close(t) ==
  /\ t \in Ready
  /\ tournament' = [tournament EXCEPT ![t].status = "closed", ![t].recent = {}]
  /\ Keep(<<improvers, contracts, proposal, evidence, decided>>)

Void(t) ==
  /\ t \in Waiting
  /\ tournament' = [tournament EXCEPT ![t].status = "voided", ![t].recent = {}]
  /\ Keep(<<improvers, contracts, proposal, evidence, decided>>)

\* pull_evidence, through one of the channels that are up.
Pull(t) ==
  /\ ~Is(t, "none") /\ down # Channels
  /\ evidence' = evidence \cup {t}
  /\ tournament' = [tournament EXCEPT ![t].recent = IF Is(t, "open") THEN @ \cup {"evidence"} ELSE @]
  /\ Keep(<<improvers, contracts, proposal, decided>>)

\* check_decision_evidence: it cites what was pulled for this comparison.
Decide(t) ==
  /\ t \in evidence /\ tournament[t].status \in {"open", "closed"}
  /\ decided' = decided \cup {t}
  /\ Keep(<<improvers, contracts, proposal, tournament, evidence>>)

Tools ==
  ({"register_improver"} \X Improvers) \cup ({"create_meta_contract"} \X Contracts)
    \cup ({"propose_meta_change"} \X Proposals)
    \cup ({"open_tournament", "close_tournament", "void_tournament", "pull_evidence",
           "record_meta_decision"} \X Tournaments)
    \cup ({"record_tournament_result"} \X (Tournaments \X BothArms))

Effect(tool, x) ==
  \/ tool = "register_improver" /\ Register(x)
  \/ tool = "create_meta_contract" /\ Contract(x)
  \/ tool = "propose_meta_change" /\ Propose(x)
  \/ tool = "open_tournament" /\ Open(x)
  \/ tool = "record_tournament_result" /\ Record(x[1], x[2])
  \/ tool = "close_tournament" /\ Close(x)
  \/ tool = "void_tournament" /\ Void(x)
  \/ tool = "pull_evidence" /\ Pull(x)
  \/ tool = "record_meta_decision" /\ Decide(x)

-----------------------------------------------------------------------------
(***************************************************************************)
(* Steps.                                                                  *)
(***************************************************************************)
Begin(c) ==
  /\ \E use \in Tools : CallBegin(c, use[1], use[2], ALWAYS_EXEMPT, Refused(use[1]))
  /\ UNCHANGED <<registry, world>>

Handle(c) ==
  /\ Working(c)
  /\ Effect(call[c].tool, call[c].on)
  /\ Handled(c, ALWAYS_EXEMPT, Top, Top')
  /\ UNCHANGED world

Refuse(c) == HandlerRefuses(c) /\ UNCHANGED <<registry, world>>
Expire(c) == Overrun(c) /\ UNCHANGED <<registry, world>>
Answer(c) == Note(c, ALWAYS_EXEMPT) /\ UNCHANGED <<registry, world>>

StatusRead(r) == Collect(r, Top) /\ UNCHANGED <<registry, world>>
StatusMarked(r) == Mark(r) /\ UNCHANGED <<registry, world>>
Lapses == Lapse /\ UNCHANGED <<registry, world>>

\* Nothing happens to a tournament for so long that it counts as stale.
Elapse(t) ==
  /\ Is(t, "open") /\ tournament[t].recent # {}
  /\ tournament' = [tournament EXCEPT ![t].recent = {}]
  /\ Keep(<<improvers, contracts, proposal, evidence, decided>>)
  /\ Unnoted(Top, Top')
  /\ UNCHANGED world

Channel(x) ==
  /\ down' = IF x \in down THEN down \ {x} ELSE down \cup {x}
  /\ UNCHANGED <<consulting, registry, log>>

\* A sweep: of the monitor, of check_invariants.  (That a sweep is logged
\* later than it reads is WriteGate's subject.)
Sweep ==
  /\ Now # log
  /\ log' = Now
  /\ UNCHANGED <<consulting, registry, down>>

\* The process dies and starts: it forgets what was read, and sweeps.
Restart ==
  /\ Forget
  /\ UNCHANGED <<registry, down>>
  /\ log' = Now

Init ==
  /\ ConsultationInit
  /\ improvers = {} /\ contracts = {}
  /\ proposal = [p \in Proposals |-> "none"]
  /\ tournament = [t \in Tournaments |-> NoTournament]
  /\ evidence = {} /\ decided = {}
  /\ down = {} /\ log = {}

Next ==
  \/ \E c \in Callers : Begin(c) \/ Handle(c) \/ Refuse(c) \/ Expire(c) \/ Answer(c)
  \/ \E r \in Readers : StatusRead(r) \/ StatusMarked(r)
  \/ Lapses
  \/ \E t \in Tournaments : Elapse(t)
  \/ \E x \in Channels : Channel(x)
  \/ Sweep \/ Restart

Spec == Init /\ [][Next]_vars

-----------------------------------------------------------------------------
\* The hint that rides on a result is what the status would recommend now,
\* however calls, reads and deadlines overlap: unless a tool that is not
\* noted (a decision is exempt), one that outlived its deadline, or the clock
\* has changed the first recommendation, or a change fell into the read.
HintIsCurrent == Hint = Nothing \/ Hint = Top \/ excused \/ InFlight

\* "A gate must never strand its own remedy": a comparison that lacks a
\* decision can be given the evidence the decision must cite, unless a channel
\* is down; and one that is stale can be revived or ended, unless a decision is
\* owed.
DebtsLeaveAnExit ==
  /\ \A t \in decision_debt :
       \/ t \in evidence \/ Passes("pull_evidence")
       \/ \E v \in Gate!Open(Now) : v[1] = "upstream_connectivity"
  /\ \A t \in stale_open_tournaments :
       \/ <<"stale_open_tournaments", t>> \notin Gate!Open(Now)
       \/ decision_debt # {}
       \/ /\ Passes(IF Paired(t) THEN "close_tournament" ELSE "void_tournament")
          /\ Passes("record_tournament_result")

===============================================================================
