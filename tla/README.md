# Formal models of ml-scientist

TLA+ models of the servers under `ml-scientist/src`, model-checked with TLC
and, for eight of the modules, proved with TLAPS. Paths below are relative to
`ml-scientist/src/`.

Sections: 1 inventory, 2 modules, 3 runs, 4 proofs, 5 what only TLC checks,
6 where the code departs from what it says, 7 what is not modelled, 8 plan.

## 1. Inventory

The repository holds five MCP servers of one design (a SQLite store, tools that
check their commitments and then write, integrity checks that look for what
should never be there, a gate that refuses writes while those checks have a
finding) and the scripts that deploy them.

| component | state it keeps | what is hard |
|---|---|---|
| episteme, trial execution (`ml_episteme_mcp/tools/trial.py`, `clients/local_executor.py`) | the trial row; in memory the executor's tasks, results and tombstones, a poller per detached run | handlers interleave at every `await`; four of them finish the same row; results outlive the label; the process dies |
| episteme, research loop (`tools/programme.py`, `hypothesis.py`, `observation.py`, `belief.py`) | programmes, hypotheses, trials, observations, beliefs, conclusions | worker threads check a snapshot and write later; one act is several commits |
| episteme, commitments and gate (`enforcement/`, `integrity/`, `tools/integrity.py`) | the last integrity run, acknowledgments | a gate that nothing can open again; a finding that goes stale |
| episteme, sealed code (`sealed_paths.py`, `tools/trial.py`, `clients/local_data_handler.py`, the sandbox) | snippets, bundles, overlays, manifests | files are edited between the capture, the staging, the run and the record |
| episteme, archive and artifacts (`archive.py`, `tools/archive.py`, `state/store.py`) | a second database, a registry, blobs | a death between two commits in two databases and a file system |
| episteme, startup (`__main__.py`) and every store's migrations | none of their own | they repair what a death left half done, and may die themselves |
| zetesis, campaigns and promotion (`ml_zetesis_mcp/tools/promotion.py`) | roster, campaigns, spawns, results | every verdict and spawn is a call to episteme that may be answered late or never |
| zetesis, investigations (`tools/investigation.py`) | investigations, findings | a conclusion mints claims at anamnesis one by one |
| arete, champion and tournaments (`ml_arete_mcp/tools/`) | improvers, decisions, policies, tournaments, links | one connection for all handlers, so one handler commits or rolls back another's transaction |
| arete, loop and channel (`enforcement/recurrence.py`, `clients/`) | the recurrence tracker; a session, its queue and its supervisor | a call answered with another call's result; a hint older than what it speaks of |
| anamnesis, claims (`ml_anamnesis_mcp`) | claims and edges | the same shared connection; a look-up of the content before the insert |
| agora, pages (`ml_agora_mcp`) | connections to the others | reconnecting |
| deployment (`ml-labloop`) | containers | not program logic |

How they interact: a server's tools call its store and, through adaptors, the
other servers (MCP calls that may time out and be carried out all the same).
Tools declared with `def` run in worker threads, tools declared with `async def`
on the event loop. Episteme's store takes a lock for each statement; the three
other stores share one connection between all threads without a lock. Inside
episteme the trial tools also share the executor's dictionaries, which no lock
guards: they are safe only because asyncio runs one handler at a time between
two awaits.

What makes each part correct, in one line each: a trial's label agrees with its
record and with what the executor is doing, and changes only once or on the
record; a verdict rests on what was observed; a closed programme stays as it was
closed; what runs is what was sealed, and what was not is flagged; an archive
holds all of a programme or the live database does; the roster says what
episteme decided; a result is credited to the arm that earned it; one improver
holds the pointer, and a policy rests on a decision somebody was entitled to;
claims replace each other in finite chains; a gate leaves its own remedy open.

## 2. The modules

| module | what it is |
|---|---|
| `ExecutorRecord` | the JSON object in `executor_output_json`, reduced to the keys the code branches on; the store's gate for `completed` and the finalizer's verdict as predicates over it |
| `TrialRow` | the abstract specification: what a trial's row promises whoever writes it |
| `TrialLifecycle` | the detailed one: row, executor, handlers, poller, crash, reaper |
| `ProgrammeLifecycle` | the research loop around a trial, and the handlers that check and then write |
| `WriteGate` | the gate, the sweeps and the acknowledgments, for any server's checks |
| `GatedProgramme` | `ProgrammeLifecycle` composed with `WriteGate`, with the checks of programmes and the wall time |
| `SealedRun` | capture, seal, overlay, run, manifest, and the checks that compare them |
| `Artifacts` | the files a run leaves, and the two captures of them |
| `Archive` | the archiver, its registry and its repair |
| `Migration` | the upgrade of a database at start, statement by statement |
| `Lineage` | episteme's record of verdicts on researchers, and the incumbent it names |
| `Promotion` | zetesis' roster and verdicts over `Lineage` |
| `Campaign` | the life of a promotion campaign, and the audits of it |
| `Investigation` | investigations under `WriteGate` |
| `Connection` | one sqlite connection shared by all threads: what a commit or rollback of one does to the others |
| `Memory` | the claim graph of anamnesis over `Connection` |
| `Champion` | the champion pointer and the policies of arete over `Connection` |
| `Tournament` | the life of a tournament of arete |
| `Channel` | a client's session to another server: queue, task, supervisor |
| `ArmCampaigns` | arete opens campaigns for the arms of a tournament over `Channel` |
| `Consultation` | the duty to read the status, and the hint on results |
| `ImproverLoop` | arete as its driver meets it, over `Consultation` and `WriteGate` |
| `MC...` | instances for TLC; some put unrelated models side by side (section 3) |
| `..._proofs` | theorems and proofs, one module per component (section 4) |

`TrialLifecycle` and `ProgrammeLifecycle` cut the server at the trial: the first
takes the bundle and the programme as given and follows one row through the
executor; the second takes the run as given (`TrialEnd`: a running trial ends
`completed` or `failed`) and follows the rows around it. What the second
assumes of a trial (it starts once, ends once, and only a correction changes an
ended label) is what `TrialRow` promises and `TrialLifecycle` is proved to keep.

### 2.1 ExecutorRecord

A record is the set of keys the code looks at (`provenance`, `error`,
`timed_out`, `metrics`, ...), one flag each. `RunResults` are the ones
`execute_code_async` can leave, `CancelReceipt`, `AlreadyFinished` and
`Interrupted` the ones `cancel_async` and the reaper write. `EvidencesCompletion`
is the gate in `Store.update_trial_status`, `FinalizeVerdict` the branch in
`_finalize_trial`; that the two agree is a lemma (`VerdictIsAccepted`), not an
assumption.

### 2.2 TrialLifecycle

| state | code |
|---|---|
| `status`, `output`, `trail` | `trials.status`, `executor_output_json`, and the `corrections` list inside it |
| `task`, `registered`, `result`, `tombstones` | the asyncio task of a run, `LocalExecutor._running_tasks`, `_completed_results`, `_cancelled_ids` |
| `poller` | the `_auto_finalize` tasks |
| `call`, `reply` | where each request's handler is suspended, and how its last cancel was answered |
| `boot`, `noting` | a start that has not yet served, and the row its reaper has failed but not annotated |
| `applied`, `spawned`, `crashes` | history and bounds |

The handlers are asyncio coroutines of one event loop, so what lies between two
awaits is one action, and a handler goes on after an await with what it read
before it. `RunBegin` is `run_trial` up to the staging of data (an await when
the data source is the MCP adaptor, `config.py:232-233`); `RunUnresolved`,
`RunUnstaged`, `RunLapsed`, `RunDispatch` are the ways on from it;
`RunDetach` is the submit window's end, `RunConclude` a run that ended inside
it. `CancelNow`/`CancelKill`/`CancelSettle` and `RetryNow`/`RetryKill`/
`RetrySettle` are `cancel_trial` and `mark_retryable` around the one await in
`cancel_async`, whose poll for the task's death is the guard of the last step.
`correct_trial_status` runs in a worker thread, but it is a single store call
under the lock, hence one action. `Crash` forgets the maps and the handlers;
`CrashInFinalize` dies between the two commits of a finalization, and `ReapFail`,
`ReapNote`, `Serve` are the next start.

What is abstracted or left out:

- Processes die with the server (`--die-with-parent`), so no run outlives it.
- The server runs on Python 3.12 (`Containerfile`s), where `wait_for` lets a
  cancellation through; a timeout that races a kill can make `run_trial` see a
  just-killed task as running, and `RunDetach` allows it.
- A failed write to the database (`trial.py:530-539`) and a death after
  `cancel_trial`'s label and before its receipt (a labelled row with an older
  record, nothing else) are not modelled.
- `SetOutput` always replaces the record, where the code skips an equal one; an
  equal one has no corrections to lose.
- Artifact capture, the sandbox and traces write nothing these properties read.
- The reaper's configured label is its default, `failed`.

### 2.3 ProgrammeLifecycle

| state | code |
|---|---|
| `programme`, `goal` | `programmes.status`, `goal` up to the 80 characters that are compared |
| `hypothesis`, `programmeOf` | `hypotheses.status`, `programme_id` |
| `trial`, `hypothesisOf`, `bundles` | `trials.status` (`failed` stands for `retryable`, too), `hypothesis_id`, how many bundles were linked to it |
| `observed`, `believed`, `conclusions` | the rows of `observations`, `beliefs`, `conclusions` |
| `call` | each request's handler: its next step, what it is about, the verdict or closing status asked for, and for a close what it has listed and has still to sweep |
| `covered` | history: what the call that closed a programme had listed |

Tools declared with `def` (`formulate_hypothesis`, `abandon_hypothesis`,
`design_experiment`, `capture_bundle`, `close_programme`) run in worker threads
of the MCP SDK, and the repository itself describes clients that call them in
parallel (`tests/test_20260914-0450Z--state_transitions.py:274-281`). The store
locks each statement, not each tool: every read a handler decides on and every
commit is an action, and anything may come in between. Tools declared with
`async def` (`create_programme`, `run_trial`, `record_observation`,
`update_belief`, `conclude_hypothesis`, `cancel_trial`) run on the event loop:
a thread may still come between two of their statements, another coroutine only
at an await. `LoopSteps` lists the steps such a handler is at without having
awaited, and `LoopFree` keeps the other coroutines out.

A transition is validated again under the store's lock (`AbandonWrite`,
`DesignPromote`, `RunStart`, `ConcludeLabel`, `CloseSweep...`, `CloseCommit`);
where the row has moved on, the call answers with an error and what it had
written stays. A call whose first check refuses it changes nothing and is not a
step. The wall-time budget is a refusal that may come once a trial has
completed. `Crash` and the reaping start are one step, since here only the label
of the running trials matters.

Left out: `update_metric_direction`; the claim that `conclude_hypothesis` asks
another server to mint after it has written; requests that name rows of two
programmes (refused); the inside of an archive copy (`CloseArchive` either marks
the programme archived or fails and leaves it).

### 2.4 GatedProgramme and WriteGate

A sweep reads the rows (`SweepRead`) and its findings are logged some awaits
later; the gate reads the run logged last, so that a finding that was repaired
gates until the next sweep and one that has just arisen does not gate yet. The
findings are sets of (check, row), computed by the operators named after the
checks in `integrity/checks.py`. A handler passes if no logged finding is open
(neither acknowledged nor on a channel, where the code looks again), or if it is
a remedy of every open one. `wall` is the time a trial has used, `aged` the
trials whose observation grace is over.

### 2.5 SealedRun and Artifacts

A text stands for its hash, so that two files with one text are one snippet,
which keeps the path it was captured under first (`snippets`). `job[t]` holds a
trial's way from the capture (`Hash`, `Parse`: a static reading of the imports,
which may find another file than Python does) over the staging of overlays,
the launch with its denies and the reads of the run to the manifest. `Edit`
changes, deletes or restores a file of the host at any step. The environment
that the analysis cannot see (what a text opens, which path Python loads) is
given by constants; declared data are files that are not code.
`Artifacts` has the finalizer's capture and the tool's as two processes over one
directory, file by file.

### 2.6 Archive and Migration

In `Archive` each statement is an action: choose the open file, copy, verify,
mark, enter, count, seal, the repairs of a start; the databases and the file are
separate variables that a death leaves as they are. The registry and each
archive's entries are sequences in the order of their rows; the oldest open
archive (`OldestOpen`) is the first that is not sealed. `Migration` does the same for
the statements of `connect`: those of an `executescript` commit one by one, the
others gather in the transaction of `Connection`.

### 2.7 Lineage, Promotion, Campaign, Investigation

`Lineage` has the two tables of episteme that only grow. `Standing` and
`Incumbent` say of the table of verdicts what `get_incumbent` finds in its scan
from the newest; `MCPromotion` assumes, and TLC evaluates, that the scan as it is
written finds the same in all short tables. In `Promotion` a refresh reads the
incumbent, reconciles, and then reads and writes candidate by candidate
(`Reading` is what the trail of one candidate says); a verdict is pushed to
episteme and then written down here, and may reach episteme after its caller has
given up (`LateVerdict`). `Campaign` has the handlers that open, spawn for,
report to, pull for, close, abandon and decide a campaign, `lost` counting the
answers that never come. `Investigation` pulls, records, drops, mints and
concludes, behind its server's gate. Each of them reads, awaits and writes
without looking again, in as many actions.

### 2.8 Connection, Memory, Champion, Tournament

`Connection` has what a reader of the shared connection sees (`db`), what is
safe (`disk`) and whether a transaction is open. Whoever commits, commits for
everybody; a rollback or a death takes away what nobody has committed; an
explicit BEGIN is refused while a transaction is open. `Memory` (assert_claim,
relate) and `Champion` (register, decide, promote, roll back) are written over
it, one statement an action. `mixed` and `clash` are history variables: they
mark the claims whose transaction, and the moves of the pointer, that others ran
into, and the properties say what holds of the rest. `Tournament` marks with
`ran` the tournaments on which calls overlapped.

### 2.9 Channel, ArmCampaigns, Consultation, ImproverLoop

`Channel` is the client object (queue, ready and error futures, background
task), its supervisor (ping, drop, reconnect) and the peer; the copies in the
loop servers and in agora differ in what they do with a ping that fails, which
`server` selects. `ArmCampaigns` sends its calls over it. `Consultation` is the
wrapper around a tool (gates, handler under a deadline, note of the change, hint
on the result); `ImproverLoop` is arete's registry as its status, its gates and
its monitor see it.

## 3. The runs

Twelve runs, ten that pass. Subsystems that have nothing to say to each other
share a run where noted: a variable chosen at the start says which one the
behaviour is of, and the other stays at its initial state.

| run | instance | what it shows |
|---|---|---|
| `trial` | 1 trial, 4 requests, tombstone cap 1, 2 corrections, 1 crash, with fairness | the audits report every running row that nobody will label and never anything else but a run being killed (`AuditsSeeEveryLoss`), the code of a trial runs once (`OneExecution`), the row's own specification is implemented (`ImplementsTrialRow`), a started trial ends although no client polls (`DispatchedSettles`), a cancel is answered (`CancelReturns`) |
| `programme_overlap` | research loop: 1 programme, 1 hypothesis, 3 trials, 2 requests, 2 verdicts, budget 1, 1 crash; archive: 2 programmes, 2 files of one, 1 inherited by an older version; upgrade: 1 row, 2 columns | the label follows the conclusion, what a close has listed is open no more, the budget is overshot by one trial per other request at most, conclusions are grounded; an archived programme is held whole and entered once, and a start that serves has nothing pending; no death during an upgrade destroys a row (it is in its table or in the copy), and a server that serves has been upgraded whole |
| `programme_gated` | 1 programme, 2 hypotheses, 2 trials, 1 request, budget 1, wall budget 1, 1 correction, 1 crash, 1 acknowledgment | with calls that do not overlap, a closed programme has no open work and does not change; the gate leaves an exit from every finding |
| `promotion` | 3 candidates, 1 campaign, 2 requests, 3 verdicts, 1 crash | one champion in the roster; nothing shown that the record does not back; a refresh nothing came in between heals any drift |
| `campaign` | 2 campaigns, 2 programmes, 2 requests, cap 1, 1 lost answer, 1 crash | attribution, the spawn cap, no unfinished campaign unseen |
| `champion` | 3 generations of improvers, 2 requests, 2 decisions, 1 crash | one champion, authorised policies |
| `channel` | channel: 2 requests, 2 connects, 2 pings, 1 outage; loop: 2 improvers, 2 contracts, 1 proposal, 1 tournament | answers reach their callers, the hub keeps a working session, one campaign per arm; the hint is current, a debt leaves an exit |
| `investigation` | 1 investigation, 2 findings, 2 requests, 1 sweep, 1 acknowledgment, 1 outage | an asserted finding has its claim, an investigation nothing met on is distilled exactly, a logged debt gates |
| `sealed` | sealed run: 2 trials, 6 files, 5 texts, 3 captures and edits, all sandboxes; artifacts: 3 files, 1 tool call, 1 death | the run reads what was sealed, the manifest is true, leaks are flagged; what a run wrote is on disk or in the database |
| `records` | claims: 3 claims, 2 texts, 2 requests, 1 crash; tournament: 3 results, 2 requests, 1 correction, 1 decision | supersession is sound, transactions nobody ran into are whole; a tournament nothing met on is closed with the gain of its results |
| `sealed_copies`, `migration_death` | small | two disagreements between code and documentation (section 6) |

**Bounds.** Every counter that could grow for ever has a bound in a guard:
`MaxCorrections`, `MaxCrashes`, `MaxLost`, `MaxDecisions`, `MaxAcks`,
`MaxOutages`, `MaxConnects`, `MaxPings`, `MaxTools`, `MaxDeaths`,
`MaxInherited` and `MaxEvents` (captures and edits); the sets of ids are bounds,
too, since an insert needs an unused one. One crash is enough where a start
returns to a state without memory, whose rows a first crash could have left.
Two requests put any two suspended handlers on one row; the trial run has four,
one for each kind of handler that finishes a row. Three candidates are needed
for an old champion, a new one and one that was rolled back; three generations
of improvers for a rollback to restore a champion that itself was promoted;
`Budget + |Callers|` trials are one more than the overshoot that is shown to be
the most. Two closed programmes and files of one make a race overfill a file.
Corrections are off in `programme_overlap`, because a correction that a thread
makes between two gates of `conclude_hypothesis` does unground a conclusion
(`programme_gated`, with one request, has one). The trial run has one trial
only: what needs two, the tombstones of one pushing out those of another, is in
the proofs, which are for all trials. Symmetry is used where no property is a
liveness property; no action or property names one of the permuted values.

`CHECK_DEADLOCK FALSE` everywhere: a server with no requests and all work done
may stop.

**Fairness** (`trial`). The event loop runs every handler that is ready
(`WF` of `Handler`), the executor's deadline ends every run (`execute_code`
wraps it in `wait_for`), the poller wakes until it sees a final status
(`_auto_finalize` is a loop over `sleep`), and a start runs the reaper to its end
before it serves (`__main__.py`). No request is assumed to come, neither a poll
nor a cancel, and crashes are not assumed to stop other than by the bound.
The other specifications state no fairness; `RefreshHeals`,
`StartLeavesNothingPending`, `ConclusionIsGrounded` and `ClosedIsImmutable` are
action properties.

Every property of a passing run has a mutant: a form of a mapped definition with
a plausible bug, written before the definition it replaces (`\* mutant:`), under
which TLC finds the property violated.

## 4. What is proved

Every theorem is for all values of the constants that satisfy the named
assumptions of the modules: null values are not ids, bounds are naturals, and
sets that the code keeps in memory or counts (callers, improvers, candidates,
programmes of a campaign) are finite. What is assumed beyond that is said
below. TLC evaluates every assumption on the instances of section 3. Where a run
puts subsystems side by side, the theorems about each of them are stated of that
composition (`Parts`, `Servers`), whose behaviours of one part are exactly the
behaviours of its module (lemmas `PartsArchive`, `PartsUpgrade`, `PartsLeave`,
`PartsConnect`, `PartsLoop`, `ServersPlay`); what the part's module assumes of its
constants is an assumption of the composition, with a name of its own.

| proofs | theorems, and the property of a run each one states for all constants |
|---|---|
| `TrialLifecycle_proofs` | `Invariance`; `TypeCorrect`; `OneExecution`'s `AtMostOnce`; `AuditsSeeEveryLoss`'s `AuditsAreComplete`; `Refinement`: `Spec => Row!Spec`; `NoSilentRelabel`; and `Evidence`, `NoGhostRun`, `TombstonesAreSafe`, `Registration`, `NobodyIsForgotten`, parts of the invariant that say most |
| `ProgrammeLifecycle_proofs` | `Invariance`; `TypeCorrect`; `VerdictIsConcluded`'s `LabelFollowsConclusion`; `ClosedCoversListed`'s `CloseIsThorough`; and `GoalsAreExclusive`, `ConcludedOnce`, `TestsHaveTrials`, `SealedBeforeRun`; of the gates, `OvershootBounded`'s `Overshoot`; `ConclusionIsGrounded`'s `Grounded`, when nothing is corrected; with one caller, `ClosedHasNoOpenWork`'s `NothingIsLeftOpen` and `ClosedIsImmutable`'s `ClosedStaysAsItIs`; `GateIsTransparent`: `GatedSpec => Spec`; `GateLeavesAnExit`'s `RemediesReachable`; of the archive `ArchivedIsCopied`'s `ArchivedStaysCopied`, `OneEntry`'s `EntriesAreUnique` and the action property `StartLeavesNothingPending`'s `StartArchivesAll`; of the upgrade `NothingIsDestroyed`'s `UpgradesDestroyNothing` and `ServedIsUpgraded`'s `ServersAreUpgraded` |
| `Promotion_proofs` | `Invariance`; `OneChampion`'s `OneRosterChampion`; `LabelsAreBacked`'s `NothingAheadOfTheRecord`; the action property `RefreshHeals`'s `HealsDrift` |
| `Campaign_proofs` | `Invariance`; `TypeCorrect`; `ResultsAreAttributed`'s `Attribution`; `SpawnsAreBounded`'s `SpawnCap`; `UnfinishedIsFlagged`'s `NothingUnfinishedIsMissed` |
| `Investigation_proofs` | `Invariance`; `TypeCorrect`; `AssertedHasClaim`'s `ClaimsAreMinted`; `DistilledWhenAlone`'s `Distillation`; `LoggedDebtGates`'s `DebtsAreHeeded` |
| `SealedRun_proofs` | `Invariance`; `SealHolds`'s `SealedBytes`; `RecordedIsWhatRan`'s `ManifestIsTrue`; `LeaksAreFlagged`'s `NoSilentLeak`; of the artifacts `EvidenceSurvives`'s `EvidenceIsKept` |
| `Memory_proofs` | `Invariance`; `SupersessionIsSound`'s `SoundChains`; `TransactionsHoldAlone`'s `WholeTransactions`; `OneContentOneClaim`; of the tournaments `SealedWhenAlone`'s `LoneTournamentsAreSealed` |
| `Champion_proofs` | `Invariance`; `SingleChampion`'s `OnePointer`; `PoliciesAreAuthorised`'s `AuthorisedPolicies`; of the channel `AnswersMatch`'s `AnswersAreOwn`, `HealthyIsKept`'s `HubKeepsSessions` and `OneCampaignPerArm`'s `ArmsAreOpenedOnce`; of the loop `HintIsCurrent`'s `HintsAreCurrent` and `DebtsLeaveAnExit`'s `DebtsHaveExits` |

The plan of each proof is the same: an inductive invariant `IndInv`, one lemma
for each action that preserves it, `Invariance`, and the properties from it.
What the invariants add to the properties, and why it is needed:

**The trial.** `OneExecution` fails from a state in which two handlers have both
passed the check of the row and are staging (excluded by `StagerIsAlone`); the
evidence of a label from one in which a late poller holds a result other than
the one the row was completed with (`EvidenceIsOfTheRun`, `ResultIsOfTheRun`);
the label of an ended run from one in which a running row lost its watcher
before the run ended (`RunningRowIsWatched`); a row without a live task from one
in which a killer that has not yet labelled the row waits for a task that lives
on (`HandlersHoldTheirTask`); and all of them from a start that is still reaping
while something runs (`ReapingIsQuiet`), or from a trial that was touched before
it began (`UntouchedBeforeStart`). Actions whose effect depends on the record
have first a lemma that says what they leave in the row (`FinalizeSettles`,
`CancelSettleRow`, ...), which the refinement cites again. `RecordFacts` and
`VerdictIsAccepted` say of the records that the finalizer's verdict and the
store's gate agree, without which a poller could be refused for ever.

**The research loop.** The invariant says what a handler still knows of the rows
it read some steps ago (`Knows`): that its subject exists, that the goal is
free, that the trial it inserted is there, that the bundle is linked, that the
hypothesis has no conclusion, and, for a close, that what it has listed and need
not sweep is disposed of for good (`RestIsDisposedOf`, without which a sweep
could finish over a row that was opened again). Two of these are not stable
under other handlers' writes, the free goal and the missing conclusion; they
hold because the handler has the event loop to itself (`OneOnTheLoop`).
`KnowledgeLasts` and `OthersKnow` say when the handlers that do not move may go
on, `ReadOnly` and `WriteKeeps` reduce a step to what the moving handler learns
and what the rows become. For the budget the invariant counts the handlers that
are past the check and have not inserted yet together with the trials (`Spent`);
for the evidence it keeps what each gate saw until the conclusion (`GatesHold`).
What holds of calls that do not overlap is proved for one caller, whose runs
still end, are corrected and are cut off by crashes in the background:
`SerialInv` says that the one handler's subject is still in an active programme
(`AboutActive`) and that a close has seen all the work there is (`SeenAll`).

**The gate.** `GateIsTransparent` is the refinement of the ungated loop, so that
all its theorems hold behind the gate. `RemediesReachable` has one lemma: of
each finding, what its check says of the row is what a remedy's own checks ask
for. The aged trials have ended (`AgedAreTrials`), otherwise a finding could be
about no row at all.

**The roster.** `AtMostOne` alone does not survive a handler that is about to
write a champion, nor `LabelsAreBacked` one that is about to write a label:
`Known` says that what each handler holds is backed already, and that a campaign
it is about to annotate is closed and keeps its challenger. Both rest on the
record upstream only growing. `IncumbentIsPromoted`, `IncumbentIsNotRevoked` and
`RevokedIsRuled` are the lemmas about `Incumbent` and `Reading`. `HealsDrift`
needs the history of a refresh: `Heals` says what one that nothing came in
between has achieved at each step, with the entries it need not look at any more
(`Looked`) as the measure of how far it is. A label it finds right is left as it
is, and one whose verdicts it finds silent is right by `LabelsAreBacked`; at the
end nothing is left to look at.

**The campaign.** `Forward` is the argument: of what a check may have relied on
(a campaign exists, is no longer open, has refs, a decision; a result is there;
a programme has its arm) no step takes anything back, hence the check still
counts after the await (`Doing`). The campaign's own row (`Kept`), the spawn
rows (`Placed`) and the results (`Backed`) follow. The cap is kept by counting
the spawns that are recorded together with those that are under way (`Capped`).

**The investigations.** `Minted` says what a handler may count on whoever else is
at work (`Knows`): that the finding it is about to record is not there and is no
other's to record, and that what it mints is of its investigation, has its claim
before it is linked, and is linked before it is asserted. `AssertedHasClaim` is a
part of it. `DistilledWhenAlone` speaks of the moments at which nobody is at an
investigation, hence `Alone` says where the one handler of an undisturbed one
stands in between: its findings with a claim are the asserted ones and the one
between its claim and its mark (`Between`), and what is left to mint is what is
left provisional (`Stands`). `OthersStand` is the lemma that an investigation a
step does not write stays as it stands. For the gate, `Heeded` keeps what has held
since a sweep read it within that sweep, and what is known within the log and
within the one sweep under way; a second one would break it, which is why the
property excepts sweeps that overlap.

**The sealed run.** The invariant follows a trial from stage to stage: its bundle
holds the texts of the files it took (`Bundled`), each of which is known with the
path it was first found under (`Known`); nothing is read or recorded before its
time (`Untouched`); each overlay is a sealed text of its path, and a bundle of
files has one for each path (`Overlaid`); what was read is the overlay, or the
file as it still is unless it was edited (`Delivered`); a recorded run has a
truthful manifest, and what it leaves out is flagged (`Recorded`). The hard
part is that other captures meanwhile add snippets, and edits change the files:
neither moves a snippet's path nor what a sealed text is. `SealedBytes` says so
of bundles without copies; the run `sealed_copies` shows what happens to copies.

**The claims.** A chain of supersessions is sound if no set of rows replaces
each other among themselves (`Chained`, said without recursion); a new row has a
new id (`Fresh`), hence nothing replaces it yet and it closes no chain
(`InsertKeepsChains`). The disk always holds a part of what is read, and both
are chained, so a rollback returns to a sound graph. `Whole` says where the
handler of a claim nobody ran into stands between its row and its last edge.

**The champion.** Parents come before children (`Grounded`), from which the
lineage has no circle by well-founded choice of a root; a decision's number is
its own (`Numbered`); a policy, minted or about to be, rests on a recorded
decision (`Rested`); and as long as no move was run into, the pointer is what
its mover read at each of its statements (`Pointed`).

**The archive.** A state in which one archiving is about to enter a programme
that another has entered already satisfies `OneEntry` and leads out of it. `Sound`
says what an archiving may count on: the file it chose is in the registry, the
copy it verified is in that file, and the programme it has marked has no entry
yet; `Apart`, that no two hold one new file or one marked programme. `FilesAgree`
relates marks, entries, contents and seals at every step of whoever archives,
and `Counted` says that a file's count lags its entries by the archivings
between the two commits, unless there was a death, from which the verification
of an open file follows. For the start, `Mended` says that after the repairs every
entry has its mark, and `Starting` that what is closed is exactly what the start
has still to do, alone, with a file that is not read-only: none of its archivings
fails, which is what `StartArchivesAll` needs.

**The upgrade.** Rows are kept on disk and over the connection (`RowsKept`),
because a death makes the one the other. A statement may commit what came before
it, so `OpenIsExpected` names the places at which a transaction can be open;
`RebuildStage` says how far the table in hand is (before the drop, the copy has
what was accepted), and `Upgraded` that what is no longer on the start's list has
been done. The lists of what is left are the tails of the four servers' orders.

**The artifacts.** A file that is there is as it was last written (`AsWritten`);
but for what is written under a capture that deletes, a capture holds what is to
be stored (`HeldFile`), so that a deleted file has its row (`KeptFiles`); what a
deleting capture is through with is gone or too large (`PassedFiles`), from
which the emptiness after the finalizer follows.

**The tournaments.** Two calls at work on one tournament are marked from then on
(`Lone`); where there was no such pair, what a call has read is what is still
there (`Calling`), a closed tournament is sealed with all its results and a
voided one spans nothing (`Settled`), and a result carries as many corrections as
were made (`CorrectionsAgree`). That an arm of a result never changes and that
what was read is of recorded results holds of overlapping calls as well; it is
what keeps `closed_have_gain` empty without an exception.

**The channel.** A call is in one place, the queue or what one task awaits, until
the peer executes it (`Placed`), which gives one execution at most; its future is
answered only after that (`Answered`). On the hub no probe reports a failure,
since a ping that fails ends the task instead (`Probed`): this is why nothing
that works is dropped there, and what the loop servers' copy does not have. Who
opened a campaign for an arm that is not unsure is alone, and the arm is linked
once its handler has returned (`Linking`).

**The loop.** A read of the status that is under way holds the first
recommendation unless a change slipped into it, and a hint is the first
recommendation unless it is excused or the note of a call is still to come
(`Recommended`). The exits need of the state only that what is logged is of a kind
that has a remedy; the rest is in the tables of the gates.

## 5. What only TLC checks

- Liveness: `DispatchedSettles`, `CancelReturns`; the prover has no fairness and
  no `ENABLED`.
- What a recursive or folded definition computes for all inputs: that the scan
  of `get_incumbent` finds `Incumbent` is evaluated for short tables only.

Every other property of a passing run is a theorem of section 4.

## 6. Where the code departs from what it says

Two departures have a run of their own:

| run | what happens | what the repository says |
|---|---|---|
| `sealed_copies` | two files with one text are one snippet, which keeps the path of the first; only that one is overlaid, and an edit of the other after the seal is what runs | "the process reads exactly what capture_bundle hashed" (`ml_episteme_mcp/tools/trial.py:54-57`) |
| `migration_death` | a start of zetesis dies between the drop of a table and the rename of its copy; the next start creates an empty table and serves without the rows | "the table is rebuilt — ids are preserved" (`ml_zetesis_mcp/state/store.py:194-196`) |

The following hold of the code and of its models as well. They have no run of
their own; the properties of the runs are stated so that they say what holds all
the same. In episteme:

- A status request after a correction finalizes again from the cached result and
  replaces the record, corrections included (`tools/trial.py:523`).
- The killed run's `run_trial` may label the row first; `cancel_trial` then
  answers with an illegal transition although it did cancel
  (`tools/trial.py:1418`).
- After a death between the two commits of a finalization, the reaper fails a
  trial whose row holds a completed run, and replaces that record
  (`__main__.py:103`).
- An unresolved data reference returns an error after the row was set running;
  `orphaned_running_trials` reports it (and also a trial that is still staging).
- A handler that checked the programme before it was closed writes into it
  afterwards, and two parallel captures both link a bundle, the second perhaps
  after the run began: what holds without overlap is `ClosedIsImmutable`.
- A trial of an abandoned hypothesis can be run and observed; concluding then
  writes the conclusion and fails on the label (`tools/hypothesis.py:82-83`).
- A sweep of `close_programme` that meets a row that has moved on answers with
  an error after it has abandoned other rows, where `tools/programme.py:478-479`
  says that a rejected close leaves the programme untouched.
- `budget_exceeded` counts the time of all trials and asks to conclude, while
  the gate refuses `conclude_hypothesis` once that finding is logged; another
  remedy is left, which is what `GateLeavesAnExit` asks for.
- A hash bundle's overlays are filtered by what exists at staging
  (`tools/trial.py:1118-1125`), but the record takes the sealed hash for every
  sealed path (`state/store.py:3024-3052`): a path that was missing at staging
  and is put back before the run is recorded as sealed although the live file
  ran, and no check flags it. `RecordedIsWhatRan` names this exception; it takes
  one edit more than the run allows.
- A partial capture of artifacts is never resumed, although the store keeps the
  failed files "so the failure can be retried"; and `capture_pending_artifacts`
  with cleanup, called on a running trial, deletes files that are being written.

In the other servers:

- Two spawns that pass the cap together make an arm that closing refuses for
  ever; abandoning is the exit, as `unscoreable_campaigns` says, but the gate
  does not list it as a remedy.
- `close_campaign` and `abandon_campaign` race; a result that was under way is
  inserted after the score; a programme created for another campaign may be
  reported before its spawn row exists.
- A decision of arete may rest on a tournament that was voided while it awaited
  its claim (`tools/decisions.py:326`). A rollback does not pay a decision debt,
  although `enforcement/recurrence.py:17-20` says so.
- A handler that meets another one's move of the champion pointer may leave two
  champions or none: a commit or rollback on the shared connection is
  everybody's. The claims of anamnesis lose the same way the transactions that
  `mixed` marks.
- A call that overran its deadline is answered with an error and goes on; its
  change is not noted, so the hint on later results is old. Exempt tools are
  never noted.
- The foreign keys of anamnesis are switched on inside a transaction, where
  sqlite ignores it.

## 7. What is not modelled, and what is abstracted

- The vendored `_grounded_constants.py` (one generated table in five packages),
  the pages and resources (`observability/`, `resources/`), the tool schemas,
  the wiring in `server.py` and `__main__.py` beyond the starts, the deployment
  scripts, the tests.
- Of episteme: the registration and selection of candidates, contracts,
  `update_metric_direction`, traces, the parsing of a run's output and the
  sandbox's grant plan. Failures of the local database other than those of
  section 2 are not modelled, nor those of the disk.
- Strings, hashes, numbers of a measurement and times are abstracted to what the
  code compares: a text is its hash, a goal its prefix, a gain which side won, a
  clock a step that may come at any time.
- A sealed run's model takes data to be files that are not code, and the inputs
  a trial declares to be data; the sandbox `minimal` differs from `full` in
  nothing modelled.
- What handlers of three different servers do to one another is modelled where
  one of them calls another (zetesis and episteme in `Promotion` and `Campaign`,
  zetesis and anamnesis in `Investigation`, arete and zetesis in
  `ArmCampaigns`); there is no model of all five at once.

## 8. Plan

1. Done: the modules of section 2 and the proofs of section 4.
2. To prove next: that the statements of `Memory` and `Champion` that nobody ran
   into implement one atomic operation each; that a loop server's copy of
   `Channel` drops a working session only after a probe that came late.
3. To model next: candidates and contracts of episteme, and their checks.
