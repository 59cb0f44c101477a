------------------------------- MODULE SealedRun -------------------------------
(***************************************************************************)
(* From the capture of a trial's code to the record of what its run read:  *)
(* the snippets and their one original path, the overlays staged from      *)
(* them, the sandbox, the traced reads, the manifest and the integrity     *)
(* checks that compare it with the bundle.  Meanwhile the files of the     *)
(* host are edited, deleted and put back.                                  *)
(*                                                                         *)
(* A text stands for its hash.  The sandbox "minimal" differs from "full"  *)
(* in nothing that is modelled but a race at its launch; a read trace is   *)
(* taken of every run.                                                     *)
(***************************************************************************)
EXTENDS Naturals, FiniteSets, SequencesExt

CONSTANTS
  Trials,
  Files,       \* absolute paths
  Texts,
  Imports,     \* of a text: for each import the files it may mean, in the
               \* order the analysis (search) and Python (load) try them
  Literals,    \* of a text: for each path literal of a script the files it
               \* may mean (direct) and those with its base name (named)
  Opens,       \* of a text: the files it opens or spawns
  Data,        \* the files that are not code (whose suffix is not .py)
  Declared,    \* the sets of them that the config of a trial may name
  Holds,       \* the texts, or Gone, a file may be edited to
  Extra,       \* the files a caller may declare as extra_code_refs
  Uploads,     \* the texts that artifacts hold
  ExtraHashes, \* the sets of texts a caller may declare as code_hash_extra
  Holdout,     \* the files that match sealed_path_patterns
  Hosts,       \* what the files may hold at first
  Sandboxes,   \* the modes an executor may come up with
  MaxEvents    \* bound: captures that are begun and edits of the host's files

VARIABLES
  live,      \* the host's files: a text, or Gone
  sandbox,   \* LocalExecutor._sandbox, fixed when it is constructed
  enforced,  \* _sealed_enforcement is "deny"
  snippets,  \* code_snippets: the original_path of each text
  job,       \* where the capture and the run of each trial are
  moved,     \* auxiliary: files edited after a run had read them
  events

vars == <<live, sandbox, enforced, snippets, job, moved, events>>

Event == events < MaxEvents /\ events' = events + 1

Gone == "gone"            \* no such file
NoPath == "no path"       \* the snippet of an artifact that was uploaded
Unknown == "unknown"      \* no such snippet
Host == "code://"         \* the code_ref of a bundle made from a hash

\* What the constants are; only code is imported, spawned or declared as code.
Code == Files \ Data
ASSUME SealedRunAssumption ==
  /\ {Gone, NoPath, Unknown, Host} \cap (Files \cup Texts) = {}
  /\ Data \subseteq Files /\ Holdout \subseteq Files /\ Declared \subseteq SUBSET Data
  /\ Extra \subseteq Code /\ Uploads \subseteq Texts
  /\ \A extra \in ExtraHashes : extra \subseteq Texts /\ IsFiniteSet(extra)
  /\ Imports \in [Texts -> SUBSET [search : Seq(Code), load : Seq(Code)]]
  /\ Literals \in [Texts -> SUBSET [direct : SUBSET Code, named : SUBSET Code]]
  /\ Opens \in [Texts -> SUBSET Files]
  /\ Holds \in [Files -> SUBSET (Texts \cup {Gone})]
  /\ Hosts \subseteq [Files -> Texts \cup {Gone}]

Fresh ==
  [at |-> "designed", ref |-> Unknown, cur |-> Unknown, todo |-> {}, seen |-> {},
   took |-> {}, sealed |-> <<>>, overlay |-> <<>>, denied |-> {}, toread |-> {},
   inputs |-> {}, ran |-> {}, barred |-> {}, ok |-> FALSE, manifest |-> {}, noted |-> {}]

FileBundle(t) == job[t].ref # Host
Sandboxed == sandbox = "full"

-----------------------------------------------------------------------------
(***************************************************************************)
(* What the analysis of a text finds among the files that are there.       *)
(***************************************************************************)
There == {f \in Files : live[f] # Gone}

\* _try_resolve_local, and Python's own finders: the first candidate.
Resolved(candidates, there) ==
  LET i == SelectInSeq(candidates, LAMBDA f : f \in there)
  IN  IF i = 0 THEN {} ELSE {candidates[i]}

\* All the files a literal may mean, or else the only one of its name.
Spawned(literal) ==
  IF literal.direct \cap There # {} THEN literal.direct \cap There
  ELSE {f \in literal.named \cap There : Cardinality(literal.named \cap There) = 1}

Found(c) == (UNION {Resolved(ref.search, There) : ref \in Imports[c]})
              \cup (UNION {Spawned(literal) : literal \in Literals[c]})

(***************************************************************************)
(* capture_bundle: each file is read twice, for its hash and for its       *)
(* imports; a text that is known keeps the path it was first found under.  *)
(***************************************************************************)
Keep(known, c, f) == IF known[c] = Unknown THEN [known EXCEPT ![c] = f] ELSE known

Sealing(t, c) == IF Contains(job[t].sealed, c) THEN job[t].sealed ELSE Append(job[t].sealed, c)

CaptureBegin(t, f) ==
  /\ job[t].at = "designed" /\ f \in There \ Data
  /\ job' = [job EXCEPT ![t] = [Fresh EXCEPT !.at = "hash", !.ref = f,
                                             !.todo = {f}, !.seen = {f}]]
  /\ Event
  /\ UNCHANGED snippets

CaptureHash(t) ==
  /\ job[t].at = "hash"
  /\ \E f \in job[t].todo :
       IF live[f] = Gone
       THEN job' = [job EXCEPT ![t] = Fresh] /\ UNCHANGED snippets
       ELSE /\ snippets' = Keep(snippets, live[f], f)
            /\ job' = [job EXCEPT ![t].at = "parse", ![t].cur = f,
                                  ![t].todo = @ \ {f},
                                  ![t].took = @ \cup {<<f, live[f]>>},
                                  ![t].sealed = Sealing(t, live[f])]

\* (A file that is gone or cannot be parsed has no imports.)
CaptureParse(t) ==
  /\ job[t].at = "parse"
  /\ LET c == live[job[t].cur]
         found == IF c = Gone THEN {} ELSE Found(c) \ job[t].seen
     IN  job' = [job EXCEPT ![t].at = "hash", ![t].todo = @ \cup found, ![t].seen = @ \cup found]
  /\ UNCHANGED snippets

\* A declared file is captured by a call of its own, which has seen nothing.
CaptureExtra(t) ==
  /\ job[t].at = "hash" /\ job[t].todo = {}
  /\ \E f \in Extra : job' = [job EXCEPT ![t].todo = {f}, ![t].seen = {f}]
  /\ UNCHANGED snippets

CaptureLink(t) ==
  /\ job[t].at = "hash" /\ job[t].todo = {}
  /\ job' = [job EXCEPT ![t].at = "captured"]
  /\ UNCHANGED snippets

\* capture_bundle_from_code_hash: snippets that are known, or an uploaded
\* artifact that is made one.
CaptureByHash(t, c, extra) ==
  /\ job[t].at = "designed" /\ (snippets[c] # Unknown \/ c \in Uploads)
  /\ \A e \in extra : snippets[e] # Unknown
  /\ snippets' = Keep(snippets, c, NoPath)
  /\ job' = [job EXCEPT ![t] = [Fresh EXCEPT !.at = "captured", !.ref = Host,
                                             !.sealed = <<c>> \o SetToSeq(extra \ {c})]]
  /\ Event

-----------------------------------------------------------------------------
(***************************************************************************)
(* run_trial and execute_code.                                             *)
(***************************************************************************)
\* _stage_sealed_code: of two texts with the same path the first one.
Paths(t) == {snippets[c] : c \in ToSet(job[t].sealed)} \ {NoPath}
FirstOf(t, f) == SelectInSeq(job[t].sealed, LAMBDA c : snippets[c] = f)
Staged(t) == [f \in Paths(t) |-> job[t].sealed[FirstOf(t, f)]]

\* mutant: whatever is missing on the host is not overlaid
OverlaysOfExisting(t) ==
  [f \in {f \in Paths(t) : live[f] # Gone} |-> Staged(t)[f]]

\* A file bundle is delivered by its overlays; for the others they only hide
\* what is there.
Overlays(t) ==
  IF FileBundle(t) THEN Staged(t) ELSE [f \in {f \in Paths(t) : live[f] # Gone} |-> Staged(t)[f]]

\* The code of a file bundle is imported from its path, the other is inlined;
\* with no file to import from, the wrapper only reports that.
Wrapped(t) ==
  IF FileBundle(t) THEN {job[t].ref} \ {f \in Files : live[f] = Gone}
  ELSE UNION {Opens[c] : c \in ToSet(job[t].sealed)}

Stage(t) ==
  /\ job[t].at = "captured"
  /\ \E inputs \in Declared :
       job' = [job EXCEPT ![t].at = "staged", ![t].overlay = Overlays(t), ![t].inputs = inputs,
                          ![t].toread = {<<f>> : f \in Wrapped(t)}]

Targets(t) == DOMAIN job[t].overlay

\* No bubblewrap, a deny over a required mount, denies without a sandbox, or
\* an overlay with nothing under it: the launch is refused.
Refuses(t) ==
  \/ sandbox = "missing"
  \/ sandbox = "none" /\ enforced /\ Holdout # {}
  \/ Sandboxed /\ \E f \in Targets(t) : live[f] = Gone \/ (enforced /\ f \in Holdout)

Launch(t) ==
  /\ job[t].at = "staged"
  /\ job' = [job EXCEPT ![t].at = IF Refuses(t) THEN "refused" ELSE "spawning",
                        ![t].denied = {f \in Holdout : Sandboxed /\ enforced /\ live[f] # Gone}]

\* The mounts are made after the launch was checked.
Spawn(t) ==
  /\ job[t].at = "spawning"
  /\ job' = [job EXCEPT ![t].at = IF Sandboxed /\ \E f \in Targets(t) \cup job[t].denied : live[f] = Gone
                                  THEN "refused" ELSE "running"]

\* What the process finds under a path.
Served(t, f) == IF Sandboxed /\ f \in Targets(t) THEN job[t].overlay[f] ELSE live[f]

Touched(t) == {r[1] : r \in job[t].ran} \cup job[t].barred

\* What is to be read is a list of files to try, of which the first that is
\* there is taken; a module is loaded once.
Visible(t) == {f \in Files : Served(t, f) # Gone} \cup job[t].denied
Requests(c) == {ref.load : ref \in Imports[c]} \cup {<<f>> : f \in Opens[c]}

Read(t) ==
  /\ job[t].at = "running"
  /\ \E request \in job[t].toread : \E f \in Resolved(request, Visible(t)) :
       LET once == {r \in job[t].toread : f \notin ToSet(r)}
           c == Served(t, f)
       IN  IF f \in job[t].denied
           THEN job' = [job EXCEPT ![t].toread = once, ![t].barred = @ \cup {f}]
           ELSE job' = [job EXCEPT
                  ![t].ran = @ \cup {<<f, c>>},
                  ![t].toread = once \cup {r \in Requests(c) : ToSet(r) \cap (Touched(t) \cup {f}) = {}}]

\* It returns, crashes or is killed, as it does where nothing is found.
RunEnd(t) ==
  /\ job[t].at = "running"
  /\ \E ok \in BOOLEAN :
       /\ ok => \A request \in job[t].toread : Resolved(request, Visible(t)) # {}
       /\ job' = [job EXCEPT ![t].at = "ended", ![t].ok = ok]

Armed(t) == Sandboxed /\ Targets(t) # {}    \* seal_enforced, of a run

-----------------------------------------------------------------------------
(***************************************************************************)
(* capture_executed_code, and the checks on what it leaves.                *)
(***************************************************************************)
\* _sealed_overlay_map: of two texts with the same path the last one.
LastOf(t, f) == SelectLastInSeq(job[t].sealed, LAMBDA c : snippets[c] = f)

\* mutant: the live file is hashed, as if nothing had been overlaid
HashOfLive(t, f) == live[f]

HashOf(t, f) == IF Armed(t) /\ f \in Paths(t) THEN job[t].sealed[LastOf(t, f)] ELSE live[f]

\* mutant: only what the trace saw
DataRowsOfTrace(t) == {<<f, live[f]>> : f \in (Touched(t) \cap Data) \ Holdout}

\* Denied attempts leave a row without a hash; code that is gone and was not
\* overlaid leaves none; data that is gone, or was declared and is not there,
\* leaves one without a digest.  What is hashed live becomes a snippet.
Forbidden(t) == Touched(t) \cap Holdout
CodeRows(t) ==
  {<<f, HashOf(t, f)>> : f \in {f \in Touched(t) \ (Holdout \cup Data) : HashOf(t, f) # Gone}}
DataRows(t) == {<<f, live[f]>> : f \in ((Touched(t) \cap Data) \cup job[t].inputs) \ Holdout}

RecordAs(t, code, data) ==
  /\ job' = [job EXCEPT ![t].at = "recorded", ![t].manifest = code \cup data,
                        ![t].noted = Forbidden(t)]
  /\ snippets' = [c \in Texts |->
       IF snippets[c] = Unknown /\ \E r \in code : r[2] = c
       THEN (CHOOSE r \in code : r[2] = c)[1] ELSE snippets[c]]

Record(t) ==
  /\ job[t].at = "ended"
  /\ RecordAs(t, CodeRows(t), DataRows(t))

UnsealedExecution ==
  {t \in Trials : job[t].at = "recorded" /\ Sandboxed /\ FileBundle(t) /\ ~Armed(t)}
\* _executed_code_manifest; empty until there is one.
ExecutedCode(t) == job[t].manifest
StraceDivergence ==
  {t \in Trials : \E r \in ExecutedCode(t) : r[1] \notin Data /\ ~Contains(job[t].sealed, r[2])}
InputDataUndigested ==
  {t \in Trials : job[t].ok /\ \E r \in ExecutedCode(t) : r[1] \in Data /\ r[2] = Gone}
SealedAccessAttempts == {t \in Trials : job[t].noted # {}}

-----------------------------------------------------------------------------
Edit(f, c) ==
  /\ c # live[f]
  /\ Event
  /\ live' = [live EXCEPT ![f] = c]
  /\ moved' = [t \in Trials |->
       IF job[t].at \in {"running", "ended"} /\ f \in Touched(t) THEN moved[t] \cup {f} ELSE moved[t]]
  /\ UNCHANGED <<sandbox, enforced, snippets, job>>

Init ==
  /\ live \in Hosts /\ sandbox \in Sandboxes /\ enforced \in BOOLEAN
  /\ snippets = [c \in Texts |-> Unknown]
  /\ job = [t \in Trials |-> Fresh]
  /\ moved = [t \in Trials |-> {}]
  /\ events = 0

Work(t) ==
  \/ \E f \in Files : CaptureBegin(t, f)
  \/ \E c \in Texts, extra \in ExtraHashes : CaptureByHash(t, c, extra)
  \/ /\ CaptureHash(t) \/ CaptureParse(t) \/ CaptureExtra(t) \/ CaptureLink(t) \/ Record(t)
     /\ UNCHANGED events
  \/ /\ Stage(t) \/ Launch(t) \/ Spawn(t) \/ Read(t) \/ RunEnd(t)
     /\ UNCHANGED <<snippets, events>>

Next ==
  \/ \E t \in Trials : Work(t) /\ UNCHANGED <<live, sandbox, enforced, moved>>
  \/ \E f \in Files : \E c \in Holds[f] : Edit(f, c)

Spec == Init /\ [][Next]_vars

-----------------------------------------------------------------------------
Captured(t) == {r[1] : r \in job[t].took}
Ambiguous(t, f) == \E c, d \in ToSet(job[t].sealed) : c # d /\ snippets[c] = f /\ snippets[d] = f

\* Whatever is edited, deleted or put back after the capture, a sandboxed run
\* reads of the captured files the texts that were captured, or does not run.
SealedBytesOrNoRun ==
  \A t \in Trials : Sandboxed => \A r \in job[t].ran : r[1] \in Captured(t) => r \in job[t].took

\* The same, of runs of files none of which is a copy of one that was captured
\* before.
OwnPaths(t) == \A r \in job[t].took : snippets[r[2]] = r[1]
SealHolds ==
  \A t \in Trials : Sandboxed /\ OwnPaths(t) =>
    \A r \in job[t].ran : r[1] \in Captured(t) => r \in job[t].took

\* The files a recorded run is said to have read as they were sealed, although
\* they were not there when its overlays were staged and so were not overlaid:
\* the sealed paths of a bundle made from a hash.
Unshadowed(t) == IF Armed(t) THEN Paths(t) \ Targets(t) ELSE {}

\* The manifest gives for each file a text the run has read there, unless the
\* file was not overlaid and has been edited since, or the bundle holds two
\* texts of its path (the overlay is the first, the manifest names the last), or
\* the file was declared and the run has not read it, or it came back after the
\* overlays were staged.
Truthful(t) ==
  \A r \in job[t].manifest :
    \/ r \in job[t].ran
    \/ r[1] \in moved[t] /\ ~(Armed(t) /\ r[1] \in Targets(t))
    \/ Ambiguous(t, r[1]) \/ r[1] \in Unshadowed(t)
    \/ r[1] \in job[t].inputs \ Touched(t)
RecordedIsWhatRan == \A t \in Trials : Truthful(t)

\* Whatever else a recorded run has read, and nobody has edited since or put
\* back before, is not passed over: it is in the bundle, or one of the checks
\* flags the trial.  Data is digested, and a completed run with data of which no
\* digest could be taken is flagged.
Accounted(t) ==
  /\ \A r \in job[t].ran : r[1] \notin moved[t] \cup Holdout \cup Data \cup Unshadowed(t) =>
       Contains(job[t].sealed, r[2]) \/ t \in StraceDivergence \cup UnsealedExecution
  /\ \A r \in job[t].ran : r[1] \in Data \ (moved[t] \cup Holdout) => r \in job[t].manifest
  /\ job[t].ok /\ t \notin InputDataUndigested =>
       \A f \in ((Touched(t) \cap Data) \cup job[t].inputs) \ Holdout :
         \E c \in Texts : <<f, c>> \in job[t].manifest
  /\ Touched(t) \cap Holdout # {} => t \in SealedAccessAttempts
LeaksAreFlagged == \A t \in Trials : job[t].at = "recorded" => Accounted(t)
=============================================================================
