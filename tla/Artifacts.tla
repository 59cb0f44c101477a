------------------------------- MODULE Artifacts -------------------------------
(***************************************************************************)
(* The files a trial's run leaves in its staging directory, and their way  *)
(* into the database: the finalizer captures them in a thread of its own,  *)
(* file by file, and deletes what it has stored; capture_pending_artifacts *)
(* captures them in the same way, on the event loop, for any trial that    *)
(* has a directory and no row yet, whatever the state of its run.          *)
(***************************************************************************)
EXTENDS Naturals, FiniteSets

CONSTANTS
  Files,      \* names in the staging directory of the trial
  Trace,      \* the read trace among them
  Manifest,   \* executed_code.json
  Contents,
  Oversized,  \* the contents above max_file_size_bytes
  Snippets,   \* contents that code_snippets holds as well
  Sealed,     \* contents that bundles.code_hash names
  MaxTools,   \* bound: calls of capture_pending_artifacts
  MaxDeaths   \* bound: deaths of the server

ArtifactsAssumption ==
  /\ {Trace, Manifest} \subseteq Files
  /\ Oversized \subseteq Contents /\ Snippets \cup Sealed \subseteq Contents

VARIABLES
  run,       \* the trial's process: "writing" or "over"
  staged,    \* the directory: what each file holds, or Gone
  removed,   \* rmtree has removed it
  blobs,     \* artifact_files
  rows,      \* trial_artifacts, of this trial
  capture,   \* where each of the two captures is
  wrote,     \* auxiliary: what was last written to each file
  blind,     \* auxiliary: files written while a capture was deleting
  finalized, tools, deaths

vars == <<run, staged, removed, blobs, rows, capture, wrote, blind, finalized, tools, deaths>>

Gone == "gone"
Captures == {"finalizer", "tool"}
Present == {f \in Files : staged[f] # Gone}

Idle == [at |-> "idle", todo |-> {}, file |-> Manifest, content |-> Gone,
         clean |-> FALSE, left |-> FALSE]
At(w, step) == capture[w].at = step
\* The tool never lets go of the event loop.
LoopIsFree == capture["tool"] = Idle
Cleaning == \E w \in Captures : capture[w] # Idle /\ capture[w].clean

-----------------------------------------------------------------------------
\* A file is written whole or in parts, by the run or the server.
Put(f, c) ==
  /\ ~removed
  /\ staged' = [staged EXCEPT ![f] = c]
  /\ wrote' = [wrote EXCEPT ![f] = c]
  /\ blind' = IF Cleaning THEN blind \cup {f} ELSE blind

\* The run writes what it likes; _write_artifacts adds its streams.
Write(f, c) ==
  /\ run = "writing" /\ f # Manifest
  /\ Put(f, c)
  /\ UNCHANGED <<run, removed, blobs, rows, capture, finalized, tools, deaths>>

RunEnds ==
  /\ run = "writing"
  /\ run' = "over"
  /\ UNCHANGED <<staged, removed, blobs, rows, capture, wrote, blind, finalized, tools, deaths>>

\* _finalize_trial, which a cancelled run never gets to.  Without a trace in
\* the directory capture_executed_code leaves no manifest.
FinalizerBegins(c) ==
  /\ run = "over" /\ ~finalized /\ LoopIsFree
  /\ finalized' = TRUE
  /\ capture' = [capture EXCEPT !["finalizer"] = [Idle EXCEPT !.at = "list", !.clean = TRUE]]
  /\ IF Trace \in Present THEN Put(Manifest, c) ELSE UNCHANGED <<staged, wrote, blind>>
  /\ UNCHANGED <<run, removed, blobs, rows, tools, deaths>>

\* capture_pending_artifacts: a trial with a directory and without rows.
ToolBegins(cleanup) ==
  /\ LoopIsFree /\ rows = {} /\ tools < MaxTools
  /\ tools' = tools + 1
  /\ capture' = [capture EXCEPT !["tool"] = [Idle EXCEPT !.at = "list", !.clean = cleanup]]
  /\ UNCHANGED <<run, staged, removed, blobs, rows, wrote, blind, finalized, deaths>>

-----------------------------------------------------------------------------
(***************************************************************************)
(* capture_artifacts_from_dir, of capture w.                               *)
(***************************************************************************)
\* The second call to a thread goes by the event loop.
List(w) ==
  /\ At(w, "list")
  /\ w = "finalizer" => LoopIsFree
  /\ capture' = IF removed THEN [capture EXCEPT ![w] = Idle]
                ELSE [capture EXCEPT ![w].at = "next", ![w].todo = Present]
  /\ UNCHANGED <<staged, removed, blobs>>

\* The next file is read.  One that is gone is passed over, or reported as
\* lost; one that is lost or too large keeps the directory.
Take(w) ==
  /\ At(w, "next")
  /\ \E f \in capture[w].todo :
       IF staged[f] \in Oversized \cup {Gone}
       THEN \E left \in {TRUE, staged[f] # Gone} :
              capture' = [capture EXCEPT ![w].todo = @ \ {f}, ![w].left = @ \/ left]
       ELSE capture' = [capture EXCEPT ![w].at = "blob", ![w].todo = @ \ {f},
                                       ![w].file = f, ![w].content = staged[f]]
  /\ UNCHANGED <<staged, removed, blobs>>

\* create_artifact_file: INSERT OR IGNORE by the hash.
StoreBlob(w) ==
  /\ At(w, "blob")
  /\ blobs' = blobs \cup {capture[w].content}
  /\ capture' = [capture EXCEPT ![w].at = "row"]
  /\ UNCHANGED <<staged, removed>>

\* create_trial_artifact.
StoreRow(w) ==
  /\ At(w, "row")
  /\ rows' = rows \cup {<<capture[w].file, capture[w].content>>}
  /\ capture' = [capture EXCEPT ![w].at = IF capture[w].clean THEN "unlink" ELSE "next"]

Unlink(w) ==
  /\ At(w, "unlink")
  /\ staged' = [staged EXCEPT ![capture[w].file] = Gone]
  /\ capture' = [capture EXCEPT ![w].at = "next"]
  /\ UNCHANGED <<removed, blobs>>

\* mutant: rmtree although a file was left
FinishRegardless(w) ==
  /\ At(w, "next") /\ capture[w].todo = {}
  /\ IF capture[w].clean
     THEN removed' = TRUE /\ staged' = [f \in Files |-> Gone]
     ELSE UNCHANGED <<removed, staged>>
  /\ capture' = [capture EXCEPT ![w] = Idle]
  /\ UNCHANGED blobs

\* rmtree, whatever is there by now, unless a file was left.
Finish(w) ==
  /\ At(w, "next") /\ capture[w].todo = {}
  /\ IF capture[w].clean /\ ~capture[w].left
     THEN removed' = TRUE /\ staged' = [f \in Files |-> Gone]
     ELSE UNCHANGED <<removed, staged>>
  /\ capture' = [capture EXCEPT ![w] = Idle]
  /\ UNCHANGED blobs

CaptureStep(w) ==
  /\ \/ List(w) /\ UNCHANGED rows
     \/ Take(w) /\ UNCHANGED rows
     \/ StoreBlob(w) /\ UNCHANGED rows
     \/ StoreRow(w) /\ UNCHANGED <<staged, removed, blobs>>
     \/ Unlink(w) /\ UNCHANGED rows
     \/ Finish(w) /\ UNCHANGED rows
  /\ UNCHANGED <<run, wrote, blind, finalized, tools, deaths>>

\* The server dies; what its run writes goes on or not.  Nobody finalizes the
\* trial any more: the reaper only labels it.
Die ==
  /\ deaths < MaxDeaths
  /\ deaths' = deaths + 1
  /\ run' \in {run, "over"}
  /\ finalized' = TRUE
  /\ capture' = [w \in Captures |-> Idle]
  /\ UNCHANGED <<staged, removed, blobs, rows, wrote, blind, tools>>

Init ==
  /\ run = "writing" /\ removed = FALSE
  /\ staged = [f \in Files |-> Gone] /\ wrote = staged
  /\ blobs = {} /\ rows = {} /\ blind = {}
  /\ capture = [w \in Captures |-> Idle]
  /\ finalized = FALSE /\ tools = 0 /\ deaths = 0

Next ==
  \/ \E f \in Files, c \in Contents : Write(f, c)
  \/ RunEnds
  \/ \E c \in Contents : FinalizerBegins(c)
  \/ \E cleanup \in BOOLEAN : ToolBegins(cleanup)
  \/ \E w \in Captures : CaptureStep(w)
  \/ Die

Spec == Init /\ [][Next]_vars

-----------------------------------------------------------------------------
(***************************************************************************)
(* describe_blob and read_blob.                                            *)
(***************************************************************************)
ResolvedIn(c) ==
  {s \in {"artifact_files", "code_snippets", "bundles"} :
     \/ s = "artifact_files" /\ c \in blobs
     \/ s = "code_snippets" /\ c \in Snippets
     \/ s = "bundles" /\ c \in Sealed}

\* A bundle names bytes and holds none.
ReadBlob(c) ==
  CASE ResolvedIn(c) = {} -> "not_found"
    [] ResolvedIn(c) = {"bundles"} -> "no_bytes"
    [] OTHER -> "ok"

-----------------------------------------------------------------------------
TypeOK ==
  /\ run \in {"writing", "over"} /\ removed \in BOOLEAN /\ finalized \in BOOLEAN
  /\ staged \in [Files -> Contents \cup {Gone}]
  /\ wrote \in [Files -> Contents \cup {Gone}]
  /\ blobs \subseteq Contents /\ rows \subseteq Files \X Contents
  /\ blind \subseteq Files

\* What was written is where it was put or in the database, under a row whose
\* bytes can be read, at every step of two captures and after every death: but
\* for what was written while a capture that deletes was under way.  And the
\* directory of a trial that its finalizer is through with holds nothing but
\* what was too large.
EvidenceSurvives ==
  /\ \A f \in Files \ blind :
       wrote[f] # Gone => staged[f] = wrote[f] \/ <<f, wrote[f]>> \in rows
  /\ \A r \in rows : ReadBlob(r[2]) = "ok"
  /\ finalized /\ deaths = 0 /\ (\A w \in Captures : capture[w] = Idle) =>
       \A f \in Present \ blind : staged[f] \in Oversized
================================================================================
