------------------------------ MODULE Consultation ------------------------------
(***************************************************************************)
(* The duty to consult: a server's mutating tools are refused until its    *)
(* status has been read, and what the status recommended first rides on    *)
(* the results of later calls as a hint, until a tool has changed          *)
(* something.                                                              *)
(*                                                                         *)
(* A call is wrapped: the gates, the handler under a deadline that answers *)
(* an error and lets the handler go on, the note that something changed,   *)
(* the hint.  A read of the status collects, and marks what it collected   *)
(* as the status that was read.  The four servers have a copy each.        *)
(***************************************************************************)
EXTENDS Naturals, FiniteSets

CONSTANTS Callers,  \* requests for mutating tools handled at the same time
          Readers,  \* reads of the status under way at the same time
          Nothing   \* no recommendation, no tool, nothing it is about

VARIABLES
  tracker,  \* RecurrenceTracker
  call,     \* where each request is
  reading,  \* of each read: what it has collected
  slipped,  \* auxiliary: reads that something changed under
  excused   \* auxiliary: what changed since the status was read, and is not noted

consulting == <<tracker, call, reading, slipped, excused>>

\* fresh: the read is not older than the time to live.
NeverRead == [fresh |-> FALSE, digest |-> Nothing, mutated |-> FALSE]
Idle == [step |-> "idle", tool |-> Nothing, on |-> Nothing]
At(c, step) == call[c].step = step
Working(c) == call[c].step \in {"handler", "late"}
Become(c, record) == call' = [call EXCEPT ![c] = record]

\* is_exempt: what reads, what pays a debt, and what corrects a record.
READ_PREFIXES == {"check_invariants", "get_status"}
Free(tool, exempt) == tool \in READ_PREFIXES \cup exempt

\* What a call that is answered now carries: next_hint.
Hinting == tracker.fresh /\ ~tracker.mutated
Hint == IF Hinting THEN tracker.digest ELSE Nothing

-----------------------------------------------------------------------------
(***************************************************************************)
(* A call.  refused: some gate says no.                                    *)
(***************************************************************************)
CallBegin(c, tool, on, exempt, refused) ==
  /\ call[c] = Idle
  /\ Free(tool, exempt) \/ (tracker.fresh /\ ~refused)
  /\ Become(c, [step |-> "handler", tool |-> tool, on |-> on])
  /\ UNCHANGED <<tracker, reading, slipped, excused>>

\* The deadline passes: an error is answered, which is not noted, and the
\* handler goes on.
Overrun(c) ==
  /\ At(c, "handler")
  /\ Become(c, [call[c] EXCEPT !.step = "late"])
  /\ UNCHANGED <<tracker, reading, slipped, excused>>

\* The handler has done its work, or has refused to.  top, topNext: what is
\* recommended first before and after.
Handled(c, exempt, top, topNext) ==
  /\ Working(c)
  /\ Become(c, IF At(c, "handler")
                 THEN [step |-> "handled", tool |-> call[c].tool, on |-> Nothing] ELSE Idle)
  /\ slipped' = IF top = topNext THEN slipped
                ELSE slipped \cup {r \in Readers : reading[r] # Nothing}
  /\ excused' = (excused \/ (Hinting /\ top # topNext
                               /\ (At(c, "late") \/ Free(call[c].tool, exempt))))
  /\ UNCHANGED <<tracker, reading>>

HandlerRefuses(c) ==
  /\ Working(c)
  /\ Become(c, Idle)
  /\ UNCHANGED <<tracker, reading, slipped, excused>>

\* mutant: it is noted before the handler, not after
NoteFirst(c, exempt) ==
  /\ At(c, "handled")
  /\ Become(c, Idle)
  /\ UNCHANGED <<tracker, reading, slipped, excused>>

\* note_mutation, and the result is answered.
Note(c, exempt) ==
  /\ At(c, "handled")
  /\ tracker' = [tracker EXCEPT !.mutated = @ \/ (tracker.fresh /\ ~Free(call[c].tool, exempt))]
  /\ Become(c, Idle)
  /\ UNCHANGED <<reading, slipped, excused>>

-----------------------------------------------------------------------------
(***************************************************************************)
(* A read of the status.                                                   *)
(***************************************************************************)
Collect(r, top) ==
  /\ reading[r] = Nothing
  /\ reading' = [reading EXCEPT ![r] = top]
  /\ slipped' = slipped \ {r}
  /\ UNCHANGED <<tracker, call, excused>>

\* mark_status_read.
Mark(r) ==
  /\ reading[r] # Nothing
  /\ tracker' = [fresh |-> TRUE, digest |-> reading[r], mutated |-> FALSE]
  /\ reading' = [reading EXCEPT ![r] = Nothing]
  /\ excused' = (r \in slipped)
  /\ UNCHANGED <<call, slipped>>

\* The time to live passes: what was read counts for nothing.
Lapse ==
  /\ tracker.fresh
  /\ tracker' = NeverRead /\ excused' = FALSE
  /\ UNCHANGED <<call, reading, slipped>>

\* The world moves on without a call: what was collected may be outdated.
Unnoted(top, topNext) ==
  /\ slipped' = IF top = topNext THEN slipped
                ELSE slipped \cup {r \in Readers : reading[r] # Nothing}
  /\ excused' = (excused \/ (Hinting /\ top # topNext))
  /\ UNCHANGED <<tracker, call, reading>>

\* The tracker is a value of the process.
Forget ==
  /\ tracker' = NeverRead
  /\ call' = [c \in Callers |-> Idle]
  /\ reading' = [r \in Readers |-> Nothing]
  /\ slipped' = {} /\ excused' = FALSE

ConsultationInit ==
  /\ tracker = NeverRead
  /\ call = [c \in Callers |-> Idle]
  /\ reading = [r \in Readers |-> Nothing]
  /\ slipped = {} /\ excused = FALSE

\* Between what a handler did and its note a hint may be outdated.
InFlight == \E c \in Callers : At(c, "handled")
===============================================================================
