------------------------- MODULE Investigation_proofs -------------------------
(***************************************************************************)
(* The investigations of the zetesis server, however its handlers overlap, *)
(* die or lose the claims channel: an asserted finding has its claim, an   *)
(* investigation that was left alone has distilled what it found, and a    *)
(* violation that was logged gates the writes.                             *)
(*                                                                         *)
(* The inductive invariant has three parts.  Minted: claims follow the     *)
(* order in which a conclusion writes them, and what each handler is about *)
(* to write it may write (Knows).  Alone: where the one handler of an      *)
(* undisturbed investigation stands between its findings and the claims    *)
(* server.  Heeded: a violation that is known to have held since a logged  *)
(* sweep read it is in the log, and in every sweep that is under way.      *)
(***************************************************************************)
EXTENDS Investigation, TLAPS

-----------------------------------------------------------------------------
Steps == {"idle", "pull", "record", "drop", "abandon", "mint", "claim", "assert", "finish"}

Handlers ==
  [step : Steps, of : SUBSET Investigations, item : SUBSET Findings,
   todo : SUBSET Findings, verdict : {"none", "findings", "null_result"}]

Types ==
  /\ inv \in [Investigations ->
       [status : {"none", "open", "concluded", "abandoned"},
        verdict : {"none", "findings", "null_result"}, stale : BOOLEAN]]
  /\ finding \in [Findings ->
       [of : SUBSET Investigations, status : {"none", "provisional", "dropped", "asserted"},
        claim : BOOLEAN]]
  /\ memory \subseteq Findings
  /\ call \in [Callers -> Handlers]
  /\ unsure \subseteq Investigations

-----------------------------------------------------------------------------
\* The rows: a finding has its investigation, an asserted one its claim, and
\* what the claims server has was recorded here.
Rows ==
  /\ \A i \in Investigations : inv[i].status = "none" => inv[i] = Absent
  /\ \A f \in Findings :
       /\ finding[f] = NoFinding \/ \E i \in Investigations : inv[i] # Absent /\ finding[f].of = {i}
       /\ finding[f].status = "asserted" => finding[f].claim
       /\ finding[f].claim => f \in memory
       /\ f \in memory => finding[f] # NoFinding

\* What a handler may count on, whoever else is at work.
Knows(h) ==
  /\ h.step = "idle" => h = Idle
  /\ h.step # "idle" => \E i \in Investigations : h.of = {i} /\ inv[i] # Absent
  /\ h.step = "record" => \E f \in Findings : h.item = {f} /\ finding[f] = NoFinding
  /\ h.step = "drop" => \E f \in Findings : h.item = {f} /\ finding[f].of = h.of
  /\ \A f \in h.todo : finding[f].of = h.of
  /\ h.step \in {"mint", "claim", "assert"} => h.verdict = "findings"
  /\ h.step \in {"pull", "record", "drop", "abandon"} => h.verdict = "none"
  /\ h.step \notin {"mint", "claim", "assert"} => h.todo = {}
  /\ h.step \in {"claim", "assert"} =>
       \E f \in h.todo : /\ h.item = {f} /\ f \in memory
                         /\ h.step = "assert" => finding[f].claim

\* A finding is recorded once.
OneRecorder ==
  \A c, d \in Callers :
    At(c, "record") /\ At(d, "record") /\ call[c].item = call[d].item => c = d

Minted == Rows /\ OneRecorder /\ \A c \in Callers : Knows(call[c])

-----------------------------------------------------------------------------
About(i) == {c \in Callers : call[c].of = {i}}
Asserted(i) == {f \in FindingsOf(i) : finding[f].status = "asserted"}

\* The findings whose claim is minted and which are not marked yet, and whether
\* a conclusion with findings is under way.
Between(i) == UNION {call[c].item : c \in {c \in About(i) : call[c].step \in {"claim", "assert"}}}
Minting(i) == \E c \in About(i) : call[c].verdict = "findings"

\* Where the handler of an investigation that was left alone stands.
Stands(c, i) ==
  /\ call[c].step \in {"record", "abandon", "mint", "claim", "assert", "finish"} => IsOpen(i)
  /\ call[c].step = "drop" => \A f \in call[c].item : finding[f].status = "provisional"
  /\ call[c].verdict = "findings" => LiveOnes(i) = call[c].todo

Alone(i) ==
  /\ \A c, d \in About(i) : c = d
  /\ \A c \in About(i) : Stands(c, i)
  /\ inv[i].status \in {"none", "open", "abandoned"} => inv[i].verdict = "none"
  /\ FindingsOf(i) \cap memory = Asserted(i) \cup Between(i)
  /\ Asserted(i) # {} => Minting(i) \/ (inv[i].status = "concluded" /\ inv[i].verdict = "findings")
  /\ inv[i].verdict = "findings" => LiveOnes(i) = {}

AllAlone == \A i \in Investigations \ unsure : Alone(i)

-----------------------------------------------------------------------------
\* What has held since a sweep read it is in that sweep, and what is known is in
\* the log and in the sweep under way, of which there is one.
Heeded ==
  /\ known \subseteq Violations
  /\ crossed \in BOOLEAN
  /\ sweep = [m \in Sweepers |-> sweep[m]]
  /\ crossed \/ /\ known \subseteq log
                /\ \A m \in Sweepers : Under(m) => known \cup seen[m] \subseteq sweep[m]
                /\ \A m, n \in Sweepers : Under(m) /\ Under(n) => m = n

Kept == Types /\ Minted /\ AllAlone

IndInv == Kept /\ Heeded

-----------------------------------------------------------------------------
LEMMA CallTyped ==
  ASSUME Types, NEW c \in Callers
  PROVE  call[c] \in Handlers /\ DOMAIN call = Callers
BY DEF Types

LEMMA IdleIsAHandler == Idle \in Handlers
BY DEF Idle, Handlers, Steps

\* Who does not move goes on knowing, as long as no row is taken back.
LEMMA OthersKnow ==
  ASSUME Types, Minted, NEW d \in Callers, call'[d] = call[d], memory \subseteq memory',
         \A i \in Investigations : inv[i] # Absent => inv'[i] # Absent,
         \A f \in Findings : finding[f] # NoFinding =>
           finding'[f].of = finding[f].of /\ (finding[f].claim => finding'[f].claim),
         At(d, "record") => \A f \in call[d].item : finding'[f] = finding[f]
  PROVE  Knows(call[d])'
<1>1. call[d] \in Handlers /\ Knows(call[d])
  BY DEF Types, Minted
<1>2. call[d].step # "idle" =>
        \E i \in Investigations : call[d].of = {i} /\ inv[i] # Absent /\ inv'[i] # Absent
  BY <1>1 DEF Knows
<1>3. \A f \in Findings : finding[f].of = call[d].of /\ call[d].step # "idle" =>
        finding'[f].of = call[d].of /\ (finding[f].claim => finding'[f].claim)
  BY <1>2 DEF NoFinding
<1>4. /\ call[d].step = "record" => \E f \in Findings : call[d].item = {f} /\ finding'[f] = NoFinding
      /\ call[d].step = "drop" =>
           \E f \in Findings : call[d].item = {f} /\ finding'[f].of = call[d].of
  BY <1>1, <1>3 DEF Knows, At
<1>5. /\ \A f \in call[d].todo : finding'[f].of = call[d].of
      /\ call[d].step \in {"claim", "assert"} =>
           \E f \in call[d].todo : /\ call[d].item = {f} /\ f \in memory'
                                   /\ call[d].step = "assert" => finding'[f].claim
  <2>1. call[d].todo \subseteq Findings /\ (call[d].step = "idle" => call[d].todo = {})
    BY <1>1 DEF Knows, Idle, Handlers
  <2> QED
    BY <1>1, <1>3, <2>1 DEF Knows
<1> QED
  BY <1>1, <1>2, <1>4, <1>5 DEF Knows

\* An investigation that a step does not touch stays as it stands.
LEMMA AloneElsewhere ==
  ASSUME Types, Types', Minted, NEW i \in Investigations, Alone(i), inv'[i] = inv[i],
         \A f \in Findings : finding[f].of = {i} \/ finding'[f].of = {i} =>
           finding'[f] = finding[f] /\ (f \in memory' <=> f \in memory),
         \A d \in Callers : call[d].of = {i} \/ call'[d].of = {i} => call'[d] = call[d]
  PROVE  Alone(i)'
<1>1. About(i)' = About(i) /\ \A d \in About(i) : call'[d] = call[d]
  BY DEF About
<1>2. FindingsOf(i)' = FindingsOf(i) /\ \A f \in FindingsOf(i) : finding'[f] = finding[f]
  BY DEF FindingsOf
<1>3. /\ LiveOnes(i)' = LiveOnes(i) /\ Asserted(i)' = Asserted(i)
      /\ FindingsOf(i)' \cap memory' = FindingsOf(i) \cap memory
  BY <1>2 DEF LiveOnes, Asserted, FindingsOf
<1>4. Between(i)' = Between(i) /\ Minting(i)' = Minting(i)
  <2>1. {c \in About(i) : call[c].step \in {"claim", "assert"}}
          = {c \in About(i)' : call'[c].step \in {"claim", "assert"}}
    BY <1>1
  <2>2. Between(i)' = Between(i)
    BY <1>1, <2>1 DEF Between
  <2>3. Minting(i)' <=> Minting(i)
    BY <1>1 DEF Minting
  <2> QED
    BY <2>2, <2>3 DEF Minting
<1>5. ASSUME NEW d \in About(i)
      PROVE  Stands(d, i)'
  <2>1. call[d].step = "drop" => \A f \in call[d].item : f \in FindingsOf(i)
    BY DEF About, Minted, Knows, FindingsOf
  <2> QED
    BY <1>1, <1>2, <1>3, <1>5, <2>1 DEF Alone, Stands, IsOpen
<1> QED
  BY <1>1, <1>3, <1>4, <1>5 DEF Alone

-----------------------------------------------------------------------------
(***************************************************************************)
(* A tool sets out: nothing is written, and it stands where it has looked. *)
(***************************************************************************)
LEMMA BeginKeeps ==
  ASSUME Kept, NEW c \in Callers, NEW tool, NEW i \in Investigations, NEW h \in Handlers,
         Begin(c, tool, i, h), h.of = {i}, inv[i] # Absent, Knows(h),
         h.step \in {"pull", "record", "drop", "abandon", "mint", "finish"},
         h.step = "record" => \A d \in Callers : call[d].item # h.item,
         h.step \in {"record", "abandon", "mint", "finish"} => IsOpen(i),
         h.step = "drop" => \A f \in h.item : finding[f].status = "provisional",
         h.verdict = "findings" => LiveOnes(i) = h.todo
  PROVE  Kept'
<1>1. /\ call[c] = Idle /\ call' = [call EXCEPT ![c] = h] /\ UNCHANGED <<inv, finding, memory>>
      /\ unsure' = IF \E d \in Callers : call[d].of = {i} THEN unsure \cup {i} ELSE unsure
  BY DEF Begin, rows
<1>2. /\ call \in [Callers -> Handlers] /\ call'[c] = h
      /\ \A d \in Callers \ {c} : call'[d] = call[d]
  BY <1>1 DEF Kept, Types
<1>3. Types'
  BY <1>1 DEF Kept, Types
<1>4. Minted'
  <2>1. \A d \in Callers : Knows(call[d])'
    <3>1. Knows(call[c])'
      BY <1>1, <1>2 DEF Knows
    <3>2. ASSUME NEW d \in Callers \ {c}
          PROVE  Knows(call[d])'
      BY <1>1, <1>2, OthersKnow DEF Kept
    <3> QED
      BY <3>1, <3>2
  <2>2. OneRecorder'
    BY <1>2 DEF Kept, Minted, OneRecorder, At
  <2>3. Rows'
    BY <1>1 DEF Kept, Minted, Rows
  <2> QED
    BY <2>1, <2>2, <2>3 DEF Minted
<1>5. ASSUME NEW j \in Investigations, j \notin unsure'
      PROVE  Alone(j)'
  <2>1. j \notin unsure /\ Alone(j)
    BY <1>1, <1>5 DEF Kept, AllAlone
  <2>2. CASE j # i
    <3>1. \A d \in Callers : call[d].of = {j} \/ call'[d].of = {j} => call'[d] = call[d]
      BY <1>1, <1>2, <2>2 DEF Idle
    <3> QED
      BY <1>1, <1>3, <2>1, <3>1, AloneElsewhere DEF Kept
  <2>3. CASE j = i
    <3>1. \A d \in Callers : call[d].of # {i}
      BY <1>1, <1>5, <2>3
    <3>2. About(i) = {} /\ About(i)' = {c}
      BY <1>2, <3>1 DEF About
    <3>3. Between(i) = {} /\ Between(i)' = {} /\ ~Minting(i)
      BY <1>2, <3>2 DEF Between, Minting
    <3>4. Stands(c, i)'
      BY <1>1, <1>2 DEF Stands, IsOpen, LiveOnes, FindingsOf
    <3>5. Asserted(i)' = Asserted(i) /\ FindingsOf(i)' = FindingsOf(i) /\ LiveOnes(i)' = LiveOnes(i)
      BY <1>1 DEF Asserted, FindingsOf, LiveOnes
    <3> QED
      BY <1>1, <2>1, <2>3, <3>2, <3>3, <3>4, <3>5 DEF Alone
  <2> QED
    BY <2>2, <2>3
<1> QED
  BY <1>3, <1>4, <1>5 DEF Kept, AllAlone

LEMMA BeginsKeep ==
  ASSUME Kept, NEW c \in Callers, NEW i \in Investigations,
         \/ PullBegin(c, i) \/ AbandonBegin(c, i)
         \/ \E f \in Findings : RecordBegin(c, i, f) \/ DropBegin(c, i, f)
         \/ \E verdict \in {"findings", "null_result"} : ConcludeBegin(c, i, verdict)
  PROVE  Kept'
<1>1. IsOpen(i) => inv[i] # Absent
  BY DEF IsOpen, Absent
<1>2. CASE PullBegin(c, i)
  <2>1. PICK h \in Handlers : h = [Idle EXCEPT !.step = "pull", !.of = {i}]
    BY DEF Idle, Handlers, Steps
  <2>2. Knows(h) /\ h.of = {i} /\ h.step = "pull" /\ h.verdict = "none"
    BY <1>1, <1>2, <2>1 DEF Knows, Idle, PullBegin
  <2>3. Begin(c, "pull", i, h) /\ inv[i] # Absent
    BY <1>1, <1>2, <2>1 DEF PullBegin
  <2> QED
    BY <2>2, <2>3, BeginKeeps
<1>3. CASE AbandonBegin(c, i)
  <2>1. PICK h \in Handlers : h = [Idle EXCEPT !.step = "abandon", !.of = {i}]
    BY DEF Idle, Handlers, Steps
  <2>2. Knows(h) /\ h.of = {i} /\ h.step = "abandon" /\ h.verdict = "none"
    BY <1>1, <1>3, <2>1 DEF Knows, Idle, AbandonBegin
  <2>3. Begin(c, "abandon", i, h) /\ inv[i] # Absent /\ IsOpen(i)
    BY <1>1, <1>3, <2>1 DEF AbandonBegin
  <2> QED
    BY <2>2, <2>3, BeginKeeps
<1>4. ASSUME NEW f \in Findings, RecordBegin(c, i, f)
      PROVE  Kept'
  <2>1. PICK h \in Handlers : h = [Idle EXCEPT !.step = "record", !.of = {i}, !.item = {f}]
    BY DEF Idle, Handlers, Steps
  <2>2. /\ h.of = {i} /\ h.step = "record" /\ h.verdict = "none" /\ h.item = {f} /\ h.todo = {}
    BY <2>1 DEF Idle
  <2>3. /\ Begin(c, "record", i, h) /\ inv[i] # Absent /\ IsOpen(i) /\ finding[f] = NoFinding
        /\ \A d \in Callers : call[d].item # {f}
    BY <1>1, <1>4, <2>1 DEF RecordBegin
  <2>4. Knows(h)
    BY <2>2, <2>3 DEF Knows
  <2> QED
    BY <2>2, <2>3, <2>4, BeginKeeps
<1>5. ASSUME NEW f \in Findings, DropBegin(c, i, f)
      PROVE  Kept'
  <2>1. PICK h \in Handlers : h = [Idle EXCEPT !.step = "drop", !.of = {i}, !.item = {f}]
    BY DEF Idle, Handlers, Steps
  <2>2. /\ h.of = {i} /\ h.step = "drop" /\ h.verdict = "none" /\ h.item = {f} /\ h.todo = {}
    BY <2>1 DEF Idle
  <2>3. /\ Begin(c, "drop", i, h) /\ finding[f].of = {i} /\ finding[f].status = "provisional"
    BY <1>5, <2>1 DEF DropBegin, LiveOnes, FindingsOf
  <2>4. inv[i] # Absent
    BY <2>3 DEF Kept, Minted, Rows, NoFinding
  <2>5. Knows(h)
    BY <2>2, <2>3, <2>4 DEF Knows
  <2> QED
    BY <2>2, <2>3, <2>4, <2>5, BeginKeeps
<1>6. ASSUME NEW verdict \in {"findings", "null_result"}, ConcludeBegin(c, i, verdict)
      PROVE  Kept'
  <2>1. LiveOnes(i) \subseteq FindingsOf(i) /\ FindingsOf(i) \subseteq Findings
    BY DEF LiveOnes, FindingsOf
  <2>2. PICK h : h = [step |-> IF verdict = "findings" THEN "mint" ELSE "finish",
                      of |-> {i}, item |-> {},
                      todo |-> IF verdict = "findings" THEN LiveOnes(i) ELSE {},
                      verdict |-> verdict]
    OBVIOUS
  <2>3. h \in Handlers
    BY <2>1, <2>2 DEF Handlers, Steps
  <2>4. /\ h.of = {i} /\ h.verdict = verdict /\ h.item = {}
        /\ h.step = IF verdict = "findings" THEN "mint" ELSE "finish"
        /\ h.todo = IF verdict = "findings" THEN LiveOnes(i) ELSE {}
    BY <2>2
  <2>5. Begin(c, "conclude", i, h) /\ inv[i] # Absent /\ IsOpen(i)
    BY <1>1, <1>6, <2>2 DEF ConcludeBegin
  <2>6. Knows(h)
    BY <2>1, <2>4, <2>5 DEF Knows, FindingsOf
  <2> QED
    BY <2>3, <2>4, <2>5, <2>6, BeginKeeps
<1> QED
  BY <1>2, <1>3, <1>4, <1>5, <1>6

-----------------------------------------------------------------------------
(***************************************************************************)
(* A tool returns: what it leaves of an investigation nobody else is at.   *)
(***************************************************************************)
Rested(i) ==
  /\ inv[i].status \in {"none", "open", "abandoned"} => inv[i].verdict = "none"
  /\ FindingsOf(i) \cap memory = Asserted(i)
  /\ Asserted(i) # {} => inv[i].status = "concluded" /\ inv[i].verdict = "findings"
  /\ inv[i].verdict = "findings" => LiveOnes(i) = {}

LEMMA RecordersStay ==
  ASSUME OneRecorder, \A d \in Callers : call'[d].step = "record" => call'[d] = call[d]
  PROVE  OneRecorder'
BY DEF OneRecorder, At

LEMMA SoleHandler ==
  ASSUME Kept, NEW i \in Investigations \ unsure, NEW c \in Callers, call[c].of = {i}
  PROVE  Alone(i) /\ About(i) = {c} /\ Stands(c, i)
BY DEF Kept, AllAlone, Alone, About

\* What a tool has written, and what it has left alone.
Wrote(c, i) ==
  /\ \A j \in Investigations : inv[j] # Absent => inv'[j] # Absent
  /\ \A j \in Investigations \ {i} : inv'[j] = inv[j]
  /\ \A f \in Findings :
       /\ finding[f] # NoFinding =>
            finding'[f].of = finding[f].of /\ (finding[f].claim => finding'[f].claim)
       /\ \/ finding'[f] = finding[f] /\ (f \in memory' <=> f \in memory)
          \/ finding'[f].of = {i} /\ finding[f].of \in {{}, {i}}
  /\ memory \subseteq memory'
  /\ \A d \in Callers \ {c} : At(d, "record") => \A f \in call[d].item : finding'[f] = finding[f]

LEMMA OthersStand ==
  ASSUME Kept, Types', NEW c \in Callers, NEW i \in Investigations, call[c].of = {i},
         call'[c].of \subseteq {i}, \A d \in Callers \ {c} : call'[d] = call[d],
         Wrote(c, i), unsure \subseteq unsure'
  PROVE  /\ \A d \in Callers \ {c} : Knows(call[d])'
         /\ \A j \in Investigations \ (unsure' \cup {i}) : Alone(j)'
<1>1. ASSUME NEW d \in Callers \ {c}
      PROVE  Knows(call[d])'
  BY OthersKnow DEF Kept, Wrote
<1>2. ASSUME NEW j \in Investigations \ (unsure' \cup {i})
      PROVE  Alone(j)'
  <2>1. Alone(j) /\ inv'[j] = inv[j]
    BY <1>2 DEF Kept, AllAlone, Wrote
  <2>2. \A f \in Findings : finding[f].of = {j} \/ finding'[f].of = {j} =>
          finding'[f] = finding[f] /\ (f \in memory' <=> f \in memory)
    BY <1>2 DEF Wrote
  <2>3. \A d \in Callers : call[d].of = {j} \/ call'[d].of = {j} => call'[d] = call[d]
    BY <1>2
  <2> QED
    BY <2>1, <2>2, <2>3, AloneElsewhere DEF Kept
<1> QED
  BY <1>1, <1>2

LEMMA ReturnKeeps ==
  ASSUME Kept, Types', Rows', NEW c \in Callers, NEW i \in Investigations, call[c].of = {i},
         Return(c), Wrote(c, i), unsure' = unsure,
         i \notin unsure => Rested(i)'
  PROVE  Kept'
<1>1. call'[c] = Idle /\ \A d \in Callers \ {c} : call'[d] = call[d]
  BY DEF Return, Kept, Types
<1>2. /\ \A d \in Callers \ {c} : Knows(call[d])'
      /\ \A j \in Investigations \ (unsure' \cup {i}) : Alone(j)'
  BY <1>1, OthersStand DEF Idle
<1>3. Knows(call[c])'
  BY <1>1 DEF Knows, Idle
<1>4. OneRecorder'
  BY <1>1, RecordersStay DEF Idle, Kept, Minted
<1>5. ASSUME i \notin unsure
      PROVE  Alone(i)'
  <2>1. About(i)' = {}
    BY <1>1, <1>5, SoleHandler DEF About, Idle
  <2>2. Between(i)' = {} /\ ~Minting(i)'
    BY <2>1 DEF Between, Minting
  <2> QED
    BY <1>5, <2>1, <2>2 DEF Alone, Rested
<1> QED
  BY <1>2, <1>3, <1>4, <1>5 DEF Kept, Minted, AllAlone

LEMMA HandlerIsAbout ==
  ASSUME Kept, NEW c \in Callers, call[c].step # "idle"
  PROVE  \E i \in Investigations : call[c].of = {i} /\ inv[i] # Absent
BY DEF Kept, Minted, Knows

LEMMA PullKeeps ==
  ASSUME Kept, NEW c \in Callers, Pull(c)
  PROVE  Kept'
<1>1. PICK i \in Investigations : call[c].of = {i} /\ inv[i] # Absent
  BY HandlerIsAbout DEF Pull, At
<1>2. PICK new : new = [inv[i] EXCEPT !.stale = FALSE]
  OBVIOUS
<1>3. /\ inv' = [inv EXCEPT ![i] = new]
      /\ UNCHANGED <<finding, memory, unsure>> /\ Return(c)
  BY <1>1, <1>2 DEF Pull, Kept, Types
<1>4. /\ new.status = inv[i].status /\ new.verdict = inv[i].verdict
      /\ new \in [status : {"none", "open", "concluded", "abandoned"},
                  verdict : {"none", "findings", "null_result"}, stale : BOOLEAN]
  BY <1>2 DEF Kept, Types
<1>5. Types'
  BY <1>3, <1>4, IdleIsAHandler DEF Kept, Types, Return
<1>6. inv'[i] = new /\ inv[i].status # "none"
  BY <1>1, <1>3 DEF Kept, Types, Minted, Rows
<1>7. inv'[i] # Absent /\ \A j \in Investigations \ {i} : inv'[j] = inv[j]
  BY <1>3, <1>4, <1>6 DEF Kept, Types, Absent
<1>8. Rows'
  BY <1>3, <1>4, <1>6, <1>7 DEF Kept, Minted, Rows
<1>9. Wrote(c, i)
  BY <1>3, <1>7 DEF Wrote
<1>10. ASSUME i \notin unsure
       PROVE  Rested(i)'
  <2>1. Alone(i) /\ About(i) = {c}
    BY <1>1, <1>10, SoleHandler
  <2>2. Between(i) = {} /\ ~Minting(i)
    BY <2>1 DEF Between, Minting, Pull, At, Kept, Minted, Knows
  <2>3. FindingsOf(i)' = FindingsOf(i) /\ Asserted(i)' = Asserted(i) /\ LiveOnes(i)' = LiveOnes(i)
    BY <1>3 DEF FindingsOf, Asserted, LiveOnes
  <2> QED
    BY <1>3, <1>4, <1>6, <2>1, <2>2, <2>3 DEF Alone, Rested
<1> QED
  BY <1>1, <1>3, <1>5, <1>8, <1>9, <1>10, ReturnKeeps

LEMMA RecordKeeps ==
  ASSUME Kept, NEW c \in Callers, Record(c)
  PROVE  Kept'
<1>1. PICK i \in Investigations : call[c].of = {i} /\ inv[i] # Absent
  BY HandlerIsAbout DEF Record, At
<1>2. PICK f \in Findings : call[c].item = {f} /\ finding[f] = NoFinding
  BY DEF Record, At, Kept, Minted, Knows
<1>3. f \notin memory
  BY <1>2 DEF Kept, Minted, Rows
<1>4. PICK new : new = [of |-> call[c].of, status |-> "provisional", claim |-> FALSE]
  OBVIOUS
<1>5. /\ finding' = [finding EXCEPT ![f] = new]
      /\ UNCHANGED <<inv, memory, unsure>> /\ Return(c)
  <2>1. finding' = [g \in Findings |-> IF {g} = call[c].item THEN new ELSE finding[g]]
    BY <1>4 DEF Record
  <2>2. \A g \in Findings : {g} = call[c].item <=> g = f
    BY <1>2
  <2>3. finding \in [Findings -> [of : SUBSET Investigations,
                                  status : {"none", "provisional", "dropped", "asserted"},
                                  claim : BOOLEAN]]
    BY DEF Kept, Types
  <2> QED
    BY <2>1, <2>2, <2>3 DEF Record
<1>6. finding'[f] = new /\ \A g \in Findings \ {f} : finding'[g] = finding[g]
  BY <1>5 DEF Kept, Types
<1>7. Types'
  <2>1. new \in [of : SUBSET Investigations, claim : BOOLEAN,
                 status : {"none", "provisional", "dropped", "asserted"}]
    BY <1>1, <1>4
  <2> QED
    BY <1>5, <2>1, IdleIsAHandler DEF Kept, Types, Return
<1>8. Rows'
  <2>1. new.of = {i} /\ new.status = "provisional" /\ new.claim = FALSE
    BY <1>1, <1>4
  <2>2. \A g \in Findings :
          /\ finding'[g] = NoFinding \/ \E j \in Investigations : inv[j] # Absent /\ finding'[g].of = {j}
          /\ finding'[g].status = "asserted" => finding'[g].claim
          /\ finding'[g].claim => g \in memory
          /\ g \in memory => finding'[g] # NoFinding
    BY <1>1, <1>3, <1>6, <2>1 DEF Kept, Minted, Rows
  <2> QED
    BY <1>5, <2>2 DEF Kept, Minted, Rows
<1>9. Wrote(c, i)
  <2>1. \A d \in Callers \ {c} : At(d, "record") => f \notin call[d].item
    <3>1. ASSUME NEW d \in Callers \ {c}, At(d, "record"), f \in call[d].item
          PROVE  FALSE
      <4>1. call[d].item = {f}
        BY <3>1 DEF Kept, Minted, Knows, At
      <4> QED
        BY <1>2, <3>1, <4>1 DEF Kept, Minted, OneRecorder, Record
    <3> QED
      BY <3>1
  <2>2. finding'[f].of = {i} /\ finding[f].of = {}
    BY <1>1, <1>2, <1>4, <1>6 DEF NoFinding
  <2>3. \A d \in Callers : call[d].item \subseteq Findings
    BY DEF Kept, Types, Handlers
  <2> QED
    BY <1>2, <1>5, <1>6, <2>1, <2>2, <2>3 DEF Wrote
<1>10. ASSUME i \notin unsure
       PROVE  Rested(i)'
  <2>1. Alone(i) /\ About(i) = {c} /\ IsOpen(i)
    BY <1>1, <1>10, SoleHandler DEF Stands, Record, At
  <2>2. Between(i) = {} /\ ~Minting(i)
    BY <2>1 DEF Between, Minting, Record, At, Kept, Minted, Knows
  <2>3. FindingsOf(i)' = FindingsOf(i) \cup {f} /\ Asserted(i)' = Asserted(i)
    BY <1>1, <1>2, <1>4, <1>6 DEF FindingsOf, Asserted, NoFinding
  <2>4. inv[i].verdict = "none"
    BY <2>1 DEF Alone, IsOpen
  <2> QED
    BY <1>3, <1>5, <2>1, <2>2, <2>3, <2>4 DEF Alone, Rested
<1> QED
  BY <1>1, <1>5, <1>7, <1>8, <1>9, <1>10, ReturnKeeps

LEMMA DropKeeps ==
  ASSUME Kept, NEW c \in Callers, Drop(c)
  PROVE  Kept'
<1>1. PICK i \in Investigations : call[c].of = {i} /\ inv[i] # Absent
  BY HandlerIsAbout DEF Drop, At
<1>2. PICK f \in Findings : call[c].item = {f} /\ finding[f].of = {i}
  BY <1>1 DEF Drop, At, Kept, Minted, Knows
<1>3. PICK new : new = [finding[f] EXCEPT !.status = "dropped"]
  OBVIOUS
<1>4. /\ finding' = [finding EXCEPT ![f] = new]
      /\ UNCHANGED <<inv, memory, unsure>> /\ Return(c)
  BY <1>2, <1>3 DEF Drop, Kept, Types
<1>5. finding'[f] = new /\ \A g \in Findings \ {f} : finding'[g] = finding[g]
  BY <1>4 DEF Kept, Types
<1>6. /\ new \in [of : SUBSET Investigations, claim : BOOLEAN,
                  status : {"none", "provisional", "dropped", "asserted"}]
      /\ new.of = {i} /\ new.status = "dropped" /\ new.claim = finding[f].claim
  BY <1>2, <1>3 DEF Kept, Types
<1>7. Types'
  BY <1>4, <1>6, IdleIsAHandler DEF Kept, Types, Return
<1>8. Rows'
  <2>1. finding[f] # NoFinding /\ new # NoFinding
    BY <1>2, <1>6 DEF NoFinding
  <2> QED
    BY <1>1, <1>4, <1>5, <1>6, <2>1 DEF Kept, Minted, Rows
<1>9. Wrote(c, i)
  <2>1. \A d \in Callers \ {c} : At(d, "record") => f \notin call[d].item
    BY <1>2 DEF Kept, Minted, Knows, At, NoFinding
  <2>2. \A d \in Callers : call[d].item \subseteq Findings
    BY DEF Kept, Types, Handlers
  <2> QED
    BY <1>2, <1>4, <1>5, <1>6, <2>1, <2>2 DEF Wrote
<1>10. ASSUME i \notin unsure
       PROVE  Rested(i)'
  <2>1. Alone(i) /\ About(i) = {c} /\ finding[f].status = "provisional"
    BY <1>1, <1>2, <1>10, SoleHandler DEF Stands, Drop, At
  <2>2. Between(i) = {} /\ ~Minting(i)
    BY <2>1 DEF Between, Minting, Drop, At, Kept, Minted, Knows
  <2>3. /\ FindingsOf(i)' = FindingsOf(i) /\ Asserted(i)' = Asserted(i)
        /\ LiveOnes(i)' = LiveOnes(i) \ {f}
    BY <1>2, <1>5, <1>6, <2>1 DEF FindingsOf, Asserted, LiveOnes
  <2> QED
    BY <1>4, <2>1, <2>2, <2>3 DEF Alone, Rested
<1> QED
  BY <1>1, <1>4, <1>7, <1>8, <1>9, <1>10, ReturnKeeps

\* abandon_investigation and the end of conclude_investigation write the
\* investigation alone.
LEMMA ClosingKeeps ==
  ASSUME Kept, NEW c \in Callers, NEW i \in Investigations, call[c].of = {i},
         call[c].step \in {"abandon", "finish"}, Return(c), UNCHANGED <<finding, memory, unsure>>,
         NEW new \in [status : {"concluded", "abandoned"},
                      verdict : {"none", "findings", "null_result"}, stale : BOOLEAN],
         inv' = [inv EXCEPT ![i] = new],
         new.verdict = IF call[c].step = "abandon" THEN inv[i].verdict ELSE call[c].verdict,
         new.status = IF call[c].step = "abandon" THEN "abandoned" ELSE "concluded"
  PROVE  Kept'
<1>1. inv'[i] = new /\ \A j \in Investigations \ {i} : inv'[j] = inv[j]
  BY DEF Kept, Types
<1>2. inv'[i] # Absent /\ new.status # "none"
  BY <1>1 DEF Absent
<1>3. Types'
  BY IdleIsAHandler DEF Kept, Types, Return
<1>4. Rows'
  BY <1>1, <1>2 DEF Kept, Minted, Rows
<1>5. Wrote(c, i)
  BY <1>1, <1>2 DEF Wrote
<1>6. ASSUME i \notin unsure
      PROVE  Rested(i)'
  <2>1. Alone(i) /\ About(i) = {c} /\ Stands(c, i) /\ IsOpen(i)
    BY <1>6, SoleHandler DEF Stands
  <2>2. Between(i) = {}
    BY <2>1 DEF Between
  <2>3. /\ FindingsOf(i)' = FindingsOf(i) /\ Asserted(i)' = Asserted(i)
        /\ LiveOnes(i)' = LiveOnes(i)
    BY DEF FindingsOf, Asserted, LiveOnes
  <2>4. inv[i].verdict = "none" /\ inv[i].status = "open"
    BY <2>1 DEF Alone, IsOpen
  <2>5. Asserted(i) # {} => call[c].verdict = "findings"
    BY <2>1, <2>4 DEF Alone, Minting
  <2>6. call[c].verdict = "findings" => call[c].step = "finish" /\ LiveOnes(i) = {}
    BY <2>1 DEF Stands, Kept, Minted, Knows
  <2> QED
    BY <1>1, <2>1, <2>2, <2>3, <2>4, <2>5, <2>6 DEF Alone, Rested
<1> QED
  BY <1>3, <1>4, <1>5, <1>6, ReturnKeeps

LEMMA AbandonKeeps ==
  ASSUME Kept, NEW c \in Callers, Abandon(c)
  PROVE  Kept'
<1>1. PICK i \in Investigations : call[c].of = {i} /\ inv[i] # Absent
  BY HandlerIsAbout DEF Abandon, At
<1>2. PICK new : new = [inv[i] EXCEPT !.status = "abandoned", !.stale = FALSE]
  OBVIOUS
<1>3. inv' = [inv EXCEPT ![i] = new]
  BY <1>1, <1>2 DEF Abandon, Kept, Types
<1>4. /\ new \in [status : {"concluded", "abandoned"},
                  verdict : {"none", "findings", "null_result"}, stale : BOOLEAN]
      /\ new.status = "abandoned" /\ new.verdict = inv[i].verdict
  BY <1>2 DEF Kept, Types
<1> QED
  <2>1. call[c].step = "abandon" /\ Return(c) /\ UNCHANGED <<finding, memory, unsure>>
    BY DEF Abandon, At
  <2> QED
    BY <1>1, <1>3, <1>4, <2>1, ClosingKeeps

LEMMA ConcludeKeeps ==
  ASSUME Kept, NEW c \in Callers, Conclude(c)
  PROVE  Kept'
<1>1. PICK i \in Investigations : call[c].of = {i} /\ inv[i] # Absent
  BY HandlerIsAbout DEF Conclude, At
<1>2. PICK new : new = [status |-> "concluded", verdict |-> call[c].verdict, stale |-> FALSE]
  OBVIOUS
<1>3. inv' = [inv EXCEPT ![i] = new]
  BY <1>1, <1>2 DEF Conclude, Kept, Types
<1>4. /\ new \in [status : {"concluded", "abandoned"},
                  verdict : {"none", "findings", "null_result"}, stale : BOOLEAN]
      /\ new.status = "concluded" /\ new.verdict = call[c].verdict
  BY <1>2, CallTyped DEF Kept, Handlers
<1> QED
  <2>1. call[c].step = "finish" /\ Return(c) /\ UNCHANGED <<finding, memory, unsure>>
    BY DEF Conclude, At
  <2> QED
    BY <1>1, <1>3, <1>4, <2>1, ClosingKeeps

-----------------------------------------------------------------------------
(***************************************************************************)
(* The steps that no handler is at, and the death of the process.          *)
(***************************************************************************)
LEMMA OpenKeeps ==
  ASSUME Kept, NEW c \in Callers, NEW i \in Investigations, OpenInvestigation(c, i)
  PROVE  Kept'
<1>1. PICK new : new = [inv[i] EXCEPT !.status = "open"]
  OBVIOUS
<1>2. /\ inv' = [inv EXCEPT ![i] = new] /\ inv[i] = Absent
      /\ UNCHANGED <<finding, memory, call, unsure>>
  BY <1>1 DEF OpenInvestigation
<1>3. new = [status |-> "open", verdict |-> "none", stale |-> FALSE]
  <2>1. new = [Absent EXCEPT !.status = "open"]
    BY <1>1, <1>2
  <2> QED
    BY <2>1 DEF Absent
<1>4. inv'[i] = new /\ \A j \in Investigations \ {i} : inv'[j] = inv[j]
  BY <1>2 DEF Kept, Types
<1>5. Types'
  BY <1>2, <1>3 DEF Kept, Types
<1>6. new.status = "open" /\ new.verdict = "none" /\ new # Absent
  BY <1>3 DEF Absent
<1>7. Rows'
  BY <1>2, <1>4, <1>6 DEF Kept, Minted, Rows
<1>8. \A d \in Callers : Knows(call[d])'
  <2>1. ASSUME NEW d \in Callers
        PROVE  Knows(call[d])'
    BY <1>2, <1>4, <1>6, OthersKnow DEF Kept
  <2> QED
    BY <2>1
<1>9. OneRecorder'
  BY <1>2 DEF Kept, Minted, OneRecorder, At
<1>10. ASSUME NEW j \in Investigations \ unsure
       PROVE  Alone(j)'
  <2>1. CASE j # i
    BY <1>2, <1>4, <1>5, <1>10, <2>1, AloneElsewhere DEF Kept, AllAlone
  <2>2. CASE j = i
    <3>1. FindingsOf(i)' = {}
      BY <1>2 DEF Kept, Minted, Rows, FindingsOf, NoFinding
    <3>2. About(i)' = {}
      BY <1>2 DEF Kept, Minted, Knows, About, Idle
    <3>3. Between(i)' = {} /\ ~Minting(i)' /\ Asserted(i)' = {} /\ LiveOnes(i)' = {}
      BY <3>1, <3>2 DEF Between, Minting, Asserted, LiveOnes
    <3> QED
      BY <1>4, <1>6, <2>2, <3>1, <3>2, <3>3 DEF Alone
  <2> QED
    BY <2>1, <2>2
<1> QED
  BY <1>2, <1>5, <1>7, <1>8, <1>9, <1>10 DEF Kept, Minted, AllAlone

\* What the verdicts and findings are does not depend on the time of the last pull.
LEMMA StandingKeeps ==
  ASSUME Kept, Types', UNCHANGED <<finding, memory, call, unsure>>,
         \A i \in Investigations : /\ inv'[i].status = inv[i].status
                                   /\ inv'[i].verdict = inv[i].verdict
                                   /\ inv[i].status = "none" => inv'[i] = inv[i]
  PROVE  Kept'
<1>1. \A i \in Investigations : inv[i] # Absent => inv'[i] # Absent
  BY DEF Kept, Minted, Rows, Absent
<1>2. Rows'
  BY <1>1 DEF Kept, Minted, Rows
<1>3. \A d \in Callers : Knows(call[d])'
  <2>1. ASSUME NEW d \in Callers
        PROVE  Knows(call[d])'
    BY <1>1, OthersKnow DEF Kept
  <2> QED
    BY <2>1
<1>4. OneRecorder'
  BY DEF Kept, Minted, OneRecorder, At
<1>5. ASSUME NEW i \in Investigations \ unsure
      PROVE  Alone(i)'
  <2>1. Alone(i)
    BY <1>5 DEF Kept, AllAlone
  <2>2. /\ About(i)' = About(i) /\ FindingsOf(i)' = FindingsOf(i)
        /\ Asserted(i)' = Asserted(i) /\ LiveOnes(i)' = LiveOnes(i)
    BY DEF About, FindingsOf, Asserted, LiveOnes
  <2>3. Between(i)' = Between(i) /\ (Minting(i)' <=> Minting(i))
    BY <2>2 DEF Between, Minting
  <2>4. \A c \in About(i) : Stands(c, i)'
    BY <2>1, <2>2 DEF Alone, Stands, IsOpen
  <2> QED
    BY <2>1, <2>2, <2>3, <2>4 DEF Alone
<1> QED
  BY <1>2, <1>3, <1>4, <1>5 DEF Kept, Minted, AllAlone

LEMMA LapseKeeps ==
  ASSUME Kept, NEW i \in Investigations, Lapse(i)
  PROVE  Kept'
<1>1. PICK new : new = [inv[i] EXCEPT !.stale = TRUE]
  OBVIOUS
<1>2. /\ inv' = [inv EXCEPT ![i] = new] /\ inv[i].status = "open"
      /\ UNCHANGED <<finding, memory, call, unsure>>
  BY <1>1 DEF Lapse, IsOpen
<1>3. /\ new.status = inv[i].status /\ new.verdict = inv[i].verdict
      /\ new \in [status : {"none", "open", "concluded", "abandoned"},
                  verdict : {"none", "findings", "null_result"}, stale : BOOLEAN]
  BY <1>1 DEF Kept, Types
<1>4. Types'
  BY <1>2, <1>3 DEF Kept, Types
<1>5. inv'[i] = new /\ \A j \in Investigations \ {i} : inv'[j] = inv[j]
  BY <1>2 DEF Kept, Types
<1> QED
  BY <1>2, <1>3, <1>4, <1>5, StandingKeeps

LEMMA NothingKeeps ==
  ASSUME Kept, UNCHANGED <<inv, finding, memory, call, unsure>>
  PROVE  Kept'
<1>1. Types'
  BY DEF Kept, Types
<1> QED
  BY <1>1, StandingKeeps

\* A death cuts off conclusions, which makes their investigations unsure; every
\* other tool writes in one statement.
LEMMA CrashKeeps ==
  ASSUME Kept, Crash
  PROVE  Kept'
<1> DEFINE cut == {c \in Callers : call[c].step \in {"mint", "claim", "assert", "finish"}}
<1>1. /\ call' = [c \in Callers |-> Idle] /\ UNCHANGED <<inv, finding, memory>>
      /\ unsure' = unsure \cup UNION {call[c].of : c \in cut}
  BY DEF Crash, rows
<1>2. Types'
  <2>1. \A c \in Callers : call[c].of \subseteq Investigations
    BY CallTyped DEF Kept, Handlers
  <2> QED
    BY <1>1, <2>1, IdleIsAHandler DEF Kept, Types
<1>3. \A c \in Callers : call'[c] = Idle
  BY <1>1
<1>4. Minted'
  BY <1>1, <1>3 DEF Kept, Minted, Rows, OneRecorder, At, Knows, Idle
<1>5. ASSUME NEW i \in Investigations, i \notin unsure'
      PROVE  Alone(i)'
  <2>1. Alone(i) /\ \A c \in About(i) : c \notin cut
    BY <1>1, <1>5 DEF Kept, AllAlone, About
  <2>2. Between(i) = {} /\ ~Minting(i)
    <3>1. \A c \in About(i) : call[c].step \in Steps /\ Knows(call[c])
      BY DEF About, Kept, Minted, Types, Handlers
    <3>2. \A c \in About(i) : call[c].step \in {"idle", "pull", "record", "drop", "abandon"}
      BY <2>1, <3>1 DEF About, Steps
    <3>3. Between(i) = {}
      BY <3>2 DEF Between
    <3>4. ~Minting(i)
      BY <3>1, <3>2 DEF Minting, Knows, Idle
    <3> QED
      BY <3>3, <3>4
  <2>3. About(i)' = {}
    BY <1>3 DEF About, Idle
  <2>4. Between(i)' = {} /\ ~Minting(i)'
    BY <2>3 DEF Between, Minting
  <2>5. /\ FindingsOf(i)' = FindingsOf(i) /\ Asserted(i)' = Asserted(i)
        /\ LiveOnes(i)' = LiveOnes(i)
    BY <1>1 DEF FindingsOf, Asserted, LiveOnes
  <2> QED
    BY <1>1, <2>1, <2>2, <2>3, <2>4, <2>5 DEF Alone
<1> QED
  BY <1>2, <1>4, <1>5 DEF Kept, AllAlone

-----------------------------------------------------------------------------
(***************************************************************************)
(* A conclusion mints its findings, one statement at a time.               *)
(***************************************************************************)
LEMMA MintingKeeps ==
  ASSUME Kept, Types', Rows', NEW c \in Callers, NEW i \in Investigations, call[c].of = {i},
         call'[c].of = {i}, call'[c].step # "record", \A d \in Callers \ {c} : call'[d] = call[d],
         Wrote(c, i), unsure \subseteq unsure', Knows(call[c])',
         i \notin unsure' => Alone(i)'
  PROVE  Kept'
<1>1. /\ \A d \in Callers \ {c} : Knows(call[d])'
      /\ \A j \in Investigations \ (unsure' \cup {i}) : Alone(j)'
  BY OthersStand
<1>2. OneRecorder'
  BY RecordersStay DEF Kept, Minted
<1> QED
  BY <1>1, <1>2 DEF Kept, Minted, AllAlone

LEMMA MintKeeps ==
  ASSUME Kept, NEW c \in Callers, NEW f \in Findings, Mint(c, f)
  PROVE  Kept'
<1>1. PICK i \in Investigations : call[c].of = {i} /\ inv[i] # Absent
  BY HandlerIsAbout DEF Mint, At
<1>2. /\ call[c].step = "mint" /\ f \in call[c].todo /\ finding[f].of = {i}
      /\ call[c].verdict = "findings" /\ call[c] \in Handlers
  BY <1>1, CallTyped DEF Mint, At, Kept, Minted, Knows
<1>3. PICK h : h = [call[c] EXCEPT !.step = "claim", !.item = {f}]
  OBVIOUS
<1>4. /\ h \in Handlers /\ h.step = "claim" /\ h.item = {f} /\ h.of = {i} /\ h.todo = call[c].todo
      /\ h.verdict = "findings"
  BY <1>1, <1>2, <1>3 DEF Handlers, Steps
<1>5. /\ call' = [call EXCEPT ![c] = h] /\ memory' = memory \cup {f}
      /\ UNCHANGED <<inv, finding, unsure>>
  BY <1>3 DEF Mint
<1>6. call'[c] = h /\ \A d \in Callers \ {c} : call'[d] = call[d]
  BY <1>5 DEF Kept, Types
<1>7. Types'
  BY <1>4, <1>5 DEF Kept, Types
<1>8. Rows'
  BY <1>2, <1>5 DEF Kept, Minted, Rows, NoFinding
<1>9. Wrote(c, i)
  BY <1>2, <1>5 DEF Wrote
<1>10. Knows(call[c])'
  <2>1. \A g \in h.todo : finding'[g].of = {i}
    BY <1>1, <1>2, <1>4, <1>5 DEF Kept, Minted, Knows
  <2>2. f \in h.todo /\ f \in memory'
    BY <1>2, <1>4, <1>5
  <2> QED
    BY <1>1, <1>4, <1>5, <1>6, <2>1, <2>2 DEF Knows
<1>11. ASSUME i \notin unsure'
       PROVE  Alone(i)'
  <2>1. Alone(i) /\ About(i) = {c} /\ Stands(c, i)
    BY <1>1, <1>5, <1>11, SoleHandler
  <2>2. About(i)' = {c}
    BY <1>4, <1>6, <2>1 DEF About
  <2>3. Between(i) = {} /\ Between(i)' = {f} /\ Minting(i)'
    BY <1>2, <1>4, <1>6, <2>1, <2>2 DEF Between, Minting
  <2>4. /\ FindingsOf(i)' = FindingsOf(i) /\ Asserted(i)' = Asserted(i)
        /\ LiveOnes(i)' = LiveOnes(i) /\ f \in FindingsOf(i)
    BY <1>2, <1>5 DEF FindingsOf, Asserted, LiveOnes
  <2>5. Stands(c, i)'
    BY <1>2, <1>4, <1>5, <1>6, <2>1, <2>4 DEF Stands, IsOpen
  <2> QED
    BY <1>5, <2>1, <2>2, <2>3, <2>4, <2>5 DEF Alone
<1> QED
  BY <1>1, <1>4, <1>5, <1>6, <1>7, <1>8, <1>9, <1>10, <1>11, MintingKeeps

LEMMA MintFailsKeeps ==
  ASSUME Kept, NEW c \in Callers, NEW f \in Findings, MintFails(c, f)
  PROVE  Kept'
<1>1. PICK i \in Investigations : call[c].of = {i} /\ inv[i] # Absent
  BY HandlerIsAbout DEF MintFails, At
<1>2. /\ f \in call[c].todo /\ finding[f].of = {i} /\ call[c] \in Handlers
      /\ call[c].verdict = "findings"
  BY <1>1, CallTyped DEF MintFails, At, Kept, Minted, Knows
<1>3. PICK h : h = [call[c] EXCEPT !.step = "finish", !.todo = {}]
  OBVIOUS
<1>4. h \in Handlers /\ h.step = "finish" /\ h.of = {i} /\ h.todo = {}
  BY <1>1, <1>2, <1>3 DEF Handlers, Steps
<1>5. /\ call' = [call EXCEPT ![c] = h] /\ memory' \in {memory, memory \cup {f}}
      /\ UNCHANGED <<inv, finding>> /\ unsure' = unsure \cup {i}
  BY <1>1, <1>3 DEF MintFails
<1>6. call'[c] = h /\ \A d \in Callers \ {c} : call'[d] = call[d]
  BY <1>5 DEF Kept, Types
<1>7. Types'
  BY <1>4, <1>5 DEF Kept, Types
<1>8. Rows'
  BY <1>2, <1>5 DEF Kept, Minted, Rows, NoFinding
<1>9. Wrote(c, i)
  BY <1>2, <1>5 DEF Wrote
<1>10. Knows(call[c])'
  BY <1>1, <1>4, <1>5, <1>6 DEF Knows
<1> QED
  BY <1>1, <1>4, <1>5, <1>6, <1>7, <1>8, <1>9, <1>10, MintingKeeps

LEMMA SetClaimKeeps ==
  ASSUME Kept, NEW c \in Callers, SetClaim(c)
  PROVE  Kept'
<1>1. PICK i \in Investigations : call[c].of = {i} /\ inv[i] # Absent
  BY HandlerIsAbout DEF SetClaim, At
<1>2. /\ call[c].step = "claim" /\ call[c].verdict = "findings" /\ call[c] \in Handlers
      /\ \A g \in call[c].todo : finding[g].of = {i}
  BY <1>1, CallTyped DEF SetClaim, At, Kept, Minted, Knows
<1>3. PICK f \in call[c].todo : call[c].item = {f} /\ f \in memory
  BY <1>2 DEF Kept, Minted, Knows
<1>4. f \in Findings /\ finding[f].of = {i} /\ finding[f] # NoFinding
  BY <1>2, <1>3 DEF Handlers, NoFinding
<1>5. PICK new : new = [finding[f] EXCEPT !.claim = TRUE]
  OBVIOUS
<1>6. /\ new \in [of : SUBSET Investigations, claim : BOOLEAN,
                  status : {"none", "provisional", "dropped", "asserted"}]
      /\ new.of = {i} /\ new.claim = TRUE /\ new.status = finding[f].status
  BY <1>4, <1>5 DEF Kept, Types
<1>7. /\ finding' = [finding EXCEPT ![f] = new] /\ UNCHANGED <<inv, memory, unsure>>
  <2>1. finding' = [g \in Findings |-> IF {g} = call[c].item
                                        THEN [finding[g] EXCEPT !.claim = TRUE]
                                        ELSE finding[g]]
    BY DEF SetClaim
  <2>2. \A g \in Findings : {g} = call[c].item <=> g = f
    BY <1>3
  <2>3. finding \in [Findings -> [of : SUBSET Investigations,
                                  status : {"none", "provisional", "dropped", "asserted"},
                                  claim : BOOLEAN]]
    BY DEF Kept, Types
  <2>4. finding' = [finding EXCEPT ![f] = new]
    BY <1>5, <2>1, <2>2, <2>3
  <2> QED
    BY <2>4 DEF SetClaim
<1>8. finding'[f] = new /\ \A g \in Findings \ {f} : finding'[g] = finding[g]
  BY <1>4, <1>7 DEF Kept, Types
<1>9. PICK h : h = [call[c] EXCEPT !.step = "assert"]
  OBVIOUS
<1>10. /\ h \in Handlers /\ h.step = "assert" /\ h.item = {f} /\ h.of = {i}
       /\ h.todo = call[c].todo /\ h.verdict = "findings"
  BY <1>1, <1>2, <1>3, <1>9 DEF Handlers, Steps
<1>11. call' = [call EXCEPT ![c] = h]
  BY <1>9 DEF SetClaim
<1>12. call'[c] = h /\ \A d \in Callers \ {c} : call'[d] = call[d]
  BY <1>11 DEF Kept, Types
<1>13. Types'
  BY <1>6, <1>7, <1>10, <1>11 DEF Kept, Types
<1>14. Rows'
  <2>1. finding'[f] # NoFinding
    BY <1>6, <1>8 DEF NoFinding
  <2> QED
    BY <1>1, <1>3, <1>6, <1>7, <1>8, <2>1 DEF Kept, Minted, Rows
<1>15. Wrote(c, i)
  <2>1. \A d \in Callers \ {c} : At(d, "record") => f \notin call[d].item
    BY <1>4 DEF Kept, Minted, Knows, At
  <2>2. \A d \in Callers : call[d].item \subseteq Findings
    BY DEF Kept, Types, Handlers
  <2> QED
    BY <1>4, <1>6, <1>7, <1>8, <2>1, <2>2 DEF Wrote
<1>16. Knows(call[c])'
  <2>1. \A g \in call[c].todo : finding'[g].of = {i}
    BY <1>2, <1>6, <1>8, <1>10 DEF Handlers
  <2> QED
    <3>1. f \in h.todo /\ h.item = {f} /\ f \in memory' /\ finding'[f].claim
      BY <1>3, <1>6, <1>7, <1>8, <1>10
    <3> QED
      BY <1>1, <1>7, <1>10, <1>12, <2>1, <3>1 DEF Knows
<1>17. ASSUME i \notin unsure'
       PROVE  Alone(i)'
  <2>1. Alone(i) /\ About(i) = {c} /\ Stands(c, i)
    BY <1>1, <1>7, <1>17, SoleHandler
  <2>2. About(i)' = {c}
    BY <1>10, <1>12, <2>1 DEF About
  <2>3. Between(i) = {f} /\ Between(i)' = {f} /\ Minting(i)'
    BY <1>2, <1>3, <1>10, <1>12, <2>1, <2>2 DEF Between, Minting
  <2>4. /\ FindingsOf(i)' = FindingsOf(i) /\ Asserted(i)' = Asserted(i)
        /\ LiveOnes(i)' = LiveOnes(i)
    BY <1>4, <1>6, <1>8 DEF FindingsOf, Asserted, LiveOnes
  <2>5. Stands(c, i)'
    BY <1>2, <1>7, <1>10, <1>12, <2>1, <2>4 DEF Stands, IsOpen
  <2> QED
    BY <1>7, <2>1, <2>2, <2>3, <2>4, <2>5 DEF Alone
<1> QED
  BY <1>1, <1>7, <1>10, <1>12, <1>13, <1>14, <1>15, <1>16, <1>17, MintingKeeps

LEMMA SetAssertedKeeps ==
  ASSUME Kept, NEW c \in Callers, SetAsserted(c)
  PROVE  Kept'
<1>1. PICK i \in Investigations : call[c].of = {i} /\ inv[i] # Absent
  BY HandlerIsAbout DEF SetAsserted, At
<1>2. /\ call[c].step = "assert" /\ call[c].verdict = "findings" /\ call[c] \in Handlers
      /\ \A g \in call[c].todo : finding[g].of = {i}
  BY <1>1, CallTyped DEF SetAsserted, At, Kept, Minted, Knows
<1>3. PICK f \in call[c].todo : call[c].item = {f} /\ f \in memory /\ finding[f].claim
  BY <1>2 DEF Kept, Minted, Knows
<1>4. f \in Findings /\ finding[f].of = {i} /\ finding[f] # NoFinding
  BY <1>2, <1>3 DEF Handlers, NoFinding
<1>5. PICK new : new = [finding[f] EXCEPT !.status = "asserted"]
  OBVIOUS
<1>6. /\ new \in [of : SUBSET Investigations, claim : BOOLEAN,
                  status : {"none", "provisional", "dropped", "asserted"}]
      /\ new.of = {i} /\ new.claim = finding[f].claim /\ new.status = "asserted"
  BY <1>4, <1>5 DEF Kept, Types
<1>7. /\ finding' = [finding EXCEPT ![f] = new] /\ UNCHANGED <<inv, memory, unsure>>
  <2>1. finding' = [g \in Findings |-> IF {g} = call[c].item
                                        THEN [finding[g] EXCEPT !.status = "asserted"]
                                        ELSE finding[g]]
    BY DEF SetAsserted
  <2>2. \A g \in Findings : {g} = call[c].item <=> g = f
    BY <1>3
  <2>3. finding \in [Findings -> [of : SUBSET Investigations,
                                  status : {"none", "provisional", "dropped", "asserted"},
                                  claim : BOOLEAN]]
    BY DEF Kept, Types
  <2>4. finding' = [finding EXCEPT ![f] = new]
    BY <1>5, <2>1, <2>2, <2>3
  <2> QED
    BY <2>4 DEF SetAsserted
<1>8. finding'[f] = new /\ \A g \in Findings \ {f} : finding'[g] = finding[g]
  BY <1>4, <1>7 DEF Kept, Types
<1>9. PICK h : h = [call[c] EXCEPT !.step = IF call[c].todo = {f} THEN "finish" ELSE "mint",
                                  !.todo = call[c].todo \ {f}, !.item = {}]
  OBVIOUS
<1>10. /\ h \in Handlers /\ h.step = IF call[c].todo = {f} THEN "finish" ELSE "mint"
       /\ h.item = {} /\ h.of = {i} /\ h.todo = call[c].todo \ {f} /\ h.verdict = "findings"
  BY <1>1, <1>2, <1>9 DEF Handlers, Steps
<1>11. call' = [call EXCEPT ![c] = h]
  BY <1>3, <1>9 DEF SetAsserted
<1>12. call'[c] = h /\ \A d \in Callers \ {c} : call'[d] = call[d]
  BY <1>11 DEF Kept, Types
<1>13. Types'
  BY <1>6, <1>7, <1>10, <1>11 DEF Kept, Types
<1>14. Rows'
  <2>1. finding'[f] # NoFinding
    BY <1>6, <1>8 DEF NoFinding
  <2> QED
    <3>1. ASSUME NEW g \in Findings
          PROVE  /\ \/ finding'[g] = NoFinding
                    \/ \E j \in Investigations : inv[j] # Absent /\ finding'[g].of = {j}
                 /\ finding'[g].status = "asserted" => finding'[g].claim
                 /\ finding'[g].claim => g \in memory
                 /\ g \in memory => finding'[g] # NoFinding
      <4>1. CASE g = f
        BY <1>1, <1>3, <1>6, <1>8, <2>1, <4>1
      <4>2. CASE g # f
        <5>1. finding'[g] = finding[g]
          BY <1>8, <4>2
        <5> QED
          BY <5>1 DEF Kept, Minted, Rows
      <4> QED
        BY <4>1, <4>2
    <3> QED
      BY <1>7, <3>1 DEF Kept, Minted, Rows
<1>15. Wrote(c, i)
  <2>1. \A d \in Callers \ {c} : At(d, "record") => f \notin call[d].item
    BY <1>4 DEF Kept, Minted, Knows, At
  <2>2. \A d \in Callers : call[d].item \subseteq Findings
    BY DEF Kept, Types, Handlers
  <2> QED
    BY <1>4, <1>6, <1>7, <1>8, <2>1, <2>2 DEF Wrote
<1>16. Knows(call[c])'
  <2>1. \A g \in h.todo : finding'[g].of = {i}
    BY <1>2, <1>6, <1>8, <1>10 DEF Handlers
  <2> QED
    BY <1>1, <1>7, <1>10, <1>12, <2>1 DEF Knows
<1>17. ASSUME i \notin unsure'
       PROVE  Alone(i)'
  <2>1. Alone(i) /\ About(i) = {c} /\ Stands(c, i)
    BY <1>1, <1>7, <1>17, SoleHandler
  <2>2. About(i)' = {c}
    BY <1>10, <1>12, <2>1 DEF About
  <2>3. Between(i) = {f} /\ Between(i)' = {} /\ Minting(i)'
    BY <1>2, <1>3, <1>10, <1>12, <2>1, <2>2 DEF Between, Minting
  <2>4. /\ FindingsOf(i)' = FindingsOf(i) /\ Asserted(i)' = Asserted(i) \cup {f}
        /\ LiveOnes(i)' = LiveOnes(i) \ {f}
    BY <1>4, <1>6, <1>8 DEF FindingsOf, Asserted, LiveOnes
  <2>5. Stands(c, i)'
    BY <1>2, <1>7, <1>10, <1>12, <2>1, <2>4 DEF Stands, IsOpen
  <2> QED
    BY <1>7, <2>1, <2>2, <2>3, <2>4, <2>5 DEF Alone
<1> QED
  BY <1>1, <1>7, <1>10, <1>12, <1>13, <1>14, <1>15, <1>16, <1>17, MintingKeeps

-----------------------------------------------------------------------------
(***************************************************************************)
(* The gate.                                                               *)
(***************************************************************************)
\* As long as the log and the sweeps stay, no debt is forgotten.
LEMMA GateStays ==
  ASSUME Heeded, Witness(Violations'), UNCHANGED <<log, sweep, crossed>>
  PROVE  Heeded'
<1>1. known' \subseteq Violations'
  BY DEF Witness
<1>2. sweep' = [m \in Sweepers |-> sweep'[m]] /\ crossed' \in BOOLEAN
  BY DEF Heeded
<1>3. ASSUME ~crossed'
      PROVE  /\ known' \subseteq log'
             /\ \A m \in Sweepers : Under(m)' => known' \cup seen'[m] \subseteq sweep'[m]
             /\ \A m, n \in Sweepers : Under(m)' /\ Under(n)' => m = n
  <2>1. known' \subseteq known /\ \A m \in Sweepers : seen'[m] \subseteq seen[m]
    BY <1>3 DEF Witness, Under
  <2> QED
    BY <1>3, <2>1 DEF Heeded, Under
<1> QED
  BY <1>1, <1>2, <1>3 DEF Heeded

\* A sweep reads what holds, hence what has held since others read it.
LEMMA SweepReads ==
  ASSUME Heeded, Witness(Violations'), NEW m \in Sweepers, SweepRead(m, Violations)
  PROVE  Heeded'
<1>1. known' \subseteq Violations'
  BY DEF Witness
<1>2. /\ sweep'[m] = Violations /\ \A n \in Sweepers \ {m} : sweep'[n] = sweep[n]
      /\ sweep' = [n \in Sweepers |-> sweep'[n]] /\ crossed' \in BOOLEAN /\ log' = log
      /\ ~Under(m)
  BY DEF SweepRead, Heeded
<1>3. ASSUME ~crossed'
      PROVE  /\ known' \subseteq log'
             /\ \A n \in Sweepers : Under(n)' => known' \cup seen'[n] \subseteq sweep'[n]
             /\ \A n, o \in Sweepers : Under(n)' /\ Under(o)' => n = o
  <2>1. ~crossed /\ \A n \in Sweepers : ~Under(n)
    BY <1>3 DEF SweepRead
  <2>2. \A n \in Sweepers : Under(n)' => n = m
    BY <1>2, <2>1 DEF Under
  <2>3. known' \subseteq known
    BY <1>3, <2>1 DEF Witness
  <2>4. Under(m)' => seen'[m] \subseteq sweep'[m]
    BY <1>2, <1>3 DEF Witness, Under
  <2> QED
    BY <1>2, <2>1, <2>2, <2>3, <2>4 DEF Heeded
<1> QED
  BY <1>1, <1>2, <1>3 DEF Heeded

\* What is logged has been read before by the only sweep there is.
LEMMA SweepIsLogged ==
  ASSUME Heeded, Witness(Violations'), NEW m \in Sweepers, SweepLogged(m)
  PROVE  Heeded'
<1>1. known' \subseteq Violations'
  BY DEF Witness
<1>2. /\ sweep'[m] = NoSweep /\ \A n \in Sweepers \ {m} : sweep'[n] = sweep[n]
      /\ sweep' = [n \in Sweepers |-> sweep'[n]] /\ crossed' = crossed /\ log' = sweep[m]
      /\ Under(m)
  BY DEF SweepLogged, Heeded
<1>3. ASSUME ~crossed'
      PROVE  /\ known' \subseteq log'
             /\ \A n \in Sweepers : ~Under(n)'
  <2>1. \A n \in Sweepers : Under(n) => n = m
    BY <1>2, <1>3 DEF Heeded
  <2>2. known \cup seen[m] \subseteq sweep[m]
    BY <1>2, <1>3 DEF Heeded
  <2>3. known' \subseteq known \cup seen[m]
    BY <1>3, <2>1 DEF Witness
  <2> QED
    BY <1>2, <2>1, <2>2, <2>3 DEF Under
<1> QED
  BY <1>1, <1>2, <1>3 DEF Heeded

\* A start logs what holds.
LEMMA RestartLogs ==
  ASSUME Heeded, Witness(Violations'), GateRestart(Violations), Violations' = Violations
  PROVE  Heeded'
<1>1. known' \subseteq Violations'
  BY DEF Witness
<1>2. /\ \A m \in Sweepers : sweep'[m] = NoSweep
      /\ sweep' = [m \in Sweepers |-> sweep'[m]] /\ crossed' = crossed /\ log' = Violations
  BY DEF GateRestart
<1> QED
  BY <1>1, <1>2 DEF Heeded, Under

-----------------------------------------------------------------------------
LEMMA InitIsInductive == Init => IndInv
<1> SUFFICES ASSUME Init
             PROVE  IndInv
  OBVIOUS
<1>1. Types
  BY IdleIsAHandler DEF Init, Types, Absent, NoFinding
<1>2. Rows
  BY DEF Init, Rows, Absent, NoFinding
<1>3. OneRecorder /\ \A c \in Callers : Knows(call[c])
  BY DEF Init, OneRecorder, At, Knows, Idle
<1>4. ASSUME NEW i \in Investigations
      PROVE  Alone(i)
  <2>1. About(i) = {} /\ FindingsOf(i) = {}
    BY DEF Init, About, FindingsOf, Idle, NoFinding
  <2>2. Between(i) = {} /\ ~Minting(i) /\ Asserted(i) = {} /\ LiveOnes(i) = {}
    BY <2>1 DEF Between, Minting, Asserted, LiveOnes
  <2>3. inv[i].verdict = "none"
    BY DEF Init, Absent
  <2> QED
    BY <2>1, <2>2, <2>3 DEF Alone
<1>5. Heeded
  BY DEF Init, GateInit, Heeded, Under
<1> QED
  BY <1>1, <1>2, <1>3, <1>4, <1>5 DEF IndInv, Kept, Minted, AllAlone

LEMMA StepKeeps ==
  ASSUME Kept, Step
  PROVE  Kept'
<1>1. ASSUME NEW c \in Callers, NEW i \in Investigations,
             \/ OpenInvestigation(c, i) \/ PullBegin(c, i) \/ AbandonBegin(c, i)
             \/ \E f \in Findings : RecordBegin(c, i, f) \/ DropBegin(c, i, f)
             \/ \E verdict \in {"findings", "null_result"} : ConcludeBegin(c, i, verdict)
      PROVE  Kept'
  BY <1>1, OpenKeeps, BeginsKeep
<1>2. ASSUME NEW c \in Callers,
             \/ \E f \in Findings : Mint(c, f) \/ MintFails(c, f)
             \/ Pull(c) \/ Record(c) \/ Drop(c) \/ Abandon(c)
             \/ SetClaim(c) \/ SetAsserted(c) \/ Conclude(c)
      PROVE  Kept'
  BY <1>2, MintKeeps, MintFailsKeeps, PullKeeps, RecordKeeps, DropKeeps, AbandonKeeps,
     SetClaimKeeps, SetAssertedKeeps, ConcludeKeeps
<1>3. CASE \E i \in Investigations : Lapse(i)
  BY <1>3, LapseKeeps
<1>4. CASE (\E m \in Sweepers : Sweep(m)) \/ Channel \/ Ack
  <2>1. UNCHANGED <<inv, finding, memory, call, unsure>>
    BY <1>4 DEF Sweep, Channel, Ack, rows
  <2> QED
    BY <2>1, NothingKeeps
<1>5. CASE Crash
  BY <1>5, CrashKeeps
<1> QED
  BY <1>1, <1>2, <1>3, <1>4, <1>5 DEF Step

LEMMA StepHeeds ==
  ASSUME Heeded, Next
  PROVE  Heeded'
<1>1. Witness(Violations') /\ Step
  BY DEF Next
<1>2. CASE UNCHANGED gate
  BY <1>1, <1>2, GateStays DEF gate
<1>3. CASE Crash
  <2>1. Violations' = Violations
    BY <1>3 DEF Crash, rows, Violations, StaleOpen, ConcludedUnminted, AssertedWithoutClaim,
       ClaimsResolve, Connectivity, IsOpen
  <2> QED
    BY <1>1, <1>3, <2>1, RestartLogs DEF Crash
<1>4. CASE \E m \in Sweepers : Sweep(m)
  BY <1>1, <1>4, SweepReads, SweepIsLogged DEF Sweep
<1>5. CASE Ack
  BY <1>1, <1>5, GateStays DEF Ack, Acknowledge
<1>6. ASSUME NEW c \in Callers, NEW i \in Investigations,
             \/ OpenInvestigation(c, i) \/ PullBegin(c, i) \/ AbandonBegin(c, i)
             \/ \E f \in Findings : RecordBegin(c, i, f) \/ DropBegin(c, i, f)
             \/ \E verdict \in {"findings", "null_result"} : ConcludeBegin(c, i, verdict)
      PROVE  UNCHANGED gate
  BY <1>6 DEF OpenInvestigation, PullBegin, AbandonBegin, RecordBegin, DropBegin,
     ConcludeBegin, Begin
<1>7. ASSUME NEW c \in Callers,
             \/ \E f \in Findings : Mint(c, f) \/ MintFails(c, f)
             \/ Pull(c) \/ Record(c) \/ Drop(c) \/ Abandon(c)
             \/ SetClaim(c) \/ SetAsserted(c) \/ Conclude(c)
      PROVE  UNCHANGED gate
  BY <1>7 DEF Mint, MintFails, Pull, Record, Drop, Abandon, SetClaim, SetAsserted, Conclude
<1>8. (\E i \in Investigations : Lapse(i)) \/ Channel => UNCHANGED gate
  BY DEF Lapse, Channel
<1> QED
  BY <1>1, <1>2, <1>3, <1>4, <1>5, <1>6, <1>7, <1>8 DEF Step

LEMMA NextKeeps ==
  ASSUME IndInv, [Next]_vars
  PROVE  IndInv'
<1>1. CASE Next
  BY <1>1, StepKeeps, StepHeeds DEF IndInv, Next
<1>2. CASE UNCHANGED vars
  <2>1. Kept'
    BY <1>2, NothingKeeps DEF IndInv, vars, rows
  <2>2. Heeded'
    BY <1>2 DEF IndInv, vars, rows, gateVars, gate, Heeded, Under, Violations, StaleOpen,
       ConcludedUnminted, AssertedWithoutClaim, ClaimsResolve, Connectivity, IsOpen
  <2> QED
    BY <2>1, <2>2 DEF IndInv
<1> QED
  BY <1>1, <1>2

\* The investigations keep to the inductive invariant.
THEOREM Invariance == Spec => []IndInv
BY InitIsInductive, NextKeeps, PTL DEF Spec

\* The rows are of their types, and no finding is of an investigation that was
\* never opened.
THEOREM TypeCorrect == Spec => []TypeOK
<1>1. IndInv => TypeOK
  BY DEF IndInv, Kept, Types, Minted, Rows, TypeOK, NoFinding
<1> QED
  BY <1>1, Invariance, PTL

\* conclude_investigation asserts no finding whose claim the claims server does
\* not have, wherever the process dies and whatever else is called meanwhile.
THEOREM ClaimsAreMinted == Spec => []AssertedHasClaim
<1>1. IndInv => AssertedHasClaim
  BY DEF IndInv, Kept, Minted, Rows, AssertedHasClaim, AssertedWithoutClaim, ClaimsResolve
<1> QED
  BY <1>1, Invariance, PTL

\* An investigation that no two calls met on, and whose conclusion was not cut
\* short, is distilled exactly.
THEOREM Distillation == Spec => []DistilledWhenAlone
<1>1. ASSUME IndInv, NEW i \in Investigations \ unsure, \A c \in Callers : call[c].of # {i}
      PROVE  Rested(i)
  <2>1. About(i) = {} /\ Alone(i)
    BY <1>1 DEF About, IndInv, Kept, AllAlone
  <2>2. Between(i) = {} /\ ~Minting(i)
    BY <2>1 DEF Between, Minting
  <2> QED
    BY <2>1, <2>2 DEF Alone, Rested
<1>2. IndInv => DistilledWhenAlone
  BY <1>1 DEF DistilledWhenAlone, Rested, Asserted
<1> QED
  BY <1>2, Invariance, PTL

\* A violation that was logged gates the writes as long as it holds and nobody
\* acknowledges it, unless two sweeps have overlapped.
THEOREM DebtsAreHeeded == Spec => []LoggedDebtGates
<1>1. IndInv => LoggedDebtGates
  BY DEF IndInv, Heeded, LoggedDebtGates, DebtIsSeen, Open, Acked
<1> QED
  BY <1>1, Invariance, PTL

===============================================================================
