--------------------------- MODULE SealedRun_proofs ---------------------------
(***************************************************************************)
(* That a sandboxed run reads what was sealed, that its manifest says what *)
(* it read, and that the checks flag the rest, for any files, texts and    *)
(* trials.                                                                 *)
(*                                                                         *)
(* The inductive invariant, IndInv, is the types and, of each trial: its   *)
(* bundle holds the texts of the files it took (Bundled), each known with  *)
(* the path it was first found under, which never changes (Known); nothing *)
(* has been read or recorded before its time (Untouched); each overlay is  *)
(* a sealed text of its path, and a file bundle has one for each path      *)
(* (Overlaid); what was read is the overlay, or the file as it still is    *)
(* unless it has been edited (Delivered); and, of a recorded run, what is  *)
(* to be shown of it, which nothing that it rests on changes any more.     *)
(*                                                                         *)
(* The files a run leaves, beside it in MCSealedRun, have FilesInv.        *)
(***************************************************************************)
EXTENDS MCSealedRun, FiniteSetTheorems, WellFoundedInduction, TLAPS

Stages == {"designed", "hash", "parse", "captured", "staged", "refused", "spawning",
           "running", "ended", "recorded"}

Jobs ==
  [at : Stages, ref : Files \cup {Unknown, Host}, cur : Files \cup {Unknown},
   todo : SUBSET Code, seen : SUBSET Files, took : SUBSET (Files \X Texts),
   sealed : Seq(Texts), overlay : UNION {[D -> Texts] : D \in SUBSET Code},
   denied : SUBSET Holdout, toread : SUBSET Seq(Files), inputs : SUBSET Data,
   ran : SUBSET (Files \X Texts), barred : SUBSET Holdout, ok : BOOLEAN,
   manifest : SUBSET (Files \X (Texts \cup {Gone})), noted : SUBSET Files]

Types ==
  /\ live \in [Files -> Texts \cup {Gone}]
  /\ snippets \in [Texts -> Code \cup {NoPath, Unknown}]
  /\ job \in [Trials -> Jobs]
  /\ moved \in [Trials -> SUBSET Files]

Sealed(t) == ToSet(job[t].sealed)
RunYet(t) == job[t].at \in {"running", "ended", "recorded"}
Shadowed(t, f) == Sandboxed /\ f \in Targets(t)

Bundled(t) ==
  /\ IF FileBundle(t) THEN Sealed(t) = {r[2] : r \in job[t].took} ELSE job[t].took = {}
  /\ job[t].at # "designed" => job[t].ref # Unknown
  /\ job[t].at \in {"hash", "parse"} => FileBundle(t)
  /\ job[t].at = "parse" => job[t].cur \in Files

Known(t) == \A c \in Sealed(t) : snippets[c] # Unknown

Untouched(t) ==
  /\ ~RunYet(t) => job[t].ran = {} /\ job[t].barred = {}
  /\ job[t].at # "recorded" => job[t].manifest = {}

Overlaid(t) ==
  /\ \A f \in Targets(t) : job[t].overlay[f] \in Sealed(t) /\ snippets[job[t].overlay[f]] = f
  /\ FileBundle(t) /\ job[t].at \notin {"designed", "hash", "parse", "captured"} =>
       Paths(t) \subseteq Targets(t)

\* What the run read.
Delivered(t) ==
  \A r \in job[t].ran :
    /\ Shadowed(t, r[1]) => r[2] = job[t].overlay[r[1]]
    /\ ~Shadowed(t, r[1]) /\ r[1] \notin moved[t] /\ job[t].at # "recorded" => r[2] = live[r[1]]

Recorded(t) == job[t].at = "recorded" => Truthful(t) /\ Accounted(t)

Sound(t) ==
  Bundled(t) /\ Known(t) /\ Untouched(t) /\ Overlaid(t) /\ Delivered(t) /\ Recorded(t)

IndInv == Types /\ \A t \in Trials : Sound(t)

-----------------------------------------------------------------------------
\* A set of numbers that is not empty has a least element, and a greatest one
\* when it is bounded.
Less == {ss \in Nat \X Nat : ss[1] < ss[2]}

LEMMA LessIsWellFounded == IsWellFoundedOn(Less, Nat)
BY NatLessThanWellFounded DEF OpToRel, Less

LEMMA LeastExists ==
  ASSUME NEW S \in SUBSET Nat, S # {}
  PROVE  \E i \in S : \A j \in S : i =< j
<1>1. PICK i \in S : \A j \in S : ~(<<j, i>> \in Less)
  BY LessIsWellFounded, WFMin
<1>2. ASSUME NEW j \in S
      PROVE  i =< j
  <2>1. ~(<<j, i>> \in Less) /\ <<j, i>> \in Nat \X Nat
    BY <1>1
  <2> QED
    BY <2>1 DEF Less
<1> QED
  BY <1>2

LEMMA MinIsElement ==
  ASSUME NEW S \in SUBSET Nat, S # {}
  PROVE  Min(S) \in S
BY LeastExists DEF Min

LEMMA MaxIsElement ==
  ASSUME NEW n \in Nat, NEW S \in SUBSET (1 .. n), S # {}
  PROVE  Max(S) \in S
<1> DEFINE T == {n - i : i \in S}
<1>1. T \in SUBSET Nat /\ T # {}
  <2>1. \A i \in S : n - i \in Nat
    OBVIOUS
  <2> QED
    BY <2>1
<1>2. PICK least \in T : \A j \in T : least =< j
  <2> HIDE DEF T
  <2> QED
    BY <1>1, LeastExists
<1>3. PICK i \in S : least = n - i
  BY <1>2
<1>4. ASSUME NEW j \in S
      PROVE  i >= j
  <2>1. n - i =< n - j
    BY <1>2, <1>3
  <2> QED
    BY <2>1
<1> QED
  BY <1>4 DEF Max

LEMMA FirstIsOne ==
  ASSUME NEW t, job[t].sealed \in Seq(Texts), NEW f \in Paths(t)
  PROVE  FirstOf(t, f) \in 1 .. Len(job[t].sealed) /\ snippets[job[t].sealed[FirstOf(t, f)]] = f
<1> DEFINE I == {i \in 1 .. Len(job[t].sealed) : snippets[job[t].sealed[i]] = f}
<1>1. I # {} /\ I \in SUBSET Nat
  BY DEF Paths, ToSet
<1>2. FirstOf(t, f) = IF I # {} THEN Min(I) ELSE 0
  BY DEF FirstOf, SelectInSeq
<1> HIDE DEF I
<1>3. FirstOf(t, f) \in I
  BY <1>1, <1>2, MinIsElement
<1> QED
  BY <1>3 DEF I

LEMMA LastIsOne ==
  ASSUME NEW t, job[t].sealed \in Seq(Texts), NEW f \in Paths(t)
  PROVE  LastOf(t, f) \in 1 .. Len(job[t].sealed) /\ snippets[job[t].sealed[LastOf(t, f)]] = f
<1> DEFINE I == {i \in 1 .. Len(job[t].sealed) : snippets[job[t].sealed[i]] = f}
<1>1. I # {} /\ I \in SUBSET (1 .. Len(job[t].sealed)) /\ Len(job[t].sealed) \in Nat
  BY DEF Paths, ToSet
<1>2. LastOf(t, f) = IF I # {} THEN Max(I) ELSE 0
  BY DEF LastOf, SelectLastInSeq
<1> HIDE DEF I
<1>3. LastOf(t, f) \in I
  BY <1>1, <1>2, MaxIsElement
<1> QED
  BY <1>3 DEF I

LEMMA ResolvedIsThere ==
  ASSUME NEW A, NEW list \in Seq(A), NEW there
  PROVE  Resolved(list, there) \subseteq A \cap there \cap ToSet(list)
<1> DEFINE I == {i \in 1 .. Len(list) : list[i] \in there}
           k == SelectInSeq(list, LAMBDA f : f \in there)
<1>1. k = IF I # {} THEN Min(I) ELSE 0
  BY DEF SelectInSeq
<1>2. Resolved(list, there) = IF k = 0 THEN {} ELSE {list[k]}
  BY DEF Resolved
<1>3. I \in SUBSET Nat /\ I \in SUBSET (1 .. Len(list)) /\ Len(list) \in Nat
  OBVIOUS
<1> HIDE DEF k
<1>4. CASE I = {}
  BY <1>1, <1>2, <1>4
<1>5. CASE I # {}
  <2>1. k \in I
    BY <1>1, <1>3, <1>5, MinIsElement
  <2>2. list[k] \in A \cap there \cap ToSet(list)
    BY <2>1 DEF ToSet
  <2> QED
    BY <1>2, <2>2
<1> QED
  BY <1>4, <1>5

LEMMA FoundIsCode ==
  ASSUME NEW c \in Texts
  PROVE  Found(c) \subseteq Code
<1>1. ASSUME NEW ref \in Imports[c]
      PROVE  Resolved(ref.search, There) \subseteq Code
  BY <1>1, SealedRunAssumption, ResolvedIsThere
<1>2. ASSUME NEW literal \in Literals[c]
      PROVE  Spawned(literal) \subseteq Code
  BY <1>2, SealedRunAssumption DEF Spawned
<1> SUFFICES ASSUME NEW f \in Found(c)
             PROVE  f \in Code
  OBVIOUS
<1>3. CASE \E ref \in Imports[c] : f \in Resolved(ref.search, There)
  BY <1>1, <1>3
<1>4. CASE \E literal \in Literals[c] : f \in Spawned(literal)
  BY <1>2, <1>4
<1> QED
  BY <1>3, <1>4 DEF Found

LEMMA ExtraIsListed ==
  ASSUME NEW S, IsFiniteSet(S)
  PROVE  SetToSeq(S) \in Seq(S)
<1>1. PICK n \in Nat : ExistsBijection(1 .. n, S)
  BY FS_NatBijection
<1>2. Cardinality(S) = n
  BY <1>1, FS_CountingElements
<1>3. \E f \in [1 .. n -> S] : IsInjective(f)
  BY <1>1 DEF ExistsBijection, Bijection, Injection, IsInjective
<1>4. SetToSeq(S) \in [1 .. n -> S]
  BY <1>2, <1>3 DEF SetToSeq
<1> QED
  BY <1>4
-----------------------------------------------------------------------------
(***************************************************************************)
(* Types.                                                                  *)
(***************************************************************************)
LEMMA FreshIsJob == Fresh \in Jobs
<1>1. <<>> \in Seq(Texts)
  OBVIOUS
<1>2. <<>> \in UNION {[D -> Texts] : D \in SUBSET Code}
  <2>1. <<>> \in [{} -> Texts]
    OBVIOUS
  <2> QED
    BY <2>1
<1> QED
  BY <1>1, <1>2 DEF Fresh, Jobs, Stages

LEMMA PathsAreCode ==
  ASSUME Types, NEW t \in Trials, Known(t)
  PROVE  Paths(t) \subseteq Code
<1>1. job[t].sealed \in Seq(Texts)
  BY DEF Types, Jobs
<1> QED
  BY <1>1 DEF Types, Known, Sealed, Paths, ToSet

LEMMA OverlaysAreSealed ==
  ASSUME Types, NEW t \in Trials, Known(t)
  PROVE  /\ Overlays(t) \in UNION {[D -> Texts] : D \in SUBSET Code}
         /\ \A f \in DOMAIN Overlays(t) : Overlays(t)[f] \in Sealed(t) /\ snippets[Overlays(t)[f]] = f
         /\ FileBundle(t) => DOMAIN Overlays(t) = Paths(t)
<1>1. job[t].sealed \in Seq(Texts)
  BY DEF Types, Jobs
<1>2. ASSUME NEW f \in Paths(t)
      PROVE  Staged(t)[f] \in Texts \cap Sealed(t) /\ snippets[Staged(t)[f]] = f
  BY <1>1, <1>2, FirstIsOne DEF Staged, Sealed, ToSet
<1>3. PICK D \in SUBSET Paths(t) : Overlays(t) = [f \in D |-> Staged(t)[f]] /\ (FileBundle(t) => D = Paths(t))
  <2>1. CASE FileBundle(t)
    <3>1. Staged(t) = [f \in Paths(t) |-> Staged(t)[f]]
      BY DEF Staged
    <3> QED
      BY <2>1, <3>1 DEF Overlays
  <2>2. CASE ~FileBundle(t)
    BY <2>2 DEF Overlays
  <2> QED
    BY <2>1, <2>2
<1>4. D \in SUBSET Code
  BY <1>3, PathsAreCode
<1>5. Overlays(t) \in [D -> Texts]
  BY <1>2, <1>3
<1> QED
  BY <1>2, <1>3, <1>4, <1>5

LEMMA ServedIsText ==
  ASSUME Types, NEW t \in Trials, NEW f \in Visible(t), f \notin job[t].denied
  PROVE  Served(t, f) \in Texts
<1>1. f \in Files /\ Served(t, f) # Gone
  BY DEF Visible
<1>2. job[t].overlay \in UNION {[D -> Texts] : D \in SUBSET Code}
  BY DEF Types, Jobs
<1>3. PICK D \in SUBSET Code : job[t].overlay \in [D -> Texts]
  BY <1>2
<1> QED
  BY <1>1, <1>3 DEF Served, Targets, Types

LEMMA RequestsAreLists ==
  ASSUME NEW c \in Texts
  PROVE  Requests(c) \subseteq Seq(Files)
<1>1. \A ref \in Imports[c] : ref.load \in Seq(Files)
  <2>1. \A ref \in Imports[c] : ref.load \in Seq(Code)
    BY SealedRunAssumption
  <2> QED
    BY <2>1 DEF Code
<1>2. \A f \in Opens[c] : <<f>> \in Seq(Files)
  BY SealedRunAssumption
<1> QED
  BY <1>1, <1>2 DEF Requests

LEMMA ReadIsOfAFile ==
  ASSUME Types, NEW t \in Trials, Read(t)
  PROVE  \E f \in Files, toread \in SUBSET Seq(Files) :
           \/ /\ f \in job[t].denied
              /\ job' = [job EXCEPT ![t] = [job[t] EXCEPT !.toread = toread, !.barred = job[t].barred \cup {f}]]
           \/ /\ Served(t, f) \in Texts
              /\ job' = [job EXCEPT ![t] = [job[t] EXCEPT !.toread = toread,
                                                       !.ran = job[t].ran \cup {<<f, Served(t, f)>>}]]
<1> DEFINE once(f) == {r \in job[t].toread : f \notin ToSet(r)}
           new(f) == {r \in Requests(Served(t, f)) : ToSet(r) \cap (Touched(t) \cup {f}) = {}}
<1>1. job[t] \in Jobs /\ job \in [Trials -> Jobs]
  BY DEF Types
<1>2. PICK request \in job[t].toread : \E f \in Resolved(request, Visible(t)) :
        IF f \in job[t].denied
        THEN job' = [job EXCEPT ![t].toread = once(f), ![t].barred = @ \cup {f}]
        ELSE job' = [job EXCEPT ![t].ran = @ \cup {<<f, Served(t, f)>>}, ![t].toread = once(f) \cup new(f)]
  BY DEF Read
<1>3. PICK f \in Resolved(request, Visible(t)) :
        IF f \in job[t].denied
        THEN job' = [job EXCEPT ![t].toread = once(f), ![t].barred = @ \cup {f}]
        ELSE job' = [job EXCEPT ![t].ran = @ \cup {<<f, Served(t, f)>>}, ![t].toread = once(f) \cup new(f)]
  BY <1>2
<1>4. f \in Files /\ f \in Visible(t)
  BY <1>1, ResolvedIsThere DEF Jobs
<1>5. once(f) \in SUBSET Seq(Files)
  BY <1>1 DEF Jobs
<1>6. CASE f \in job[t].denied
  <2>1. job' = [job EXCEPT ![t] = [job[t] EXCEPT !.toread = once(f), !.barred = job[t].barred \cup {f}]]
    BY <1>1, <1>3, <1>6
  <2> HIDE DEF once
  <2> QED
    BY <1>4, <1>5, <1>6, <2>1
<1>7. CASE f \notin job[t].denied
  <2>1. Served(t, f) \in Texts
    BY <1>4, <1>7, ServedIsText
  <2>2. once(f) \cup new(f) \in SUBSET Seq(Files)
    BY <1>5, <2>1, RequestsAreLists
  <2> HIDE DEF once, new
  <2>3. job' = [job EXCEPT ![t] = [job[t] EXCEPT !.toread = once(f) \cup new(f),
                                                 !.ran = job[t].ran \cup {<<f, Served(t, f)>>}]]
    BY <1>1, <1>3, <1>7
  <2> QED
    BY <1>4, <2>1, <2>2, <2>3
<1> QED
  BY <1>6, <1>7

LEMMA StartTypes ==
  ASSUME Init
  PROVE  Types
<1>1. job \in [Trials -> Jobs]
  BY FreshIsJob DEF Init
<1>2. live \in [Files -> Texts \cup {Gone}]
  BY SealedRunAssumption DEF Init
<1> QED
  BY <1>1, <1>2 DEF Init, Types

LEMMA KeepTypes ==
  ASSUME Types, NEW c \in Texts, NEW f \in Code \cup {NoPath}
  PROVE  Keep(snippets, c, f) \in [Texts -> Code \cup {NoPath, Unknown}]
BY DEF Types, Keep

LEMMA JobTypes ==
  ASSUME Types, NEW t \in Trials, NEW j \in Jobs, job' = [job EXCEPT ![t] = j]
  PROVE  job' \in [Trials -> Jobs]
BY DEF Types

LEMMA CaptureTypes ==
  ASSUME IndInv, NEW t \in Trials,
         \/ \E f \in Files : CaptureBegin(t, f)
         \/ CaptureHash(t) \/ CaptureParse(t) \/ CaptureExtra(t) \/ CaptureLink(t)
  PROVE  job' \in [Trials -> Jobs] /\ snippets' \in [Texts -> Code \cup {NoPath, Unknown}]
<1> USE DEF Stages
<1>1. Types /\ job[t] \in Jobs /\ job \in [Trials -> Jobs] /\ snippets \in [Texts -> Code \cup {NoPath, Unknown}]
  BY DEF IndInv, Types
<1>2. ASSUME NEW f \in Files, CaptureBegin(t, f)
      PROVE  job' \in [Trials -> Jobs] /\ UNCHANGED snippets
  <2>1. f \in Code
    BY <1>2 DEF CaptureBegin, There, Code
  <2>2. [Fresh EXCEPT !.at = "hash", !.ref = f, !.todo = {f}, !.seen = {f}] \in Jobs
    BY <2>1, FreshIsJob, ZenonT(60) DEF Jobs, Code
  <2> QED
    BY <1>1, <1>2, <2>2, JobTypes DEF CaptureBegin
<1>3. ASSUME CaptureHash(t)
      PROVE  job' \in [Trials -> Jobs] /\ snippets' \in [Texts -> Code \cup {NoPath, Unknown}]
  <2>1. PICK f \in job[t].todo :
          IF live[f] = Gone
          THEN job' = [job EXCEPT ![t] = Fresh] /\ UNCHANGED snippets
          ELSE /\ snippets' = Keep(snippets, live[f], f)
               /\ job' = [job EXCEPT ![t].at = "parse", ![t].cur = f, ![t].todo = @ \ {f},
                                     ![t].took = @ \cup {<<f, live[f]>>},
                                     ![t].sealed = Sealing(t, live[f])]
    BY <1>3 DEF CaptureHash
  <2>2. f \in Code /\ f \in Files /\ live[f] \in Texts \cup {Gone}
    BY <1>1 DEF Jobs, Types, Code
  <2>3. CASE live[f] = Gone
    BY <1>1, <2>1, <2>3, FreshIsJob
  <2>4. CASE live[f] # Gone
    <3>1. live[f] \in Texts
      BY <2>2, <2>4
    <3>2. Sealing(t, live[f]) \in Seq(Texts)
      BY <1>1, <3>1 DEF Sealing, Jobs
    <3>3. ASSUME NEW took \in SUBSET (Files \X Texts), NEW todo \in SUBSET Code, NEW sealed \in Seq(Texts)
          PROVE  [job[t] EXCEPT !.at = "parse", !.cur = f, !.todo = todo,
                                !.took = took, !.sealed = sealed] \in Jobs
      BY <1>1, <2>2, ZenonT(60) DEF Jobs
    <3>4. job[t].todo \ {f} \in SUBSET Code /\ job[t].took \cup {<<f, live[f]>>} \in SUBSET (Files \X Texts)
      BY <1>1, <2>2, <3>1 DEF Jobs
    <3>5. [job[t] EXCEPT !.at = "parse", !.cur = f, !.todo = @ \ {f},
                         !.took = @ \cup {<<f, live[f]>>}, !.sealed = Sealing(t, live[f])] \in Jobs
      BY <3>2, <3>3, <3>4
    <3>6. job' = [job EXCEPT ![t] = [job[t] EXCEPT !.at = "parse", !.cur = f, !.todo = @ \ {f},
                         !.took = @ \cup {<<f, live[f]>>}, !.sealed = Sealing(t, live[f])]]
      BY <1>1, <2>1, <2>4
    <3>7. snippets' \in [Texts -> Code \cup {NoPath, Unknown}]
      BY <1>1, <2>1, <2>2, <2>4, <3>1, KeepTypes
    <3> QED
      BY <1>1, <3>5, <3>6, <3>7, JobTypes
  <2> QED
    BY <2>2, <2>3, <2>4
<1>4. ASSUME CaptureParse(t)
      PROVE  job' \in [Trials -> Jobs] /\ UNCHANGED snippets
  <2>1. PICK new : /\ new = IF live[job[t].cur] = Gone THEN {} ELSE Found(live[job[t].cur]) \ job[t].seen
                   /\ job' = [job EXCEPT ![t].at = "hash", ![t].todo = @ \cup new, ![t].seen = @ \cup new]
    BY <1>4 DEF CaptureParse
  <2>2. job[t].cur \in Files
    BY <1>4 DEF IndInv, Sound, Bundled, CaptureParse
  <2>3. new \in SUBSET Code /\ new \in SUBSET Files
    BY <1>1, <2>1, <2>2, FoundIsCode DEF Types, Code
  <2>4. [job[t] EXCEPT !.at = "hash", !.todo = @ \cup new, !.seen = @ \cup new] \in Jobs
    BY <1>1, <2>3, ZenonT(60) DEF Jobs
  <2> QED
    BY <1>1, <1>4, <2>1, <2>4 DEF CaptureParse
<1>5. ASSUME CaptureExtra(t)
      PROVE  job' \in [Trials -> Jobs] /\ UNCHANGED snippets
  <2>1. PICK f \in Extra : job' = [job EXCEPT ![t].todo = {f}, ![t].seen = {f}]
    BY <1>5 DEF CaptureExtra
  <2>2. f \in Code /\ f \in Files
    BY SealedRunAssumption DEF Code
  <2>3. [job[t] EXCEPT !.todo = {f}, !.seen = {f}] \in Jobs
    BY <1>1, <2>2, ZenonT(60) DEF Jobs
  <2> QED
    BY <1>1, <1>5, <2>1, <2>3 DEF CaptureExtra
<1>6. ASSUME CaptureLink(t)
      PROVE  job' \in [Trials -> Jobs] /\ UNCHANGED snippets
  <2>1. [job[t] EXCEPT !.at = "captured"] \in Jobs
    BY <1>1, ZenonT(60) DEF Jobs
  <2> QED
    BY <1>1, <1>6, <2>1 DEF CaptureLink
<1> QED
  BY <1>1, <1>2, <1>3, <1>4, <1>5, <1>6

LEMMA ByHashTypes ==
  ASSUME IndInv, NEW t \in Trials, NEW c \in Texts, NEW extra \in ExtraHashes,
         CaptureByHash(t, c, extra)
  PROVE  job' \in [Trials -> Jobs] /\ snippets' \in [Texts -> Code \cup {NoPath, Unknown}]
<1>1. Types /\ job \in [Trials -> Jobs]
  BY DEF IndInv, Types
<1>2. IsFiniteSet(extra \ {c}) /\ extra \ {c} \subseteq Texts
  BY SealedRunAssumption, FS_Subset
<1>3. SetToSeq(extra \ {c}) \in Seq(Texts)
  BY <1>2, ExtraIsListed
<1>4. <<c>> \o SetToSeq(extra \ {c}) \in Seq(Texts)
  BY <1>3
<1>5. [Fresh EXCEPT !.at = "captured", !.ref = Host, !.sealed = <<c>> \o SetToSeq(extra \ {c})] \in Jobs
  BY <1>4, FreshIsJob, ZenonT(60) DEF Jobs, Stages
<1> QED
  BY <1>1, <1>5, KeepTypes, JobTypes DEF CaptureByHash

LEMMA RunTypes ==
  ASSUME IndInv, NEW t \in Trials,
         Stage(t) \/ Launch(t) \/ Spawn(t) \/ Read(t) \/ RunEnd(t)
  PROVE  job' \in [Trials -> Jobs]
<1> USE DEF Stages
<1>1. Types /\ job[t] \in Jobs /\ job \in [Trials -> Jobs] /\ Known(t)
  BY DEF IndInv, Types, Sound
<1>2. ASSUME Stage(t)
      PROVE  job' \in [Trials -> Jobs]
  <2>1. PICK inputs \in Declared :
          job' = [job EXCEPT ![t].at = "staged", ![t].overlay = Overlays(t), ![t].inputs = inputs,
                             ![t].toread = {<<f>> : f \in Wrapped(t)}]
    BY <1>2 DEF Stage
  <2>2. inputs \in SUBSET Data
    BY SealedRunAssumption
  <2>3. {<<f>> : f \in Wrapped(t)} \in SUBSET Seq(Files)
    <3>1. Wrapped(t) \subseteq Files
      <4>1. job[t].sealed \in Seq(Texts) /\ job[t].ref \in Files \cup {Unknown, Host} /\ job[t].ref # Unknown
        BY <1>1, <1>2 DEF Jobs, IndInv, Sound, Bundled, Stage
      <4>2. \A c \in ToSet(job[t].sealed) : Opens[c] \in SUBSET Files
        BY <4>1, SealedRunAssumption DEF ToSet
      <4> QED
        BY <4>1, <4>2 DEF Wrapped, FileBundle
    <3>2. \A f \in Files : <<f>> \in Seq(Files)
      OBVIOUS
    <3> QED
      BY <3>1, <3>2
  <2>4. Overlays(t) \in UNION {[D -> Texts] : D \in SUBSET Code}
    BY <1>1, OverlaysAreSealed
  <2>5. [job[t] EXCEPT !.at = "staged", !.overlay = Overlays(t), !.inputs = inputs,
                       !.toread = {<<f>> : f \in Wrapped(t)}] \in Jobs
    BY <1>1, <2>2, <2>3, <2>4, ZenonT(60) DEF Jobs
  <2> QED
    BY <1>1, <2>1, <2>5
<1>3. ASSUME Launch(t)
      PROVE  job' \in [Trials -> Jobs]
  <2>1. PICK at \in {"refused", "spawning"}, denied \in SUBSET Holdout :
          job' = [job EXCEPT ![t].at = at, ![t].denied = denied]
    BY <1>3 DEF Launch
  <2>2. [job[t] EXCEPT !.at = at, !.denied = denied] \in Jobs
    BY <1>1, ZenonT(60) DEF Jobs
  <2> QED
    BY <1>1, <2>1, <2>2
<1>4. ASSUME Spawn(t)
      PROVE  job' \in [Trials -> Jobs]
  <2>1. PICK at \in {"refused", "running"} : job' = [job EXCEPT ![t].at = at]
    BY <1>4 DEF Spawn
  <2>2. [job[t] EXCEPT !.at = at] \in Jobs
    BY <1>1, ZenonT(60) DEF Jobs
  <2> QED
    BY <1>1, <2>1, <2>2
<1>5. ASSUME Read(t)
      PROVE  job' \in [Trials -> Jobs]
  <2>1. PICK f \in Files, toread \in SUBSET Seq(Files) :
          \/ /\ f \in job[t].denied
             /\ job' = [job EXCEPT ![t] = [job[t] EXCEPT !.toread = toread, !.barred = job[t].barred \cup {f}]]
          \/ /\ Served(t, f) \in Texts
             /\ job' = [job EXCEPT ![t] = [job[t] EXCEPT !.toread = toread,
                                                      !.ran = job[t].ran \cup {<<f, Served(t, f)>>}]]
    BY <1>1, <1>5, ReadIsOfAFile
  <2>2. CASE f \in job[t].denied /\
             job' = [job EXCEPT ![t] = [job[t] EXCEPT !.toread = toread, !.barred = job[t].barred \cup {f}]]
    <3>1. ASSUME NEW barred \in SUBSET Holdout
          PROVE  [job[t] EXCEPT !.toread = toread, !.barred = barred] \in Jobs
      BY <1>1, ZenonT(60) DEF Jobs
    <3>2. job[t].barred \cup {f} \in SUBSET Holdout
      BY <1>1, <2>2 DEF Jobs
    <3> QED
      BY <1>1, <2>2, <3>1, <3>2, JobTypes
  <2>3. CASE Served(t, f) \in Texts /\
             job' = [job EXCEPT ![t] = [job[t] EXCEPT !.toread = toread,
                                                      !.ran = job[t].ran \cup {<<f, Served(t, f)>>}]]
    <3>1. ASSUME NEW ran \in SUBSET (Files \X Texts)
          PROVE  [job[t] EXCEPT !.toread = toread, !.ran = ran] \in Jobs
      BY <1>1, ZenonT(60) DEF Jobs
    <3>2. job[t].ran \cup {<<f, Served(t, f)>>} \in SUBSET (Files \X Texts)
      BY <1>1, <2>3 DEF Jobs
    <3> QED
      BY <1>1, <2>3, <3>1, <3>2, JobTypes
  <2> QED
    BY <2>1, <2>2, <2>3
<1>6. ASSUME RunEnd(t)
      PROVE  job' \in [Trials -> Jobs]
  <2>1. PICK ok \in BOOLEAN : job' = [job EXCEPT ![t].at = "ended", ![t].ok = ok]
    BY <1>6 DEF RunEnd
  <2>2. [job[t] EXCEPT !.at = "ended", !.ok = ok] \in Jobs
    BY <1>1, ZenonT(60) DEF Jobs
  <2> QED
    BY <1>1, <2>1, <2>2
<1> QED
  BY <1>2, <1>3, <1>4, <1>5, <1>6

LEMMA RecordTypes ==
  ASSUME IndInv, NEW t \in Trials, Record(t)
  PROVE  job' \in [Trials -> Jobs] /\ snippets' \in [Texts -> Code \cup {NoPath, Unknown}]
<1>1. Types /\ job[t] \in Jobs /\ job \in [Trials -> Jobs] /\ Known(t)
  BY DEF IndInv, Types, Sound
<1>2. CodeRows(t) \in SUBSET (Code \X Texts)
  <2>1. ASSUME NEW f \in Touched(t) \ (Holdout \cup Data), HashOf(t, f) # Gone
        PROVE  f \in Code /\ HashOf(t, f) \in Texts
    <3>1. f \in Code
      BY <1>1, <2>1, SealedRunAssumption DEF Touched, Jobs, Code
    <3>2. HashOf(t, f) \in Texts
      <4>1. job[t].sealed \in Seq(Texts)
        BY <1>1 DEF Jobs
      <4>2. CASE Armed(t) /\ f \in Paths(t)
        BY <4>1, <4>2, LastIsOne DEF HashOf
      <4>3. CASE ~(Armed(t) /\ f \in Paths(t))
        BY <1>1, <2>1, <3>1, <4>3 DEF HashOf, Types, Code
      <4> QED
        BY <4>2, <4>3
    <3> QED
      BY <3>1, <3>2
  <2> QED
    BY <2>1 DEF CodeRows
<1>3. DataRows(t) \in SUBSET (Files \X (Texts \cup {Gone}))
  BY <1>1, SealedRunAssumption DEF DataRows, Types, Jobs
<1>4. Forbidden(t) \in SUBSET Files
  BY <1>1, SealedRunAssumption DEF Forbidden
<1>5. ASSUME NEW rows \in SUBSET (Files \X (Texts \cup {Gone})), NEW noted \in SUBSET Files
      PROVE  [job[t] EXCEPT !.at = "recorded", !.manifest = rows, !.noted = noted] \in Jobs
  BY <1>1, ZenonT(60) DEF Jobs, Stages
<1>6. CodeRows(t) \cup DataRows(t) \in SUBSET (Files \X (Texts \cup {Gone}))
  BY <1>2, <1>3 DEF Code
<1>7. job' = [job EXCEPT ![t] = [job[t] EXCEPT !.at = "recorded", !.manifest = CodeRows(t) \cup DataRows(t),
                                               !.noted = Forbidden(t)]]
  BY <1>1 DEF Record, RecordAs
<1>8. snippets' = [c \in Texts |->
        IF snippets[c] = Unknown /\ \E r \in CodeRows(t) : r[2] = c
        THEN (CHOOSE r \in CodeRows(t) : r[2] = c)[1] ELSE snippets[c]]
  BY DEF Record, RecordAs
<1>9. ASSUME NEW c \in Texts, \E r \in CodeRows(t) : r[2] = c
      PROVE  (CHOOSE r \in CodeRows(t) : r[2] = c)[1] \in Code
  BY <1>2, <1>9
<1>10. snippets' \in [Texts -> Code \cup {NoPath, Unknown}]
  BY <1>1, <1>8, <1>9 DEF Types
<1> QED
  BY <1>1, <1>4, <1>5, <1>6, <1>7, <1>10, JobTypes

LEMMA TypesStep ==
  ASSUME IndInv, [Next]_vars
  PROVE  Types'
<1>1. Types
  BY DEF IndInv
<1>2. ASSUME NEW t \in Trials, Work(t), UNCHANGED <<live, sandbox, enforced, moved>>
      PROVE  Types'
  <2>1. job' \in [Trials -> Jobs] /\ snippets' \in [Texts -> Code \cup {NoPath, Unknown}]
    <3>1. CASE \/ \E f \in Files : CaptureBegin(t, f)
               \/ CaptureHash(t) \/ CaptureParse(t) \/ CaptureExtra(t) \/ CaptureLink(t)
      BY <3>1, CaptureTypes
    <3>2. CASE \E c \in Texts, extra \in ExtraHashes : CaptureByHash(t, c, extra)
      BY <3>2, ByHashTypes
    <3>3. CASE Record(t)
      BY <3>3, RecordTypes
    <3>4. CASE (Stage(t) \/ Launch(t) \/ Spawn(t) \/ Read(t) \/ RunEnd(t)) /\ UNCHANGED snippets
      BY <1>1, <3>4, RunTypes DEF Types
    <3> QED
      BY <1>2, <3>1, <3>2, <3>3, <3>4 DEF Work
  <2> QED
    BY <1>1, <1>2, <2>1 DEF Types
<1>3. ASSUME NEW f \in Files, NEW c \in Holds[f], Edit(f, c)
      PROVE  Types'
  <2>1. c \in Texts \cup {Gone}
    BY SealedRunAssumption
  <2>2. live' \in [Files -> Texts \cup {Gone}]
    BY <1>1, <1>3, <2>1 DEF Types, Edit
  <2>3. moved' \in [Trials -> SUBSET Files]
    BY <1>1, <1>3 DEF Types, Edit
  <2> QED
    BY <1>1, <1>3, <2>2, <2>3 DEF Types, Edit
<1>4. CASE UNCHANGED vars
  BY <1>1, <1>4 DEF Types, vars
<1> QED
  BY <1>2, <1>3, <1>4 DEF Next

-----------------------------------------------------------------------------
(***************************************************************************)
(* The trial that a step is not about.                                     *)
(***************************************************************************)
\* A text that is known stays known under the same path.
PathsStay == \A c \in Texts : snippets[c] # Unknown => snippets'[c] = snippets[c]

LEMMA WorkKeepsPaths ==
  ASSUME IndInv, NEW t \in Trials, Work(t)
  PROVE  PathsStay
<1>1. snippets \in [Texts -> Code \cup {NoPath, Unknown}]
  BY DEF IndInv, Types
<1>2. ASSUME NEW c \in Texts \cup {Gone}, NEW f, snippets' = Keep(snippets, c, f)
      PROVE  PathsStay
  BY <1>1, <1>2 DEF Keep, PathsStay
<1>3. ASSUME CaptureHash(t)
      PROVE  PathsStay
  <2>1. PICK f \in job[t].todo : UNCHANGED snippets \/ snippets' = Keep(snippets, live[f], f)
    BY <1>3 DEF CaptureHash
  <2>2. live[f] \in Texts \cup {Gone}
    BY DEF IndInv, Types, Jobs, Code
  <2> QED
    BY <1>2, <2>1, <2>2 DEF PathsStay
<1>4. ASSUME Record(t)
      PROVE  PathsStay
  BY <1>4 DEF Record, RecordAs, PathsStay
<1>5. ASSUME NEW c \in Texts, NEW extra, CaptureByHash(t, c, extra)
      PROVE  PathsStay
  BY <1>2, <1>5 DEF CaptureByHash
<1>6. CASE UNCHANGED snippets
  BY <1>6 DEF PathsStay
<1> QED
  BY <1>3, <1>4, <1>5, <1>6 DEF Work, CaptureBegin, CaptureParse, CaptureExtra, CaptureLink

LEMMA PathsOfSealed ==
  ASSUME Types, NEW t \in Trials, Known(t), PathsStay, job[t].sealed = job'[t].sealed
  PROVE  /\ Sealed(t)' = Sealed(t) /\ Sealed(t) \subseteq Texts
         /\ \A c \in Sealed(t) : snippets'[c] = snippets[c]
         /\ Known(t)' /\ Paths(t)' = Paths(t)
         /\ \A f : Ambiguous(t, f)' <=> Ambiguous(t, f)
<1>1. job[t].sealed \in Seq(Texts)
  BY DEF Types, Jobs
<1>2. Sealed(t) \subseteq Texts
  BY <1>1 DEF Sealed, ToSet
<1>3. Sealed(t)' = Sealed(t)
  BY DEF Sealed
<1>4. \A c \in Sealed(t) : snippets'[c] = snippets[c]
  BY <1>2 DEF Known, PathsStay
<1>5. Paths(t)' = Paths(t)
  BY <1>3, <1>4 DEF Paths, Sealed
<1>6. \A f : Ambiguous(t, f)' <=> Ambiguous(t, f)
  BY <1>3, <1>4 DEF Ambiguous, Sealed
<1> QED
  BY <1>2, <1>3, <1>4, <1>5, <1>6 DEF Known

LEMMA RecordedStays ==
  ASSUME Types, NEW t \in Trials, Known(t), Recorded(t), PathsStay,
         job'[t] = job[t], sandbox' = sandbox, moved'[t] = moved[t] \/ job[t].at # "recorded"
  PROVE  Recorded(t)'
<1> SUFFICES ASSUME job[t].at = "recorded"
             PROVE  Truthful(t)' /\ Accounted(t)'
  BY DEF Recorded
<1>1. Paths(t)' = Paths(t) /\ \A f : Ambiguous(t, f)' <=> Ambiguous(t, f)
  BY PathsOfSealed
<1>2. Targets(t)' = Targets(t) /\ Touched(t)' = Touched(t) /\ FileBundle(t)' = FileBundle(t)
  BY DEF Targets, Touched, FileBundle
<1>3. Armed(t)' = Armed(t) /\ Unshadowed(t)' = Unshadowed(t)
  BY <1>1, <1>2 DEF Armed, Sandboxed, Unshadowed
<1>4. Truthful(t)'
  BY <1>1, <1>2, <1>3 DEF Recorded, Truthful
<1>5. /\ t \in StraceDivergence => t \in StraceDivergence'
      /\ t \in UnsealedExecution => t \in UnsealedExecution'
      /\ t \in InputDataUndigested => t \in InputDataUndigested'
      /\ t \in SealedAccessAttempts => t \in SealedAccessAttempts'
  BY <1>2, <1>3 DEF StraceDivergence, UnsealedExecution, InputDataUndigested, SealedAccessAttempts,
                    ExecutedCode, Sandboxed
<1>6. Accounted(t)'
  <2>1. Accounted(t) /\ moved'[t] = moved[t]
    BY DEF Recorded
  <2>2. (\A r \in job[t].ran : r[1] \notin moved[t] \cup Holdout \cup Data \cup Unshadowed(t) =>
          Contains(job[t].sealed, r[2]) \/ t \in StraceDivergence \cup UnsealedExecution)'
    BY <1>3, <1>5, <2>1 DEF Accounted, Contains
  <2>3. (\A r \in job[t].ran : r[1] \in Data \ (moved[t] \cup Holdout) => r \in job[t].manifest)'
    BY <2>1 DEF Accounted
  <2>4. (job[t].ok /\ t \notin InputDataUndigested =>
           \A f \in ((Touched(t) \cap Data) \cup job[t].inputs) \ Holdout :
             \E c \in Texts : <<f, c>> \in job[t].manifest)'
    <3>1. job[t].ok /\ t \notin InputDataUndigested =>
            \A f \in ((Touched(t) \cap Data) \cup job[t].inputs) \ Holdout :
              \E c \in Texts : <<f, c>> \in job[t].manifest
      BY <2>1 DEF Accounted
    <3>2. job'[t].ok = job[t].ok /\ job'[t].inputs = job[t].inputs /\ job'[t].manifest = job[t].manifest
      OBVIOUS
    <3>3. ASSUME job[t].ok, t \notin InputDataUndigested',
                 NEW f \in ((Touched(t) \cap Data) \cup job[t].inputs) \ Holdout
          PROVE  \E c \in Texts : <<f, c>> \in job[t].manifest
      BY <1>5, <3>1, <3>3
    <3> QED
      BY <1>2, <3>2, <3>3
  <2>5. (Touched(t) \cap Holdout # {} => t \in SealedAccessAttempts)'
    BY <1>2, <1>5, <2>1 DEF Accounted
  <2> QED
    BY <2>2, <2>3, <2>4, <2>5 DEF Accounted
<1> QED
  BY <1>4, <1>6

LEMMA Undisturbed ==
  ASSUME Types, NEW t \in Trials, Sound(t), PathsStay,
         job'[t] = job[t], sandbox' = sandbox, live' = live, moved' = moved
  PROVE  Sound(t)'
<1>1. Sealed(t)' = Sealed(t) /\ Known(t)' /\ Paths(t)' = Paths(t)
        /\ \A c \in Sealed(t) : snippets'[c] = snippets[c]
  BY PathsOfSealed DEF Sound
<1>2. Bundled(t)' /\ Untouched(t)'
  BY <1>1 DEF Sound, Bundled, Untouched, FileBundle, RunYet
<1>3. Overlaid(t)'
  BY <1>1 DEF Sound, Overlaid, Targets, FileBundle
<1>4. Delivered(t)'
  BY DEF Sound, Delivered, Shadowed, Targets, Sandboxed
<1>5. Recorded(t)'
  BY RecordedStays DEF Sound
<1> QED
  BY <1>1, <1>2, <1>3, <1>4, <1>5 DEF Sound

-----------------------------------------------------------------------------
(***************************************************************************)
(* The trial that a step is about.                                         *)
(***************************************************************************)
LEMMA SealingAdds ==
  ASSUME NEW t, NEW c \in Texts, job[t].sealed \in Seq(Texts)
  PROVE  ToSet(Sealing(t, c)) = ToSet(job[t].sealed) \cup {c}
<1>1. CASE Contains(job[t].sealed, c)
  BY <1>1 DEF Sealing, Contains, ToSet
<1>2. CASE ~Contains(job[t].sealed, c)
  <2>1. PICK s \in Seq(Texts) : s = job[t].sealed
    OBVIOUS
  <2>2. /\ DOMAIN Append(s, c) = 1 .. (Len(s) + 1) /\ DOMAIN s = 1 .. Len(s) /\ Len(s) \in Nat
        /\ \A i \in 1 .. Len(s) : Append(s, c)[i] = s[i]
        /\ Append(s, c)[Len(s) + 1] = c
    OBVIOUS
  <2>3. ToSet(Append(s, c)) = ToSet(s) \cup {c}
    <3>1. \A i \in 1 .. (Len(s) + 1) : i \in 1 .. Len(s) \/ i = Len(s) + 1
      BY <2>2
    <3> QED
      BY <2>2, <3>1 DEF ToSet
  <2> QED
    BY <1>2, <2>1, <2>3 DEF Sealing
<1> QED
  BY <1>1, <1>2

LEMMA SecondsOfMore ==
  ASSUME NEW T, NEW f, NEW c
  PROVE  {r[2] : r \in T \cup {<<f, c>>}} = {r[2] : r \in T} \cup {c}
<1>1. ASSUME NEW e \in {r[2] : r \in T \cup {<<f, c>>}}
      PROVE  e \in {r[2] : r \in T} \cup {c}
  <2>1. PICK r \in T \cup {<<f, c>>} : e = r[2]
    BY <1>1
  <2>2. r \in T \/ e = c
    BY <2>1
  <2> QED
    BY <2>1, <2>2
<1>2. c \in {r[2] : r \in T \cup {<<f, c>>}}
  <2>1. <<f, c>> \in T \cup {<<f, c>>} /\ <<f, c>>[2] = c
    OBVIOUS
  <2> QED
    BY <2>1
<1> QED
  BY <1>1, <1>2

LEMMA CaptureSound ==
  ASSUME IndInv, NEW t \in Trials, PathsStay, UNCHANGED <<live, sandbox, moved>>,
         \/ \E f \in Files : CaptureBegin(t, f)
         \/ CaptureHash(t) \/ CaptureParse(t) \/ CaptureExtra(t) \/ CaptureLink(t)
  PROVE  Sound(t)'
<1>1. Types /\ Sound(t) /\ job[t] \in Jobs /\ job \in [Trials -> Jobs]
  BY DEF IndInv, Types
<1>2. job[t].at \in {"designed", "hash", "parse"} /\ job[t].ran = {} /\ job[t].barred = {} /\ job[t].manifest = {}
  BY <1>1 DEF Sound, Untouched, RunYet, CaptureBegin, CaptureHash, CaptureParse, CaptureExtra,
     CaptureLink
<1>3. ASSUME job'[t].at \in {"designed", "hash", "parse", "captured"},
             job'[t].ran = {}, job'[t].barred = {}, job'[t].manifest = {}, Overlaid(t)', Bundled(t)', Known(t)'
      PROVE  Sound(t)'
  BY <1>3 DEF Sound, Untouched, RunYet, Delivered, Recorded
\* A trial that is captured anew.
<1>4. ASSUME NEW f \in Files \cup {Unknown}, job'[t].ref = f,
             job'[t].at = IF f = Unknown THEN "designed" ELSE "hash",
             job'[t].ran = {}, job'[t].barred = {}, job'[t].manifest = {},
             job'[t].sealed = <<>>, job'[t].took = {}, job'[t].overlay = <<>>
      PROVE  Sound(t)'
  <2>1. Sealed(t)' = {} /\ Targets(t)' = {}
    BY <1>4 DEF Sealed, ToSet, Targets
  <2>2. f # Host
    BY <1>4, SealedRunAssumption DEF Unknown, Host
  <2>3. Bundled(t)'
    BY <1>4, <2>1, <2>2 DEF Bundled, FileBundle
  <2>4. Overlaid(t)' /\ Known(t)'
    BY <1>4, <2>1 DEF Overlaid, Known
  <2> QED
    BY <1>3, <1>4, <2>3, <2>4
\* A trial whose bundle stays.
<1>5. ASSUME job'[t].at \in {"hash", "captured"}, job[t].at # "designed",
             job'[t].ran = job[t].ran, job'[t].barred = job[t].barred,
             job'[t].manifest = job[t].manifest, job'[t].overlay = job[t].overlay, job'[t].ref = job[t].ref,
             job'[t].took = job[t].took, job'[t].sealed = job[t].sealed
      PROVE  Sound(t)'
  <2>1. /\ Sealed(t)' = Sealed(t) /\ Sealed(t) \subseteq Texts /\ Known(t)'
        /\ \A c \in Sealed(t) : snippets'[c] = snippets[c]
    BY <1>1, <1>5, PathsOfSealed DEF Sound
  <2>2. Bundled(t)'
    BY <1>1, <1>2, <1>5, <2>1 DEF Bundled, Sound, FileBundle
  <2>3. Overlaid(t)'
    BY <1>1, <1>5, <2>1 DEF Overlaid, Sound, Targets
  <2> QED
    BY <1>2, <1>3, <1>5, <2>1, <2>2, <2>3
<1>6. ASSUME NEW f \in Files, CaptureBegin(t, f)
      PROVE  Sound(t)'
  <2>1. job'[t] = [Fresh EXCEPT !.at = "hash", !.ref = f, !.todo = {f}, !.seen = {f}]
    BY <1>1, <1>6 DEF CaptureBegin
  <2>2. f # Unknown
    BY SealedRunAssumption
  <2>3. /\ job'[t].at = "hash" /\ job'[t].ran = {} /\ job'[t].barred = {} /\ job'[t].manifest = {}
        /\ job'[t].sealed = <<>> /\ job'[t].took = {} /\ job'[t].overlay = <<>> /\ job'[t].ref = f
    BY <2>1 DEF Fresh
  <2> QED
    BY <1>4, <2>2, <2>3
<1>7. ASSUME CaptureHash(t)
      PROVE  Sound(t)'
  <2>1. PICK f \in job[t].todo :
          IF live[f] = Gone
          THEN job' = [job EXCEPT ![t] = Fresh] /\ UNCHANGED snippets
          ELSE /\ snippets' = Keep(snippets, live[f], f)
               /\ job' = [job EXCEPT ![t].at = "parse", ![t].cur = f, ![t].todo = @ \ {f},
                                     ![t].took = @ \cup {<<f, live[f]>>},
                                     ![t].sealed = Sealing(t, live[f])]
    BY <1>7 DEF CaptureHash
  <2>2. f \in Code /\ f \in Files /\ live[f] \in Texts \cup {Gone}
    BY <1>1 DEF Jobs, Types, Code
  <2>3. CASE live[f] = Gone
    <3>1. job'[t] = Fresh
      BY <1>1, <2>1, <2>3
    <3>2. /\ job'[t].at = "designed" /\ job'[t].ran = {} /\ job'[t].barred = {} /\ job'[t].manifest = {}
          /\ job'[t].sealed = <<>> /\ job'[t].took = {} /\ job'[t].overlay = <<>> /\ job'[t].ref = Unknown
      BY <3>1 DEF Fresh
    <3> QED
      BY <1>4, <3>2
  <2>4. CASE live[f] # Gone
    <3>1. live[f] \in Texts /\ job[t].at = "hash"
      BY <1>7, <2>2, <2>4 DEF CaptureHash
    <3>2. /\ job'[t].at = "parse" /\ job'[t].cur = f /\ job'[t].took = job[t].took \cup {<<f, live[f]>>}
          /\ job'[t].sealed = Sealing(t, live[f]) /\ job'[t].ref = job[t].ref
          /\ job'[t].ran = job[t].ran /\ job'[t].barred = job[t].barred
          /\ job'[t].manifest = job[t].manifest /\ job'[t].overlay = job[t].overlay
      BY <1>1, <2>1, <2>4 DEF Jobs
    <3>3. Sealed(t)' = Sealed(t) \cup {live[f]} /\ Sealed(t) \subseteq Texts
      <4>1. job[t].sealed \in Seq(Texts)
        BY <1>1 DEF Jobs
      <4>2. ToSet(Sealing(t, live[f])) = ToSet(job[t].sealed) \cup {live[f]}
        BY <3>1, <4>1, SealingAdds
      <4> QED
        BY <3>2, <4>1, <4>2 DEF Sealed, ToSet
    <3>4. snippets'[live[f]] # Unknown
      <4>1. f # Unknown
        BY <2>2, SealedRunAssumption
      <4> QED
        BY <1>1, <2>1, <2>4, <3>1, <4>1 DEF Keep, Types
    <3>5. FileBundle(t) /\ job[t].ref # Unknown
      BY <1>1, <3>1 DEF Sound, Bundled
    <3>6. Known(t)'
      BY <1>1, <3>3, <3>4 DEF Known, Sound, PathsStay
    <3>7. Bundled(t)'
      <4>1. Sealed(t) = {r[2] : r \in job[t].took}
        BY <1>1, <3>5 DEF Bundled, Sound
      <4>2. Sealed(t)' = {r[2] : r \in job'[t].took}
        <5>1. {r[2] : r \in job[t].took \cup {<<f, live[f]>>}} = {r[2] : r \in job[t].took} \cup {live[f]}
          BY SecondsOfMore
        <5> QED
          BY <3>2, <3>3, <4>1, <5>1
      <4> QED
        BY <2>2, <3>2, <3>5, <4>2 DEF Bundled, FileBundle
    <3>8. Overlaid(t)'
      BY <1>1, <3>1, <3>2, <3>3 DEF Overlaid, Sound, Targets, PathsStay, Known
    <3> QED
      BY <1>2, <1>3, <3>2, <3>6, <3>7, <3>8
  <2> QED
    BY <2>3, <2>4
<1>8. ASSUME CaptureParse(t) \/ CaptureExtra(t) \/ CaptureLink(t)
      PROVE  Sound(t)'
  <2>1. /\ job'[t].at \in {"hash", "captured"} /\ job[t].at # "designed"
        /\ job'[t].ran = job[t].ran /\ job'[t].barred = job[t].barred
        /\ job'[t].manifest = job[t].manifest /\ job'[t].overlay = job[t].overlay /\ job'[t].ref = job[t].ref
        /\ job'[t].took = job[t].took /\ job'[t].sealed = job[t].sealed
    <3>1. CASE CaptureParse(t)
      <4>1. PICK new : job' = [job EXCEPT ![t].at = "hash", ![t].todo = @ \cup new, ![t].seen = @ \cup new]
        BY <3>1 DEF CaptureParse
      <4> QED
        BY <1>1, <3>1, <4>1 DEF CaptureParse, Jobs
    <3>2. CASE CaptureExtra(t)
      <4>1. PICK f : job' = [job EXCEPT ![t].todo = {f}, ![t].seen = {f}]
        BY <3>2 DEF CaptureExtra
      <4> QED
        BY <1>1, <3>2, <4>1 DEF CaptureExtra, Jobs
    <3>3. CASE CaptureLink(t)
      BY <1>1, <3>3 DEF CaptureLink, Jobs
    <3> QED
      BY <1>8, <3>1, <3>2, <3>3
  <2> QED
    BY <1>5, <2>1
<1> QED
  BY <1>6, <1>7, <1>8

LEMMA ByHashSound ==
  ASSUME IndInv, NEW t \in Trials, PathsStay, NEW c \in Texts, NEW extra \in ExtraHashes,
         CaptureByHash(t, c, extra)
  PROVE  Sound(t)'
<1>1. Types /\ job \in [Trials -> Jobs] /\ snippets \in [Texts -> Code \cup {NoPath, Unknown}]
  BY DEF IndInv, Types
<1>2. IsFiniteSet(extra \ {c}) /\ extra \ {c} \subseteq Texts
  BY SealedRunAssumption, FS_Subset
<1>3. PICK s \in Seq(extra \ {c}) : s = SetToSeq(extra \ {c})
  BY <1>2, ExtraIsListed
<1>4. job'[t] = [Fresh EXCEPT !.at = "captured", !.ref = Host, !.sealed = <<c>> \o s]
  BY <1>1, <1>3 DEF CaptureByHash
<1>5. /\ job'[t].at = "captured" /\ job'[t].ran = {} /\ job'[t].barred = {} /\ job'[t].manifest = {}
      /\ job'[t].sealed = <<c>> \o s /\ job'[t].took = {} /\ job'[t].overlay = <<>> /\ job'[t].ref = Host
  BY <1>4 DEF Fresh
<1>6. Sealed(t)' \subseteq {c} \cup extra
  <2>1. DOMAIN (<<c>> \o s) = 1 .. (1 + Len(s)) /\ Len(s) \in Nat
    OBVIOUS
  <2>2. \A i \in 1 .. (1 + Len(s)) : (<<c>> \o s)[i] \in {c} \cup extra
    OBVIOUS
  <2> QED
    BY <1>5, <2>1, <2>2 DEF Sealed, ToSet
<1>7. snippets'[c] # Unknown
  <2>1. NoPath # Unknown
    BY DEF NoPath, Unknown
  <2> QED
    BY <1>1, <2>1 DEF CaptureByHash, Keep
<1>8. Known(t)'
  <2>1. \A e \in extra : e \in Texts /\ snippets[e] # Unknown
    BY SealedRunAssumption DEF CaptureByHash
  <2> QED
    BY <1>6, <1>7, <2>1 DEF Known, PathsStay
<1>9. Targets(t)' = {}
  BY <1>5 DEF Targets
<1>10. Bundled(t)' /\ Overlaid(t)'
  BY <1>5, <1>9 DEF Bundled, Overlaid, FileBundle, Host, Unknown
<1> QED
  BY <1>5, <1>8, <1>10 DEF Sound, Untouched, RunYet, Delivered, Recorded

LEMMA RunSound ==
  ASSUME IndInv, NEW t \in Trials, UNCHANGED <<live, sandbox, snippets, moved>>,
         Stage(t) \/ Launch(t) \/ Spawn(t) \/ Read(t) \/ RunEnd(t)
  PROVE  Sound(t)'
<1>1. /\ Types /\ Sound(t) /\ job[t] \in Jobs /\ job \in [Trials -> Jobs]
      /\ job[t].sealed \in Seq(Texts)
  BY DEF IndInv, Types, Jobs
\* What they all leave alone: the bundle.
<1>2. ASSUME job'[t].sealed = job[t].sealed, job'[t].took = job[t].took, job'[t].ref = job[t].ref,
             job'[t].at \in Stages \ {"hash", "parse", "recorded"}, job[t].at # "designed",
             job'[t].manifest = job[t].manifest, job[t].at # "recorded",
             Overlaid(t)', Delivered(t)',
             ~RunYet(t)' => job'[t].ran = {} /\ job'[t].barred = {}
      PROVE  Sound(t)'
  <2>1. Sealed(t)' = Sealed(t) /\ Known(t)'
    BY <1>1, <1>2 DEF Sealed, Known, Sound
  <2>2. Bundled(t)'
    BY <1>1, <1>2, <2>1 DEF Sound, Bundled, FileBundle
  <2>3. Untouched(t)' /\ Recorded(t)'
    BY <1>1, <1>2 DEF Sound, Untouched, Recorded, RunYet
  <2> QED
    BY <1>2, <2>1, <2>2, <2>3 DEF Sound
\* And those after the staging: the overlays.
<1>3. ASSUME job'[t].sealed = job[t].sealed, job'[t].overlay = job[t].overlay, job'[t].ref = job[t].ref,
             job[t].at \notin {"designed", "hash", "parse", "captured"}
      PROVE  Overlaid(t)' /\ Targets(t)' = Targets(t) /\ \A f : Shadowed(t, f)' <=> Shadowed(t, f)
  <2>1. Sealed(t)' = Sealed(t) /\ Targets(t)' = Targets(t) /\ Paths(t)' = Paths(t)
    BY <1>3 DEF Sealed, Targets, Paths
  <2> QED
    BY <1>1, <1>3, <2>1 DEF Sound, Overlaid, FileBundle, Shadowed, Sandboxed
<1>4. ASSUME Stage(t)
      PROVE  Sound(t)'
  <2>1. PICK inputs \in Declared :
          job' = [job EXCEPT ![t].at = "staged", ![t].overlay = Overlays(t), ![t].inputs = inputs,
                             ![t].toread = {<<f>> : f \in Wrapped(t)}]
    BY <1>4 DEF Stage
  <2>2. /\ job'[t].at = "staged" /\ job'[t].overlay = Overlays(t) /\ job'[t].sealed = job[t].sealed
        /\ job'[t].took = job[t].took /\ job'[t].ref = job[t].ref /\ job'[t].manifest = job[t].manifest
        /\ job'[t].ran = job[t].ran /\ job'[t].barred = job[t].barred
    BY <1>1, <2>1 DEF Jobs
  <2>3. job[t].at = "captured" /\ job[t].ran = {} /\ job[t].barred = {}
    BY <1>1, <1>4 DEF Stage, Sound, Untouched, RunYet
  <2>4. Overlaid(t)'
    <3>1. /\ \A f \in DOMAIN Overlays(t) : Overlays(t)[f] \in Sealed(t) /\ snippets[Overlays(t)[f]] = f
          /\ FileBundle(t) => DOMAIN Overlays(t) = Paths(t)
      BY <1>1, OverlaysAreSealed DEF Sound
    <3>2. Sealed(t)' = Sealed(t) /\ Paths(t)' = Paths(t) /\ (FileBundle(t)' <=> FileBundle(t))
      BY <2>2 DEF Sealed, Paths, FileBundle
    <3> QED
      BY <2>2, <3>1, <3>2 DEF Overlaid, Targets
  <2>5. Delivered(t)'
    BY <2>2, <2>3 DEF Delivered
  <2> QED
    BY <1>2, <2>2, <2>3, <2>4, <2>5 DEF Stages
<1>5. ASSUME Launch(t) \/ Spawn(t)
      PROVE  Sound(t)'
  <2>1. PICK at \in {"refused", "spawning", "running"} :
          \E denied : job' = [job EXCEPT ![t].at = at, ![t].denied = denied]
    <3>1. CASE Launch(t)
      BY <3>1 DEF Launch
    <3>2. CASE Spawn(t)
      <4>1. PICK at \in {"refused", "running"} : job' = [job EXCEPT ![t].at = at]
        BY <3>2 DEF Spawn
      <4>2. job' = [job EXCEPT ![t].at = at, ![t].denied = job[t].denied]
        BY <1>1, <4>1 DEF Jobs
      <4> QED
        BY <4>2
    <3> QED
      BY <1>5, <3>1, <3>2
  <2>2. /\ job'[t].at = at /\ job'[t].overlay = job[t].overlay /\ job'[t].sealed = job[t].sealed
        /\ job'[t].took = job[t].took /\ job'[t].ref = job[t].ref /\ job'[t].manifest = job[t].manifest
        /\ job'[t].ran = job[t].ran /\ job'[t].barred = job[t].barred
    BY <1>1, <2>1 DEF Jobs
  <2>3. job[t].at \in {"staged", "spawning"} /\ job[t].ran = {} /\ job[t].barred = {}
    BY <1>1, <1>5 DEF Launch, Spawn, Sound, Untouched, RunYet
  <2>4. Delivered(t)'
    BY <2>1, <2>2, <2>3 DEF Delivered
  <2> QED
    BY <1>2, <1>3, <2>1, <2>2, <2>3, <2>4 DEF Stages
<1>6. ASSUME Read(t)
      PROVE  Sound(t)'
  <2>1. job[t].at = "running"
    BY <1>6 DEF Read
  <2>2. PICK f \in Files, toread \in SUBSET Seq(Files) :
          \/ /\ f \in job[t].denied
             /\ job' = [job EXCEPT ![t] = [job[t] EXCEPT !.toread = toread, !.barred = job[t].barred \cup {f}]]
          \/ /\ Served(t, f) \in Texts
             /\ job' = [job EXCEPT ![t] = [job[t] EXCEPT !.toread = toread,
                                                      !.ran = job[t].ran \cup {<<f, Served(t, f)>>}]]
    BY <1>1, <1>6, ReadIsOfAFile
  <2>3. /\ job'[t].at = "running" /\ job'[t].overlay = job[t].overlay /\ job'[t].sealed = job[t].sealed
        /\ job'[t].took = job[t].took /\ job'[t].ref = job[t].ref /\ job'[t].manifest = job[t].manifest
        /\ job'[t].ran \subseteq job[t].ran \cup {<<f, Served(t, f)>>}
    <3>1. CASE job' = [job EXCEPT ![t] = [job[t] EXCEPT !.toread = toread, !.barred = job[t].barred \cup {f}]]
      BY <1>1, <2>1, <3>1 DEF Jobs
    <3>2. CASE job' = [job EXCEPT ![t] = [job[t] EXCEPT !.toread = toread,
                                                     !.ran = job[t].ran \cup {<<f, Served(t, f)>>}]]
      BY <1>1, <2>1, <3>2 DEF Jobs
    <3> QED
      BY <2>2, <3>1, <3>2
  <2>4. Overlaid(t)' /\ \A g : Shadowed(t, g)' <=> Shadowed(t, g)
    BY <1>3, <2>1, <2>3
  <2>5. Delivered(t)'
    <3>1. ASSUME NEW r \in job'[t].ran
          PROVE  /\ Shadowed(t, r[1]) => r[2] = job[t].overlay[r[1]]
                 /\ ~Shadowed(t, r[1]) /\ r[1] \notin moved[t] => r[2] = live[r[1]]
      <4>1. CASE r \in job[t].ran
        BY <1>1, <2>1, <4>1 DEF Sound, Delivered
      <4>2. CASE r = <<f, Served(t, f)>>
        BY <4>2 DEF Served, Shadowed
      <4> QED
        BY <2>3, <4>1, <4>2
    <3> QED
      BY <2>3, <2>4, <3>1 DEF Delivered
  <2> QED
    BY <1>2, <2>1, <2>3, <2>4, <2>5 DEF Stages, RunYet
<1>7. ASSUME RunEnd(t)
      PROVE  Sound(t)'
  <2>1. PICK ok : job' = [job EXCEPT ![t].at = "ended", ![t].ok = ok]
    BY <1>7 DEF RunEnd
  <2>2. /\ job'[t].at = "ended" /\ job'[t].overlay = job[t].overlay /\ job'[t].sealed = job[t].sealed
        /\ job'[t].took = job[t].took /\ job'[t].ref = job[t].ref /\ job'[t].manifest = job[t].manifest
        /\ job'[t].ran = job[t].ran /\ job[t].at = "running"
    BY <1>1, <1>7, <2>1 DEF Jobs, RunEnd
  <2>3. Overlaid(t)' /\ \A g : Shadowed(t, g)' <=> Shadowed(t, g)
    BY <1>3, <2>2
  <2>4. Delivered(t)'
    BY <1>1, <2>2, <2>3 DEF Sound, Delivered
  <2> QED
    BY <1>2, <2>2, <2>3, <2>4 DEF Stages, RunYet
<1> QED
  BY <1>4, <1>5, <1>6, <1>7

(***************************************************************************)
(* The record.  What a run read of a file that is not overlaid is what the *)
(* file still holds, and what it read of another is the sealed text.       *)
(***************************************************************************)
LEMMA ReadIsRecorded ==
  ASSUME IndInv, NEW t \in Trials, job[t].at = "ended", NEW r \in job[t].ran,
         r[1] \notin Holdout
  PROVE  /\ r[1] \in Files /\ r[2] \in Texts /\ r = <<r[1], r[2]>> /\ r[1] \in Touched(t)
         /\ Shadowed(t, r[1]) => /\ Armed(t) /\ r[1] \in Paths(t) \cap Code
                                 /\ r[2] \in Sealed(t) /\ snippets[r[2]] = r[1]
         /\ ~Shadowed(t, r[1]) /\ r[1] \notin moved[t] => live[r[1]] = r[2]
<1>1. Types /\ Sound(t) /\ job[t].ran \in SUBSET (Files \X Texts)
  BY DEF IndInv, Types, Jobs
<1>2. r[1] \in Files /\ r[2] \in Texts /\ r = <<r[1], r[2]>>
  BY <1>1
<1>3. r[1] \in Touched(t)
  BY DEF Touched
<1>4. ASSUME Shadowed(t, r[1])
      PROVE  /\ Armed(t) /\ r[1] \in Paths(t) \cap Code
             /\ r[2] \in Sealed(t) /\ snippets[r[2]] = r[1]
  <2>1. r[2] \in Sealed(t) /\ snippets[r[2]] = r[1]
    BY <1>1, <1>4 DEF Sound, Delivered, Overlaid, Shadowed
  <2>2. r[1] # NoPath
    BY <1>2, SealedRunAssumption
  <2>3. r[1] \in Paths(t)
    BY <2>1, <2>2 DEF Paths, Sealed
  <2>4. r[1] \in Code
    BY <1>1, <2>3, PathsAreCode DEF Sound
  <2> QED
    BY <1>4, <2>1, <2>3, <2>4 DEF Armed, Shadowed
<1>5. ~Shadowed(t, r[1]) /\ r[1] \notin moved[t] => live[r[1]] = r[2]
  BY <1>1 DEF Sound, Delivered
<1> QED
  BY <1>2, <1>3, <1>4, <1>5

LEMMA RecordIsTruthful ==
  ASSUME IndInv, NEW t \in Trials, job[t].at = "ended", NEW row \in CodeRows(t) \cup DataRows(t)
  PROVE  \/ row \in job[t].ran
         \/ row[1] \in moved[t] /\ ~(Armed(t) /\ row[1] \in Targets(t))
         \/ Ambiguous(t, row[1]) \/ row[1] \in Unshadowed(t)
         \/ row[1] \in job[t].inputs \ Touched(t)
<1>1. /\ Types /\ Sound(t) /\ job[t].barred \in SUBSET Holdout /\ job[t].sealed \in Seq(Texts)
      /\ job[t].inputs \in SUBSET Data
  BY DEF IndInv, Types, Jobs
<1>2. PICK f : f = row[1] /\ f \notin Holdout /\ row = <<f, row[2]>>
  BY DEF CodeRows, DataRows
<1>3. CASE f \in Touched(t)
  <2>1. PICK r \in job[t].ran : r[1] = f
    BY <1>1, <1>2, <1>3 DEF Touched
  <2>2. /\ r = <<f, r[2]>>
        /\ Shadowed(t, f) => Armed(t) /\ f \in Paths(t) \cap Code /\ r[2] \in Sealed(t) /\ snippets[r[2]] = f
        /\ ~Shadowed(t, f) /\ f \notin moved[t] => live[f] = r[2]
    BY <1>2, <2>1, ReadIsRecorded
  <2>3. Shadowed(t, f) <=> (Armed(t) /\ f \in Targets(t))
    BY DEF Shadowed, Armed
  <2>4. CASE row \in CodeRows(t)
    <3>1. row[2] = HashOf(t, f)
      BY <1>2, <2>4 DEF CodeRows
    <3>2. CASE Armed(t) /\ f \in Paths(t)
      <4>1. row[2] \in Sealed(t) /\ snippets[row[2]] = f
        BY <1>1, <3>1, <3>2, LastIsOne DEF HashOf, Sealed, ToSet
      <4>2. f \in Targets(t) => row = r \/ Ambiguous(t, f)
        BY <1>2, <2>2, <2>3, <3>2, <4>1 DEF Ambiguous, Sealed
      <4> QED
        BY <1>2, <2>1, <3>2, <4>2 DEF Unshadowed
    <3>3. CASE ~(Armed(t) /\ f \in Paths(t))
      BY <1>2, <2>1, <2>2, <2>3, <3>1, <3>3 DEF HashOf
    <3> QED
      BY <3>2, <3>3
  <2>5. CASE row \in DataRows(t)
    <3>1. f \in Data /\ row[2] = live[f]
      BY <1>1, <1>2, <2>5 DEF DataRows
    <3>2. ~Shadowed(t, f)
      BY <2>2, <3>1 DEF Code
    <3> QED
      BY <1>2, <2>1, <2>2, <2>3, <3>1, <3>2
  <2> QED
    BY <2>4, <2>5
<1>4. CASE f \notin Touched(t)
  BY <1>2, <1>4 DEF CodeRows, DataRows
<1> QED
  BY <1>3, <1>4

LEMMA RecordSound ==
  ASSUME IndInv, NEW t \in Trials, PathsStay, UNCHANGED <<live, sandbox, moved>>, Record(t)
  PROVE  Sound(t)'
<1>1. /\ Types /\ Sound(t) /\ job[t] \in Jobs /\ job \in [Trials -> Jobs]
      /\ job[t].sealed \in Seq(Texts) /\ job[t].ran \in SUBSET (Files \X Texts) /\ job[t].barred \in SUBSET Holdout
      /\ job[t].inputs \in SUBSET Data
  BY DEF IndInv, Types, Jobs
<1>2. /\ job[t].at = "ended" /\ job'[t].at = "recorded"
      /\ job'[t].manifest = CodeRows(t) \cup DataRows(t) /\ job'[t].noted = Forbidden(t)
      /\ job'[t].sealed = job[t].sealed /\ job'[t].overlay = job[t].overlay /\ job'[t].took = job[t].took
      /\ job'[t].ref = job[t].ref /\ job'[t].ran = job[t].ran /\ job'[t].barred = job[t].barred
      /\ job'[t].inputs = job[t].inputs /\ job'[t].ok = job[t].ok
  BY <1>1 DEF Record, RecordAs, Jobs
<1>3. /\ Sealed(t)' = Sealed(t) /\ Sealed(t) \subseteq Texts /\ Known(t)' /\ Paths(t)' = Paths(t)
      /\ \A c \in Sealed(t) : snippets'[c] = snippets[c]
      /\ \A f : Ambiguous(t, f)' <=> Ambiguous(t, f)
  BY <1>1, <1>2, PathsOfSealed DEF Sound
<1>4. /\ Targets(t)' = Targets(t) /\ Touched(t)' = Touched(t)
      /\ (FileBundle(t)' <=> FileBundle(t)) /\ (Sandboxed' <=> Sandboxed)
  BY <1>2 DEF Targets, Touched, FileBundle, Sandboxed
<1>5. (Armed(t)' <=> Armed(t)) /\ Unshadowed(t)' = Unshadowed(t)
  BY <1>3, <1>4 DEF Armed, Unshadowed
<1>6. Bundled(t)' /\ Untouched(t)'
  BY <1>1, <1>2, <1>3, <1>4 DEF Sound, Bundled, Untouched, RunYet
<1>7. Overlaid(t)'
  BY <1>1, <1>2, <1>3, <1>4 DEF Sound, Overlaid
<1>8. Delivered(t)'
  BY <1>1, <1>2, <1>4 DEF Sound, Delivered, Shadowed
<1>9. Truthful(t)'
  <2>1. \A row \in CodeRows(t) \cup DataRows(t) :
          \/ row \in job[t].ran
          \/ row[1] \in moved[t] /\ ~(Armed(t) /\ row[1] \in Targets(t))
          \/ Ambiguous(t, row[1]) \/ row[1] \in Unshadowed(t)
          \/ row[1] \in job[t].inputs \ Touched(t)
    BY <1>2, RecordIsTruthful
  <2> QED
    BY <1>2, <1>3, <1>4, <1>5, <2>1 DEF Truthful
<1>10. Accounted(t)'
  <2>1. ASSUME NEW r \in job[t].ran, r[1] \notin moved[t] \cup Holdout \cup Data \cup Unshadowed(t)
        PROVE  (Contains(job[t].sealed, r[2]) \/ t \in StraceDivergence)'
    <3>1. /\ r[1] \in Files /\ r[2] \in Texts /\ r = <<r[1], r[2]>> /\ r[1] \in Touched(t)
          /\ Shadowed(t, r[1]) => r[2] \in Sealed(t)
          /\ ~Shadowed(t, r[1]) => live[r[1]] = r[2]
      BY <1>2, <2>1, ReadIsRecorded
    <3>2. CASE Shadowed(t, r[1])
      BY <1>1, <1>2, <3>1, <3>2 DEF Sealed, ToSet, Contains
    <3>3. CASE ~Shadowed(t, r[1])
      <4>1. HashOf(t, r[1]) = r[2]
        BY <2>1, <3>1, <3>3 DEF HashOf, Unshadowed, Shadowed, Armed
      <4>2. r[2] # Gone
        BY <3>1, SealedRunAssumption
      <4>3. r \in CodeRows(t)
        BY <2>1, <3>1, <4>1, <4>2 DEF CodeRows
      <4> QED
        BY <1>2, <2>1, <4>3 DEF StraceDivergence, ExecutedCode
    <3> QED
      BY <3>2, <3>3
  <2>2. ASSUME NEW r \in job[t].ran, r[1] \in Data \ (moved[t] \cup Holdout)
        PROVE  r \in DataRows(t)
    <3>1. /\ r = <<r[1], r[2]>> /\ r[1] \in Touched(t)
          /\ Shadowed(t, r[1]) => r[1] \in Code
          /\ ~Shadowed(t, r[1]) => live[r[1]] = r[2]
      BY <1>2, <2>2, ReadIsRecorded
    <3> QED
      BY <2>2, <3>1 DEF Code, DataRows
  <2>3. ASSUME (t \notin InputDataUndigested)', job[t].ok,
               NEW f \in ((Touched(t) \cap Data) \cup job[t].inputs) \ Holdout
        PROVE  \E c \in Texts : <<f, c>> \in DataRows(t)
    <3>1. <<f, live[f]>> \in DataRows(t) /\ f \in Data /\ f \in Files
      BY <1>1, <2>3, SealedRunAssumption DEF DataRows
    <3>2. live[f] \in Texts \cup {Gone}
      BY <1>1, <3>1 DEF Types
    <3>3. live[f] # Gone
      <4>1. \A r \in job'[t].manifest : ~(r[1] \in Data /\ r[2] = Gone)
        BY <1>2, <2>3 DEF InputDataUndigested, ExecutedCode
      <4>2. <<f, live[f]>> \in job'[t].manifest /\ <<f, live[f]>>[1] = f /\ <<f, live[f]>>[2] = live[f]
        BY <1>2, <3>1
      <4> QED
        BY <3>1, <4>1, <4>2
    <3> QED
      BY <3>1, <3>2, <3>3
  <2>4. Touched(t) \cap Holdout # {} => (t \in SealedAccessAttempts)'
    BY <1>2 DEF SealedAccessAttempts, Forbidden
  <2>5. (\A r \in job[t].ran : r[1] \notin moved[t] \cup Holdout \cup Data \cup Unshadowed(t) =>
          Contains(job[t].sealed, r[2]) \/ t \in StraceDivergence \cup UnsealedExecution)'
    BY <1>2, <1>5, <2>1
  <2>6. (\A r \in job[t].ran : r[1] \in Data \ (moved[t] \cup Holdout) => r \in job[t].manifest)'
    BY <1>2, <2>2
  <2>7. (job[t].ok /\ t \notin InputDataUndigested =>
           \A f \in ((Touched(t) \cap Data) \cup job[t].inputs) \ Holdout :
             \E c \in Texts : <<f, c>> \in job[t].manifest)'
    BY <1>2, <1>4, <2>3
  <2>8. (Touched(t) \cap Holdout # {} => t \in SealedAccessAttempts)'
    BY <1>4, <2>4
  <2> QED
    BY <2>5, <2>6, <2>7, <2>8 DEF Accounted
<1> QED
  BY <1>3, <1>6, <1>7, <1>8, <1>9, <1>10 DEF Sound, Recorded

LEMMA EditSound ==
  ASSUME IndInv, NEW t \in Trials, NEW f \in Files, NEW c, Edit(f, c)
  PROVE  Sound(t)'
<1>1. Types /\ Sound(t) /\ PathsStay /\ job[t].ran \in SUBSET (Files \X Texts)
  BY DEF IndInv, Types, Jobs, Edit, PathsStay
<1>2. UNCHANGED <<sandbox, snippets, job>> /\ live' = [live EXCEPT ![f] = c]
  BY DEF Edit
<1>3. Bundled(t)' /\ Known(t)' /\ Untouched(t)' /\ Overlaid(t)'
  BY <1>1, <1>2 DEF Sound, Bundled, Known, Untouched, Overlaid, Sealed, FileBundle, RunYet,
     Targets, Paths
<1>4. moved'[t] = IF job[t].at \in {"running", "ended"} /\ f \in Touched(t) THEN moved[t] \cup {f} ELSE moved[t]
  BY DEF Edit
<1>5. Recorded(t)'
  <2>1. moved'[t] = moved[t] \/ job[t].at # "recorded"
    BY <1>4
  <2> QED
    BY <1>1, <1>2, <2>1, RecordedStays DEF Sound
<1>6. Delivered(t)'
  <2>1. ASSUME NEW r \in job[t].ran
        PROVE  /\ Shadowed(t, r[1]) => r[2] = job[t].overlay[r[1]]
               /\ ~Shadowed(t, r[1]) /\ r[1] \notin moved'[t] /\ job[t].at # "recorded" => r[2] = live'[r[1]]
    <3>1. RunYet(t) /\ r[1] \in Touched(t) /\ r[1] \in Files
      BY <1>1 DEF Sound, Untouched, Touched
    <3>2. ASSUME ~Shadowed(t, r[1]), r[1] \notin moved'[t], job[t].at # "recorded"
          PROVE  r[2] = live'[r[1]]
      <4>1. r[1] # f /\ r[1] \notin moved[t]
        BY <1>4, <3>1, <3>2 DEF RunYet
      <4>2. r[2] = live[r[1]]
        BY <1>1, <3>2, <4>1 DEF Sound, Delivered
      <4> QED
        BY <1>1, <1>2, <3>1, <4>1, <4>2 DEF Types
    <3> QED
      BY <1>1, <3>2 DEF Sound, Delivered
  <2>2. \A g : Shadowed(t, g)' <=> Shadowed(t, g)
    BY <1>2 DEF Shadowed, Sandboxed, Targets
  <2> QED
    BY <1>2, <2>1, <2>2 DEF Delivered
<1> QED
  BY <1>3, <1>5, <1>6 DEF Sound

-----------------------------------------------------------------------------
LEMMA OtherJobs ==
  ASSUME IndInv, NEW t \in Trials, NEW u \in Trials \ {t}, Work(t)
  PROVE  job'[u] = job[u]
<1>1. job \in [Trials -> Jobs]
  BY DEF IndInv, Types
<1>2. CASE \E f \in Files : CaptureBegin(t, f)
  BY <1>1, <1>2 DEF CaptureBegin
<1>3. CASE CaptureHash(t)
  BY <1>1, <1>3 DEF CaptureHash
<1>4. CASE CaptureParse(t)
  BY <1>1, <1>4 DEF CaptureParse
<1>5. CASE CaptureExtra(t) \/ CaptureLink(t)
  BY <1>1, <1>5 DEF CaptureExtra, CaptureLink
<1>6. CASE \E c \in Texts, extra \in ExtraHashes : CaptureByHash(t, c, extra)
  BY <1>1, <1>6 DEF CaptureByHash
<1>7. CASE Record(t)
  BY <1>1, <1>7 DEF Record, RecordAs
<1>8. CASE Stage(t) \/ Launch(t) \/ Spawn(t) \/ RunEnd(t)
  BY <1>1, <1>8 DEF Stage, Launch, Spawn, RunEnd
<1>9. CASE Read(t)
  <2>1. PICK j : job' = [job EXCEPT ![t] = j]
    BY <1>9, ReadIsOfAFile DEF IndInv
  <2> QED
    BY <1>1, <2>1
<1> QED
  BY <1>2, <1>3, <1>4, <1>5, <1>6, <1>7, <1>8, <1>9 DEF Work

LEMMA InitInd ==
  ASSUME Init
  PROVE  IndInv
<1>1. Types
  BY StartTypes
<1>2. ASSUME NEW t \in Trials
      PROVE  Sound(t)
  <2>1. /\ job[t].at = "designed" /\ job[t].ran = {} /\ job[t].barred = {} /\ job[t].manifest = {}
        /\ job[t].sealed = <<>> /\ job[t].took = {} /\ job[t].overlay = <<>> /\ job[t].ref = Unknown
    BY DEF Init, Fresh
  <2>2. Sealed(t) = {} /\ Targets(t) = {}
    BY <2>1 DEF Sealed, ToSet, Targets
  <2>3. Bundled(t)
    BY <2>1, <2>2 DEF Bundled, FileBundle
  <2> QED
    BY <2>1, <2>2, <2>3 DEF Sound, Known, Untouched, RunYet, Overlaid, Delivered, Recorded
<1> QED
  BY <1>1, <1>2 DEF IndInv

LEMMA StepInd ==
  ASSUME IndInv, [Next]_vars
  PROVE  IndInv'
<1>1. Types'
  BY TypesStep
<1>2. ASSUME NEW t \in Trials, Work(t), UNCHANGED <<live, sandbox, enforced, moved>>, NEW u \in Trials
      PROVE  Sound(u)'
  <2>1. PathsStay
    BY <1>2, WorkKeepsPaths
  <2>2. CASE u = t
    <3>1. CASE \/ \E f \in Files : CaptureBegin(t, f)
               \/ CaptureHash(t) \/ CaptureParse(t) \/ CaptureExtra(t) \/ CaptureLink(t)
      BY <1>2, <2>1, <2>2, <3>1, CaptureSound
    <3>2. CASE \E c \in Texts, extra \in ExtraHashes : CaptureByHash(t, c, extra)
      BY <2>1, <2>2, <3>2, ByHashSound
    <3>3. CASE Record(t)
      BY <1>2, <2>1, <2>2, <3>3, RecordSound
    <3>4. CASE (Stage(t) \/ Launch(t) \/ Spawn(t) \/ Read(t) \/ RunEnd(t)) /\ UNCHANGED snippets
      BY <1>2, <2>2, <3>4, RunSound
    <3> QED
      BY <1>2, <3>1, <3>2, <3>3, <3>4 DEF Work
  <2>3. CASE u # t
    <3>1. job'[u] = job[u]
      BY <1>2, <2>3, OtherJobs
    <3> QED
      BY <1>2, <2>1, <3>1, Undisturbed DEF IndInv
  <2> QED
    BY <2>2, <2>3
<1>3. ASSUME NEW f \in Files, NEW c \in Holds[f], Edit(f, c), NEW t \in Trials
      PROVE  Sound(t)'
  BY <1>3, EditSound
<1>4. ASSUME UNCHANGED vars, NEW t \in Trials
      PROVE  Sound(t)'
  <2>1. PathsStay /\ job'[t] = job[t] /\ sandbox' = sandbox /\ live' = live /\ moved' = moved
    BY <1>4 DEF vars, PathsStay
  <2> QED
    BY <2>1, Undisturbed DEF IndInv
<1> QED
  BY <1>1, <1>2, <1>3, <1>4 DEF Next, IndInv

\* The invariant that the theorems below rest on.
THEOREM Invariance == Spec => []IndInv
BY InitInd, StepInd, PTL DEF Spec

\* Whatever is edited, deleted or put back after the capture, a sandboxed run
\* reads of the captured files the texts that were captured, or does not run;
\* of files none of which is a copy of one captured before.
THEOREM SealedBytes == Spec => []SealHolds
<1>1. ASSUME IndInv
      PROVE  SealHolds
  <2> SUFFICES ASSUME NEW t \in Trials, Sandboxed, OwnPaths(t), NEW r \in job[t].ran, r[1] \in Captured(t)
               PROVE  r \in job[t].took
    BY DEF SealHolds
  <2>1. /\ Types /\ Sound(t) /\ job[t].ran \in SUBSET (Files \X Texts)
        /\ job[t].took \in SUBSET (Files \X Texts)
    BY <1>1 DEF IndInv, Types, Jobs
  <2>2. PICK q \in job[t].took : q[1] = r[1]
    BY DEF Captured
  <2>3. FileBundle(t) /\ Sealed(t) = {p[2] : p \in job[t].took}
    BY <2>1, <2>2 DEF Sound, Bundled
  <2>4. q[2] \in Sealed(t) /\ snippets[q[2]] = r[1] /\ r[1] # NoPath
    BY <2>1, <2>2, <2>3, SealedRunAssumption DEF OwnPaths
  <2>5. RunYet(t)
    BY <2>1 DEF Sound, Untouched
  <2>6. r[1] \in Targets(t)
    BY <2>1, <2>3, <2>4, <2>5 DEF Sound, Overlaid, Paths, Sealed, RunYet
  <2>7. r[2] \in Sealed(t) /\ snippets[r[2]] = r[1]
    BY <2>1, <2>6 DEF Sound, Delivered, Overlaid, Shadowed
  <2>8. PICK p \in job[t].took : p[2] = r[2]
    BY <2>3, <2>7
  <2>9. p[1] = r[1]
    BY <2>7, <2>8 DEF OwnPaths
  <2> QED
    BY <2>1, <2>8, <2>9
<1> QED
  BY <1>1, Invariance, PTL

\* What the manifest gives for a file is a text the run has read there; the
\* exceptions are those that RecordedIsWhatRan names.
THEOREM ManifestIsTrue == Spec => []RecordedIsWhatRan
<1>1. ASSUME IndInv
      PROVE  RecordedIsWhatRan
  BY <1>1 DEF IndInv, Sound, Untouched, Recorded, RecordedIsWhatRan, Truthful
<1> QED
  BY <1>1, Invariance, PTL

\* Whatever else a recorded run has read is in the bundle, or one of the checks
\* flags the trial.
THEOREM NoSilentLeak == Spec => []LeaksAreFlagged
<1>1. ASSUME IndInv
      PROVE  LeaksAreFlagged
  BY <1>1 DEF IndInv, Sound, Recorded, LeaksAreFlagged
<1> QED
  BY <1>1, Invariance, PTL
-----------------------------------------------------------------------------
(***************************************************************************)
(* The files a run leaves, which two captures may store and delete at the  *)
(* same time.  A file that is there is as it was last written (AsWritten); *)
(* but for what was written under a capture that deletes, a capture holds  *)
(* what is to be stored (HeldFile), and what it is through with is deleted *)
(* or kept the directory (PassedFiles), so that a deleted file has its row *)
(* (KeptFiles).                                                            *)
(***************************************************************************)
Holding == {"blob", "row", "unlink"}
Captors == [at : {"idle", "list", "next"} \cup Holding, todo : SUBSET Leaves, file : Leaves,
            content : Outputs \cup {Left!Gone}, clean : BOOLEAN, left : BOOLEAN]

FileTypes ==
  /\ run \in {"writing", "over"} /\ removed \in BOOLEAN /\ finalized \in BOOLEAN /\ deaths \in Nat
  /\ staged \in [Leaves -> Outputs \cup {Left!Gone}]
  /\ wrote \in [Leaves -> Outputs \cup {Left!Gone}]
  /\ blobs \subseteq Outputs /\ stored \subseteq Leaves \X Outputs
  /\ blind \subseteq Leaves
  /\ capture \in [Left!Captures -> Captors]

\* A file that is there is as it was last written.
AsWritten ==
  /\ \A f \in Leaves : staged[f] \in {Left!Gone, wrote[f]}
  /\ removed => \A f \in Leaves : staged[f] = Left!Gone

KeptFiles ==
  /\ \A f \in Leaves \ blind :
       wrote[f] # Left!Gone => staged[f] = wrote[f] \/ <<f, wrote[f]>> \in stored
  /\ \A r \in stored : r[2] \in blobs

\* A capture holds what it has read of a file.
HeldFile(w) ==
  /\ capture[w].at \in Holding =>
       /\ capture[w].content \in Outputs
       /\ capture[w].clean /\ capture[w].file \notin blind =>
            capture[w].content = wrote[capture[w].file]
  /\ Left!At(w, "row") => capture[w].content \in blobs
  /\ Left!At(w, "unlink") => capture[w].clean /\ <<capture[w].file, capture[w].content>> \in stored
  /\ Left!At(w, "idle") => capture[w] = Left!Idle
  /\ w = "finalizer" /\ ~Left!At(w, "idle") => capture[w].clean

\* What a capture that deletes is through with is deleted, or too large.
PassedFiles(w) ==
  capture[w].clean /\ ~Left!At(w, "list") =>
    \A f \in Leaves \ (blind \cup capture[w].todo) :
      \/ f = capture[w].file /\ capture[w].at \in Holding
      \/ staged[f] = Left!Gone
      \/ capture[w].left /\ staged[f] \in Oversized

Finalizing ==
  /\ ~finalized => Left!At("finalizer", "idle")
  /\ finalized /\ deaths = 0 => run = "over"
  /\ finalized /\ deaths = 0 /\ Left!At("finalizer", "idle") =>
       \A f \in Leaves \ blind : staged[f] \in Oversized \cup {Left!Gone}

FilesInv ==
  /\ FileTypes /\ AsWritten /\ KeptFiles /\ (\A w \in Left!Captures : HeldFile(w) /\ PassedFiles(w)) /\ Finalizing

-----------------------------------------------------------------------------
LEMMA IdleCaptor == Left!Idle \in Captors /\ Left!Idle.at = "idle" /\ ~Left!Idle.clean
BY LeftAssumption DEF Left!ArtifactsAssumption, Left!Idle, Captors

\* A step of one capture: files are only taken away, blobs and rows only added.
LEMMA CaptureKeeps ==
  ASSUME FilesInv, NEW w \in Left!Captures, NEW to \in Captors, capture' = [capture EXCEPT ![w] = to],
         ~Left!At(w, "idle"), UNCHANGED <<run, wrote, blind, finalized, deaths>>,
         staged' \in [Leaves -> Outputs \cup {Left!Gone}], \A f \in Leaves : staged'[f] \in {Left!Gone, staged[f]},
         removed' \in BOOLEAN, removed' => \A f \in Leaves : staged'[f] = Left!Gone,
         blobs \subseteq blobs', blobs' \subseteq Outputs,
         stored \subseteq stored', stored' \subseteq Leaves \X Outputs, \A r \in stored' : r[2] \in blobs',
         \A f \in Leaves \ blind : staged[f] # Left!Gone => staged'[f] = staged[f] \/ <<f, wrote[f]>> \in stored',
         HeldFile(w)', PassedFiles(w)',
         w = "finalizer" /\ to.at = "idle" /\ deaths = 0 =>
           \A f \in Leaves \ blind : staged'[f] \in Oversized \cup {Left!Gone}
  PROVE  FilesInv'
<1>1. capture'[w] = to /\ \A v \in Left!Captures \ {w} : capture'[v] = capture[v]
  BY DEF FilesInv, FileTypes
<1>2. FileTypes'
  BY <1>1 DEF FilesInv, FileTypes
<1>3. AsWritten'
  BY DEF FilesInv, AsWritten
<1>4. KeptFiles'
  <2> SUFFICES ASSUME NEW f \in Leaves \ blind, wrote[f] # Left!Gone
               PROVE  staged'[f] = wrote[f] \/ <<f, wrote[f]>> \in stored'
    BY DEF KeptFiles
  <2> QED BY DEF FilesInv, KeptFiles
<1>5. ASSUME NEW v \in Left!Captures PROVE HeldFile(v)' /\ PassedFiles(v)'
  <2>1. CASE v = w
    BY <2>1
  <2>2. CASE v # w
    <3>1. capture'[v] = capture[v] /\ HeldFile(v) /\ PassedFiles(v)
      BY <1>1, <2>2 DEF FilesInv
    <3>2. HeldFile(v)'
      BY <3>1 DEF HeldFile, Left!At
    <3>3. PassedFiles(v)'
      BY <3>1 DEF PassedFiles, Left!At
    <3> QED BY <3>2, <3>3
  <2> QED BY <2>1, <2>2
<1>6. Finalizing'
  <2>1. ~finalized => w # "finalizer"
    BY DEF FilesInv, Finalizing
  <2>2. "finalizer" \in Left!Captures
    BY DEF Left!Captures
  <2>3. CASE w = "finalizer"
    BY <1>1, <2>1, <2>3 DEF FilesInv, Finalizing, Left!At
  <2>4. CASE w # "finalizer"
    <3>1. capture'["finalizer"] = capture["finalizer"]
      BY <1>1, <2>2, <2>4
    <3>2. (Left!At("finalizer", "idle"))' <=> Left!At("finalizer", "idle")
      BY <3>1 DEF Left!At
    <3>3. /\ ~finalized => Left!At("finalizer", "idle")
          /\ finalized /\ deaths = 0 => run = "over"
          /\ finalized /\ deaths = 0 /\ Left!At("finalizer", "idle") =>
               \A f \in Leaves \ blind : staged[f] \in Oversized \cup {Left!Gone}
      BY DEF FilesInv, Finalizing
    <3>4. finalized /\ deaths = 0 /\ Left!At("finalizer", "idle") =>
               \A f \in Leaves \ blind : staged'[f] \in Oversized \cup {Left!Gone}
      BY <3>3
    <3> QED BY <3>2, <3>3, <3>4 DEF Finalizing
  <2> QED BY <2>3, <2>4
<1> QED BY <1>2, <1>3, <1>4, <1>5, <1>6 DEF FilesInv

LEMMA ListKeeps ==
  ASSUME FilesInv, NEW w \in Left!Captures, Left!List(w), UNCHANGED <<stored, run, wrote, blind, finalized, deaths>>
  PROVE  FilesInv'
<1> DEFINE to == IF removed THEN Left!Idle ELSE [capture[w] EXCEPT !.at = "next", !.todo = Left!Present]
<1>0. capture[w] \in Captors /\ capture[w].at = "list" /\ HeldFile(w)
  BY DEF FilesInv, FileTypes, Left!List, Left!At
<1>1. to \in Captors /\ (removed => to = Left!Idle)
      /\ (~removed => /\ to.at = "next" /\ to.todo = Left!Present
                      /\ to.clean = capture[w].clean /\ to.left = capture[w].left)
  BY <1>0, IdleCaptor DEF Captors, Left!Present
<1>2. capture' = [capture EXCEPT ![w] = to]
  BY DEF Left!List
<1> HIDE DEF to
<1>3. capture'[w] = to
  BY <1>2 DEF FilesInv, FileTypes
<1>4. HeldFile(w)' /\ PassedFiles(w)'
  BY <1>0, <1>1, <1>3, IdleCaptor DEF HeldFile, PassedFiles, Left!At, Holding, Left!Present, Left!List
<1>5. removed \/ to.at # "idle"
  BY <1>1
<1> QED BY <1>0, <1>1, <1>2, <1>4, <1>5, CaptureKeeps DEF Left!List, Left!At, FilesInv, FileTypes,
   AsWritten, KeptFiles

LEMMA TakeKeeps ==
  ASSUME FilesInv, NEW w \in Left!Captures, Left!Take(w), UNCHANGED <<stored, run, wrote, blind, finalized, deaths>>
  PROVE  FilesInv'
<1>0. capture[w] \in Captors /\ capture[w].at = "next" /\ HeldFile(w) /\ PassedFiles(w)
  BY DEF FilesInv, FileTypes, Left!Take, Left!At
<1>1. PICK f \in capture[w].todo :
        IF staged[f] \in Oversized \cup {Left!Gone}
        THEN \E left \in {TRUE, staged[f] # Left!Gone} :
               capture' = [capture EXCEPT ![w].todo = @ \ {f}, ![w].left = @ \/ left]
        ELSE capture' = [capture EXCEPT ![w].at = "blob", ![w].todo = @ \ {f},
                                        ![w].file = f, ![w].content = staged[f]]
  BY DEF Left!Take
<1>2. f \in Leaves
  BY <1>0 DEF Captors
<1>3. CASE staged[f] \in Oversized \cup {Left!Gone}
  <2>1. PICK left \in BOOLEAN : /\ (staged[f] # Left!Gone => left)
                                /\ capture' = [capture EXCEPT ![w].todo = @ \ {f}, ![w].left = @ \/ left]
    BY <1>1, <1>3
  <2> DEFINE to == [capture[w] EXCEPT !.todo = @ \ {f}, !.left = @ \/ left]
  <2>2. to \in Captors /\ to.at = "next" /\ to.todo = capture[w].todo \ {f} /\ to.clean = capture[w].clean
        /\ to.left = (capture[w].left \/ left)
    BY <1>0 DEF Captors
  <2>3. capture' = [capture EXCEPT ![w] = to]
    BY <2>1
  <2> HIDE DEF to
  <2>4. capture'[w] = to
    BY <2>3 DEF FilesInv, FileTypes
  <2>5. HeldFile(w)' /\ PassedFiles(w)'
    BY <1>0, <1>2, <1>3, <2>1, <2>2, <2>4 DEF HeldFile, PassedFiles, Left!At, Holding, Left!Take
  <2> QED BY <1>0, <2>2, <2>3, <2>5, CaptureKeeps DEF Left!Take, Left!At, FilesInv, FileTypes,
     AsWritten, KeptFiles
<1>4. CASE staged[f] \notin Oversized \cup {Left!Gone}
  <2> DEFINE to == [capture[w] EXCEPT !.at = "blob", !.todo = @ \ {f}, !.file = f, !.content = staged[f]]
  <2>1. staged[f] \in Outputs
    BY <1>2, <1>4 DEF FilesInv, FileTypes
  <2>2. to \in Captors /\ to.at = "blob" /\ to.todo = capture[w].todo \ {f} /\ to.clean = capture[w].clean
        /\ to.left = capture[w].left /\ to.file = f /\ to.content = staged[f]
    BY <1>0, <1>2, <2>1 DEF Captors, Holding
  <2>3. capture' = [capture EXCEPT ![w] = to]
    BY <1>1, <1>4
  <2> HIDE DEF to
  <2>4. capture'[w] = to
    BY <2>3 DEF FilesInv, FileTypes
  <2>5. staged[f] = wrote[f]
    BY <1>2, <1>4 DEF FilesInv, AsWritten
  <2>6. HeldFile(w)'
    BY <1>0, <2>1, <2>2, <2>4, <2>5 DEF HeldFile, Left!At, Holding, Left!Take
  <2>7. PassedFiles(w)'
    BY <1>0, <2>2, <2>4 DEF PassedFiles, Left!At, Holding, Left!Take
  <2> QED BY <1>0, <2>2, <2>3, <2>6, <2>7, CaptureKeeps DEF Left!Take, Left!At, FilesInv,
     FileTypes, AsWritten, KeptFiles
<1> QED BY <1>3, <1>4

LEMMA StoreBlobKeeps ==
  ASSUME FilesInv, NEW w \in Left!Captures, Left!StoreBlob(w), UNCHANGED <<stored, run, wrote, blind, finalized, deaths>>
  PROVE  FilesInv'
<1> DEFINE to == [capture[w] EXCEPT !.at = "row"]
<1>0. capture[w] \in Captors /\ capture[w].at = "blob" /\ HeldFile(w) /\ PassedFiles(w)
  BY DEF FilesInv, FileTypes, Left!StoreBlob, Left!At
<1>1. to \in Captors /\ to.at = "row" /\ to.todo = capture[w].todo /\ to.clean = capture[w].clean
      /\ to.left = capture[w].left /\ to.file = capture[w].file /\ to.content = capture[w].content
  BY <1>0 DEF Captors, Holding
<1>2. capture' = [capture EXCEPT ![w] = to]
  BY DEF Left!StoreBlob
<1> HIDE DEF to
<1>3. capture'[w] = to /\ capture[w].content \in Outputs /\ blobs' = blobs \cup {capture[w].content}
  BY <1>0, <1>2 DEF FilesInv, FileTypes, HeldFile, Holding, Left!StoreBlob
<1>4. HeldFile(w)'
  BY <1>0, <1>1, <1>3 DEF HeldFile, Left!At, Holding
<1>5. PassedFiles(w)'
  BY <1>0, <1>1, <1>3 DEF PassedFiles, Left!At, Holding, Left!StoreBlob
<1> QED BY <1>0, <1>1, <1>2, <1>3, <1>4, <1>5, CaptureKeeps DEF Left!StoreBlob, Left!At, FilesInv,
   FileTypes, AsWritten, KeptFiles

LEMMA StoreRowKeeps ==
  ASSUME FilesInv, NEW w \in Left!Captures, Left!StoreRow(w),
         UNCHANGED <<staged, removed, blobs, run, wrote, blind, finalized, deaths>>
  PROVE  FilesInv'
<1> DEFINE to == [capture[w] EXCEPT !.at = IF capture[w].clean THEN "unlink" ELSE "next"]
<1>0. capture[w] \in Captors /\ capture[w].at = "row" /\ HeldFile(w) /\ PassedFiles(w)
  BY DEF FilesInv, FileTypes, Left!StoreRow, Left!At
<1>1. to \in Captors /\ to.at = (IF capture[w].clean THEN "unlink" ELSE "next")
      /\ to.todo = capture[w].todo /\ to.clean = capture[w].clean
      /\ to.left = capture[w].left /\ to.file = capture[w].file /\ to.content = capture[w].content
  BY <1>0 DEF Captors, Holding
<1>2. capture' = [capture EXCEPT ![w] = to]
  BY DEF Left!StoreRow
<1> HIDE DEF to
<1> DEFINE pair == <<capture[w].file, capture[w].content>>
<1>3. /\ capture'[w] = to /\ capture[w].content \in Outputs /\ capture[w].content \in blobs
      /\ stored' = stored \cup {pair} /\ pair \in Leaves \X Outputs /\ pair[2] = capture[w].content
  BY <1>0, <1>2 DEF FilesInv, FileTypes, HeldFile, Left!At, Holding, Left!StoreRow, Captors
<1>4. HeldFile(w)'
  BY <1>0, <1>1, <1>3 DEF HeldFile, Left!At, Holding
<1>5. PassedFiles(w)'
  BY <1>0, <1>1, <1>3 DEF PassedFiles, Left!At, Holding
<1>6. \A r \in stored' : r[2] \in blobs
  BY <1>3 DEF FilesInv, KeptFiles
<1> HIDE DEF pair
<1>7. stored \subseteq stored' /\ stored' \subseteq Leaves \X Outputs /\ to.at # "idle"
  BY <1>1, <1>3 DEF FilesInv, FileTypes
<1> QED BY <1>0, <1>1, <1>2, <1>4, <1>5, <1>6, <1>7, CaptureKeeps DEF Left!At, FilesInv,
   FileTypes, AsWritten

LEMMA UnlinkKeeps ==
  ASSUME FilesInv, NEW w \in Left!Captures, Left!Unlink(w), UNCHANGED <<stored, run, wrote, blind, finalized, deaths>>
  PROVE  FilesInv'
<1> DEFINE to == [capture[w] EXCEPT !.at = "next"]
<1>0. capture[w] \in Captors /\ capture[w].at = "unlink" /\ HeldFile(w) /\ PassedFiles(w)
  BY DEF FilesInv, FileTypes, Left!Unlink, Left!At
<1>1. to \in Captors /\ to.at = "next" /\ to.todo = capture[w].todo /\ to.clean = capture[w].clean
      /\ to.left = capture[w].left /\ to.file = capture[w].file /\ to.content = capture[w].content
  BY <1>0 DEF Captors
<1>2. capture' = [capture EXCEPT ![w] = to]
  BY DEF Left!Unlink
<1> HIDE DEF to
<1> DEFINE f == capture[w].file
<1>3. /\ capture'[w] = to /\ f \in Leaves
      /\ staged' \in [Leaves -> Outputs \cup {Left!Gone}]
      /\ staged'[f] = Left!Gone /\ \A g \in Leaves \ {f} : staged'[g] = staged[g]
  BY <1>0, <1>2 DEF FilesInv, FileTypes, Left!Unlink, Captors
<1>4. f \notin blind => <<f, wrote[f]>> \in stored
  BY <1>0 DEF HeldFile, Left!At, Holding
<1>5. HeldFile(w)'
  BY <1>0, <1>1, <1>3 DEF HeldFile, Left!At, Holding
<1>6. PassedFiles(w)'
  BY <1>0, <1>1, <1>3 DEF PassedFiles, Left!At, Holding
<1> HIDE DEF f
<1>7. \A g \in Leaves : staged'[g] \in {Left!Gone, staged[g]}
  BY <1>3
<1>8. removed' => \A g \in Leaves : staged'[g] = Left!Gone
  BY <1>7 DEF Left!Unlink, FilesInv, AsWritten
<1>9. \A g \in Leaves \ blind : staged[g] # Left!Gone => staged'[g] = staged[g] \/ <<g, wrote[g]>> \in stored
  BY <1>3, <1>4
<1> QED BY <1>0, <1>1, <1>2, <1>3, <1>5, <1>6, <1>7, <1>8, <1>9, CaptureKeeps DEF Left!Unlink,
   Left!At, FilesInv, FileTypes, KeptFiles

LEMMA FinishKeeps ==
  ASSUME FilesInv, NEW w \in Left!Captures, Left!Finish(w), UNCHANGED <<stored, run, wrote, blind, finalized, deaths>>
  PROVE  FilesInv'
<1>0. /\ capture[w] \in Captors /\ capture[w].at = "next" /\ capture[w].todo = {} /\ HeldFile(w) /\ PassedFiles(w)
      /\ capture' = [capture EXCEPT ![w] = Left!Idle] /\ blobs' = blobs
  BY DEF FilesInv, FileTypes, Left!Finish, Left!At
<1>1. capture'[w] = Left!Idle
  BY <1>0 DEF FilesInv, FileTypes
<1>2. HeldFile(w)' /\ PassedFiles(w)'
  BY <1>1, IdleCaptor DEF HeldFile, PassedFiles, Left!At, Holding
<1>3. capture[w].clean =>
        \A f \in Leaves \ blind : staged[f] = Left!Gone \/ (capture[w].left /\ staged[f] \in Oversized)
  BY <1>0 DEF PassedFiles, Left!At, Holding
<1>4. CASE capture[w].clean /\ ~capture[w].left
  <2>1. removed' = TRUE /\ staged' = [f \in Leaves |-> Left!Gone]
    BY <1>4 DEF Left!Finish
  <2>2. staged' \in [Leaves -> Outputs \cup {Left!Gone}] /\ \A f \in Leaves : staged'[f] = Left!Gone
    BY <2>1
  <2>3. \A f \in Leaves \ blind : staged[f] = Left!Gone
    BY <1>3, <1>4
  <2> QED BY <1>0, <1>2, <2>1, <2>2, <2>3, IdleCaptor, CaptureKeeps DEF Left!At, FilesInv,
     FileTypes, KeptFiles
<1>5. CASE ~(capture[w].clean /\ ~capture[w].left)
  <2>1. UNCHANGED <<removed, staged>>
    BY <1>5 DEF Left!Finish
  <2>2. w = "finalizer" => capture[w].clean
    BY <1>0 DEF HeldFile, Left!At
  <2>3. w = "finalizer" => \A f \in Leaves \ blind : staged[f] \in Oversized \cup {Left!Gone}
    BY <1>3, <2>2
  <2> QED BY <1>0, <1>2, <2>1, <2>3, IdleCaptor, CaptureKeeps DEF Left!At, FilesInv, FileTypes,
     AsWritten, KeptFiles
<1> QED BY <1>4, <1>5

LEMMA CaptureStepKeeps == ASSUME FilesInv, NEW w \in Left!Captures, Left!CaptureStep(w) PROVE FilesInv'
BY ListKeeps, TakeKeeps, StoreBlobKeeps, StoreRowKeeps, UnlinkKeeps, FinishKeeps DEF Left!CaptureStep

-----------------------------------------------------------------------------
\* A file is written: where a capture deletes, it does not count on that file.
LEMMA PutKeeps ==
  ASSUME FilesInv, NEW f \in Leaves, NEW c \in Outputs, Left!Put(f, c), UNCHANGED <<removed, blobs, stored>>
  PROVE  /\ AsWritten' /\ KeptFiles'
         /\ staged' \in [Leaves -> Outputs \cup {Left!Gone}] /\ wrote' \in [Leaves -> Outputs \cup {Left!Gone}]
         /\ blind' \subseteq Leaves
         /\ \A w \in Left!Captures : capture'[w] = capture[w] => HeldFile(w)' /\ PassedFiles(w)'
<1>1. /\ staged' \in [Leaves -> Outputs \cup {Left!Gone}] /\ wrote' \in [Leaves -> Outputs \cup {Left!Gone}]
      /\ staged'[f] = c /\ wrote'[f] = c /\ ~removed
      /\ \A g \in Leaves \ {f} : staged'[g] = staged[g] /\ wrote'[g] = wrote[g]
      /\ blind \subseteq blind' /\ blind' \subseteq Leaves /\ blind' \subseteq blind \cup {f}
      /\ Left!Cleaning => f \in blind'
  BY DEF Left!Put, FilesInv, FileTypes
<1>2. AsWritten' /\ KeptFiles'
  BY <1>1 DEF FilesInv, AsWritten, KeptFiles
<1>3. ASSUME NEW w \in Left!Captures, capture'[w] = capture[w] PROVE HeldFile(w)' /\ PassedFiles(w)'
  <2>1. capture[w].clean => f \in blind'
    BY <1>1, IdleCaptor DEF Left!Cleaning
  <2>2. HeldFile(w) /\ PassedFiles(w) /\ capture[w] \in Captors
    BY DEF FilesInv, FileTypes
  <2>3. HeldFile(w)'
    <3>1. capture[w].at \in Holding /\ capture[w].clean /\ capture[w].file \notin blind' =>
            capture[w].content = wrote'[capture[w].file]
      BY <1>1, <2>1, <2>2 DEF HeldFile, Captors
    <3> QED BY <1>1, <1>3, <2>2, <3>1 DEF HeldFile, Left!At
  <2>4. PassedFiles(w)'
    BY <1>1, <1>3, <2>1, <2>2 DEF PassedFiles, Left!At
  <2> QED BY <2>3, <2>4
<1> QED BY <1>1, <1>2, <1>3

LEMMA WriteKeeps ==
  ASSUME FilesInv, NEW f \in Leaves, NEW c \in Outputs, Left!Write(f, c)
  PROVE  FilesInv'
<1>1. /\ run = "writing" /\ Left!Put(f, c) /\ UNCHANGED <<run, removed, blobs, stored, capture, finalized, deaths>>
  BY DEF Left!Write
<1>2. Finalizing'
  BY <1>1 DEF FilesInv, Finalizing, Left!At
<1> QED BY <1>1, <1>2, PutKeeps DEF FilesInv, FileTypes

LEMMA RunEndsKeeps == ASSUME FilesInv, Left!RunEnds PROVE FilesInv'
<1>1. run' = "over" /\ UNCHANGED <<staged, removed, blobs, stored, capture, wrote, blind, finalized, deaths>>
  BY DEF Left!RunEnds
<1> QED BY <1>1 DEF FilesInv, FileTypes, AsWritten, KeptFiles, HeldFile, PassedFiles, Finalizing, Left!At

LEMMA FinalizerBeginsKeeps ==
  ASSUME FilesInv, NEW c \in Outputs, Left!FinalizerBegins(c)
  PROVE  FilesInv'
<1> DEFINE to == [Left!Idle EXCEPT !.at = "list", !.clean = TRUE]
<1>1. to \in Captors /\ to.at = "list" /\ to.clean
  BY IdleCaptor DEF Captors, Left!Idle
<1>2. /\ run = "over" /\ finalized' /\ finalized' \in BOOLEAN
      /\ capture' = [capture EXCEPT !["finalizer"] = to]
      /\ UNCHANGED <<run, removed, blobs, stored, deaths>>
      /\ Left!Put(manifest, c) \/ UNCHANGED <<staged, wrote, blind>>
  BY DEF Left!FinalizerBegins
<1> HIDE DEF to
<1>3. capture' \in [Left!Captures -> Captors] /\ capture'["finalizer"] = to
      /\ \A w \in Left!Captures \ {"finalizer"} : capture'[w] = capture[w]
  BY <1>1, <1>2 DEF FilesInv, FileTypes, Left!Captures
<1>4. HeldFile("finalizer")' /\ PassedFiles("finalizer")' /\ Finalizing'
  BY <1>1, <1>2, <1>3 DEF HeldFile, PassedFiles, Finalizing, Left!At, Holding
<1>5. manifest \in Leaves
  BY LeftAssumption DEF Left!ArtifactsAssumption
<1>6. CASE Left!Put(manifest, c)
  BY <1>2, <1>3, <1>4, <1>5, <1>6, PutKeeps DEF FilesInv, FileTypes
<1>7. CASE UNCHANGED <<staged, wrote, blind>>
  <2>1. FileTypes' /\ AsWritten' /\ KeptFiles'
    BY <1>2, <1>3, <1>7 DEF FilesInv, FileTypes, AsWritten, KeptFiles
  <2>2. ASSUME NEW w \in Left!Captures \ {"finalizer"} PROVE HeldFile(w)' /\ PassedFiles(w)'
    <3>1. capture'[w] = capture[w] /\ HeldFile(w) /\ PassedFiles(w)
      BY <1>3, <2>2 DEF FilesInv
    <3> QED BY <1>2, <1>7, <3>1 DEF HeldFile, PassedFiles, Left!At
  <2> QED BY <1>4, <2>1, <2>2 DEF FilesInv
<1> QED BY <1>2, <1>6, <1>7

LEMMA ToolBeginsKeeps ==
  ASSUME FilesInv, NEW cleanup \in BOOLEAN, Left!ToolBegins(cleanup)
  PROVE  FilesInv'
<1> DEFINE to == [Left!Idle EXCEPT !.at = "list", !.clean = cleanup]
<1>1. to \in Captors /\ to.at = "list"
  BY IdleCaptor DEF Captors, Left!Idle
<1>2. /\ capture' = [capture EXCEPT !["tool"] = to]
      /\ UNCHANGED <<run, staged, removed, blobs, stored, wrote, blind, finalized, deaths>>
  BY DEF Left!ToolBegins
<1> HIDE DEF to
<1>3. capture' \in [Left!Captures -> Captors] /\ capture'["tool"] = to
      /\ \A w \in Left!Captures \ {"tool"} : capture'[w] = capture[w]
  BY <1>1, <1>2 DEF FilesInv, FileTypes, Left!Captures
<1>4. HeldFile("tool")' /\ PassedFiles("tool")'
  BY <1>1, <1>3 DEF HeldFile, PassedFiles, Left!At, Holding
<1>5. FileTypes' /\ AsWritten' /\ KeptFiles'
  BY <1>2, <1>3 DEF FilesInv, FileTypes, AsWritten, KeptFiles
<1>6. ASSUME NEW w \in Left!Captures \ {"tool"} PROVE HeldFile(w)' /\ PassedFiles(w)'
  <2>1. capture'[w] = capture[w] /\ HeldFile(w) /\ PassedFiles(w)
    BY <1>3, <1>6 DEF FilesInv
  <2> QED BY <1>2, <2>1 DEF HeldFile, PassedFiles, Left!At
<1>7. Finalizing'
  <2>1. capture'["finalizer"] = capture["finalizer"]
    BY <1>3 DEF Left!Captures
  <2> QED BY <1>2, <2>1 DEF FilesInv, Finalizing, Left!At
<1> QED BY <1>4, <1>5, <1>6, <1>7 DEF FilesInv

LEMMA DieKeeps == ASSUME FilesInv, Left!Die PROVE FilesInv'
<1>1. /\ deaths' = deaths + 1 /\ run' \in {run, "over"} /\ finalized' = TRUE
      /\ capture' = [w \in Left!Captures |-> Left!Idle]
      /\ UNCHANGED <<staged, removed, blobs, stored, wrote, blind>>
  BY DEF Left!Die
<1>2. capture' \in [Left!Captures -> Captors] /\ \A w \in Left!Captures : capture'[w] = Left!Idle
  BY <1>1, IdleCaptor
<1>3. deaths' \in Nat /\ deaths' # 0
  BY <1>1 DEF FilesInv, FileTypes
<1>4. FileTypes' /\ AsWritten' /\ KeptFiles' /\ Finalizing'
  BY <1>1, <1>2, <1>3 DEF FilesInv, FileTypes, AsWritten, KeptFiles, Finalizing
<1>5. \A w \in Left!Captures : HeldFile(w)' /\ PassedFiles(w)'
  BY <1>2, IdleCaptor DEF HeldFile, PassedFiles, Left!At, Holding
<1> QED BY <1>4, <1>5 DEF FilesInv

LEMMA NothingIsStaged == Left!Init => FilesInv
<1> SUFFICES ASSUME Left!Init PROVE FilesInv
  OBVIOUS
<1>1. capture \in [Left!Captures -> Captors] /\ \A w \in Left!Captures : capture[w] = Left!Idle
  BY IdleCaptor DEF Left!Init
<1>2. FileTypes /\ AsWritten /\ KeptFiles
  BY <1>1 DEF Left!Init, FileTypes, AsWritten, KeptFiles
<1>3. \A w \in Left!Captures : HeldFile(w) /\ PassedFiles(w)
  BY <1>1, IdleCaptor DEF HeldFile, PassedFiles, Left!At, Holding
<1>4. Finalizing
  BY <1>1, IdleCaptor DEF Left!Init, Finalizing, Left!At, Left!Captures
<1> QED BY <1>2, <1>3, <1>4 DEF FilesInv

LEMMA CapturesKeep == FilesInv /\ [Left!Next]_(Left!vars) => FilesInv'
<1> SUFFICES ASSUME FilesInv, [Left!Next]_(Left!vars) PROVE FilesInv'
  OBVIOUS
<1>1. CASE UNCHANGED (Left!vars)
  BY <1>1 DEF Left!vars, FilesInv, FileTypes, AsWritten, KeptFiles, HeldFile, PassedFiles,
     Finalizing, Left!At
<1>2. CASE Left!Next
  BY <1>2, WriteKeeps, RunEndsKeeps, FinalizerBeginsKeeps, ToolBeginsKeeps, CaptureStepKeeps,
     DieKeeps DEF Left!Next
<1> QED BY <1>1, <1>2

LEMMA KeptSurvives == FilesInv => Left!EvidenceSurvives
<1> SUFFICES ASSUME FilesInv PROVE Left!EvidenceSurvives
  OBVIOUS
<1>1. \A r \in stored : Left!ReadBlob(r[2]) = "ok"
  <2> SUFFICES ASSUME NEW r \in stored PROVE Left!ReadBlob(r[2]) = "ok"
    OBVIOUS
  <2>1. "artifact_files" \in Left!ResolvedIn(r[2])
    BY DEF FilesInv, KeptFiles, Left!ResolvedIn
  <2>2. Left!ResolvedIn(r[2]) # {} /\ Left!ResolvedIn(r[2]) # {"bundles"}
    BY <2>1
  <2> QED BY <2>2 DEF Left!ReadBlob
<1>2. finalized /\ deaths = 0 /\ (\A w \in Left!Captures : capture[w] = Left!Idle) =>
        \A f \in Left!Present \ blind : staged[f] \in Oversized
  BY IdleCaptor DEF FilesInv, Finalizing, Left!At, Left!Captures, Left!Present
<1> QED BY <1>1, <1>2 DEF FilesInv, KeptFiles, Left!EvidenceSurvives

-----------------------------------------------------------------------------
\* A behaviour of the model is one of each part.
LEMMA PartsLeave == Parts => Left!Init /\ [][Left!Next]_(Left!vars)
<1>1. Start => Left!Init
  BY DEF Start
<1>2. [Step]_<<part, vars, leftVars>> => [Left!Next]_(Left!vars)
  BY DEF Step, leftVars, Left!vars
<1> QED BY <1>1, <1>2, PTL DEF Parts

LEMMA FilesInvariance == Parts => []FilesInv
BY PartsLeave, NothingIsStaged, CapturesKeep, PTL

\* What a run wrote is in its directory or in the database with its bytes,
\* whatever the two captures and the deaths of the server do, but for what was
\* written while a capture deleted; and after its finalizer nothing is left
\* but what is too large.
THEOREM EvidenceIsKept == Parts => []EvidenceSurvives
<1>1. FilesInv => EvidenceSurvives
  BY KeptSurvives DEF EvidenceSurvives
<1> QED BY <1>1, FilesInvariance, PTL
===============================================================================
