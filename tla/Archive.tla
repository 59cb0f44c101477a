------------------------------- MODULE Archive -------------------------------
(***************************************************************************)
(* The archiver of the episteme server: a closed programme is copied to a  *)
(* second database that several programmes share, marked, entered in a     *)
(* registry, and the shared file is sealed when it is full.  Every         *)
(* statement is a commit of its own, in one of two databases or on the     *)
(* file system, and the process may die between any two.                   *)
(*                                                                         *)
(* close_programme archives in a worker thread; archive_pending_programmes *)
(* runs on the event loop without an await, so one at a time; a start      *)
(* repairs and archives before it serves, with nobody else around.         *)
(***************************************************************************)
EXTENDS Naturals, FiniteSets, Sequences, Functions

CONSTANTS Programmes,
          Archives,        \* a bound as well: files that may ever be created
          Callers,         \* requests the server handles at the same time
          Startup,         \* the start of the process, which archives, too
          Nothing,         \* no programme, no archive, no hash
          BatchSize,       \* programmes per file
          MaxInherited,    \* bound: programmes left by earlier versions
          MaxCrashes       \* bound: process deaths

NamesAssumption ==
  /\ Nothing \notin Programmes \cup Archives
  /\ \A hashed \in SUBSET Programmes : hashed # Nothing
  /\ Startup \notin Callers
  /\ IsFiniteSet(Callers)
BoundsAssumption ==
  /\ BatchSize \in Nat \ {0}
  /\ {MaxInherited, MaxCrashes} \subseteq Nat

VARIABLES
  status,       \* programmes.status; "closed": completed or abandoned;
                \* "absent": no such row in the live database
  whole,        \* the programmes whose other rows are all in the live database
  registry,     \* the archives in archive_registry, oldest first
  filed,        \* archive_registry.programme_count
  sealHash,     \* archive_registry.archive_hash, as the contents it stands for
  entries,      \* archive_entries: the programmes of the rows that name each archive
  contents,     \* the archive files: the programmes whose rows each one holds
  readonly,     \* archive files with mode 0444
  call,         \* where each archiving is
  crashes

live    == <<status, whole>>
ledger  == <<registry, filed, sealHash, entries>>
files   == <<contents, readonly>>
vars    == <<live, ledger, files, call, crashes>>

Actors == Callers \cup {Startup}
Sealed(a) == sealHash[a] # Nothing

\* Programmes the registry knows.
EnteredIn(a) == Range(entries[a])
Entered == UNION {EnteredIn(a) : a \in Archives}

\* An archiving: its next step, on whose behalf it runs, its programme, the
\* file it has chosen, the hash it has read, and the programmes
\* still to do with those that had an entry when they were listed.
Work(step, by, p, todo, known) ==
  [step |-> step, by |-> by, programme |-> p, archive |-> Nothing,
   hash |-> Nothing, todo |-> todo, known |-> known]
Idle == Work("idle", "nobody", Nothing, {}, {})
At(c, step) == call[c].step = step
Serving == call[Startup] = Idle

Goto(c, step) == call' = [call EXCEPT ![c].step = step]
Listing(c) == Work("list", call[c].by, Nothing,
                   call[c].todo, call[c].known)
\* The archiving of one programme has ended; what follows depends on whom it
\* was for.  The closing answers.  The tool and the start go on, the start
\* only after a success: its loop has one handler for all exceptions.
Done(c) ==
  call' = [call EXCEPT ![c] = IF call[c].by = "close" THEN Idle ELSE Listing(c)]
Failed(c) ==
  call' = [call EXCEPT ![c] = IF call[c].by = "pending" THEN Listing(c) ELSE Idle]

-----------------------------------------------------------------------------
(***************************************************************************)
(* The three ways in.                                                      *)
(***************************************************************************)
\* close_programme, from its last commit on.
Close(c, p) ==
  /\ Serving
  /\ call[c] = Idle
  /\ status[p] = "active"
  /\ status' = [status EXCEPT ![p] = "closed"]
  /\ call' = [call EXCEPT ![c] = Work("begin", "close", p, {}, {})]
  /\ UNCHANGED <<whole, ledger, files, crashes>>

\* archive_pending_programmes lists what is closed ...
PendingScan(c) ==
  /\ Serving
  /\ call[c] = Idle
  /\ \A d \in Callers : call[d].by # "pending"
  /\ \E p \in Programmes : status[p] = "closed"
  /\ call' = [call EXCEPT ![c] =
                Work("known", "pending", Nothing,
                     {p \in Programmes : status[p] = "closed"}, {})]
  /\ UNCHANGED <<live, ledger, files, crashes>>

\* ... then what has an entry.  A start does the same.
PendingKnown(c) ==
  /\ At(c, "known")
  /\ call' = [call EXCEPT ![c] = Work("list", call[c].by, Nothing,
                                      call[c].todo, Entered)]
  /\ UNCHANGED <<live, ledger, files, crashes>>

PendingEnd(c) ==
  /\ At(c, "list")
  /\ call[c].todo = {}
  /\ call' = [call EXCEPT ![c] = Idle]
  /\ UNCHANGED <<live, ledger, files, crashes>>

PendingTake(c) ==
  /\ At(c, "list")
  /\ \E p \in call[c].todo \ call[c].known :
       call' = [call EXCEPT ![c] = Work("begin", call[c].by, p,
                                        call[c].todo \ {p}, call[c].known)]
  /\ UNCHANGED <<live, ledger, files, crashes>>

\* A programme with an entry is only marked; the tool swallows a refusal.
PendingMark(c) ==
  /\ At(c, "list")
  /\ \E p \in call[c].todo \cap call[c].known :
       /\ status' = IF status[p] = "closed"
                      THEN [status EXCEPT ![p] = "archived"] ELSE status
       /\ call' = [call EXCEPT ![c] = [Listing(c) EXCEPT !.todo = @ \ {p}]]
  /\ UNCHANGED <<whole, ledger, files, crashes>>

-----------------------------------------------------------------------------
(***************************************************************************)
(* archive_programme.                                                      *)
(***************************************************************************)
\* It refuses a programme that is not closed and, when others are served, one
\* that a racing request has left with a running trial.
ArchiveBegin(c) ==
  /\ At(c, "begin")
  /\ \/ status[call[c].programme] = "closed" /\ Goto(c, "find")
     \/ /\ status[call[c].programme] # "closed" \/ Serving
        /\ Failed(c)
  /\ UNCHANGED <<live, ledger, files, crashes>>

\* The oldest open one is the i-th of the registry.
OldestOpen(i) ==
  /\ i \in DOMAIN registry
  /\ ~Sealed(registry[i])
  /\ \A j \in 1..(i - 1) : Sealed(registry[j])
Used(a) == a \in Range(registry) \/ \E c \in Actors : call[c].archive = a

\* A new file has the tables and no rows.
NewFile == {}

\* _get_or_create_open_archive: the oldest open one, or a new file ...
ArchiveFind(c) ==
  /\ At(c, "find")
  /\ \/ \E i \in DOMAIN registry :
          /\ OldestOpen(i)
          /\ call' = [call EXCEPT ![c].step = "copy", ![c].archive = registry[i]]
          /\ UNCHANGED contents
     \/ /\ \A a \in Range(registry) : Sealed(a)
        /\ \E a \in Archives :
             /\ ~Used(a)
             /\ contents' = [contents EXCEPT ![a] = NewFile]
             /\ call' = [call EXCEPT ![c].step = "register", ![c].archive = a]
  /\ UNCHANGED <<live, ledger, readonly, crashes>>

\* ... that is registered in a second step.
ArchiveRegister(c) ==
  /\ At(c, "register")
  /\ registry' = Append(registry, call[c].archive)
  /\ Goto(c, "copy")
  /\ UNCHANGED <<live, filed, sealHash, entries, files, crashes>>

\* _collect_programme_rows: all that a programme refers to, as far as the live
\* database has it.
Collected(p) == {p} \cap whole

\* mutant: a copy that is refused is taken for done
ArchiveCopyLenient(c) ==
  /\ At(c, "copy")
  /\ contents' = IF call[c].archive \in readonly THEN contents
                   ELSE [contents EXCEPT ![call[c].archive] =
                           @ \cup Collected(call[c].programme)]
  /\ Goto(c, "mark")
  /\ UNCHANGED <<live, ledger, readonly, crashes>>

\* _copy_to_archive, one transaction; a file made read-only since it was chosen
\* refuses it.
ArchiveCopy(c) ==
  /\ At(c, "copy")
  /\ LET a == call[c].archive
     IN IF a \in readonly
          THEN Failed(c) /\ UNCHANGED contents
          ELSE /\ contents' = [contents EXCEPT ![a] = @ \cup Collected(call[c].programme)]
               /\ Goto(c, "verify")
  /\ UNCHANGED <<live, ledger, readonly, crashes>>

\* _verify_archive opens the file again and counts.
Verified(a, p) == p \in contents[a]
ArchiveVerify(c) ==
  /\ At(c, "verify")
  /\ IF Verified(call[c].archive, call[c].programme) THEN Goto(c, "mark") ELSE Failed(c)
  /\ UNCHANGED <<live, ledger, files, crashes>>

\* mutant: marking twice is no error
ArchiveMarkAgain(c) ==
  /\ At(c, "mark")
  /\ status' = [status EXCEPT ![call[c].programme] = "archived"]
  /\ Goto(c, "enter")
  /\ UNCHANGED <<whole, ledger, files, crashes>>

\* The commit point: only one archiving gets a programme from closed to archived.
ArchiveMark(c) ==
  /\ At(c, "mark")
  /\ IF status[call[c].programme] = "closed"
       THEN /\ status' = [status EXCEPT ![call[c].programme] = "archived"]
            /\ Goto(c, "enter")
       ELSE Failed(c) /\ UNCHANGED status
  /\ UNCHANGED <<whole, ledger, files, crashes>>

\* _record_archive_entry: the entry and the count are two commits.
ArchiveEnter(c) ==
  /\ At(c, "enter")
  /\ entries' = [entries EXCEPT ![call[c].archive] = Append(@, call[c].programme)]
  /\ Goto(c, "count")
  /\ UNCHANGED <<live, registry, filed, sealHash, files, crashes>>

ArchiveCount(c) ==
  /\ At(c, "count")
  /\ filed' = [filed EXCEPT ![call[c].archive] = @ + 1]
  /\ Goto(c, "full")
  /\ UNCHANGED <<live, registry, sealHash, entries, files, crashes>>

ArchiveFull(c) ==
  /\ At(c, "full")
  /\ IF filed[call[c].archive] >= BatchSize THEN Goto(c, "hash") ELSE Done(c)
  /\ UNCHANGED <<live, ledger, files, crashes>>

\* _seal_archive: hash the file, record the hash, take the permission to write.
SealHash(c) ==
  /\ At(c, "hash")
  /\ call' = [call EXCEPT ![c].step = "seal",
                          ![c].hash = contents[call[c].archive]]
  /\ UNCHANGED <<live, ledger, files, crashes>>

SealRecord(c) ==
  /\ At(c, "seal")
  /\ sealHash' = [sealHash EXCEPT ![call[c].archive] = call[c].hash]
  /\ Goto(c, "lock")
  /\ UNCHANGED <<live, registry, filed, entries, files, crashes>>

SealLock(c) ==
  /\ At(c, "lock")
  /\ readonly' = readonly \cup {call[c].archive}
  /\ Done(c)
  /\ UNCHANGED <<live, ledger, contents, crashes>>

-----------------------------------------------------------------------------
(***************************************************************************)
(* The start: repair what the registry knows, then archive what is closed. *)
(***************************************************************************)
Boot == Work("repair", "startup", Nothing, {}, {})
Damaged == {p \in Entered : status[p] # "archived"}

\* A programme that an old version reset to active, or left closed with an entry.
RepairStatus ==
  /\ At(Startup, "repair")
  /\ \E p \in Damaged :
       /\ status[p] # "absent"
       /\ status' = [status EXCEPT ![p] = "archived"]
  /\ UNCHANGED <<whole, ledger, files, call, crashes>>

\* A programme that an old version deleted comes back row by row, each row a
\* commit, the one that says it is archived first.
RestoreBegin ==
  /\ At(Startup, "repair")
  /\ \E p \in Damaged :
       /\ status[p] = "absent"
       /\ status' = [status EXCEPT ![p] = "archived"]
       /\ call' = [call EXCEPT ![Startup].step = "restore", ![Startup].programme = p]
  /\ UNCHANGED <<whole, ledger, files, crashes>>

RestoreRest ==
  /\ At(Startup, "restore")
  /\ LET p == call[Startup].programme
     IN \E a \in Archives :
          /\ p \in EnteredIn(a)
          /\ whole' = whole \cup ({p} \cap contents[a])
  /\ call' = [call EXCEPT ![Startup] = Boot]
  /\ UNCHANGED <<status, ledger, files, crashes>>

\* mutant: archives what is closed before it has repaired
StartupScanFirst ==
  /\ At(Startup, "repair")
  /\ call' = [call EXCEPT ![Startup] =
                Work("known", "startup", Nothing,
                     {p \in Programmes : status[p] = "closed"}, {})]
  /\ UNCHANGED <<live, ledger, files, crashes>>

StartupScan ==
  /\ At(Startup, "repair")
  /\ Damaged = {}
  /\ call' = [call EXCEPT ![Startup] =
                Work("known", "startup", Nothing,
                     {p \in Programmes : status[p] = "closed"}, {})]
  /\ UNCHANGED <<live, ledger, files, crashes>>

-----------------------------------------------------------------------------
\* The process dies and is started again.
Crash ==
  /\ crashes < MaxCrashes
  /\ crashes' = crashes + 1
  /\ call' = [c \in Actors |-> IF c = Startup THEN Boot ELSE Idle]
  /\ UNCHANGED <<live, ledger, files>>

-----------------------------------------------------------------------------
\* A database of an earlier version may hold programmes with an entry that were
\* deleted from the live database, reset to active or not yet marked.
Inherited == {old \in UNION {[1..n -> Programmes] : n \in 0..MaxInherited} : IsInjective(old)}

Init ==
  \E old \in Inherited, a \in Archives, left \in {"absent", "active", "closed"} :
    /\ status = [p \in Programmes |-> IF p \in Range(old) THEN left ELSE "active"]
    /\ whole = IF left = "absent" THEN Programmes \ Range(old) ELSE Programmes
    /\ registry = IF old = <<>> THEN <<>> ELSE <<a>>
    /\ entries = [b \in Archives |-> IF b = a THEN old ELSE <<>>]
    /\ contents = [b \in Archives |-> IF b = a THEN Range(old) ELSE {}]
    /\ filed = [b \in Archives |-> IF b = a THEN Len(old) ELSE 0]
    /\ sealHash = [b \in Archives |->
                     IF filed[b] >= BatchSize THEN contents[b] ELSE Nothing]
    /\ readonly = {b \in Archives : Sealed(b)}
    /\ call = [c \in Actors |-> IF c = Startup THEN Boot ELSE Idle]
    /\ crashes = 0

Archiving(c) ==
  \/ PendingKnown(c) \/ PendingEnd(c) \/ PendingTake(c) \/ PendingMark(c)
  \/ ArchiveBegin(c) \/ ArchiveFind(c) \/ ArchiveRegister(c)
  \/ ArchiveCopy(c) \/ ArchiveVerify(c) \/ ArchiveMark(c)
  \/ ArchiveEnter(c) \/ ArchiveCount(c) \/ ArchiveFull(c)
  \/ SealHash(c) \/ SealRecord(c) \/ SealLock(c)

Next ==
  \/ \E c \in Callers : PendingScan(c) \/ \E p \in Programmes : Close(c, p)
  \/ \E c \in Actors : Archiving(c)
  \/ RepairStatus \/ RestoreBegin \/ RestoreRest \/ StartupScan
  \/ Crash

Spec == Init /\ [][Next]_vars

-----------------------------------------------------------------------------
TypeOK ==
  /\ status \in [Programmes -> {"absent", "active", "closed", "archived"}]
  /\ whole \subseteq Programmes
  /\ registry \in Seq(Archives) /\ IsInjective(registry)
  /\ filed \in [Archives -> Nat]
  /\ sealHash \in [Archives -> {Nothing} \cup SUBSET Programmes]
  /\ entries \in [Archives -> Seq(Programmes)]
  /\ contents \in [Archives -> SUBSET Programmes]
  /\ readonly \subseteq Archives
  /\ crashes \in Nat

\* get_archived_programme: whether a reader of the archive is given p, whose
\* first entry is in a.
ArchivedProgramme(a, p) == p \in EnteredIn(a) /\ p \in contents[a]

\* verify_archive: a sealed file has the hash that was recorded, an open one as
\* many entries as were counted.
VerifyArchive(a) ==
  IF Sealed(a) THEN contents[a] = sealHash[a]
  ELSE Len(entries[a]) = filed[a]

\* archive_programme's order (copy, verify, mark, register): whatever archivings
\* overlap or die, an archived programme is held whole by some file and an entry
\* never points to a file without it.  With no death, and when nobody is at it,
\* an open file passes its verification.
ArchivedIsCopied ==
  /\ \A p \in Programmes :
       status[p] = "archived" => \E a \in Archives : p \in contents[a]
  /\ \A a \in Archives, p \in Programmes :
       p \in EnteredIn(a) => ArchivedProgramme(a, p)
  /\ crashes = 0 /\ (\A c \in Actors : call[c] = Idle) =>
       \A a \in Archives : Sealed(a) \/ VerifyArchive(a)

\* The mark lets one archiving through: no programme gets two entries, although
\* the tool, a close and a start may all archive it.
OneEntry ==
  /\ \A a \in Archives : IsInjective(entries[a])
  /\ \A a, b \in Archives : a # b => EnteredIn(a) \cap EnteredIn(b) = {}

\* main's safety net: when a start begins to serve, it has repaired every
\* programme with an entry and archived every closed one.
StartLeavesNothingPending ==
  [][~Serving /\ Serving' =>
       \A p \in Programmes :
         /\ status'[p] # "closed"
         /\ p \in Entered' => status'[p] = "archived"]_vars

=============================================================================
