------------------------------- MODULE WriteGate -------------------------------
(***************************************************************************)
(* The gate before a server's mutating tools, the sweeps of its integrity  *)
(* checks and the log they write, and the acknowledgment of violations.    *)
(*                                                                         *)
(* A sweep reads the rows and is logged some awaits later; the gate reads  *)
(* the run that was logged last.  (The freshness of the status read, which *)
(* may lapse and be renewed at any time, is left out.)                     *)
(***************************************************************************)
EXTENDS Naturals, FiniteSets

CONSTANTS Sweepers,   \* who runs the checks: the monitor, a tool call
          Live,       \* the check whose logged rows are replaced by the present
          MaxAcks     \* bound: violations that are acknowledged

VARIABLES
  log,      \* the violations of the run logged last
  sweep,    \* of each sweep under way: the violations it has read
  acks,     \* violation_acks
  seen,     \* auxiliary: of each sweep, what has held ever since it read
  known,    \* auxiliary: what has held ever since a logged sweep read it
  crossed   \* auxiliary: two sweeps have overlapped

gate == <<log, sweep, acks, crossed>>
gateVars == <<gate, seen, known>>

\* A violation is a check and what it found.
NoSweep == {<<"none", "none">>}
Under(m) == sweep[m] # NoSweep

\* mutant: an acknowledgment goes for every finding of the check
AckedByCheck(v) == \E a \in acks : a[1] = v[1]

Acked(v) == v \in acks

\* open_violations; now: the violations that hold at present.
Open(now) ==
  {v \in {v \in log : v[1] # Live} \cup {v \in now : v[1] = Live} : ~Acked(v)}

\* check_no_open_violations: a tool that remedies any of them passes.
Refused(tool, remedies, now) ==
  Open(now) # {} /\ \A v \in Open(now) : tool \notin remedies[v[1]]

\* (A sweep that finds what is logged already is not followed.)
SweepRead(m, now) ==
  /\ ~Under(m) /\ now # log
  /\ sweep' = [sweep EXCEPT ![m] = now]
  /\ crossed' = (crossed \/ \E n \in Sweepers : Under(n))
  /\ UNCHANGED <<log, acks>>

SweepLogged(m) ==
  /\ Under(m)
  /\ log' = sweep[m]
  /\ sweep' = [sweep EXCEPT ![m] = NoSweep]
  /\ UNCHANGED <<acks, crossed>>

Acknowledge(v, now) ==
  /\ v \in Open(now) /\ Cardinality(acks) < MaxAcks
  /\ acks' = acks \cup {v}
  /\ UNCHANGED <<log, sweep, crossed>>

\* A restart runs the checks before it serves.
GateRestart(now) ==
  /\ log' = now
  /\ sweep' = [m \in Sweepers |-> NoSweep]
  /\ UNCHANGED <<acks, crossed>>

GateInit ==
  /\ log = {} /\ sweep = [m \in Sweepers |-> NoSweep] /\ acks = {} /\ crossed = FALSE
  /\ seen = [m \in Sweepers |-> {}] /\ known = {}

\* What the auxiliary variables record of a step, after which now holds.
Witness(now) ==
  LET read(m) == sweep'[m] # NoSweep /\ ~Under(m)
      logged == UNION {seen[m] : m \in {m \in Sweepers : Under(m) /\ sweep'[m] = NoSweep /\ log' = sweep[m]}}
  IN  IF crossed' THEN seen' = [m \in Sweepers |-> {}] /\ known' = {}
      ELSE /\ seen' = [m \in Sweepers |-> (IF read(m) THEN sweep'[m] ELSE seen[m]) \cap now]
           /\ known' = (known \cup logged) \cap now

\* A violation that has held ever since a logged sweep read it gates writes
\* until it is acknowledged, unless two sweeps have overlapped: the one that
\* read first may be logged last.
DebtIsSeen(now) == crossed \/ \A v \in known : v \in acks \/ v \in Open(now)
===============================================================================
