SPECIFICATION Parts
CONSTANTS
  Programmes = {p1}
  Goals = {g1}
  Hypotheses = {h1}
  Trials = {t1, t2, t3}
  Callers = {c1, c2}
  Nobody = Nobody
  Verdicts = {"accepted", "rejected"}
  Budget = 1
  MaxCorrections = 0
  MaxCrashes = 1
  Filed = {q1, q2}
  Files = {f1, f2}
  Startup = Startup
  BatchSize = 1
  MaxInherited = 1
  Rows = {r1}
  Columns = {k1, k2}
SYMMETRY Interchangeable
INVARIANTS
  VerdictIsConcluded
  ClosedCoversListed
  OvershootBounded
  ArchivedIsCopied
  OneEntry
  NothingIsDestroyed
  ServedIsUpgraded
PROPERTIES
  
  StartLeavesNothingPending
CHECK_DEADLOCK FALSE
