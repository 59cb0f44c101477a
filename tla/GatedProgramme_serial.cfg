SPECIFICATION GatedSpec
CONSTANTS
  Programmes = {p1}
  Goals = {g1}
  Hypotheses = {h1, h2}
  Trials = {t1, t2}
  Callers = {c1}
  Nobody = Nobody
  Verdicts = {"accepted"}
  Budget = 1
  MaxCorrections = 1
  MaxCrashes = 1
  WallBudget = 1
  Hours = {0, 2}
  MaxAcks = 1
INVARIANTS
  ClosedHasNoOpenWork
  GateLeavesAnExit
PROPERTIES
  ClosedIsImmutable
CHECK_DEADLOCK FALSE
