CONSTANTS
  f1 = f1
  f2 = f2
  s1 = s1
  s2 = s2
  Investigations = {i1}
  Findings = {f1, f2}
  Callers = {s1, s2}
  Sweepers = {monitor}
  MaxAcks = 1
  MaxOutages = 1
  Live = "upstream_connectivity"
SYMMETRY Same
SPECIFICATION Spec
INVARIANTS
  AssertedHasClaim
  DistilledWhenAlone
  LoggedDebtGates
CHECK_DEADLOCK FALSE
