SPECIFICATION Spec
CONSTANTS
  Campaigns = {k1, k2}
  Programmes = {p1, p2}
  Callers = {c1, c2}
  Nobody = Nobody
  Cap = 1
  MaxLost = 1
  MaxCrashes = 1
SYMMETRY Interchangeable
INVARIANTS
  ResultsAreAttributed
  SpawnsAreBounded
  
CHECK_DEADLOCK FALSE
