SPECIFICATION Spec
CONSTANTS
  Candidates = {x1, x2, x3}
  Campaigns = {k1}
  Callers = {c1, c2}
  Refreshers = {c1}
  Nobody = Nobody
  MaxDecisions = 3
  MaxCrashes = 1
SYMMETRY Interchangeable
INVARIANTS
  OneChampion
  LabelsAreBacked

  
CHECK_DEADLOCK FALSE
