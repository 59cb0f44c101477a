CONSTANTS
  genesis = genesis
  child = child
  grandchild = grandchild
  s1 = s1
  s2 = s2
  None = None
  Improvers <- Line
  ParentOf <- Parents
  Touched <- Components
  Callers = {s1, s2}
  MaxDecisions = 2
  MaxCrashes = 1
SYMMETRY Both
SPECIFICATION Spec
INVARIANTS
  SingleChampion
  PoliciesAreAuthorised
CHECK_DEADLOCK FALSE
