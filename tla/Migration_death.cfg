SPECIFICATION Spec
CONSTANTS
  Rows = {r1}
  Columns = {k1}
  None = None
  MaxCrashes = 1
INVARIANT AcceptedIsServed
CHECK_DEADLOCK FALSE
