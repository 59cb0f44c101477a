SPECIFICATION FairSpec
CONSTANTS
  Trials = {t1}
  Callers = {c1, c2, c3, c4}
  NoTrial = NoTrial
  TombstoneCap = 1
  MaxCorrections = 2
  MaxCrashes = 1
INVARIANTS
  AuditsSeeEveryLoss
  OneExecution
PROPERTIES
  ImplementsTrialRow
  DispatchedSettles
  CancelReturns
CHECK_DEADLOCK FALSE
