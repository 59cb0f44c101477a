CONSTANTS
  Nobody = Nobody
  q1 = q1
  q2 = q2
  Requests = {q1, q2}
  Arms = {candidate}
  MaxConnects = 2
  MaxPings = 2
  MaxOutages = 1
  Drivers = {driver}
  Watchers = {reader}
  genesis = genesis
  child = child
  Versions = {genesis, child}
  LineageOf <- Lineage
  Plans = {1}
  PlanTouches <- OnePlan
  PlanOf <- OfPlan
  sound = sound
  unsound = unsound
  Designs = {sound, unsound}
  DesignPolicy <- Policies2
  Contests = {1}
  Contestant <- OneContest
  Routes = {episteme}
SYMMETRY Interchangeable
SPECIFICATION Parts
INVARIANTS
  AnswersMatch
  HealthyIsKept
  OneCampaignPerArm
  HintIsCurrent
  DebtsLeaveAnExit
CHECK_DEADLOCK FALSE
