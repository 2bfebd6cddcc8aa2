SPECIFICATION FairSpec
CONSTANTS
  w1 = w1
  w2 = w2
  api1 = api1
  api2 = api2
  f1 = f1
  f2 = f2
  Worker = {w1, w2}
  Process = {api1}
  ProcessOf <- SharedLoop
  Fact = {f1, f2}
  Budget = 2
  MaxPlanningRounds = 3
  MaxFollowUps = 1
  Faults <- ShutdownAndCounters
PROPERTIES
  StartedCaseEnds
  BegunTurnEnds
CHECK_DEADLOCK FALSE
