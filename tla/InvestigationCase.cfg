SPECIFICATION Spec
CONSTANTS
  w1 = w1
  w2 = w2
  api1 = api1
  api2 = api2
  f1 = f1
  f2 = f2
  Worker = {w1, w2}
  Process = {api1}
  ProcessOf <- SharedLoop
  Fact = {f1, f2}
  Budget = 4
  MaxPlanningRounds = 3
  MaxFollowUps = 3
  Faults <- AllButCountLanded
INVARIANTS
  CallsWithinBudget
  EveryTurnAnswered
  CompletedCaseIsWhole
  CountedOncePerCase
PROPERTIES
  CaseIsALedger
CHECK_DEADLOCK FALSE
