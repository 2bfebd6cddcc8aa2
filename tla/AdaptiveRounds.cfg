SPECIFICATION RoundsSpec
CONSTANTS
  s1 = s1
  s2 = s2
  sha = sha
  e1 = e1
  e2 = e2
  timeout = timeout
  StepId <- MCStepId
  Field <- MCField
  Plans <- MCPlans
  Evidence <- MCEvidence
  FailureCode <- MCFailureCode
  RetryableCode <- MCFailureCode
  DeriveFacts <- MCDeriveFacts
  MaxAttempts = 2
  MaxToolCalls = 4
  MaxPlanningRounds = 3
  MaxNoProgressRounds = 1
INVARIANTS
  EvidenceIsCreditedOnce
  StopReasonIsTrue
PROPERTIES
  RoundsMeetContract
CHECK_DEADLOCK FALSE
