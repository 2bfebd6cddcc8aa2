\* One round: every proposal, and the accepted plans' execution.
SPECIFICATION FairSpec
CONSTANTS
  s1 = s1
  s2 = s2
  s3 = s3
  s9 = s9
  sha = "sha"
  e1 = e1
  e2 = e2
  timeout = timeout
  not_found = not_found
  StepId <- MCStepId
  Field <- MCField
  Plans <- MCPlans
  Evidence <- MCEvidence
  FailureCode <- MCFailureCode
  RetryableCode <- MCRetryableCode
  DeriveFacts <- MCDeriveFacts
  MaxAttempts = 3
  MaxToolCalls = 5
  Tools <- MCTools
  AllowedTools <- MCAllowedTools
  Coherent <- MCCoherent
  MaxPlanSteps = 5
  MaxAdaptivePlanSteps = 3
  Answers <- MCAnswers
INVARIANTS
  AcceptedPlansAreRunnable
  ValidationIsExact
  AttemptsChargedOnce
  OnlyReadyStepsRun
  ReturnedStateAccounts
PROPERTIES
  RoundEnds
CHECK_DEADLOCK FALSE
