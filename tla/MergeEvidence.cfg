\* A pull request's facts, the decision over them and its explanation.
CONSTANTS
  None = None
  PageSize = 2
  MaxPages = 2
  MaxClaims = 3
  Worlds <- MCWorlds
  Responses <- MCResponses
  Outputs <- MCOutputs
  Reviews <- MCReviews
  Reports <- MCReports
  MaxChanges = 1
SPECIFICATION EvidenceSpec
INVARIANTS
  DecisionIsSupported
  ExplanationsAgree
CHECK_DEADLOCK FALSE
