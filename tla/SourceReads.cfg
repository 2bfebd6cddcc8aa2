\* The tools' calls over providers that fail, change and page their answers.
CONSTANTS
  None = None
  PageSize = 2
  MaxPages = 2
  MaxIssuePages = 2
  CommitPage = 2
  MaxPatch = 5
  MaxHunks = 2
  MaxLines = 2
  Worlds <- MCWorlds
  Requests <- MCRequests
  Responses <- MCResponses
  Paths = {1, 2}
  MaxReads = 2
  MaxChanges = 1
SPECIFICATION Spec
INVARIANTS
  ReadsAreWhole
  NoSilentLoss
PROPERTY EvidenceNeverChanges
CHECK_DEADLOCK FALSE
