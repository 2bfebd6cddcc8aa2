\* A change without files: the tool raises instead of answering empty.
CONSTANTS
  None = None
  PageSize = 2
  MaxPages = 2
  MaxIssuePages = 2
  CommitPage = 2
  MaxPatch = 5
  MaxHunks = 2
  MaxLines = 2
  Worlds <- EmptyWorlds
  Requests <- MCRequests
  Responses <- MCResponses
  Paths = {1, 2}
  MaxReads = 2
  MaxChanges = 1
SPECIFICATION Spec
INVARIANT EveryCallIsAnswered
CHECK_DEADLOCK FALSE
