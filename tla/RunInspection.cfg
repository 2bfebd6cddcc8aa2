\* Tabs that start, watch and continue runs.
CONSTANTS
  None = None
  inv = inv
  merge = merge
  a = a
  b = b
  q1 = q1
  q2 = q2
  Runs = {inv, merge}
  Tabs = {a, b}
  Questions = {q1, q2}
  QueueMaxSize = 1
  MaxShown = 2
  MaxFollowUps = 1
  States <- MCStates
  Steps <- MCSteps
  Scenes <- MCScenes
  MaxGenerations = 2
  MaxSaves = 5
  MaxEvents = 2
  MaxStreams = 3
  MaxFailures = 1
  MaxExtractions = 3
SPECIFICATION FairSpec
INVARIANTS
  TracesAreInOrder
  ResponsesAreAccepted
  ConfirmedFieldsAreTheQuestions
PROPERTIES
  PagesFollowTheirRun
  PagesSettle
CHECK_DEADLOCK FALSE
