SPECIFICATION FairScan
CONSTANTS
  rich = rich
  plain = plain
  third = third
  None = None
  MaxFacts = 3
  MaxFixLines = 4
  MaxExpansion = 1
  Listings <- MCListings
  MaxIssues = 2
  FileListCap = 2
  Frames <- MCFrames
  Tickets <- MCTickets
  Shas <- MCShas
  Commits <- MCCommits
  HypothesisAnswers <- MCHypothesisAnswers
  FindingAnswers <- MCFindingAnswers
  FixAnswers <- MCFixAnswers
  MaxTrouble = 2
  Unexpected = TRUE
INVARIANTS
  ResultsAccountForCalls
  ScanSurvivesItsIssues
  FindingsAreGrounded
  FixesFitTheirFindings
PROPERTIES
  ScanEnds
CHECK_DEADLOCK FALSE
