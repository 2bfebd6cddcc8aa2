SPECIFICATION FairSpec
CONSTANTS
  page1 = page1
  page2 = page2
  Reader = {page1}
  Faults <- FaultKind
INVARIANTS
  StoredRunIsWhole
  AnswersAreCommitted
  CallsAreVisible
  TerminalViewIsTrue
PROPERTIES
  RunEnds
CHECK_DEADLOCK FALSE
