SPECIFICATION FairSpec
CONSTANTS
  Faults = {"lost"}
  Openings <- MCOpenings
  Closings = {"coop", "force"}
  MaxRestart = 1
CHECK_DEADLOCK FALSE
INVARIANTS
  AnchorAfterFunding
  ClosingAfterDeAnchor
  EndIsOnChain
  Carried
PROPERTIES
  CoursesEnd
