SPECIFICATION FairSpec
CONSTANTS
  Faults = {"lost"}
  Courses <- MCCourses
  MaxRestart = 1
  L1 = L1
  L2 = L2
CHECK_DEADLOCK FALSE
INVARIANTS
  ChainsInOrder
  AgreesWithPeer
  Carried
  UsableWhenClosed
PROPERTIES
  SplicesEnd
  WaitEnds
