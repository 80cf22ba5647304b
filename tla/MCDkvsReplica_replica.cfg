\* Another device, lost answers, refused connections, an endpoint behind, a restart.
SPECIFICATION FairSpec
CONSTANTS
  k1 = k1
  k2 = k2
  PathOrder <- TwoPaths
  Keys = {k1, k2}
  PathOf <- KeyEach
  Writers = {"w1"}
  Updates <- Spanning
  MaxWrites = 2
  MaxRemote = 1
  Faults = {"lost", "offline", "lag", "crash"}
  MaxFault = 1
INVARIANTS
  Durable
  
  
PROPERTIES
  Settles
CHECK_DEADLOCK FALSE
