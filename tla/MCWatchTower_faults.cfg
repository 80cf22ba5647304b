SPECIFICATION FairSpec
CONSTANTS
  Commits = {1, 2}
  Chans = {"a"}
  Utxos = {"old", "new"}
  ChanOf <- MCChanOf
  Inputs <- MCInputs
  Spliced = {"old"}
  Faults = {"store"}
  MaxRestart = 1
CHECK_DEADLOCK FALSE

  
  
PROPERTIES
  FlaggedIsPunished
