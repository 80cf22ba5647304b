CONSTANTS
  t1 = t1
  t2 = t2
  Transfers = {t1, t2}
  Carriers = {o1}
  Callers = {c1}
  Transport <- Both
  Faults = {"restart", "reorg", "foreign", "refused", "lost", "unnamed"}
  MaxReorg = 2
  MaxRestart = 1
  Overlap = FALSE
  None = None

SPECIFICATION FairSpec
INVARIANTS
  TypeOK
  
  
  
PROPERTIES
  Reconciles
CHECK_DEADLOCK FALSE
