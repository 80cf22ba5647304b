CONSTANTS
  t1 = t1
  t2 = t2
  Transfers = {t1, t2}
  Carriers = {o1}
  Callers = {c1}
  Transport <- Both
  Faults = {"restart"}
  MaxReorg = 1
  MaxRestart = 1
  Overlap = FALSE
  None = None

SPECIFICATION Spec
PROPERTIES
  RestartRestores
CHECK_DEADLOCK FALSE
