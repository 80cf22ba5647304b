CONSTANTS
    MaxPay = 3
    MaxObj = 5
    Kinds = {"unlock", "lock", "recover"}
    Faults = {"refused", "late", "crash", "offline"}
    Serial = TRUE
SPECIFICATION Spec
INVARIANTS
    SettledInStep
    PastIsWatched
PROPERTIES
    RecoveryReachesMap
    ImplementsLedger
CHECK_DEADLOCK FALSE
