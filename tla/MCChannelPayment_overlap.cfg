CONSTANTS
    MaxPay = 2
    MaxObj = 4
    Kinds = {"unlock", "lock", "recover"}
    Faults = {"refused", "late", "store", "offline", "timeout", "crash"}
    Serial = FALSE
SPECIFICATION FairSpec

    
PROPERTIES
    SecretAfterCommitment
    
CHECK_DEADLOCK FALSE
