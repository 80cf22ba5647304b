CONSTANTS
    MaxPay = 2
    MaxObj = 4
    Kinds = {"unlock", "lock"}
    Faults = {"late"}
    Serial = TRUE
SPECIFICATION Spec
INVARIANTS
    LocalNotRevoked
CHECK_DEADLOCK FALSE
