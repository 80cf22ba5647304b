CONSTANTS
    Contexts = {c1}
    Utxos = {u1, u2}
    Owners = {o1, o2}
    MaxTime = 2
    SplitBatch = TRUE
    Faults = {"reported"}
SPECIFICATION Spec
INVARIANTS
    
    GrantBacked
    PreviousOnlyWhileOwned
PROPERTIES
    ImplementsReservations
SYMMETRY Symmetry
