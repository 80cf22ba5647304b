CONSTANTS
    Contexts = {c1, c2}
    Utxos = {u1, u2}
    Owners = {o1, o2}
    MaxTime = 3
    SplitBatch = TRUE
    Faults = {"reported"}
SPECIFICATION Spec
PROPERTY NeverTaken
