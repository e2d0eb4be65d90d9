SPECIFICATION Spec
CONSTANTS
    w1 = w1
    w2 = w2
    Workers = {w1, w2}
    Boots = {1, 2}
    Kinds = {"register", "publish", "advance"}
    Backlog = 2
    MaxEpoch = 2
    MaxRestarts = 1
PROPERTIES
    EpochsNeverReturn
