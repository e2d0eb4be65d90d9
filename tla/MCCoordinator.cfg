SPECIFICATION Spec
CONSTANTS
    w1 = w1
    w2 = w2
    Workers = {w1, w2}
    Boots = {1, 2}
    Kinds = {"register", "publish", "restore", "advance", "save", "verify"}
    Backlog = 1
    MaxEpoch = 3
    MaxRestarts = 1
SYMMETRY WorkerSymmetry
INVARIANTS
    TypeOK
    ActiveIsStoreBoot

    
    
