SPECIFICATION BackendSpec
CONSTANTS
    k1 = k1
    k2 = k2
    Keys = {k1, k2}
    NoKey = NoKey
    MaxSeq = 3
    MaxIoErrors = 2
    MaxDeaths = 2
    MaxLosses = 1
    MaxSerial = 3
    MaxSwitches = 4
INVARIANTS
    BackendTypeOK
    StagedIsWhole
    
PROPERTIES
    ImplementsObjectStore
