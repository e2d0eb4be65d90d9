SPECIFICATION Spec
CONSTANTS
    d1 = d1
    d2 = d2
    Digests = {d1, d2}
    Contents <- SomeStreams
    MaxChunks = 2
    MaxFamilies = 1
    MaxIds = 2
    Boots = {1}
    RetentionClasses = {"keep_latest_n"}
    Lineages <- NoLineage
    ReplicaCounts = {1, 2}
    PolicyIds = {1}
    PolicyTerms <- NoPolicies
    Probed = {1}
    MaxFaults = 2
    ClockMovesInGc = FALSE
INVARIANTS
    TypeOK
    NoFaultNoLoss
    RefcountExactWithoutFaults
    LiveChunksTracked
    GenerationsDense
PROPERTIES
    GcKeepsLiveChunks
    UnderReplicatedKept
    ImplementsCatalog
