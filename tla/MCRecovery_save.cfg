SPECIFICATION RecSpec
CONSTANTS
    d1 = d1
    d2 = d2
    Digests = {d1}
    Contents <- OneStream
    MaxChunks = 2
    MaxFamilies = 1
    MaxIds = 1
    Boots = {1}
    RetentionClasses = {"keep_latest_n"}
    Lineages <- NoLineage
    ReplicaCounts = {1}
    PolicyIds = {1}
    PolicyTerms <- NoPolicies
    Probed = {}
    MaxFaults = 0
    ClockMovesInGc = FALSE
    MaxCrashes = 2
PROPERTIES
    SaveIsAtomic
