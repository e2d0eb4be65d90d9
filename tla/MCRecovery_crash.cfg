SPECIFICATION RecSpec
CONSTANTS
    d1 = d1
    d2 = d2
    Digests = {d1}
    Contents <- TwiceStream
    MaxChunks = 2
    MaxFamilies = 1
    MaxIds = 2
    Boots = {1, 2}
    RetentionClasses = {"keep_latest_n"}
    Lineages <- NoLineage
    ReplicaCounts = {1}
    PolicyIds = {1}
    PolicyTerms <- NoPolicies
    Probed = {}
    MaxFaults = 0
    ClockMovesInGc = FALSE
    MaxCrashes = 2
INVARIANTS
    RecTypeOK
    LossOnlyBySweep
    NoLeakedReferences
    SavedRecordsKept
PROPERTIES
    PublishedUnderOwnBoot
