SPECIFICATION Spec
CONSTANTS
    d1 = d1
    d2 = d2
    Digests = {d1}
    Contents <- NoData
    MaxChunks = 2
    MaxFamilies = 1
    MaxIds = 3
    Boots = {1}
    RetentionClasses = {"keep_latest_n", "ttl", "pinned"}
    Lineages <- SomeLineages
    ReplicaCounts = {1}
    PolicyIds = {1, 2}
    PolicyTerms <- TwoOrThree
    Probed = {}
    MaxFaults = 0
    ClockMovesInGc = TRUE
PROPERTIES
    AncestorsOutlive
    LatestKept
