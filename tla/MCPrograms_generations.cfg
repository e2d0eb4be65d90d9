SPECIFICATION ProgSpec
CONSTANTS
    d1 = d1
    Digests = {d1}
    Contents <- OneStream
    MaxChunks = 2
    MaxFamilies = 1
    MaxIds = 2
    Boots = {1}
    RetentionClasses = {"keep_latest_n"}
    Lineages <- NoLineage
    ReplicaCounts = {1}
    PolicyIds = {1}
    PolicyTerms <- NoPolicies
    Probed = {1, 2}
    MaxFaults = 0
    ClockMovesInGc = FALSE
    MaxCrashes = 0
    CliCommands = {"simulate"}
    CoordinatorRequests = {}
    MaxRequests = 3
    MaxProcesses = 1
INVARIANTS
    GenerationsUnique
\* The bounded number of processes comes to its end.
CHECK_DEADLOCK FALSE
