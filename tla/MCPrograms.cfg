SPECIFICATION FairProgSpec
CONSTANTS
    d1 = d1
    Digests = {d1}
    Contents <- OneStream
    MaxChunks = 2
    MaxFamilies = 1
    MaxIds = 2
    Boots = {1}
    RetentionClasses = {"keep_latest_n"}
    Lineages <- NoLineage
    ReplicaCounts = {1}
    PolicyIds = {1}
    PolicyTerms <- KeepTwo
    Probed = {1, 2}
    MaxFaults = 1
    ClockMovesInGc = FALSE
    MaxCrashes = 1
    CliCommands = {"family-create", "checkpoint-create", "simulate", "benchmark", "retain",
                   "retire", "gc-run", "gc-plan", "verify", "restore", "save", "recover"}
    CoordinatorRequests = {"register", "family", "publish", "gc", "save"}
    MaxRequests = 3
    MaxProcesses = 2
INVARIANTS
    ProgTypeOK
    
    AcknowledgedKept
    
PROPERTIES
    GcLeavesNoGarbage
    ImplementsDurable
    CommandsEnd
\* The bounded number of processes comes to its end.
CHECK_DEADLOCK FALSE
