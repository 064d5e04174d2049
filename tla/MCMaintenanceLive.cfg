\* Two jobs, batches of one; the clock, the worker and its statements are fair.
SPECIFICATION FairWorker
CONSTANTS
    GroupNames = {"g"}
    JobNames = {"a", "b"}
    Reported = {"progress"}
    Timeouts = {1, 2, 4}
    DefaultConfig <- MCLongExpiration
    ConfigPatches <- MCLowerExpiration
    GroupPatches = {}
    CleanupStatuses = {}
    CleanupAges = {1}
    BatchSize = 1
    NULL = NULL
    KEEP = KEEP
    MaxId = 2
    MaxClock = 3
    MaxLag = 0
INVARIANT WorkerTypeOK
PROPERTIES JobsExpire HangsAreNoticed
