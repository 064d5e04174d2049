\* Two requests race each other, reports, deletions and the worker.
SPECIFICATION FlowSpec
CONSTANTS
    Requests = {q1, q2}
    GroupNames = {"g", "h"}
    JobNames = {"a"}
    Reported = {"error", "progress"}
    Timeouts = {1}
    DefaultConfig <- MCDefaultConfig
    ConfigPatches = {}
    GroupPatches = {}
    CleanupStatuses <- MCCleanupStatuses
    CleanupAges = {1}
    BatchSize = 1
    NULL = NULL
    KEEP = KEEP
    MaxId = 2
    MaxClock = 2
    MaxLag = 0
SYMMETRY RequestSymmetry
INVARIANTS FlowTypeOK Accounted
