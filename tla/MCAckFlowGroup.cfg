\* Which group's jobs a group acknowledge reaches.
SPECIFICATION FlowSpec
CONSTANTS
    Requests = {q1}
    GroupNames = {"g", "h"}
    JobNames = {"a"}
    Reported = {"error", "progress"}
    Timeouts = {1}
    DefaultConfig <- MCDefaultConfig
    ConfigPatches = {}
    GroupPatches = {}
    CleanupStatuses <- MCCleanupStatuses
    CleanupAges = {1}
    BatchSize = 1
    NULL = NULL
    KEEP = KEEP
    MaxId = 2
    MaxClock = 2
    MaxLag = 0
PROPERTY AckStaysInGroup
