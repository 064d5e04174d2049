\* Two PUTs of a group's settings race each other, the other requests and the worker.
SPECIFICATION FlowSpec
CONSTANTS
    Puts = {q1, q2}
    GroupNames = {"g"}
    JobNames = {"a"}
    Reported = {"success"}
    Timeouts = {1, 2, 3}
    DefaultConfig <- MCDefaultConfig
    ConfigPatches <- MCConfigPatches
    GroupPatches <- MCGroupPatches
    CleanupStatuses <- MCCleanupStatuses
    CleanupAges = {1}
    BatchSize = 1
    NULL = NULL
    KEEP = KEEP
    MaxId = 1
    MaxClock = 2
    MaxLag = 0
INVARIANTS FlowTypeOK UndisturbedExpiry
PROPERTIES NoLostField UndisturbedRule
