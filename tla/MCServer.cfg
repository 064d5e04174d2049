\* One request beside the worker; one group with two jobs, in batches of one.
SPECIFICATION ServerSpec
CONSTANTS
    Requests = {q1}
    GroupNames = {"g"}
    JobNames = {a, b}
    Reported = {"success", "progress"}
    Timeouts = {1, 2}
    DefaultConfig <- MCDefaultConfig
    ConfigPatches <- MCConfigPatches
    GroupPatches <- MCGroupPatches
    CleanupStatuses <- MCCleanupStatuses
    CleanupAges = {1}
    BatchSize = 1
    NULL = NULL
    KEEP = KEEP
    MaxId = 2
    MaxClock = 2
    MaxLag = 0
SYMMETRY NameSymmetry
INVARIANT ChangesAnnounced
PROPERTIES NoFalseAlarm NoEarlyTransition
