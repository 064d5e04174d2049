\* Two groups and two job names, two rows in each table.
SPECIFICATION Spec
CONSTANTS
    GroupNames = {g, h}
    JobNames = {a, b}
    Reported = {"error", "progress"}
    Timeouts = {1, 2}
    DefaultConfig <- MCDefaultConfig
    ConfigPatches <- MCConfigPatches
    GroupPatches <- MCGroupPatches
    CleanupStatuses <- MCCleanupStatuses
    CleanupAges = {1}
    BatchSize = 1
    NULL = NULL
    KEEP = KEEP
    MaxId = 2
    MaxClock = 2
    MaxLag = 1
SYMMETRY NameSymmetry
INVARIANTS TypeOK Integrity AckedImpliesUnhealthy ExpiryMatchesConfig
PROPERTIES NewFailureNeedsAck GroupsDieWithOldJobsOnly
