\* Two jobs of one group and a third of another, two clicks or changes.
SPECIFICATION Spec
CONSTANTS
    Jobs = {1, 2, 3}
    Groups = {"g", "h"}
    GroupOf <- MCGroupOf
    HomeGroup = "g"
    Screens <- MCScreens
    Statuses = {"success", "progress", "error"}
    Unhealthy = {"error"}
    Filter = {"error"}
    NULL = NULL
    Starts <- MCStarts
    MaxActs = 2
INVARIANTS CacheTypeOK NothingLeftBehind
PROPERTIES PredictsServer
