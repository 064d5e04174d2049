\* The three forms; two saves, changes by others or losses of the network.
CONSTANTS
    NULL = NULL
    Minutes = {1, 2}
    Hours = {0, 2, 3}
    MaxMinutes = 1
    MaxHours = 3
    DefaultHours = 2
    Globals <- MCGlobals
    Starts <- MCStarts
    MaxEdits = 1
    MaxActs = 2
SPECIFICATION Spec
INVARIANTS FormTypeOK GuessIsTemporary ServerRuleKept
PROPERTIES UntouchedAsLoaded ClosesOnSuccess
