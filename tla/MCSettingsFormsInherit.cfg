\* The instance of MCSettingsForms.cfg, for what the group dialog makes of an inherited expiration.
CONSTANTS
    NULL = NULL
    Minutes = {1, 2}
    Hours = {0, 2, 3}
    MaxMinutes = 1
    MaxHours = 3
    DefaultHours = 2
    Globals <- MCGlobals
    Starts <- MCStarts
    MaxEdits = 1
    MaxActs = 2
SPECIFICATION Spec
PROPERTIES UntouchedKeepsEffect
