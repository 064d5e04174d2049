\* Two clients, a channel for one event.
SPECIFICATION FairSpec
CONSTANTS
    Clients = {c1, c2}
    clientBufferDepth = 1
    MaxEvents = 2
INVARIANTS TypeOK NoPanic MapIsOpenChannels GapFree AtMostOneLateWrite
PROPERTIES FeedSpec ShutdownDrains DroppedDisconnects
CHECK_DEADLOCK FALSE
