\* One user or chunk is enough. A call ends: CHECK_DEADLOCK FALSE.
CONSTANTS
    MaxUsers = 1
    ChunkAim = 2
    ChunkCap = 3
    FrameSizes = {127}
SPECIFICATION Spec
CHECK_DEADLOCK FALSE
PROPERTIES
    SyncTimesOut
