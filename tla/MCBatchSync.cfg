\* Chunks that come out even and uneven, a worker's chunk size below, at and
\* above the cap, and frames at the edges of one, two and three length bytes.
\* A call ends: CHECK_DEADLOCK FALSE.
CONSTANTS
    MaxUsers = 5
    ChunkAim = 2
    ChunkCap = 3
    FrameSizes = {127, 128, 16384}
SPECIFICATION Spec
CHECK_DEADLOCK FALSE
INVARIANTS
    TypeOK
    AcceptedApplied
    AllOrNothing
    FramesDelimited
    FewChunks
PROPERTIES
    ReturnsUnlessHung
