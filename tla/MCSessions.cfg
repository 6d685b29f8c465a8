\* What happens to sessions, of the bridge and of its node: one user, updated
\* only on a connected node, two callers and two overlapping operations. Every
\* batch goes in chunks, so the worker takes part in the competition for
\* _node_lock.
CONSTANTS
    Emails = {a}
    Tasks = {t1, t2}
    NoTask = NoTask
    Callers = {c1, c2}
    Ops = {o1, o2}
    Free = Free
    ChunkThreshold = 1
    HardResetThreshold = 2
    CallerHealth = {"HEALTHY", "BROKEN"}
    MaxVersion = 3
    MaxFailures = 3
SPECIFICATION RemoteSpec
SYMMETRY Symmetry
CHECK_DEADLOCK TRUE
INVARIANTS
    RemoteTypeOK
    SessionClosedClean
    VersionsMatchHealth
    ShutDownForgetsVersions
    HardResetMatchesCount
    LocksGuardRequests
    OnlyIdleExitStrands
    NodeInStep
    StopHolds
PROPERTIES
    InvalidIsPermanent
