\* Users may be updated in every state of the node, also before start.
CONSTANTS
    Emails = {a}
    Tasks = {t1, t2}
    NoTask = NoTask
    Callers = {c1}
    Ops = {o1}
    Free = Free
    ChunkThreshold = 2
    HardResetThreshold = 2
    CallerHealth = {"NOT_CONNECTED", "HEALTHY", "BROKEN", "INVALID"}
    MaxVersion = 2
    MaxFailures = 2
SPECIFICATION Spec
SYMMETRY Symmetry
CHECK_DEADLOCK TRUE
INVARIANTS
    DisconnectedQueueEmpty
