\* One user, two overlapping calls, every batch in chunks: the worker competes
\* for _node_lock with start, stop and sync_users. No symmetry: liveness.
CONSTANTS
    Emails = {a}
    Tasks = {t1}
    NoTask = NoTask
    Callers = {c1}
    Ops = {o1, o2}
    Free = Free
    ChunkThreshold = 1
    HardResetThreshold = 1
    CallerHealth = {"HEALTHY", "BROKEN"}
    MaxVersion = 2
    MaxFailures = 2
SPECIFICATION FairSpec
CHECK_DEADLOCK TRUE
PROPERTIES
    CallsReturn
    UpdatesReturn
    BatchesEnd
    QueueDrains
