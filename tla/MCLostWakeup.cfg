\* One user and one call: the shortest history in which an accepted update is
\* left without a worker.
CONSTANTS
    Emails = {a}
    Tasks = {t1, t2}
    NoTask = NoTask
    Callers = {c1}
    Ops = {o1}
    Free = Free
    ChunkThreshold = 2
    HardResetThreshold = 2
    CallerHealth = {"HEALTHY", "BROKEN"}
    MaxVersion = 2
    MaxFailures = 2
SPECIFICATION Spec
SYMMETRY Symmetry
CHECK_DEADLOCK TRUE
INVARIANTS
    UpdateHasWorker
