\* What happens to users: two of them, updated in every state of the node and
\* while two calls of start, stop or sync_users overlap. A batch of both goes
\* in chunks, a batch of one does not.
CONSTANTS
    Emails = {a, b}
    Tasks = {t1, t2}
    NoTask = NoTask
    Callers = {c1}
    Ops = {o1, o2}
    Free = Free
    ChunkThreshold = 2
    HardResetThreshold = 2
    CallerHealth = {"NOT_CONNECTED", "HEALTHY", "BROKEN", "INVALID"}
    MaxVersion = 2
    MaxFailures = 3
SPECIFICATION Spec
SYMMETRY Symmetry
CHECK_DEADLOCK TRUE
INVARIANTS
    TypeOK
    EventMatchesQueue
    SingleWorker
    NoLostUpdate
    QueueNewerThanBatch
PROPERTIES
    SendsInOrder
    ImplementsMailbox
