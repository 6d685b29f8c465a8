\* Both transports, up to five bytes or messages. The context ends for good:
\* no deadlock check.
CONSTANTS
    Ink = {x}
    NodeAPIError = NodeAPIError
    MaxQueueSize = 1
    MaxArrived = 5
SPECIFICATION FairSpec
CHECK_DEADLOCK FALSE
INVARIANTS
    TypeOK
    LinesIntact
    ErrorEndsLog
    NoOrphanReceiver
PROPERTIES
    ContextCloses
