\* A REST stream that is closed while the application still reads the log.
CONSTANTS
    Ink = {x}
    NodeAPIError = NodeAPIError
    MaxQueueSize = 1
    MaxArrived = 2
SPECIFICATION Spec
CHECK_DEADLOCK FALSE
INVARIANTS
    StreamOpenInContext
