\* A failure of the stream that the application is not told of.
CONSTANTS
    Ink = {x}
    NodeAPIError = NodeAPIError
    MaxQueueSize = 1
    MaxArrived = 2
SPECIFICATION Spec
CHECK_DEADLOCK FALSE
INVARIANTS
    ErrorReported
