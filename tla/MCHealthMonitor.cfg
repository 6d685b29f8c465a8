\* The code's three retries. Failures of syncs are not counted here, so the
\* bound of the counter does not matter.
CONSTANTS
    Checks = {k1, k2}
    MaxRetries = 3
    HardResetThreshold = 1
    MaxFailures = 1
SPECIFICATION FairSpec
CHECK_DEADLOCK TRUE
INVARIANTS
    TypeOK
    VersionsMatchHealth
    NoCheckOutlivesSession
    OneCheck
PROPERTIES
    LossNoticed
    ReturnNoticed
