SPECIFICATION FairSpec
CONSTANTS
    Request = {r1, r2, r3}
    Initial = initial
    None = None
    Operations = {"retry", "cancel"}
    CancelAttempts = 1
    MaxFailures = 0
    MaxCrashes = 0
PROPERTY
    RequestsConclude
CHECK_DEADLOCK FALSE
