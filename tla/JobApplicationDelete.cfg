SPECIFICATION Spec
CONSTANTS
    Request = {r1, r2}
    Initial = initial
    None = None
    Operations = {"retry", "delete"}
    CancelAttempts = 1
    MaxFailures = 0
    MaxCrashes = 0
PROPERTY
    DeletesOnlySettled
CHECK_DEADLOCK FALSE
