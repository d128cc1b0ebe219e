SPECIFICATION FairSpec
CONSTANTS
    Request = {r1, r2}
    Initial = initial
    None = None
    Operations = {"retry", "cancel", "delete", "markApplied"}
    CancelAttempts = 2
    MaxFailures = 1
    MaxCrashes = 1
INVARIANTS
    RetryHoldsTheRow
    RequeuedRowWasSignalled
    CancelReachesPool
PROPERTIES
    RequeuesOnlySettled
    AppliedSurvivesHandlers
    RequestsConcludeWithoutConflict
    FailedCreationIsHidden
    ImplementsApplicationLife
CHECK_DEADLOCK FALSE
