SPECIFICATION FairSpec
CONSTANTS
    Submitter = {s1, s2}
    Answer = {v1}
    Invalid = invalid
    Resume = {c1,c2}
    ResumeKey = {k1,k2}
    NumActions = 2
    MaxFailures = 1
    MaxMoves = 1
    None = None
INVARIANTS
    OneKeyPerQuestion
    EnqueuedWasSignalled
    BlockedOnItsLastQuestion
PROPERTIES
    ImplementsDurableResume
    AnsweredIsEnqueued
CHECK_DEADLOCK FALSE
