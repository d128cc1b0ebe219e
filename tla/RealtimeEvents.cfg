SPECIFICATION FairSpec
CONSTANTS
    Stream = {s1}
    Buffer = 1
    MaxEvents = 4
    Garbage = garbage
    MaxGarbage = 1
    MaxLosses = 2
    None = None
INVARIANTS
    TypeOK
    EventsArriveInOrder
PROPERTY
    StreamsEndAsAWhole
CHECK_DEADLOCK FALSE
