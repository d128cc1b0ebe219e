SPECIFICATION HSpec
CONSTANTS
    Search = {s1, s2, s3}
    Subject = {q1, q2}
    Foreign = {x}
    MaxEntries = 2
    MaxFaults = 1
    MaxExpiries = 1
INVARIANTS
    HistoryIsRecencyList
PROPERTY
    LosesOnlyToOverlap
CHECK_DEADLOCK FALSE
