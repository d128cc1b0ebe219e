SPECIFICATION Spec
CONSTANTS
    Autofill = {f1}
    Sync = {y1}
    k1 = k1
    k2 = k2
    a1 = a1
    a2 = a2
    Key = {k1, k2}
    Blank = blank
    Answer = {a1, a2}
    NoAnswer = noAnswer
    Input <- MCInput
    MaxLength = 2
    MaxFailures = 1
    None = None
INVARIANTS
    TypeOK
    MergesReadAndIncoming
PROPERTY
    OnlyOverlapsLose
CHECK_DEADLOCK FALSE
