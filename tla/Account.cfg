SPECIFICATION Spec
CONSTANTS
    User = {u1, u2, u3}
    Email = {e1, e2}
    Legacy = u1
    Column = {"name", "birth", "notice"}
    Named = {"name"}
    Demanded = {"name"}
    Required = {"name", "birth", "notice"}
    Dated = {"birth"}
    Request = {r1, r2, r3}
    MaxFailures = 1
    Blank = blank
    None = None
SYMMETRY MCSymmetry
INVARIANTS
    TypeOK
    AccountsAreWhole
    ColumnsKeepWhatWasBrought
PROPERTY
    OnlyBlanksReopenOnboarding
CHECK_DEADLOCK FALSE
