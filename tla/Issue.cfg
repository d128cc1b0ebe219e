SPECIFICATION Spec
CONSTANTS
    i1 = i1
    i2 = i2
    c1 = c1
    c2 = c2
    u1 = u1
    u2 = u2
    User = {u1, u2}
    Admin = {}
    Issue = {i1, i2}
    Comment = {c1, c2}
    Opened <- MCOpened
    Posted <- MCPosted
    Request = {r1, r2, r3}
    MaxFailures = 1
    None = None
SYMMETRY RequestSymmetry
INVARIANTS
    TypeOK
    UpvotesMatchAnswers
    ReadersSeeTheirUpvote
PROPERTY
    ResolvedIsClosed
CHECK_DEADLOCK FALSE
