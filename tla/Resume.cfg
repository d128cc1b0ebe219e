SPECIFICATION FairSpec
CONSTANTS
    Request = {r1, r2, r3}
    ResumeId = {a, b, c}
    Uploaded = {a, b}
    Operations = {"activate", "upload", "delete"}
    MaxFailures = 1
    MaxCrashes = 1
    None = None
INVARIANTS
    TypeOK
    OneActiveOfUploaded
    DeletedIsInactive
    LiveHasFile
PROPERTIES
    KeepsAnActiveResume
    RequestsConclude
CHECK_DEADLOCK FALSE
