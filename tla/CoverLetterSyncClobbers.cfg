SPECIFICATION Spec
CONSTANTS
    Generation = {g1}
    Sync = {y1}
    MaxFailures = 0
    MaxCrashes = 0
    Blank = Blank
    None = None
PROPERTY
    SyncSparesGeneration
CHECK_DEADLOCK FALSE
