SPECIFICATION FairSpec
CONSTANTS
    Generation = {g1, g2}
    Sync = {y1, y2}
    MaxFailures = 2
    MaxCrashes = 1
    Blank = Blank
    None = None
INVARIANTS
    TypeOK
    ReadyHasText
    NothingLeftProcessing
    OneVerdictPerGeneration
PROPERTY
    GenerationConcludes
CHECK_DEADLOCK FALSE
