SPECIFICATION FairSpec
CONSTANTS
    None = None
    Parts = 2
    MaxSets = 4
    Empties = {2}
    MaxCrashes = 2
INVARIANTS
    TypeOK
    PiecesInOrder
    NothingMissing
    FlushedSurviveFirst
    OnlyWhatWasSet
PROPERTIES
    EventuallyWritten
\* The model stops after MaxSets and MaxCrashes.
CHECK_DEADLOCK FALSE
