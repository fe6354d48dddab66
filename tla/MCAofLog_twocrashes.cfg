SPECIFICATION Spec
CONSTANTS
    None = None
    Parts = 2
    MaxSets = 4
    Empties = {}
    MaxCrashes = 2
INVARIANTS
    FlushedSurvive
\* The model stops after MaxSets and MaxCrashes.
CHECK_DEADLOCK FALSE
