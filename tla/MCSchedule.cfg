CONSTANTS
    a = a
    b = b
    State = {a, b}
    Default = a
    UsedPhases <- MCUsedPhases
    Wishes <- MCWishes
    MaxSystems = 2
    MaxObjects = 2
    MaxCommands = 3
SPECIFICATION Spec
INVARIANT TypeOK
PROPERTIES
    FrameComplete
    FlushComplete
    DecidedByState
    LastingStateRuns
