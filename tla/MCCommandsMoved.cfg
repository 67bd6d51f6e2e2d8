CONSTANTS
    Handle = {h1}
    small = small
    large = large
    Component = {small, large}
    Value = {v1, v2}
    Unspecified = v1
    Size <- MCSize
    InitialCapacity = 16
    MaxPending = 3
SPECIFICATION AliveSpec
PROPERTY DeferredSetCopies
