CONSTANTS
    Handle = {h1, h2}
    small = small
    large = large
    Component = {small, large}
    Value = {v1, v2}
    Unspecified = v1
    Size <- MCSize
    InitialCapacity = 16
    MaxPending = 3
SPECIFICATION ContractSpec
INVARIANTS
    TypeOK
    PendingValuesIntact
    FlushNeverAborts
PROPERTIES
    DeferredSetCopies
    FlushMeaning
