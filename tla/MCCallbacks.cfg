CONSTANTS
    target = target
    source = source
    pos = pos
    Component = {target, source, pos}
    RelationTarget = target
    RelationSource = source
    Hooked = pos
    Other = source
    Value = {junk, written}
    Unspecified = junk
    None = none
    Query <- Queries
    Existing <- AllButOne
    MaxEntities = 3
    Generations = 2
    MaxDepth = 2
    MaxChanges = 2
    Capacities = {1, 2, 4}
SPECIFICATION CallbacksSpec
CONSTRAINT Few
INVARIANTS
    LoopsReadLiveRows
    RelatedIsParent
    StorageAgrees
PROPERTIES
    EveryoneVisitedOnce
    SetWins
