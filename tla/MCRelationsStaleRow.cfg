CONSTANTS
    Component = {target, source}
    RelationTarget = target
    RelationSource = source
    Unspecified = unspecified
    Value = {unspecified}
    MaxEntities = 5
    Generations = 1
SPECIFICATION KeepParentsSpec
CONSTRAINT Forest
INVARIANTS
    RecordsLocateRows
