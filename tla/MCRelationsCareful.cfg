CONSTANTS
    Component = {target, source, pos}
    RelationTarget = target
    RelationSource = source
    Unspecified = unspecified
    Value = {unspecified}
    MaxEntities = 4
    Generations = 2
SPECIFICATION CarefulSpec
CONSTRAINT SmallFamilies
INVARIANTS
    LinksAgree
    HooksFindTheirEntities
    RecordsLocateRows
