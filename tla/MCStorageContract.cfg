CONSTANTS
    Component = {a, b}
    Value = {v1, v2}
    MaxEntities = 3
    Generations = 3
SPECIFICATION ContractSpec
INVARIANTS
    TypeOK
    RecordsAgreeWithRows
    IndicesAccountedFor
    DestroyedStayDead
PROPERTY ImplementsStore
