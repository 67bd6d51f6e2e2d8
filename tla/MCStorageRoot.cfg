CONSTANTS
    Component = {a}
    Value = {v1}
    MaxEntities = 4
    Generations = 3
SPECIFICATION Spec
CONSTRAINT NoWrap
INVARIANT RecordsLocateRows
