CONSTANTS
    Component = {0, 1}
    EntityType <- MCEntityType
    BloomBits = 1
    QueryTerms <- MCQueryTerms
    MaxQueries = 1
    HashValue = {0, 7}
    InitialBuckets = 2
    InvalidTableId = 4
SPECIFICATION Spec
INVARIANTS
    TypeOK
    LookupsEnd
    LookupsAgree
    EdgesSound
    QueryCachesExact
    RuntimeQueriesExact
CHECK_DEADLOCK FALSE
