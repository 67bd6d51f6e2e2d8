CONSTANTS
    render = render
    window = window
    audio = audio
    ComponentId <- ManyIds
    LinearThreshold = 3
    NotFound = 65535
    Vec = {vecA, vecB}
    Item = {one, two}
    Junk = junk
    Null = null
    MaxSize = 3
    Id <- FarIds
    Entry = {one, two}
    Unset = unset
    FirstCapacity = 4
    TermId <- FewIds
    BloomBits = 2
    MaxTerms = 3
    Owner = {ann, ben, cyn, dan}
    EventIds = 3
    MaxDepth = 2
    Component = {}
    Value = {one}
    MaxEntities = 3
    Generations = 2
    Event <- TwoWords
    Callback = {greet, leave}
    NoCallback = noCallback
    WordBits = 2
    NoListeners = 2
    World = {world1, world2}
    Plugin = {render, window, audio}
    ComponentType <- Three
    Steps <- PluginSteps
    Lists <- ShortLists
SPECIFICATION PartsSpec
SYMMETRY OwnersAlike
INVARIANTS
    ArraysAreSets
    BlocksOwned
    ContentsKept
    LookupsExact
    QueryMeansTerms
    IdsNameTheirOwners
    IteratorsStayValid
    ListenersBelong
    PluginsBuilt
    RequiredIsClosure
PROPERTY EmitsCallListeners
CHECK_DEADLOCK FALSE
