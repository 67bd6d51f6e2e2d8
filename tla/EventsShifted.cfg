CONSTANTS
    Owner = {a, b, c}
    EventIds = 65536
    MaxDepth = 1
SPECIFICATION EventsSpec
PROPERTIES
    OnlySubscribedCalled
CHECK_DEADLOCK FALSE
