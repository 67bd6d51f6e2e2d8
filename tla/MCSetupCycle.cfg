CONSTANTS
    render = render
    window = window
    audio = audio
    Plugin = {render, window, audio}
    ComponentType <- MCComponent
    World = {w1}
    Steps <- MCSteps
    Lists <- MCLists
SPECIFICATION SetupSpec
INVARIANTS
    NoCycleAccepted
CHECK_DEADLOCK FALSE
