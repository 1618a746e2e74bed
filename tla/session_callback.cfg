SPECIFICATION Spec
CONSTANTS
    U16 = 16
    U32 = 4096
    HoppingModulus = 13
    Ursks = {u1}
    NoUrsk = NoUrsk
    NoEvent = NoEvent
    NoFrame = NoFrame
    NoResult = NoResult
    NoStamp = NoStamp
    Stamps = {0}
    Faults = {}
    CallbackCalls = {"none", "stop"}
    Anchors = {}
    Exchanges = 1
    FirstBlock = 2
    MCParams = {"plain"}
    MCFilters = {"every"}
    MCUrskOrder = {u1}
    ParamsSet <- MCParamsSet
    NodeConfigs <- MCNodeConfigs
    DefaultParams <- MCDefaultParams
    Frames <- MCFrames
INVARIANT ControlHolds
