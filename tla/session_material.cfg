SPECIFICATION Spec
CONSTANTS
    U16 = 16
    U32 = 4096
    HoppingModulus = 13
    Ursks = {u1, u2}
    NoUrsk = NoUrsk
    NoEvent = NoEvent
    NoFrame = NoFrame
    NoResult = NoResult
    NoStamp = NoStamp
    Stamps = {0}
    Faults = {"material"}
    CallbackCalls = {"none"}
    Anchors = {}
    Exchanges = 1
    FirstBlock = 2
    MCParams = {"plain"}
    MCFilters = {"every"}
    MCUrskOrder = {u1, u2}
    ParamsSet <- MCParamsSet
    NodeConfigs <- MCNodeConfigs
    DefaultParams <- MCDefaultParams
    Frames <- MCFrames
INVARIANT MaterialCurrent
