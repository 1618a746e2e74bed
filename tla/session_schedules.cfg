SPECIFICATION Spec
CONSTANTS
    U16 = 16
    U32 = 300
    HoppingModulus = 13
    Ursks = {u1}
    NoUrsk = NoUrsk
    NoEvent = NoEvent
    NoFrame = NoFrame
    NoResult = NoResult
    NoStamp = NoStamp
    Stamps = {0}
    Faults = {}
    CallbackCalls = {"none", "stop", "suspend"}
    Anchors = {10}
    Exchanges = 1
    FirstBlock = 6
    MCParams = {"tworounds", "adaptive", "zero"}
    MCFilters = {"every", "odd"}
    MCUrskOrder = {u1}
    ParamsSet <- MCParamsSet
    NodeConfigs <- MCNodeConfigs
    DefaultParams <- MCDefaultParams
    Frames <- MCFrames
INVARIANTS TypeOK LegSecured WarmIsNext StashDrained
