SPECIFICATION ReportsSpec
CONSTANTS
    U16 = 16
    U32 = 683
    HoppingModulus = 13
    Ursks = {u1}
    NoUrsk = NoUrsk
    NoEvent = NoEvent
    NoFrame = NoFrame
    NoResult = NoResult
    NoStamp = NoStamp
    Stamps = {0}
    Faults = {"tx", "distance"}
    CallbackCalls = {"none"}
    Anchors = {10, 200}
    Exchanges = 2
    FirstBlock = 14
    MCParams = {"hopping"}
    MCFilters = {"every"}
    MCUrskOrder = {u1}
    ParamsSet <- MCParamsSet
    NodeConfigs <- MCNodeConfigs
    DefaultParams <- MCDefaultParams
    Frames <- MCFrames
INVARIANTS TypeOK LegSecured WarmIsNext StashDrained MaterialCurrent ControlHolds NeverDeaf
PROPERTY ImplementsService
