SPECIFICATION ExchangeSpec
CONSTANTS
    U16 = 16
    U32 = 4096
    HoppingModulus = 13
    Ursks = {u1}
    PeerUrsk = u1
    NoUrsk = NoUrsk
    NoEvent = NoEvent
    NoFrame = NoFrame
    NoResult = NoResult
    NoStamp = NoStamp
    Faults = {}
    CallbackCalls = {"none"}
    Anchors = {}
    MCSchedules = {"plain"}
    MCFilter = "even"
    FirstBlockNumber = 2
    MaxExchanges = 2
    MaxDisturbances = 1
    PeerParamsSet <- MCParamsSet
    Node <- MCNode
    ForeignFrames <- MCForeignFrames
    ParamsSet <- MCParamsSet
    NodeConfigs <- MCNodes
    DefaultParams <- MCDefaultParams
    Frames <- MCFrames
    Stamps <- MCStamps
CHECK_DEADLOCK FALSE
INVARIANT AnswersOnlyItsBlocks
