SPECIFICATION ExchangeSpec
CONSTANTS
    U16 = 16
    U32 = 4096
    HoppingModulus = 13
    Ursks = {u1}
    PeerUrsk = u1
    NoUrsk = NoUrsk
    NoEvent = NoEvent
    NoFrame = NoFrame
    NoResult = NoResult
    NoStamp = NoStamp
    Faults = {}
    CallbackCalls = {"none"}
    Anchors = {}
    MCSchedules = {"hopping", "adaptive"}
    MCFilter = "every"
    FirstBlockNumber = 1
    MaxExchanges = 5
    MaxDisturbances = 4
    PeerParamsSet <- MCParamsSet
    Node <- MCNode
    ForeignFrames <- MCForeignFrames
    ParamsSet <- MCParamsSet
    NodeConfigs <- MCNodes
    DefaultParams <- MCDefaultParams
    Frames <- MCFrames
    Stamps <- MCStamps
CHECK_DEADLOCK FALSE
INVARIANTS OneExchange AnswersThePoll Recovers
