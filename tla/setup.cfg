SPECIFICATION SetupSpec
CONSTANTS
    U16 = 65536
    U32 = 1073741824
    HoppingModulus = 65521
    ExpectedSessionId = 1
    DeviceCapabilities <- MCDeviceCapabilities
    M2Messages <- MCM2Messages
    M4Messages <- MCM4Messages
    ResumeResponses <- MCResumeResponses
INVARIANTS
    SetupTypeOK
    NegotiatedIsShared
    HoppingIsShared
    ScheduleAsAnnounced
    BlockHoldsARound
    AnchorIsWhole
