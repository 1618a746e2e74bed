SPECIFICATION DriverSpec
CONSTANTS
    Controllers = {c1, c2}
    NoController = NoController
    Keys = {k1, k2}
    NoKey = NoKey
    Ivs = {v1}
    NoIv = NoIv
    NoEvent = NoEvent
INVARIANTS DriverTypeOK NewestIsActive KeysAsAsked ReceptionsEnd PdoaAsConfigured
PROPERTY SeenAsRadio
