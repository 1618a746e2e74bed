SPECIFICATION ResultsSpec
CONSTANTS
    MinPlausibleDistance <- MCMinPlausible
    MaxPlausibleDistance = 20000
    MaxConsecutiveSpread = 500
    RequiredConsensusCount = 3
    MinimumStsQuality = 55
    Distances <- MCDistances
    Qualities = {54, 55, 60}
    MaxReadings = 2
    JumpThreshold = 50
    HoldBlocks = 2
    WarmupBlocks = 3
    D32 = 40960
    D40 = 163840
    Samples <- MCSamples
    AntennaDelayBias = 0
    ResponderIndex = 0
    MaxRespondersSupported = 10
    NlosMargin = 10
    Swings <- MCSwings
    NoResult = NoResult
INVARIANT AoaIsMeasured
