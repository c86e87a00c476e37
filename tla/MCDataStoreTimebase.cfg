SPECIFICATION Spec
CONSTANTS
    Fronts = {"files"}
    RawFiles <- Inputs
    PulseRuns <- Pulses
    PPS = 2
    MINUTE = 2
    Undefined = {0, 3}
    OldMinutes = {1, 2}
    scanlist <- Scan
    FIFOSAM = 2
    BurstFiles <- QuadInputs
    SampleLimits <- Limits
    Rates <- DualRates
    DualFiles <- Duals
    WORD = 1024
    Rtrims = {0, 1, 2}
    BlockRows = 12
    NumChannels = 2
    Bite = 3
    MaxLens = {1, 2, 3, 6, 7, 9, 12, 15}
    MaxBlocks = 3
    FRAME_SAMPLES = 4
    IntLimit = 7
    MaxSamples = 13
    MaxLost = 4
    MaxUnread = 2
    MaxFrames = 2
    SECOND = 10
    Options <- StreamOptions
    Watched = {1, 32, 33, 64}
    Devices = {"7", "http://", "host"}
    Reads <- Calls
    MAXREAD = 4
    DBUF = 6
    Errnos = {2, 5}
    Captured = 11
    Demuxes <- DemuxRuns
    QuadPrograms <- ShotRuns
    Trees <- TreeRuns
    Heap = {0, 3}
    MEAN_STRIDE = 2
    TICKS = 2
INVARIANT TimebaseCoversChannel
CHECK_DEADLOCK FALSE
