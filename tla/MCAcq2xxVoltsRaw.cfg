\* A card that answers every command in full and without error, and an rxbuf
\* that no response overruns: only the cuts of the TCP stream vary.
SPECIFICATION ProgramsSpec
CONSTANTS
    BufLen = 20
    Outputs <- Full
    ErrorCodes = {0}
    MaxCommands = 3
    MaxCalls = 3
    Programs = {"library"}
    Callers = {}
    LINE = 2
    MaxDescriptors = 6
    Scripts = {}
    MaxTotal = 2
    MaxArms = 1
    Channels = 2
    LibraryCalls = {"setArm"}
    LineOutputs = {2}
    MaxResponse = 20
    Transports = {"dt100"}
INVARIANT CalibratedData
CHECK_DEADLOCK FALSE
