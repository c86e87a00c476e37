\* A card with two channels.  rxbuf holds a complete reply, but not one that
\* comes behind the remains of a trailer, so that overruns happen too.
SPECIFICATION FairPrograms
CONSTANTS
    BufLen = 6
    Outputs <- ShortOrFull
    ErrorCodes = {0, 12}
    MaxCommands = 11
    MaxCalls = 3
    Programs = {"library", "api_test", "acq196_api_test", "while", "until", "acq2sh", "acqcmd", "caller"}
    Callers <- CallerRuns
    LINE = 2
    MaxDescriptors = 6
    Scripts <- ShellRuns
    MaxTotal = 1
    MaxArms = 1
    Channels = 2
    LibraryCalls = {"getState"}
    LineOutputs = {0, 2}
    MaxResponse = 2
    Transports = {"dt100", "kdd", "hostdrv"}
INVARIANTS
    OwnResponse
    RawOnlyAfterError
    ProgramsTrue
PROPERTIES
    CallReturns StateAwaited
\* The number of commands is bounded, and a failed write() ends the process.
CHECK_DEADLOCK FALSE
