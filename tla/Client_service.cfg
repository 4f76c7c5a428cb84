SPECIFICATION Spec
CONSTANTS
    Requests <- EveryRequest
    MaxRequests = 3
    MaxSize = 2
    MaxKeepAlive = 2
    KeepAliveMod = 4
    Kcq = TRUE
    Docs <- PostDoc
    MayHappen = {}
INVARIANTS
    PipelineIntact
    FramingExact
    KeepAliveKept
    TimersFitWaits
PROPERTY ServiceSpec
