SPECIFICATION Spec
CONSTANTS
    Requests <- FileRequests
    MaxRequests = 2
    MaxSize = 2
    MaxKeepAlive = 0
    KeepAliveMod = 4
    Kcq = TRUE
    Docs <- NoDocs
    MayHappen = {}
INVARIANT FramingKept
