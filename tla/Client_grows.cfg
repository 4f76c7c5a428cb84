SPECIFICATION Spec
CONSTANTS
    Requests <- PlainRequest
    MaxRequests = 2
    MaxSize = 2
    MaxKeepAlive = 0
    KeepAliveMod = 4
    Kcq = TRUE
    Docs <- NoDocs
    MayHappen = {"resize"}
INVARIANT FramingOfFiles
