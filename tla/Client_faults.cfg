SPECIFICATION FairSpec
CONSTANTS
    Requests <- FewRequests
    MaxRequests = 2
    MaxSize = 1
    MaxKeepAlive = 2
    KeepAliveMod = 4
    Kcq = FALSE
    Docs <- NoDocs
    MayHappen = {"oom", "io", "resize"}
INVARIANTS
    ClientTypeOK
    ResourcesReleased
PROPERTY ConnectionEnds
