SPECIFICATION Spec
CONSTANTS
    NConns = 1
    EventsNum = 3
    RecvTicks = 2
    SendTicks = 1
    FdTicks = 1
    MaxElapsed = 1
    MaxBacklog = 1
    Polling = FALSE
    MayHappen = {"stop", "oom", "attach", "fdlimit", "accept", "eintr", "kqwait"}
INVARIANTS
    LoopTypeOK
    
    NoLostWakeup
PROPERTY KcallOutlived
