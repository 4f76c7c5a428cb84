SPECIFICATION FairSpec
CONSTANTS
    NConns = 1
    EventsNum = 5
    RecvTicks = 1
    SendTicks = 1
    FdTicks = 1
    MaxElapsed = 1
    MaxBacklog = 1
    Polling = FALSE
    MayHappen = {"stop", "oom", "fdlimit", "accept"}
PROPERTIES
    SilentPeerReaped
    BacklogDrained
    SlotsComeBack
    StopHonoured
    LoopGetsBack
