SPECIFICATION Spec
CONSTANTS
    NConns = 2
    EventsNum = 1
    RecvTicks = 1
    SendTicks = 1
    FdTicks = 1
    MaxElapsed = 1
    MaxBacklog = 1
    Polling = TRUE
    MayHappen = {}
INVARIANTS
    BacklogServed
    TimersBoundWaits
PROPERTY SlotsSpec
