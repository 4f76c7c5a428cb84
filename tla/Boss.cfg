SPECIFICATION FairSpec
CONSTANTS
    N = 2
    KThreads = {k1, k2}
    Calls = {c1}
    Polling = FALSE
    MaxSignals = 1
    MaxSem = 2
    MayHappen = {"thread", "run"}
INVARIANTS
    BossTypeOK
    FreedMemory
    NoCallForgotten
PROPERTIES
    CallCompletes
    SignalEndsProcess
