SPECIFICATION FairSpec
CONSTANTS
    Configs <- MCAllConfigs
    p1 = p1
    p2 = p2
    Pids = {p1, p2}
    NoPid = NoPid
    NULL = NULL
    SilentModem = TRUE
    EarlyDeath = TRUE
INVARIANTS
    LivePppdTracked
    NoLineLeftUp
PROPERTIES
    CallOrder
    ImplementsSession
    StartPPPReturns
    KilledIsCollected
