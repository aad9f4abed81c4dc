SPECIFICATION Spec
CONSTANTS
    Configs <- MCConfigs
    p1 = p1
    p2 = p2
    p3 = p3
    Pids = {p1, p2, p3}
    NoPid = NoPid
    NULL = NULL
    SilentModem = TRUE
    EarlyDeath = FALSE
SYMMETRY PidSymmetry
INVARIANTS
    ViewsAgree
PROPERTIES
    HangupReachesPppd
