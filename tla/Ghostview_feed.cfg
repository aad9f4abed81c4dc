SPECIFICATION FairSpec
CONSTANTS
    p1 = p1
    p2 = p2
    Prolog = Prolog
    Setups = Setups
    Pages = {p1, p2}
    FirstPage = p1
    Oriented = {p2}
    Length <- MCLength
    BufSize = 2
    PipeSize = 2
    MaxEvents = 2
    MaxSent = 4
    Faults = TRUE
INVARIANTS
    SentInOrder
    PageOnScreen
PROPERTIES
    QueueDrains
    BusyEnds
