SPECIFICATION FairSpec
CONSTANTS
    n1 = n1
    n2 = n2
    n3 = n3
    Nicks = {n1, n2, n3}
    FirstNick = n1
    FirstOthers = {n2}
    NoNick = NoNick
    Garbage = Garbage
    CR = CR
    LF = LF
    MaxCommandLen = 6
    MaxDown = 2
    MaxUp = 1
    MaxServers = 2
    MaxTurns = 2
INVARIANTS
    Framed
    ChannelShown
PROPERTIES
    RestEnds
