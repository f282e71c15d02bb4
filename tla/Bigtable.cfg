CONSTANTS
    Uaids = {u1}
    ChannelIds = {c1}
    PushIds = {p1, p2}
    MsgIds = {m1, m2}
    Topics = {t1}
    Rsubs = {r1}
    Nodes = {n1, n2}
    Pushes <- AllAsked
    Ttls = {1}
    ExpireAfter = 0
    SeqPerMs = 2
    MaxClock = 2
    MaxFaults = 1
    MaxCalls = 5
    None = None
SYMMETRY IdSymmetry
SPECIFICATION BigtableSpec
CHECK_DEADLOCK FALSE
INVARIANTS
    BigtableInv
    ReceiptsExact
PROPERTIES
    NewerMessagesStay
