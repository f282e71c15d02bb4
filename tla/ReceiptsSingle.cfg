CONSTANTS
    Uaids = {u1}
    ChannelIds = {c1}
    PushIds = {p1}
    MsgIds = {m1, m2}
    Topics = {}
    Rsubs = {r1}
    Tokens = {}
    Keys = {}
    Nodes = {n1}
    ConnectNodes = {n1}
    EndpointNodes = {n1}
    Times = {0, 1}
    None = None
    Gone = Gone
    Events <- AllReceipts
    Clustered = FALSE
    ListenerIds = {s1, s2}
    PollIds = {}
    Capacity = 1
    Revisit = TRUE
    MaxFaults = 0
SYMMETRY IdSymmetry
SPECIFICATION ReceiptSpec
CHECK_DEADLOCK FALSE
INVARIANTS
    ReceiptInv
PROPERTIES
    LeavesWhenWritten
