CONSTANTS
    Uaids = {u1}
    ChannelIds = {c1}
    PushIds = {p1}
    MsgIds = {m1}
    Topics = {}
    Rsubs = {r1}
    Tokens = {}
    Keys = {}
    Nodes = {n1, n2}
    ConnectNodes = {n1}
    EndpointNodes = {n2}
    Times = {0, 1}
    None = None
    Gone = Gone
    Events <- AllReceipts
    Clustered = TRUE
    ListenerIds = {s1}
    PollIds = {w1}
    Capacity = 1
    Revisit = FALSE
    MaxFaults = 1
SPECIFICATION FairReceiptSpec
CHECK_DEADLOCK FALSE
PROPERTIES BacklogDrains DeletedStreamsEnd
