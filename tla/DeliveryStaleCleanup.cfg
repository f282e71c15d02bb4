CONSTANTS
    Uaids = {u1}
    ChannelIds = {c1}
    PushIds = {p1}
    MsgIds = {m1}
    Topics = {}
    Rsubs = {}
    Tokens = {}
    Keys = {}
    Nodes = {n1, n3}
    ConnectNodes = {n1}
    EndpointNodes = {n3}
    Times = {0, 1, 2}
    None = None
    Gone = Gone
    Events = {m1}
    Clustered = TRUE
    ListenerIds = {s1, s2}
    Capacity = 1
    Batch = 1
    Ttls = {1}
    AckCodes = {"delivered"}
    Revisit = TRUE
    MaxClock = 0
    MaxFaults = 0
SYMMETRY IdSymmetry
SPECIFICATION DeliverySpec
CHECK_DEADLOCK FALSE
INVARIANTS RouteKept
