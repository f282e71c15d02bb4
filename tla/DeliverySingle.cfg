CONSTANTS
    Uaids = {u1, u2}
    ChannelIds = {c1}
    PushIds = {p1}
    MsgIds = {m1, m2}
    Topics = {t1}
    Rsubs = {}
    Tokens = {}
    Keys = {}
    Nodes = {n1}
    ConnectNodes = {n1}
    EndpointNodes = {n1}
    Times = {0, 1, 2}
    None = None
    Gone = Gone
    Events = {m1, m2}
    Clustered = FALSE
    ListenerIds = {s1, s2}
    Capacity = 1
    Batch = 1
    Ttls = {0, 1}
    AckCodes = {"delivered", "undeliverable"}
    Revisit = TRUE
    MaxClock = 1
    MaxFaults = 0
SYMMETRY IdSymmetry
SPECIFICATION DeliverySpec
CHECK_DEADLOCK FALSE
INVARIANTS
    DeliveryInv
