CONSTANTS
    Uaids = {u1, u2}
    ChannelIds = {c1}
    PushIds = {p1}
    MsgIds = {m1, m2}
    Topics = {t1}
    Rsubs = {}
    Tokens = {}
    Keys = {}
    Nodes = {n1, n2}
    ConnectNodes = {n1}
    EndpointNodes = {n2}
    Times = {0, 1, 2}
    None = None
    Gone = Gone
    Events = {m1, m2}
    Clustered = TRUE
    ListenerIds = {s1}
    Capacity = 1
    Batch = 1
    Ttls = {0, 1}
    AckCodes = {"delivered"}
    Revisit = TRUE
    MaxClock = 0
    MaxFaults = 1
SPECIFICATION FairDeliverySpec
CHECK_DEADLOCK FALSE
PROPERTIES
    Redelivered
    MailDelivered
