CONSTANTS
    Uaids = {u1}
    ChannelIds = {c1}
    PushIds = {p1, p2}
    MsgIds = {m1}
    Topics = {}
    Rsubs = {}
    Tokens = {t1, t2}
    Keys = {k1}
    Nodes = {}
    Times = {0, 1}
    None = None
    ReqIds = {q1, q2}
    MaxClient = 1
    ExpireAfter = 0
    MaxClock = 1
    HubNodes = {n1}
    HubTo = {ua1, rs1}
    Payloads = {e1}
    ListenerIds = {l1, l2, l3}
    Capacity = 2
    Stuck = {l3}
    Gone = Gone
    Vacant = Vacant
SPECIFICATION ClientsSpec
CHECK_DEADLOCK FALSE
INVARIANTS
    RegistrationInv
    IdempotentRegister
    DeletedUnreachable
    HubInv
PROPERTIES
    OnlyOwnerEmptiesSlot
    DetachedListenersEnd
