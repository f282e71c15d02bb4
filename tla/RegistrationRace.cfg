CONSTANTS
    Uaids = {u1}
    ChannelIds = {c1}
    PushIds = {p1, p2}
    MsgIds = {m1}
    Topics = {}
    Rsubs = {}
    Tokens = {t1, t2}
    Keys = {k1}
    Nodes = {}
    Times = {0, 1}
    None = None
    ReqIds = {q1, q2}
    MaxClient = 2
    ExpireAfter = 0
    MaxClock = 1
SPECIFICATION RegistrationSpec
CHECK_DEADLOCK FALSE
INVARIANTS IdempotentRegister
