\* One user agent, a channel registered twice; messages, topics, receipts, a route.
CONSTANTS
    Uaids = {u1}
    ChannelIds = {c1}
    PushIds = {p1, p2}
    MsgIds = {m1, m2}
    Topics = {t1}
    Rsubs = {r1}
    Tokens = {d1}
    Keys = {}
    Nodes = {n1}
    Times = {0, 1}
    None = None
SYMMETRY MsgSymmetry
SPECIFICATION StoreSpec
CHECK_DEADLOCK FALSE
INVARIANTS
    StoreConsistent
    OneOutcome
PROPERTIES
    EndsAccountedFor
    SeqsIncrease
