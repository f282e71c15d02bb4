\* expire_after is just long enough: TouchInterval + Ping + MaxSetup.
CONSTANTS
    Conns = {c1, c2}
    Stuck = {c2}
    MaxConnections = 1
    MaxRequests = 2
    MaxFailures = 1
    Tls = TRUE
    Ping = 2
    PongTimeout = 1
    TouchInterval = 4
    ExpireAfter = 7
    MaxSetup = 1
    MaxClock = 16
    Sends = {s1, s2, s3}
    Margin = 1
    Timeout = 1
    Lifetimes = {3}
    MaxTime = 3
    MaxRevoked = 1
    NoToken = NoToken
    Pushes = {p1, p2, p3}
    TokenLifetime = 1
    MaxAge = 2
    SendTimeout = 1
    MaxInstant = 3
    NoJwt = NoJwt
    ka = ka
    kb = kb
    Requests <- SomeRequests
    MaxPayload = 2
    MaxTtl = 3
    TtlCeiling = 4
    U64Limit = 6
    MaxExpAhead = 2
    Now = 1
    Junk = Junk
    NoKey = NoKey
    Octets = {0, 1, 2}
    MaxLen = 2
    MaxRecords = 2
    MaxPadding = 1
    TagLen = 1
    RecordSizes = {3, 4}
    Table <- ThreeRows
    MaxResets = 2
    NoName = NoName
    RouteNodes = {n1, n2, n3}
    RouteStamps = {1, 2}
    MaxMishaps = 1
    NoNode = NoNode
SPECIFICATION PartsSpec
CHECK_DEADLOCK FALSE
INVARIANTS
    PartsTypeOK
    PermitsInUse
    NothingCutShort
    ActiveKept
    SilentClosed
    CredentialsLast
    RefusedForgotten
    OnlyGoneDeleted
    RestrictionHolds
    PushDecided
    ReadAsSent
    RowsAsStored
    RouteNamesLatest
    SupersededTold
PROPERTIES
    ShutdownDrains
    CredentialsShared
    SendsEnd
