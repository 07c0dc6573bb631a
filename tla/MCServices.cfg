SPECIFICATION MSpec
CONSTANTS
    Requests = {r1, r2}
    MaxRows = 3
    MaxWaits = 1
    Joiners = {j1, j2}
    MaxTasks = 3
    MaxAsked = 2
    MaxJoins = 3
    Workers = {w1, w2}
    Clients = {c1, c2}
    NoSock = NoSock
    Rows = 1
    MaxRequests = 1
    Users = {u1, u2}
    MaxOut = 2
    Reuse = FALSE
    Paths = {p1}
    Contents <- Texts
    MaxCalls = 3
    MaxOutside = 1
    Main = m
    Helper = h
INVARIANTS
    AcksAreHonest
    JoinIsExact
    PoolServes
    PeersAreFollowed
    ReplayFollowsRecord
    StateIsNotShared
PROPERTIES
    EveryWaitEnds
CHECK_DEADLOCK FALSE
