SPECIFICATION MSpec
CONSTANTS
    Threads = {t1, t2}
    Addrs = {a1, a2, a3}
    Garbage = Garbage
    NoRow = NoRow
    SegCap = 3
    MaxBlock = 2
    MaxPuts = 3
    MaxShort = 1
    MaxCrashes = 1
    BlockBytes = 2
    MaxSize = 3
    NoBlock = NoBlock
    MaxRecs = 3
    MaxDeaths = 1
    Edges = {e1, e2}
    Notes = {o1}
    Indexers = {w1, w2}
    Daemons = {d1}
    Facts = {f1, f2}
    Streams = {s1, s2}
SYMMETRY Symmetry
INVARIANT TornLinesNeverAnswer
CHECK_DEADLOCK FALSE
