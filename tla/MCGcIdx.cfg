SPECIFICATION GSpec
CONSTANTS
    Readers = {}
    RefIds = {}
    MaxReaders = 1
    HoldDepth = 1
    Watermark = 1
    BackoffCap = 1
    MaxEpoch = 3
    Threads = {t1, t2}
    Addrs = {a1, a2}
    Cap = 1
    NoThread = NoThread
INVARIANTS
    CloneReadsLiveBlock
CHECK_DEADLOCK FALSE
