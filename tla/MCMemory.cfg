SPECIFICATION MSpec
CONSTANTS
    Readers = {r1, r2}
    RefIds = {k1, k2}
    MaxReaders = 2
    HoldDepth = 1
    Watermark = 1
    BackoffCap = 1
    MaxEpoch = 3
    CellReaders = {r1, r2}
    CoolDown = 1
    SweepPeriod = 2
    MaxWrites = 3
    MaxReads = 1
    N = 2
    Words = 4
    EpochRange = 8
    MaxFills = 6
    Empty = 0
    CacheWriters = {w1, w2}
    CacheReaders = {r}
    Hashes = {1, 2, 3}
    CacheShards = {1, 2}
    shard_of <- ShardsOfThree
    Cap = 2
    BlockSize = 2
    NoThread = NoThread
    MaxPuts = 4
    MaxHotWrites = 3
    Callers = {c1, c2}
    Shards = {0, 1}
    Strings = {"a", "b", "c", "d", "e"}
    shard_for <- OneShardFills
    LocalMask = 3
    BlockLen = 2
    MaxCalls = 4
    Putters = {t1, t2, t3}
    Texts = {"x", "y"}
    home <- OneHome
    length <- Lengths
    MaxEntries = 2
    MaxBytes = 3
    Threads = {t1, t2, t3}
    TagNames = {"Some", "None", "Unit"}
    MaxInterns = 5
    Nobody = NoThread
    Contexts = {q1, q2}
    Emitters = {e1}
    NoContext = NoContext
    MaxEmits = 2
    MaxSignals = 1
    MaxLines = 1
SYMMETRY Symmetry
INVARIANTS
    BlocksAreSafe
    CellsReadFresh
    BuffersKeepContract
    CachesAccount
    IdentitiesAreExact
    EventsOnceInOrder
PROPERTIES
    SpscIsFifo
CHECK_DEADLOCK FALSE
