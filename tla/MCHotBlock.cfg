SPECIFICATION FairSpec
CONSTANTS
    Blocks = {b1, b2}
    NoBlock = NoBlock
    Capacity = 2
    PoolDepth = 1
    MaxBytes = 3
    MaxObjs = 1
    MaxGen = 3
    MaxChan = 1
    MaxCrashes = 1
INVARIANTS
    WritePathInv
PROPERTIES
    EveryByteDurable
CHECK_DEADLOCK FALSE
