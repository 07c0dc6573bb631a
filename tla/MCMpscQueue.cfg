SPECIFICATION FairSpec
CONSTANTS
    Producers = {p1, p2}
    Nodes = {n0, n1, n2}
    Stub = n0
    Null = Null
    Empty = Empty
    MaxPush = 3
INVARIANTS
    NoUseAfterFree
    NoLostWakeup
    DropFreesAll
    IInv
PROPERTIES
    ImplementsFifo
    EveryPushDelivered
CHECK_DEADLOCK FALSE
