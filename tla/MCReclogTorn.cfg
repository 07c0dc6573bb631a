SPECIFICATION Spec
CONSTANTS
    Names = {n1, n2}
    SegSize = 4
    BatchCap = 2
    MaxRows = 3
    Harms = {"tear"}
    MaxCrashes = 1
INVARIANTS
    EveryAckRecoverable
CHECK_DEADLOCK FALSE
