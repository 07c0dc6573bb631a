SPECIFICATION USpec
CONSTANTS
    Entries = 3
    Budget = 2
    Modes = {"single", "multi"}
INVARIANTS
    FaultedRunFails
CHECK_DEADLOCK FALSE
