SPECIFICATION KSpec
CONSTANTS
    Libs = {"f", "g"}
    Root = "main"
    EntryNames = {"f"}
    Dispatched = {"g"}
    TextListFns = {"g"}
    MaxUses = 2
    Aliases = TRUE
INVARIANTS
    LinksClosed
CHECK_DEADLOCK FALSE
