SPECIFICATION TSpec
CONSTANTS
    Names = {"x", "y"}
    Ints = {1, 2}
    MaxNodes = 4
    MaxDepth = 12
    IrAsData = FALSE
INVARIANT SubstitutionAvoidsCapture
CHECK_DEADLOCK FALSE
