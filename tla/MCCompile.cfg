SPECIFICATION Spec
CONSTANTS
    Builds = {b1, b2}
    MaxEdits = 2
    MaxWipes = 1
    Entries = 2
    Budget = 2
    Modes = {"single", "multi"}
SYMMETRY Symmetry
INVARIANTS
    EmittedCodeFollowsIr
    LinksClosed
    TermLaws
    ScannersAgree
    OutputsAreCurrent
    ExitCodeIsTheVerdict
    FilesAreCanonical
CHECK_DEADLOCK FALSE
