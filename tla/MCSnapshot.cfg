SPECIFICATION MSpec
CONSTANTS
    Names = {n1, n2}
    SegSize = 4
    BatchCap = 2
    MaxRows = 4
    Harms = {"tear", "names"}
    MaxCrashes = 2
    Torn = Torn
    Absent = Absent
    NoName = NoName
    Workers = {w1, w2}
    Value = v
    Null = Null
    blank = blank
    NoShape = NoShape
    RowName = n
    RowHashes = {h1, h2, h3, h4}
    OtherHash = h4
    Tombstoned = Tombstoned
    NoBind = NoBind
SYMMETRY Symmetry
PROPERTY SnapshotIsDisposable
CHECK_DEADLOCK FALSE
