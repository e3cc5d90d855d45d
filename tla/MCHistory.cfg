SPECIFICATION Spec
CONSTANTS
    Shells = {s1, s2}
    Before = 4
    Size = 3
    Slots = 8
    Gap = 4
    Window = 3
    HistMax = 8
    Radix = 6
    Recent = 2
    MaxCmds = 2
    MaxLong = 2
    MaxFiles = 3
    MaxCells = 15
    MaxOpens = 3
SYMMETRY Symmetry
INVARIANTS
    TableMatchesFile
    SameNumbers
PROPERTIES
    InUseNotUnlinked
    TrimKeepsOlder
CHECK_DEADLOCK FALSE
