SPECIFICATION Spec
CONSTANTS
    Shells = {s1, s2}
    Before = 4
    Size = 3
    Slots = 8
    Gap = 4
    Window = 3
    HistMax = 8
    Radix = 6
    Recent = 2
    MaxCmds = 1
    MaxLong = 0
    MaxFiles = 3
    MaxCells = 15
    MaxOpens = 3
SYMMETRY Symmetry
PROPERTY LastSaved
CHECK_DEADLOCK FALSE
