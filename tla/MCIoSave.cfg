SPECIFICATION Spec
CONSTANTS
    Files = {a, b}
    Closed = Closed
    Dir = Dir
    Base = 5
    MaxFd = 9
    MaxTop = 3
    MaxDepth = 2
    MaxHeld = 1
    MaxRedirs = 3
    Followed = {}
SYMMETRY Symmetry
INVARIANTS
    SavedSafe
    NoLeak
PROPERTY RefinesDescriptors
CHECK_DEADLOCK FALSE
