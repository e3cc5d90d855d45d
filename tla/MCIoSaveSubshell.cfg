SPECIFICATION Spec
CONSTANTS
    Files = {a, b}
    Closed = Closed
    Dir = Dir
    Base = 5
    MaxFd = 9
    MaxTop = 3
    MaxDepth = 2
    MaxHeld = 1
    MaxRedirs = 4
    Followed = {"shadow"}
SYMMETRY Symmetry
PROPERTY SubshellLeavesAll
CHECK_DEADLOCK FALSE
