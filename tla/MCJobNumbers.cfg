SPECIFICATION Spec
CONSTANTS
    Jobs = {j1, j2, j3, j4, j5}
    CHAR_BIT = 2
    ChildMax = 4
    MaxNest = 2
    NoJob = NoJob
SYMMETRY Symmetry
INVARIANTS
    TypeOK
    UniqueUntilFull
    OwnJobUnlessNested
