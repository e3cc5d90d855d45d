SPECIFICATION FairSpec
CONSTANTS
    Pids = {p1, p2, p3}
    Vals = {0, 1}
    ChildMax = 2
    NJOB_SAVELIST = 2
    Unknown = 127
    Oldest = Oldest
    MaxDepth = 2
    MaxForks = 2
INVARIANTS
    TypeOK
    CountCoversList
    PoolCounted
    OneStatusPerPid
PROPERTIES
    RefinesMemory
    RestoreEnds
