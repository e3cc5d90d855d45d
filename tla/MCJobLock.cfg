SPECIFICATION FairSpec
CONSTANTS
    Children = {c1, c2, c3}
    MaxHeld = 4
    CounterMod = 16
    Rare = {}
INVARIANTS
    TypeOK
    NoReapInRegion
    NothingForgotten
PROPERTIES
    EachChildTraps
