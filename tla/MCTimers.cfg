SPECIFICATION FairSpec
CONSTANTS
    Nil = Nil
    Delay <- MCDelay
    Users = {"read", "grace", "retry", "touch"}
    Inherited = 2
    MaxTime = 3
    MaxAdds = 2
    MaxNest = 2
INVARIANTS
    ListsSound
    AlarmSet
    NeverKilled
    CanCancel
PROPERTIES
    RefinesService
    GoesOff
CHECK_DEADLOCK FALSE
