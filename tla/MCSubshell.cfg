SPECIFICATION FairSpec
CONSTANTS
    Fatal = {usr}
    Interrupt = {int}
    Ignored = {urg}
    MaxDepth = 2
    MaxSends = 2
    MaxTraps = 2
INVARIANTS
    TrapsRestored
    NotDeaf
    SignalKept
    NoPhantom
PROPERTY TrapRuns
CHECK_DEADLOCK FALSE
