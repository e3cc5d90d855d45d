SPECIFICATION Spec
CONSTANTS
    Procs = {p1, p2, p3}
    JOBMAX = 1
    MaxStops = 1
    None = None
SYMMETRY Symmetry
INVARIANTS
    AlivePosted
    WaitedPosted
    StatusKeptUnlessStopped
    JobmaxUnlessStopped
    NoTrapMissedInScript
    AmpAloneUnlessStopped
