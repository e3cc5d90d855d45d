SPECIFICATION FairSpec
CONSTANTS
    Procs = {p1, p2}
    JOBMAX = 1
    MaxStops = 1
    None = None
PROPERTIES
    WaitsEndUnlessStopped
