SPECIFICATION Spec
CONSTANTS
    Leader = leader
    Procs = {leader, c1, c2}
    PidsMax = 2
    WallTime = 3
    Grace = 2
    Period = 2
    Lag = 1
    Horizon = 11
    Launched = 1
    MaxLaunches = 2
SYMMETRY Symmetry
INVARIANTS OomVerdictIsOwn
CHECK_DEADLOCK FALSE
