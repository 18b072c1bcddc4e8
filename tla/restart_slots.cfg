SPECIFICATION Spec
CONSTANTS
    Tasks = {t1, t2}
    Killers = {}
    Slots = 1
    QueueLimit = 2
    MaxAttempts = 2
    MaxCrashes = 1
    MaxShimCrashes = 0
    MaxFaults = 0
SYMMETRY Symmetry
INVARIANTS SlotsRespected EventsBalance
CHECK_DEADLOCK FALSE
