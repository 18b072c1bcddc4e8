SPECIFICATION UntimedSpec
CONSTANTS
    Tasks = {t1}
    Killers = {k1}
    Slots = 1
    QueueLimit = 2
    MaxAttempts = 2
    MaxCrashes = 1
    MaxShimCrashes = 0
    MaxFaults = 0
PROPERTIES KillStops
CHECK_DEADLOCK FALSE
