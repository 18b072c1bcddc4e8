SPECIFICATION Spec
CONSTANTS
    Tasks = {t1}
    Killers = {}
    Slots = 1
    QueueLimit = 2
    MaxAttempts = 2
    MaxCrashes = 1
    MaxShimCrashes = 0
    MaxFaults = 0
PROPERTIES LiveShimNotLost
CHECK_DEADLOCK FALSE
