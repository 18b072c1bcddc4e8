SPECIFICATION FairSpec
CONSTANTS
    Tasks = {t1, t2}
    Killers = {}
    Slots = 1
    QueueLimit = 2
    MaxAttempts = 1
    MaxCrashes = 0
    MaxShimCrashes = 0
    MaxFaults = 0
INVARIANTS WorkloadsWithinSlots
PROPERTIES ImplementsSlotPool EveryTaskEnds
CHECK_DEADLOCK FALSE
