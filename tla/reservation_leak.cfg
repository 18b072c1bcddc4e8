SPECIFICATION Spec
CONSTANTS
    Tasks = {t1}
    Killers = {k1}
    Slots = 1
    QueueLimit = 2
    MaxAttempts = 1
    MaxCrashes = 0
    MaxShimCrashes = 0
    MaxFaults = 0
INVARIANTS TerminalHoldsNoReservation
CHECK_DEADLOCK FALSE
