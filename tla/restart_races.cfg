SPECIFICATION Spec
CONSTANTS
    Tasks = {t1}
    Killers = {k1}
    Slots = 1
    QueueLimit = 2
    MaxAttempts = 2
    MaxCrashes = 2
    MaxShimCrashes = 1
    MaxFaults = 1
VIEW ControlView
INVARIANTS TypeOK OneShimPerLife RunningIsSupervised VerdictIsEarned
CHECK_DEADLOCK FALSE
