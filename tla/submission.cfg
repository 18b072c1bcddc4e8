SPECIFICATION ClientSpec
CONSTANTS
    Tasks = {t1, t2, t3}
    Handlers = {h1, h2}
    Runner = h1
    MaxQueued = 1
    RetentionFits = TRUE
    MaxSubmits = 3
    MaxCrashes = 1
    MaxFaults = 1
INVARIANTS ClientTypeOK QueueBounded RowHasFiles OwnVerdict OrphansAreAbandoned
PROPERTIES GCSparesTheYoung OldIsCollected ClientEnds
CHECK_DEADLOCK FALSE
