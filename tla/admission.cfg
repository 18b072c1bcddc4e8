SPECIFICATION ViewSpec
CONSTANTS
    MaxU64 = 7
    t1 = t1
    t2 = t2
    t3 = t3
    acme = acme
    guest = guest
    Tasks = {t1, t2, t3}
    Tenants <- MCTenants
    Requests <- MCRequests
    Configs <- MCConfigs
    QueueLimit = 2
    MaxRestarts = 1
INVARIANTS ViewTypeOK CountsCover NeverShownTwice AvailableIsRight
PROPERTIES ReservationsFit NoOvertaking FittingTaskIsServed
CHECK_DEADLOCK FALSE
