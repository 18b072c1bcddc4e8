SPECIFICATION Spec
CONSTANTS
    Namespaces <- MCNamespaces
    Requests <- MCRequests
    Hosts <- MCHosts
    DefaultMode = "adaptive"
INVARIANTS TypeOK StrictIsExact DegradedTellsAll PlanLaunches
CHECK_DEADLOCK FALSE
