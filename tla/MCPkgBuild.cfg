SPECIFICATION FairSpec
CONSTANTS
    Order <- PackageOrder
    Versions = {1, 2}
    Depends <- Repository
    Requests <- MixedRequests
    MaxDepth = 8
    MaxRequests = 3
INVARIANTS
    PlanSound
    RequestHonoured
    PackagesStand
PROPERTIES
    HeldVersionKept
    ExecutionNotRefused
    RefinementEnds
CHECK_DEADLOCK FALSE
