SPECIFICATION FairSpec
CONSTANTS
    Order <- PackageOrder
    Versions = {1, 2}
    Depends <- Repository
    Requests <- DropRequests
    MaxDepth = 8
    MaxRequests = 2
INVARIANT PlanNotRefused
CHECK_DEADLOCK FALSE
