SPECIFICATION FairSpec
CONSTANTS
    Order <- CyclicOrder
    Versions = {1}
    Depends <- CyclicRepository
    Requests <- CyclicRequests
    MaxDepth = 8
    MaxRequests = 1
INVARIANT CollectEnds
CHECK_DEADLOCK FALSE
