SPECIFICATION FairSpec
CONSTANTS
    m1 = m1
    m2 = m2
    h1 = h1
    s1 = s1
    Nothing = Nothing
    Masters = {m1, m2}
    Helpers = {h1}
    Counts = {1, 2}
    Base <- LockAndBatch
    Slots = {s1}
    SlotOf <- OneSlot
    MayShutdown = TRUE
    MaxCount = 3
    MaxStarts = 4
INVARIANTS
    NoLostWakeup
    NoEarlyReturn
PROPERTY WaitReturns
