SPECIFICATION FairSpec
CONSTANTS
    m1 = m1
    h1 = h1
    h2 = h2
    h3 = h3
    Masters = {m1}
    Helpers = {h1, h2, h3}
    MaxActive = 2
    MaxThreads = 2
    MaxQueued = 2
    ShutdownWithTasks = FALSE
    LateMonitor = FALSE
INVARIANTS
    Accounting
    ActiveBound
    ReadyNotStranded
    NoStrandedWork
    MonitorNotMissed
PROPERTIES
    ShutdownReturns
    DeadlockNoticed
