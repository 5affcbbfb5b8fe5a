SPECIFICATION FairSpec
CONSTANTS
    t1 = t1
    t2 = t2
    t3 = t3
    Threads = {t1, t2, t3}
    Builds <- Instances
    LoadSuspends = TRUE
    NoPhase = NoPhase
INVARIANTS
    InPhase
    ExclusiveLoad
    NotStranded
PROPERTIES
    FailSeen
    Arrives
