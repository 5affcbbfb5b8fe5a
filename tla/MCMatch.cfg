SPECIFICATION FairSpec
CONSTANTS
    a = a
    b = b
    c = c
    d = d
    Root = Root
    Main = 0
    Helpers = {1, 2}
    Targets = {a, b, c, d}
    Graphs <- MixedGraphs
    MayFail = {b}
    Loads = {c}
    LoadMayFail = TRUE
    Execution = {"queued", "sync"}
    Direct = {a}
    KeepGoings = {TRUE, FALSE}
    MaxOperations = 2
INVARIANTS
    TasksCounted
    PrerequisitesFirst
    DependentsExact
    NoCycleMatched
PROPERTIES
    NothingAfterFailure
    MatchReturns
CHECK_DEADLOCK FALSE
