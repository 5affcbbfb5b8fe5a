SPECIFICATION FairSpec
CONSTANTS
    a = a
    b = b
    c = c
    m = m
    src = src
    Root = Root
    Helpers = {1, 2, 3}
    Main = 0
    Targets = {a, b, c, m, src}
    Graphs <- ExecuteGraphs
    Noop = {src}
    Members = {m}
    MayFail = {b, c}
    Early = {c}
    Depths = {0, 1}
    Modes = {"first", "last"}
    KeepGoings = {TRUE, FALSE}
INVARIANTS
    UpdatedInOrder
    CleanedInOrder
    AllExecuted
    ChangePropagates
PROPERTIES
    ExecuteReturns

CHECK_DEADLOCK FALSE
