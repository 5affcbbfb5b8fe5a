SPECIFICATION FairSpec
CONSTANTS
    a = a
    b = b
    c = c
    d = d
    Root = Root
    Main = 0
    Helpers = {1, 2}
    Targets = {a, b, c, d}
    Graphs <- Diamond
    MayFail = {}
    Loads = {c}
    LoadMayFail = TRUE
    Execution = {"queued", "sync"}
    Direct = {b}
    KeepGoings = {FALSE}
    MaxOperations = 1
PROPERTY MatchReturnsAnyway
CHECK_DEADLOCK FALSE
