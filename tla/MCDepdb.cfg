SPECIFICATION Spec
CONSTANTS
    Rules = {"script", "in", "compile"}
    Texts = {"A", "B"}
    Sources = {"s1", "s2"}
    NumVars <- SourceVars
    MaxBuilds = 4
    MaxEdits = 2
INVARIANTS
    UpToDate
    DatabaseHonest
PROPERTY NothingToDo
