SPECIFICATION QueueSpec
CONSTANTS
    Depth = 3
    MaxLevel = 3
    Ids = {1, 2}
INVARIANTS
    LevelDiscipline
PROPERTY DequeSpec
