SPECIFICATION Spec
CONSTANTS
    Regs = {1, 2}
    MaxContexts = 5
    Themes <- AllThemes
    Risky = {}
INVARIANTS
    TypeOK
    NothingLiveDropped
    CleanTableTrue
    NeverEndsWithoutResult
CHECK_DEADLOCK FALSE
