SPECIFICATION Spec
CONSTANTS
    Regs = {1}
    MaxContexts = 4
    Themes <- ContinueThemes
    Risky = {"maybeContinue"}
INVARIANTS
    NothingLiveDropped
CHECK_DEADLOCK FALSE
