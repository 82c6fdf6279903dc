SPECIFICATION Spec
CONSTANTS
    Objs = {o1, o2}
    MaxFrames = 4
    MaxVars = 1
    MaxArgs = 1
    Untry = TRUE
SYMMETRY ObjSymmetry
INVARIANTS
    LimboOnce
    TempsAlive
PROPERTIES
    UntryUnprotectsHere
CHECK_DEADLOCK FALSE
