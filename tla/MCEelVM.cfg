SPECIFICATION Spec
CONSTANTS
    Objs = {o1}
    MaxFrames = 5
    MaxVars = 1
    MaxArgs = 1
    Untry = FALSE
INVARIANTS
    TypeOK
    Counted
    StacksAgree
    ResultHome
PROPERTIES
    NoHandlerBypassed
