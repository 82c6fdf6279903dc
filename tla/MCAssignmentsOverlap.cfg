SPECIFICATION Spec
CONSTANTS
    Locals = {0, 1, 2, 3}
    Fresh = {4}
    Initially <- Values
    MaxRegister = 8
    Statements <- TwoVariables
    Risky = {"compound"}
INVARIANT AsMeant
CHECK_DEADLOCK FALSE
