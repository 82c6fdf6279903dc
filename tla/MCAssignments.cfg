SPECIFICATION Spec
CONSTANTS
    Locals = {0, 1, 2, 3}
    Fresh = {4}
    Initially <- Values
    MaxRegister = 8
    Statements <- AllStatements
    Risky = {}
INVARIANTS
    TypeOK
    AsMeant
    ValuesAlive
CHECK_DEADLOCK FALSE
