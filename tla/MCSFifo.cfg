SPECIFICATION FairSpec
CONSTANTS
    Size <- MCSize
    MaxLen = 4
    MaxBytes = 9
INVARIANTS
    TypeOK
    InOrder
    UsedExact
    NoOverrun
PROPERTIES
    RefinesQueue
    Drained
