SPECIFICATION FairSpec
CONSTANTS
    Capacity = 3
    Fragment = 2
    ArgSizes <- MCArgSizes
    MaxArgs = 2
    MaxBytes = 5
    MaxSetups = 3
INVARIANTS
    TypeOK
    WireInOrder
    NothingLost
    NoUseAfterFree
PROPERTIES
    BufferedIsSent
