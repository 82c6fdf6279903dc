SPECIFICATION Spec
CONSTANTS
    Strings = {s1, s2, s3, s4}
    Contents = {a, b, c, d}
    Vars = {v1, v2}
    CacheMax = 1
    Outlive = TRUE
INVARIANTS
    WeakrefsNilled
CHECK_DEADLOCK FALSE
