CONSTANTS
    Arrays = {a1, a2}
    Tables = {t1, t2}
    v1 = v1
    v2 = v2
    v3 = v3
    d1 = d1
    d2 = d2
    f1 = f1
    Vectors = {v1, v2, v3}
    Bits <- MCBits
    Signed = {v3}
    VectorBase = 1
    DstringBase = 1
    Dstrings = {d1, d2}
    Files = {f1}
    Together <- MCTogether
    MaxLength = 2
    Numbers = {3}
    NumberBytes <- MCNumberBytes
    Statics = {s1, s2}
    k1 = k1
    k2 = k2
    k3 = k3
    Keys = {k1, k2, k3}
    HashOf <- MCHashOf
    ArrayBase = 1
    TableBase = 1
    RefsBase = 1
    LinearLimit = 2
    MaxLive = 3
    MaxItems = 2
    MaxIndex = 2
    Risky = {}
SPECIFICATION Spec
INVARIANTS
    TypeOK
    Wired
    CountsExact
    BehavesAsPromised
SYMMETRY Symmetric
CHECK_DEADLOCK FALSE
