CONSTANTS
    Nil = Nil
    Scripts = {m1, m2, m3}
    Binaries = {"io"}
    Files = {"lib", "mid", "script", "clash"}
    Imports <- MCImports
    Exporting = {"mid"}
    Using = {"mid", "script"}
    Keeping = {"lib", "script"}
    Shared = {"io", "lib", "mid"}
    Vars = {v1, v2}
    MaxFailures = 1
    Risky = {}
SPECIFICATION Spec
INVARIANTS
    TypeOK
    HeldExist
    OneModulePerName
    WaitingExact
    ClosedLeavesCycles
SYMMETRY Symmetric
CHECK_DEADLOCK FALSE
