SPECIFICATION Spec
CONSTANTS
    Modes = {"incremental"}
    Files <- MCFiles
    Diags = {d1, d2}
    Kinds <- MCKinds
    MaxPulls = 1
INVARIANTS
    RightPlace
CHECK_DEADLOCK FALSE
