SPECIFICATION Spec
CONSTANTS
    Modes = {"tsc", "incremental", "lsp"}
    Files <- MCFiles
    Diags = {d1, d2}
    Kinds <- MCKinds
    MaxPulls = 3
INVARIANTS
    SilencedStaysSilent
    RightPlaceWrappedOnce
    NothingLost
    UnusedExactWrappedOnce
CHECK_DEADLOCK FALSE
