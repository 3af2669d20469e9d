SPECIFICATION Spec
CONSTANTS
    Paths <- MCPaths
    Restarts = {r1, r2, r3}
    Activation = activation
SYMMETRY Symmetry
INVARIANTS
    OneServerUnlessMoved
    SettingFollowed
CHECK_DEADLOCK FALSE
