SPECIFICATION Spec
CONSTANTS
    Fragments = 4
    Frames <- Texts
INVARIANTS
    TreeNested
    VPreScoped
    RawWhole
    KnownPanics
CHECK_DEADLOCK FALSE
