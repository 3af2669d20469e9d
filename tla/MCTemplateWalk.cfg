SPECIFICATION Spec
CONSTANTS
    Catalogues <- AllCatalogues
    MaxNodes = 5
    None = None
INVARIANTS
    SavedFits
    GuardsUnlessNested
    BareIffBound
    BlocksMatch
    MarksWhatFollows
CHECK_DEADLOCK FALSE
