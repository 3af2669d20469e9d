SPECIFICATION Spec
CONSTANTS
    Catalogues <- AllCatalogues
    MaxNodes = 4
    None = None
INVARIANTS
    GuardsInForce
CHECK_DEADLOCK FALSE
