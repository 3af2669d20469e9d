SPECIFICATION MapSpec
CONSTANTS
    MappingLists <- Shapes
    Offsets = {0, 1, 3}
    Threads = {t1, t2}
    Unset = Unset
    SourceText <- MCSourceText
    ServiceText <- MCServiceText
    MaxSegments = 3
    None = None
SYMMETRY Symmetry
INVARIANTS
    LocationsExact
    RangesExact
    LocationsComeBack
    ImportExact
    LookupSameText
CHECK_DEADLOCK FALSE
