SPECIFICATION Spec
CONSTANTS
    Workers = {w1, w2}
    Machines <- MCMachines
    Identity <- MCIdentity
    None = None
    Torn = Torn
INVARIANTS
    AnswerIsGenerated
    OffsetsInBytes
    IgnoredOrMapped
PROPERTY
    CacheNeverFails
CHECK_DEADLOCK FALSE
