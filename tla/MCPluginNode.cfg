SPECIFICATION FairSpec
CONSTANTS
    Callers = {c1, c2}
    Files = {f1, f2}
    None = None
    PipeCap = 2
    CpuCounts = {1, 3, 4}
    EnvWorkers = 0
INVARIANTS AnswersOwnFile EveryResponseIsExpected FramesIntact OneTaskPerWorker
PROPERTIES NewPluginReturns NoOrphanPlugin ImplementsRpc
CHECK_DEADLOCK FALSE
