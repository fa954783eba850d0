SPECIFICATION FairSpec
CONSTANTS
    w1 = w1
    w2 = w2
    copy = copy
    scan = scan
    gds = gds
    frontier = frontier
    NoTask = NoTask
    NoThread = NoThread
    Workers <- TwoWorkers
    Tasks <- AllTasks
    Loads <- BothLoads
    Children <- Dependencies
    Nested <- Frontiers
    MaxNumThreads <- Parallelism
    MayTerminate = {gds}
INVARIANTS NoStragglers DependenciesFirst FinalizedOnce ErrorsReported
PROPERTIES QueriesEnd WorkersStop
