CONSTANTS
    Threads = {t1, t2}
    Pages = {p1, p2}
    Groups = {g1, g2}
    ChunkSize = 2
    PoolSize = 2
    Capacity = 3
    BatchSize = 3
    MaxFailures = 0
    MaxCalls <- TwoOfEach
    EMPTY = EMPTY
    Nobody = Nobody
    Races = {}
SPECIFICATION Spec
SYMMETRY Symmetry
INVARIANTS MemoryIsAccounted PoolNeverExceeded ReadsAreStable WritesAreKept CachedPagesAreCandidates GroupsInUseAreInMemory
