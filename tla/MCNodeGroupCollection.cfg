SPECIFICATION FairSpec
CONSTANTS
    Capacity = 4
    ChunkCapacity = 2
    Workers = {w1, w2}
    MaxRows = 8
    FaultModes <- AllModes
INVARIANTS OffsetsMatch RowsAreCommitted
PROPERTY StatementsEndOnWholeGroups
