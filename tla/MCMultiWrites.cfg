SPECIFICATION Spec
CONSTANTS
    c1 = c1
    c2 = c2
    Clients <- TwoClients
    NoClient = NoClient
    MultiWrites = TRUE
    InMemory = FALSE
    WALMayFail = FALSE
    MaxWaits = 1
    MaxTransactionID = 7
SYMMETRY Symmetry
INVARIANTS SnapshotsAreLogged LogFollowsTimestamps
PROPERTIES SnapshotsAreStable
