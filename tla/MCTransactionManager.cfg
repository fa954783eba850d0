SPECIFICATION FairSpec
CONSTANTS
    c1 = c1
    c2 = c2
    Clients <- TwoClients
    NoClient = NoClient
    MultiWrites = FALSE
    InMemory = FALSE
    WALMayFail = TRUE
    MaxWaits = 1
    MaxTransactionID = 5
INVARIANTS SingleWriter CheckpointRunsAlone TransactionsAreOwned
PROPERTIES StatementsEnd
