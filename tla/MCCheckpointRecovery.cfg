SPECIFICATION Spec
CONSTANTS
    MaxTxns = 4
    Copies = {2, 3}
    RuntimeChecks = TRUE
    IOFaults <- WALUntouched
    CrashAt <- ButDroppingWAL
    PowerLossAt <- Nowhere
INVARIANTS FilesMatchMemory RecoverySucceeds
PROPERTY ImplementsDurableDatabase
