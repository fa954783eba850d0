SPECIFICATION Spec
CONSTANTS
    MaxTxns = 3
    Copies = {2}
    RuntimeChecks = TRUE
    IOFaults <- WALUntouchedOrSync
    CrashAt <- ButApplying
    PowerLossAt <- ButApplying
INVARIANTS NothingLost OrderKept
