SPECIFICATION Spec
CONSTANTS
    MaxTxns = 2
    Copies = {}
    RuntimeChecks = TRUE
    IOFaults <- Nowhere
    CrashAt <- DroppingAndApplying
    PowerLossAt <- Nowhere
INVARIANT RecoverySucceeds
