\* One table or two, up to three checkpoints, and a crash or a checkpoint that fails.
SPECIFICATION Spec
CONSTANTS
    Tables = {t1, t2}
    Rows = {r1, r2}
    Sizes = {2}
    PageUnits = 3
    MaxPages = 14
    Bounds <- TwoBounds
    MaxFaults = 1
    WriteMayFail = FALSE
SYMMETRY Symmetry
INVARIANT Recoverable
INVARIANT NoPageHasTwoOwners
INVARIANT NoPageIsLost
INVARIANT MetadataFit
INVARIANT ScansReadCommitted
CHECK_DEADLOCK FALSE
