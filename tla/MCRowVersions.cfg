SPECIFICATION Spec
CONSTANTS
    v1 = v1
    v2 = v2
    Capacity = 2
    Values <- TwoValues
    MaxTxns = 3
    Setups <- AllSetups
INVARIANTS SnapshotReads RollbackRestores CommittedVersions FirstUpdaterWins
