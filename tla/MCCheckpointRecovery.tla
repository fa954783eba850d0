------------------------ MODULE MCCheckpointRecovery --------------------------
(* Where faults happen in the instances of CheckpointRecovery.              *)
EXTENDS CheckpointRecovery

Nowhere == {}

\* With the failures that leave the WAL alone, that of the sync of a commit.
WALUntouchedOrSync == WALUntouched \union {"commitSync"}

\* Every point of the program but one: between the removal of the shadow file
\* and that of the WAL file in recovery.
ButDroppingWAL == Labels \ {"closed", "failed", "dropWAL"}
DroppingAndApplying == {"dropWAL", "applyBody"}

\* Also not while a checkpoint is applied.
ButApplying == Labels \ ({"dropWAL"} \union Applying)
===============================================================================
