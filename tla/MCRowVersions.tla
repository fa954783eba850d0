---------------------------- MODULE MCRowVersions -----------------------------
(* The settings in which RowVersions is checked.                             *)
EXTENDS RowVersions

CONSTANTS v1, v2

TwoValues == {v1, v2}

\* A vector in memory, one writer at a time, commits that fail before they stamp.
InMemory ==
    [onDisk |-> 0, maxUndo |-> 2, matchTwice |-> TRUE, enableMultiWrites |-> FALSE,
     faults |-> {"append", "index"}]

\* A checkpointed vector with several writers, each with one change.
MultiWrites ==
    [onDisk |-> Capacity, maxUndo |-> 1, matchTwice |-> FALSE, enableMultiWrites |-> TRUE,
     faults |-> {}]

\* One writer at a time, and the write of the WAL may fail.
LogFaults ==
    [onDisk |-> 0, maxUndo |-> 1, matchTwice |-> FALSE, enableMultiWrites |-> FALSE,
     faults |-> {"log"}]

AllSetups == {InMemory, MultiWrites, LogFaults}
LogFaultsOnDisk == {[LogFaults EXCEPT !.onDisk = Capacity]}
===============================================================================
