-------------------------- MODULE CheckpointRecovery --------------------------
(***************************************************************************)
(* How a database reaches the disk: commits through the write-ahead log,   *)
(* checkpoints through the shadow file, and what WALReplayer makes of the  *)
(* files after a crash at any point, including a crash during recovery.    *)
(*                                                                         *)
(* TransactionManager runs commits and checkpoints one at a time, so one   *)
(* label (pc) says where the database is.  A state of the database is the  *)
(* sequence of the transactions in it.  The data file has a header page    *)
(* and a body of pages that a checkpoint rewrites in place (both through   *)
(* the shadow file), and fresh pages, which a checkpoint writes directly   *)
(* because the current header does not refer to them.  Every file is kept  *)
(* twice: as the operating system shows it and as it is after a loss of    *)
(* power.  Creating, truncating and removing a file take effect at once.   *)
(***************************************************************************)
EXTENDS Naturals, Sequences

CONSTANTS
    MaxTxns,          \* bound: the number of commits
    Copies,           \* the transactions that are a COPY FROM: no record redoes them
    RuntimeChecks,    \* whether KU_ASSERT is compiled in
    IOFaults,         \* labels at which the step may throw
    CrashAt,          \* labels at which the process may be killed
    PowerLossAt       \* labels at which the machine may lose power

CommitLabels == {"commit", "commitSync"}
CheckpointLabels ==
    {"storage", "header", "flush", "flushing", "log", "logFlush", "logSync", "applyBody",
     "applyHeader", "syncData", "clearWAL", "clearShadow", "removeWAL", "removeShadow"}
RecoveryLabels ==
    {"recover", "removeEmptyWAL", "replayBody", "replayHeader", "dropShadow", "dropWAL",
     "readCheckpoint", "replayWAL"}
Labels == CommitLabels \union CheckpointLabels \union RecoveryLabels
          \union {"closed", "open", "failed"}

ASSUME BoundAssumption == MaxTxns \in Nat
ASSUME CopyAssumption == Copies \subseteq 1..MaxTxns
ASSUME SwitchAssumption == RuntimeChecks \in BOOLEAN
ASSUME FaultAssumption ==
    /\ IOFaults \subseteq CommitLabels \union CheckpointLabels
    /\ CrashAt \subseteq Labels /\ PowerLossAt \subseteq Labels

VARIABLES
    pc,
    mem,                    \* the committed transactions in memory
    nextTxn,                \* the next transaction to commit
    acked, refused,         \* what the clients were told
    forcing,                \* the COPY whose commit forced the running checkpoint, or 0
    throwOnWalReplayFailure,    \* of the SystemConfig the database was last opened with
    data, dataDisk,         \* header and body pages of the data file
    fresh, freshDisk,       \* states whose directly written pages are in the data file
    walExists,
    wal, walDisk,           \* the contents of the WAL file
    pending,                \* what BufferedFileWriter holds for the WAL file
    walOpen,                \* whether WAL::serializer exists
    shadow, shadowDisk,     \* the shadow file
    shadowPages             \* shadow pages in memory (shadowPagesMap and frames)

dataVars == <<data, dataDisk, fresh, freshDisk>>
walVars == <<walExists, wal, walDisk, pending, walOpen>>
shadowVars == <<shadow, shadowDisk, shadowPages>>
clientVars == <<nextTxn, acked, refused, forcing, throwOnWalReplayFailure>>
vars == <<pc, mem, clientVars, dataVars, walVars, shadowVars>>

States == Seq(0..MaxTxns)
Garbage == <<0>>    \* no transaction is numbered 0
Txns == 1..MaxTxns

(***************************************************************************)
(* Pieces of WAL, as the replayer can tell them apart: the header, the     *)
(* transactions it redoes, and whether there is a COMMIT record at all, up  *)
(* to the first record that stops it (a CHECKPOINT record or one that      *)
(* cannot be parsed), and whether anything follows that record.            *)
(***************************************************************************)
Logs == [header : BOOLEAN, txns : States, commits : BOOLEAN,
         stop : {"end", "torn", "checkpoint"}, more : BOOLEAN]
EmptyLog ==
    [header |-> FALSE, txns |-> <<>>, commits |-> FALSE, stop |-> "end", more |-> FALSE]
HeaderRecord == [EmptyLog EXCEPT !.header = TRUE]

\* What replay redoes of a transaction: of a COPY, which logs only BEGIN and COMMIT, nothing.
Redone(t) == IF t \in Copies THEN <<>> ELSE <<t>>

TxnRecords(t) == [EmptyLog EXCEPT !.txns = Redone(t), !.commits = TRUE]
CheckpointRecord == [EmptyLog EXCEPT !.stop = "checkpoint"]

\* A piece of WAL followed by another one.
Concat(w, p) ==
    IF w = EmptyLog THEN p
    ELSE IF p = EmptyLog THEN w
    ELSE IF w.stop # "end" THEN [w EXCEPT !.more = TRUE]
    ELSE [header |-> w.header, txns |-> w.txns \o p.txns, commits |-> w.commits \/ p.commits,
          stop |-> p.stop, more |-> p.more]

\* What may be in the file when writing p stops half way: its records up to any point, the
\* last of them whole or torn.
Prefixes(p) ==
    {q \in [header : {FALSE, p.header}, txns : {SubSeq(p.txns, 1, n) : n \in 0..Len(p.txns)},
            commits : {FALSE, p.commits}, stop : {"end", "torn"}, more : {FALSE}] :
        /\ q.txns # <<>> => q.commits
        /\ q.commits => q.header = p.header}

\* The piece q holds all that w holds.
Extends(q, w) ==
    /\ w.stop = "end" /\ Len(w.txns) <= Len(q.txns)
    /\ (w.header => q.header) /\ (w.commits => q.commits)

NoShadow == [state |-> "absent", body |-> <<>>, header |-> <<>>]
Shadows == [state : {"absent", "torn", "complete"}, body : States, header : States]

Init ==
    /\ pc = "open" /\ mem = <<>>
    /\ nextTxn = 1 /\ acked = {} /\ refused = {} /\ forcing = 0
    /\ throwOnWalReplayFailure = TRUE
    /\ data = [body |-> <<>>, header |-> <<>>] /\ dataDisk = data
    /\ fresh = {<<>>} /\ freshDisk = {<<>>}
    /\ walExists = FALSE /\ wal = EmptyLog /\ walDisk = EmptyLog
    /\ pending = EmptyLog /\ walOpen = FALSE
    /\ shadow = NoShadow /\ shadowDisk = NoShadow
    /\ shadowPages = [body |-> <<>>, header |-> <<>>]

At(label, next) == pc = label /\ pc' = next

(***************************************************************************)
(* Commits.                                                                *)
(***************************************************************************)

\* WAL::initWriter: what it leaves in the buffer before the first record.
InitWriter == IF ~walOpen /\ wal = EmptyLog THEN HeaderRecord ELSE EmptyLog

BufferRecords(records) ==
    /\ pending' = Concat(Concat(pending, InitWriter), records)
    /\ walOpen' = TRUE /\ walExists' = TRUE
    /\ UNCHANGED <<wal, walDisk>>

\* BufferedFileWriter::flush.
FlushWAL ==
    /\ wal' = Concat(wal, pending)
    /\ pending' = EmptyLog
    /\ UNCHANGED <<walExists, walDisk, walOpen>>

\* WAL::logCommittedWAL hands the records of the transaction to the writer ...
BufferCommit ==
    /\ At("open", "commit")
    /\ nextTxn <= MaxTxns
    /\ BufferRecords(TxnRecords(nextTxn))
    /\ UNCHANGED <<mem, clientVars, dataVars, shadowVars>>

\* ... flushes it ...
FlushCommit ==
    /\ At("commit", "commitSync")
    /\ FlushWAL
    /\ UNCHANGED <<mem, clientVars, dataVars, shadowVars>>

\* ... and syncs the file: the transaction is committed.
CommitTxn ==
    /\ walDisk' = wal
    /\ mem' = Append(mem, nextTxn) /\ nextTxn' = nextTxn + 1
    /\ UNCHANGED <<refused, throwOnWalReplayFailure, dataVars, walExists, wal, pending, walOpen,
                   shadowVars>>

SyncCommit ==
    /\ nextTxn \notin Copies
    /\ At("commitSync", "open")
    /\ CommitTxn
    /\ acked' = acked \union {nextTxn}
    /\ UNCHANGED forcing

\* Mutant: a COPY returns to the client before its checkpoint.
SyncCopyAcknowledged ==
    /\ nextTxn \in Copies
    /\ At("commitSync", "storage")
    /\ CommitTxn
    /\ acked' = acked \union {nextTxn}
    /\ UNCHANGED forcing

\* A COPY has set forceCheckpoint: TransactionManager::commit goes on with a checkpoint, and
\* the client hears of the commit when that returns.
SyncCopy ==
    /\ nextTxn \in Copies
    /\ At("commitSync", "storage")
    /\ CommitTxn
    /\ forcing' = nextTxn
    /\ UNCHANGED acked

\* logCommittedWAL throws and the transaction is rolled back.  A failed write
\* leaves the records in the buffer, or their head if they did not all fit.
CommitFails ==
    /\ pc \in CommitLabels \intersect IOFaults /\ pc' = "open"
    /\ pending' \in {pending} \union (IF pc = "commit" THEN Prefixes(pending) ELSE {})
    /\ refused' = refused \union {nextTxn} /\ nextTxn' = nextTxn + 1
    /\ UNCHANGED <<mem, acked, forcing, throwOnWalReplayFailure, dataVars, walExists, wal, walDisk,
                   walOpen, shadowVars>>

(***************************************************************************)
(* Checkpoints (Checkpointer::writeCheckpoint).                            *)
(***************************************************************************)

StartCheckpoint ==
    /\ At("open", "storage")
    /\ UNCHANGED <<mem, clientVars, dataVars, walVars, shadowVars>>

\* checkpointStorage and serializeCatalogAndMetadata: column pages go directly
\* to newly allocated pages of the data file, everything else to shadow pages.
CheckpointStorage ==
    /\ At("storage", "header")
    /\ fresh' = fresh \union {mem}
    /\ shadowPages' = [shadowPages EXCEPT !.body = mem]
    /\ shadow' = IF shadow = NoShadow THEN [shadow EXCEPT !.state = "torn"] ELSE shadow
    /\ UNCHANGED <<mem, clientVars, data, dataDisk, freshDisk, walVars, shadowDisk>>

\* Mutant: the checkpoint is logged before the shadow file is flushed.
WriteDatabaseHeaderThenLog ==
    /\ At("header", "log")
    /\ shadowPages' = [shadowPages EXCEPT !.header = mem]
    /\ UNCHANGED <<mem, clientVars, dataVars, walVars, shadow, shadowDisk>>

WriteDatabaseHeader ==
    /\ At("header", "flush")
    /\ shadowPages' = [shadowPages EXCEPT !.header = mem]
    /\ UNCHANGED <<mem, clientVars, dataVars, walVars, shadow, shadowDisk>>

\* ShadowFile::flushAll starts to overwrite the shadow file ...
FlushShadow ==
    /\ At("flush", "flushing")
    /\ shadow' = [shadow EXCEPT !.state = "torn"]
    /\ UNCHANGED <<mem, clientVars, dataVars, walVars, shadowDisk, shadowPages>>

\* ... and ends with a sync.
FlushShadowEnds ==
    /\ At("flushing", "log")
    /\ shadow' = [state |-> "complete", body |-> shadowPages.body, header |-> shadowPages.header]
    /\ shadowDisk' = shadow'
    /\ UNCHANGED <<mem, clientVars, dataVars, walVars, shadowPages>>

\* WAL::logAndFlushCheckpoint.
BufferCheckpointRecord ==
    /\ At("log", "logFlush")
    /\ BufferRecords(CheckpointRecord)
    /\ UNCHANGED <<mem, clientVars, dataVars, shadowVars>>

FlushCheckpointRecord ==
    /\ At("logFlush", "logSync")
    /\ FlushWAL
    /\ UNCHANGED <<mem, clientVars, dataVars, shadowVars>>

SyncCheckpointRecord ==
    /\ At("logSync", "applyBody")
    /\ walDisk' = wal
    /\ UNCHANGED <<mem, clientVars, dataVars, walExists, wal, pending, walOpen, shadowVars>>

\* ShadowFile::applyShadowPages: pages are applied one by one, in the order of
\* their records, and then the data file is synced.
ApplyBody ==
    /\ At("applyBody", "applyHeader")
    /\ data' = [data EXCEPT !.body = shadow.body]
    /\ UNCHANGED <<mem, clientVars, dataDisk, fresh, freshDisk, walVars, shadowVars>>

ApplyHeader ==
    /\ At("applyHeader", "syncData")
    /\ data' = [data EXCEPT !.header = shadow.header]
    /\ UNCHANGED <<mem, clientVars, dataDisk, fresh, freshDisk, walVars, shadowVars>>

\* Mutant: the data file is not synced before the WAL is cleared.
SyncDataForgotten ==
    /\ At("syncData", "clearWAL")
    /\ UNCHANGED <<mem, clientVars, dataVars, walVars, shadowVars>>

SyncData ==
    /\ At("syncData", "clearWAL")
    /\ dataDisk' = data /\ freshDisk' = fresh
    /\ UNCHANGED <<mem, clientVars, data, fresh, walVars, shadowVars>>

\* WAL::clear truncates the file and keeps the writer.
ClearWAL ==
    /\ At("clearWAL", "clearShadow")
    /\ wal' = EmptyLog /\ walDisk' = EmptyLog /\ pending' = EmptyLog
    /\ UNCHANGED <<mem, clientVars, dataVars, walExists, walOpen, shadowVars>>

\* ShadowFile::clear, then StorageManager::finalizeCheckpoint.
ClearShadow ==
    /\ At("clearShadow", "removeWAL")
    /\ shadow' = [NoShadow EXCEPT !.state = "torn"] /\ shadowDisk' = shadow'
    /\ shadowPages' = [body |-> <<>>, header |-> <<>>]
    /\ UNCHANGED <<mem, clientVars, dataVars, walVars>>

\* WAL::reset.
RemoveWAL ==
    /\ At("removeWAL", "removeShadow")
    /\ walExists' = FALSE /\ walOpen' = FALSE
    /\ wal' = EmptyLog /\ walDisk' = EmptyLog
    /\ UNCHANGED <<mem, clientVars, dataVars, pending, shadowVars>>

\* ShadowFile::reset.  The client of a COPY that forced the checkpoint hears of its commit.
RemoveShadow ==
    /\ At("removeShadow", "open")
    /\ shadow' = NoShadow /\ shadowDisk' = NoShadow
    /\ acked' = acked \union ({forcing} \ {0}) /\ forcing' = 0
    /\ UNCHANGED <<mem, nextTxn, refused, throwOnWalReplayFailure, dataVars, walVars, shadowPages>>

\* A step of writeCheckpoint throws.  Checkpointer::rollback undoes changes of
\* tables and of the page manager; files, writer and shadow pages are left.  A COPY that
\* forced the checkpoint stays committed in memory, though its client sees an exception.
CheckpointFails ==
    /\ pc \in CheckpointLabels \intersect IOFaults /\ pc' = "open"
    /\ forcing' = 0
    /\ UNCHANGED <<mem, nextTxn, acked, refused, throwOnWalReplayFailure, dataVars, walVars,
                   shadowVars>>

(***************************************************************************)
(* The end of a process.                                                   *)
(***************************************************************************)

\* What a process that ends at this label does to what it was committing.
Abandon ==
    /\ pc' = "closed" /\ mem' = <<>>
    /\ pending' = EmptyLog /\ walOpen' = FALSE
    /\ shadowPages' = [body |-> <<>>, header |-> <<>>]
    /\ nextTxn' = IF pc \in CommitLabels THEN nextTxn + 1 ELSE nextTxn
    /\ forcing' = 0
    /\ UNCHANGED <<acked, refused, throwOnWalReplayFailure, walExists>>

\* ~Database: the writer of the WAL flushes its buffer when it is destroyed.
Close ==
    /\ pc = "open"
    /\ Abandon
    /\ wal' = Concat(wal, pending)
    /\ UNCHANGED <<dataVars, walDisk, shadow, shadowDisk>>

\* The process is killed.  A write to the WAL may be half done.
Crash ==
    /\ pc \in CrashAt
    /\ Abandon
    /\ wal' \in {wal} \union (IF pc \in {"commit", "logFlush"}
                             THEN {Concat(wal, q) : q \in Prefixes(pending)}
                             ELSE {})
    /\ UNCHANGED <<dataVars, walDisk, shadow, shadowDisk>>

\* The machine loses power.  Of what was written since the last sync of a file
\* any part may be there, of the WAL, which only grows, any prefix.
LosePower ==
    /\ pc \in PowerLossAt
    /\ Abandon
    /\ wal' \in {walDisk, wal} \union
               (IF wal = walDisk THEN {} ELSE {q \in Prefixes(wal) : Extends(q, walDisk)})
    /\ walDisk' = wal'
    /\ shadow' \in {shadow, shadowDisk} \union
                  (IF shadow = shadowDisk THEN {} ELSE {[shadow EXCEPT !.state = "torn"]})
    /\ shadowDisk' = shadow'
    /\ data' \in [body : {data.body, dataDisk.body}, header : {data.header, dataDisk.header}]
    /\ dataDisk' = data'
    /\ \E lost \in SUBSET (fresh \ freshDisk) : fresh' = fresh \ lost
    /\ freshDisk' = fresh'

(***************************************************************************)
(* Recovery (WALReplayer::replay, run when the database is opened).        *)
(***************************************************************************)

Open ==
    /\ pc \in {"closed", "failed"} /\ pc' = "recover"
    /\ throwOnWalReplayFailure' \in BOOLEAN
    /\ UNCHANGED <<mem, nextTxn, acked, refused, forcing, dataVars, walVars, shadowVars>>

\* Mutant: the CHECKPOINT record is ignored.
IgnoreCheckpointRecord(w) == FALSE

\* WALReplayer::dryReplay: whether it throws, and whether it ends at CHECKPOINT.
\* KU_ASSERT(finishedDeserializing) guards the CHECKPOINT record.
DryReplayThrows(w) ==
    \/ ~w.header \/ w.stop = "torn"
    \/ w.stop = "checkpoint" /\ w.more /\ RuntimeChecks
IsLastRecordCheckpoint(w) ==
    w.header /\ w.stop = "checkpoint" /\ ~(w.more /\ RuntimeChecks)

\* Whether the dry replay sees a COMMIT record, and the transactions up to the last one.
HasCommit(w) == w.header /\ w.commits
CommittedPart(w) == IF HasCommit(w) THEN w.txns ELSE <<>>

\* The database that a data file holds: no state of it if its pages do not belong
\* together, or if pages its header refers to are missing.
Contents(d) == IF d.body = d.header /\ d.header \in fresh THEN d.header ELSE Garbage

RecoverWithoutWAL ==
    /\ ~walExists
    /\ At("recover", "readCheckpoint")
    /\ shadow' = NoShadow /\ shadowDisk' = NoShadow
    /\ UNCHANGED <<mem, clientVars, dataVars, walVars, shadowPages>>

RecoverWithEmptyWAL ==
    /\ walExists /\ wal = EmptyLog
    /\ At("recover", "removeEmptyWAL")
    /\ shadow' = NoShadow /\ shadowDisk' = NoShadow
    /\ UNCHANGED <<mem, clientVars, dataVars, walVars, shadowPages>>

\* syncWALFile and dryReplay.
DryReplay(next) ==
    /\ walExists /\ wal # EmptyLog
    /\ At("recover", next)
    /\ walDisk' = wal
    /\ UNCHANGED <<mem, clientVars, dataVars, walExists, wal, pending, walOpen, shadowPages>>

DryReplayFails ==
    /\ DryReplayThrows(wal) /\ throwOnWalReplayFailure
    /\ DryReplay("failed")
    /\ UNCHANGED <<shadow, shadowDisk>>

\* The checkpoint was logged: its shadow file must be there.
ResumeCheckpoint ==
    /\ ~(DryReplayThrows(wal) /\ throwOnWalReplayFailure)
    /\ IsLastRecordCheckpoint(wal)
    /\ DryReplay(IF shadow.state = "absent" THEN "failed" ELSE "replayBody")
    /\ UNCHANGED <<shadow, shadowDisk>>

ResumeFromWAL ==
    /\ ~(DryReplayThrows(wal) /\ throwOnWalReplayFailure)
    /\ ~IsLastRecordCheckpoint(wal)
    /\ DryReplay("replayWAL")
    /\ shadow' = NoShadow /\ shadowDisk' = NoShadow

\* ShadowFile::replayShadowPageRecords.  The data file is not synced, and what an
\* incomplete shadow file holds is no page of the database.
ShadowContent(page) == IF shadow.state = "complete" THEN page ELSE Garbage

ReplayBody ==
    /\ At("replayBody", "replayHeader")
    /\ data' = [data EXCEPT !.body = ShadowContent(shadow.body)]
    /\ UNCHANGED <<mem, clientVars, dataDisk, fresh, freshDisk, walVars, shadowVars>>

ReplayHeader ==
    /\ At("replayHeader", "dropShadow")
    /\ data' = [data EXCEPT !.header = ShadowContent(shadow.header)]
    /\ UNCHANGED <<mem, clientVars, dataDisk, fresh, freshDisk, walVars, shadowVars>>

\* removeWALAndShadowFiles.
DropShadow ==
    /\ At("dropShadow", "dropWAL")
    /\ shadow' = NoShadow /\ shadowDisk' = NoShadow
    /\ UNCHANGED <<mem, clientVars, dataVars, walVars, shadowPages>>

DropWAL ==
    /\ pc \in {"dropWAL", "removeEmptyWAL"} /\ pc' = "readCheckpoint"
    /\ walExists' = FALSE /\ wal' = EmptyLog /\ walDisk' = EmptyLog
    /\ UNCHANGED <<mem, clientVars, dataVars, pending, walOpen, shadowVars>>

\* Checkpointer::readCheckpoint.  It needs a header it can parse; what the other
\* pages hold comes to light when they are used.
ReadableHeader == data.header # Garbage

ReadCheckpoint ==
    /\ At("readCheckpoint", IF ReadableHeader THEN "open" ELSE "failed")
    /\ mem' = IF ReadableHeader THEN Contents(data) ELSE mem
    /\ UNCHANGED <<clientVars, dataVars, walVars, shadowVars>>

\* replayWALRecord for the records of the transactions: each is redone as a whole, except
\* that replayCopyTableRecord does nothing (Redone).  No transaction needs the rows of a COPY.
Redo(state, txns) == state \o txns

\* Mutant: the WAL is replayed first.
ReplayWALFirst ==
    /\ At("replayWAL", IF ReadableHeader THEN "open" ELSE "failed")
    /\ mem' = IF ReadableHeader THEN CommittedPart(wal) \o Contents(data) ELSE mem
    /\ UNCHANGED <<clientVars, dataVars, walVars, shadowVars>>

\* readCheckpoint, the replay of the committed records, and truncateWALFile.
ReplayWAL ==
    /\ At("replayWAL", IF ReadableHeader THEN "open" ELSE "failed")
    /\ mem' = IF ReadableHeader THEN Redo(Contents(data), CommittedPart(wal)) ELSE mem
    /\ wal' = IF ~ReadableHeader THEN wal
              ELSE IF ~HasCommit(wal) THEN EmptyLog
              ELSE [wal EXCEPT !.stop = "end", !.more = FALSE]
    /\ walDisk' = wal'
    /\ UNCHANGED <<clientVars, dataVars, walExists, pending, walOpen, shadowVars>>

Commit == BufferCommit \/ FlushCommit \/ SyncCommit \/ SyncCopy \/ CommitFails
Checkpoint ==
    \/ StartCheckpoint \/ CheckpointStorage \/ WriteDatabaseHeader
    \/ FlushShadow \/ FlushShadowEnds
    \/ BufferCheckpointRecord \/ FlushCheckpointRecord \/ SyncCheckpointRecord
    \/ ApplyBody \/ ApplyHeader \/ SyncData \/ ClearWAL \/ ClearShadow
    \/ RemoveWAL \/ RemoveShadow \/ CheckpointFails
Recover ==
    \/ Open \/ RecoverWithoutWAL \/ RecoverWithEmptyWAL \/ DryReplayFails
    \/ ResumeCheckpoint \/ ResumeFromWAL \/ ReplayBody \/ ReplayHeader
    \/ DropShadow \/ DropWAL \/ ReadCheckpoint \/ ReplayWAL

Next == Commit \/ Checkpoint \/ Close \/ Crash \/ LosePower \/ Recover

Spec == Init /\ [][Next]_vars

(***************************************************************************)
(* What recovery would make of the files, now, if the database is opened   *)
(* without throwOnWalReplayFailure.                                        *)
(***************************************************************************)
Recovered ==
    IF ~walExists \/ wal = EmptyLog \/ pc = "dropWAL" THEN Contents(data)
    ELSE IF ~IsLastRecordCheckpoint(wal) THEN Redo(Contents(data), CommittedPart(wal))
    ELSE IF shadow.state = "complete" THEN Contents(shadow) ELSE Garbage

Elements(s) == {s[i] : i \in 1..Len(s)}
Ordered(s) == \A i, j \in 1..Len(s) : i < j => s[i] < s[j]

\* The files, the memory of the process and its progress keep their types.
TypeOK ==
    /\ pc \in Labels /\ mem \in States
    /\ nextTxn \in 1..(MaxTxns + 1)
    /\ acked \subseteq Txns /\ refused \subseteq Txns /\ forcing \in Copies \union {0}
    /\ throwOnWalReplayFailure \in BOOLEAN
    /\ {data, dataDisk, shadowPages} \subseteq [body : States, header : States]
    /\ fresh \subseteq States /\ freshDisk \subseteq fresh
    /\ walExists \in BOOLEAN /\ walOpen \in BOOLEAN
    /\ {wal, walDisk, pending} \subseteq Logs
    /\ {shadow, shadowDisk} \subseteq Shadows

\* A commit that was acknowledged is in every database that recovery opens,
\* exactly once (logCommittedWAL, writeCheckpoint and WALReplayer::replay together).
NothingLost ==
    pc = "open" => \A t \in acked : \E i \in 1..Len(mem) : /\ mem[i] = t
                                                        /\ \A j \in 1..Len(mem) : mem[j] = t => j = i

\* Transactions come back in the order in which they committed: replay appends the
\* committed records of the WAL to the checkpoint, and never replays one of them twice.
OrderKept == pc = "open" => Ordered(mem)

\* While the database is open, a crash at this moment loses nothing but COPYs whose forced
\* checkpoint threw (TransactionManager::commit), and adds nothing: the files hold every
\* other transaction that memory holds, once and in commit order, whatever checkpoint was
\* abandoned.
FilesMatchMemory ==
    pc = "open" => /\ Ordered(Recovered)
                   /\ Elements(Recovered) \subseteq Elements(mem)
                   /\ Elements(mem) \ Elements(Recovered) \subseteq Copies \ acked

\* Opening the database after a crash succeeds, unless the user asks for an exception when
\* the tail of the WAL is torn: no step of writeCheckpoint, and none of WALReplayer::replay,
\* leaves files behind that replay refuses.
RecoverySucceeds == pc = "failed" => throwOnWalReplayFailure

\* The files implement a durable set of commits: a transaction becomes durable by one step,
\* COPYs by a checkpoint, an acknowledged one is durable, and nothing that is durable is lost
\* to crashes, recoveries and checkpoints.
Abstract == INSTANCE DurableDatabase WITH durable <- Elements(Recovered)
ImplementsDurableDatabase == Abstract!Spec

(***************************************************************************)
(* The faults that the storage engine survives.                            *)
(***************************************************************************)

\* The failures of a checkpoint that leave the WAL as it was, and the last one.
WALUntouched == {"storage", "header", "flush", "flushing", "log", "removeShadow"}

\* From the moment the CHECKPOINT record may be on disk to the sync of the data file.
Applying == {"logSync", "applyBody", "applyHeader", "syncData"}

\* A kill between the removal of the shadow file and that of the WAL in recovery is not
\* survived, nor is a loss of power after a checkpoint that recovery has finished, which
\* does not sync the data file.
ToleratedFaults ==
    /\ IOFaults \subseteq WALUntouched \union {"commitSync"}
    /\ "dropWAL" \notin CrashAt \union PowerLossAt
    /\ PowerLossAt = {} \/ (CrashAt \union PowerLossAt) \intersect Applying = {}
===============================================================================
