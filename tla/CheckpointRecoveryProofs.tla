----------------------- MODULE CheckpointRecoveryProofs -----------------------
(***************************************************************************)
(* Theorems about CheckpointRecovery, for any number of commits and any    *)
(* faults that ToleratedFaults admits, and the refinement of               *)
(* DurableDatabase.                                                        *)
(***************************************************************************)
EXTENDS CheckpointRecoverySteps

USE BoundAssumption DEF At, clientVars, dataVars, walVars, shadowVars, Labels, CommitLabels,
    CheckpointLabels, RecoveryLabels, Quiet, Logged, Cleared, Running, Applying, WALUntouched

(***************************************************************************)
(* The invariant holds in every reachable state.                           *)
(***************************************************************************)

LEMMA InitialState == ASSUME Init PROVE IInv
<1>a. Len(<<>>) = 0 /\ <<>> \o <<>> = <<>>
  BY EmptyValues, StateConcatEmpty
<1>b. \A n : Good(<<>>, n, {})
  BY <1>a, EmptyValues DEF Good, Ordered, Includes
<1>c. /\ EmptyLog.txns = <<>> /\ EmptyLog.stop = "end" /\ ~EmptyLog.header /\ ~EmptyLog.more
      /\ ~EmptyLog.commits /\ Begins(<<>>, <<>>)
  BY EmptyValues, BeginsSelf DEF EmptyLog
<1>d. data.body = <<>> /\ data.header = <<>>
  BY DEF Init
<1>1. TypeOK
  <2>1. [body |-> <<>>, header |-> <<>>] \in [body : States, header : States]
    BY EmptyValues
  <2>2. {data, dataDisk, shadowPages} \subseteq [body : States, header : States]
    BY <2>1 DEF Init
  <2>3. /\ mem \in States /\ fresh \subseteq States /\ freshDisk \subseteq fresh
        /\ {wal, walDisk, pending} \subseteq Logs /\ {shadow, shadowDisk} \subseteq Shadows
    BY EmptyValues DEF Init
  <2>4. pc \in Labels /\ nextTxn \in 1..(MaxTxns + 1) /\ throwOnWalReplayFailure \in BOOLEAN
    BY DEF Init
  <2>5. /\ acked \subseteq Txns /\ refused \subseteq Txns /\ forcing \in Copies \union {0}
        /\ walExists \in BOOLEAN /\ walOpen \in BOOLEAN
    BY Zenon DEF Init
  <2> QED
    BY <2>2, <2>3, <2>4, <2>5 DEF TypeOK
<1>2. ClientInv
  BY DEF Init, ClientInv
<1>3. WALInv
  BY <1>c DEF Init, WALInv, LogForm
<1>4. WriterInv
  BY DEF Init, WriterInv
<1>5. FileInv
  <2>1. QuietFiles
    BY <1>a, <1>b, <1>c, <1>d DEF Init, QuietFiles, Whole
  <2> QED
    BY <1>c, <2>1 DEF Init, FileInv
<1>6. MemInv
  BY <1>b DEF Init, MemInv
<1>7. SyncInv
  BY <1>a, <1>c, <1>d DEF Init, SyncInv, Saved
<1> QED
  BY <1>1, <1>2, <1>3, <1>4, <1>5, <1>6, <1>7 DEF IInv

LEMMA StutteringStep == ASSUME IInv, UNCHANGED vars PROVE IInv'
<1>1. /\ UNCHANGED <<pc, mem, nextTxn, acked, refused, forcing, throwOnWalReplayFailure>>
      /\ UNCHANGED <<data, dataDisk, fresh, freshDisk>>
      /\ UNCHANGED <<walExists, wal, walDisk, pending, walOpen>>
      /\ UNCHANGED <<shadow, shadowDisk, shadowPages>>
  BY DEF vars
<1>2. TypeOK' /\ ClientInv'
  BY <1>1 DEF IInv, TypeOK, ClientInv
<1>3. WALInv' /\ WriterInv'
  BY <1>1 DEF IInv, WALInv, WriterInv
<1>4. FileInv'
  <2>1. (QuietFiles <=> QuietFiles') /\ (CheckpointFiles <=> CheckpointFiles')
        /\ (DroppedFiles <=> DroppedFiles')
    BY <1>1 DEF QuietFiles, CheckpointFiles, DroppedFiles, LastTxn
  <2> QED
    BY <1>1, <2>1 DEF IInv, FileInv
<1>5. MemInv' /\ ("commitSync" \notin IOFaults => SyncInv)'
  BY <1>1, Zenon DEF IInv, MemInv, SyncInv
<1> QED
  BY <1>2, <1>3, <1>4, <1>5 DEF IInv

LEMMA NextStep == ASSUME ToleratedFaults, IInv, [Next]_vars PROVE IInv'
<1>1. CASE Commit
  BY <1>1, BufferCommitStep, FlushCommitStep, SyncCommitStep, SyncCopyStep, CommitFailsStep DEF Commit
<1>2. CASE Checkpoint
  BY <1>2, StartCheckpointStep, CheckpointStorageStep, WriteDatabaseHeaderStep, FlushShadowStep,
     FlushShadowEndsStep, BufferCheckpointRecordStep, FlushCheckpointRecordStep,
     SyncCheckpointRecordStep, ApplyBodyStep, ApplyHeaderStep, SyncDataStep, ClearWALStep,
     ClearShadowStep, RemoveWALStep, RemoveShadowStep, CheckpointFailsStep DEF Checkpoint
<1>3. CASE Close \/ Crash \/ LosePower
  BY <1>3, CloseStep, CrashStep, LosePowerStep
<1>4. CASE Recover
  BY <1>4, OpenStep, RecoverWithoutWALStep, RecoverWithEmptyWALStep, DryReplayFailsStep,
     ResumeCheckpointStep, ResumeFromWALStep, ReplayBodyStep, ReplayHeaderStep, DropShadowStep,
     DropWALStep, ReadCheckpointStep, ReplayWALStep DEF Recover
<1>5. CASE UNCHANGED vars
  BY <1>5, StutteringStep
<1> QED
  BY <1>1, <1>2, <1>3, <1>4, <1>5 DEF Next

\* The state that the files hold, by the end of the WAL alone.
Durable ==
    IF wal.stop # "checkpoint" THEN data.header \o wal.txns
    ELSE IF pc = "dropWAL" THEN data.header ELSE shadow.header

\* Recovery never finds pages that do not belong together.
LEMMA RecoveredIsDurable == ASSUME IInv PROVE Recovered = Durable
<1>a. /\ wal \in Logs /\ LogForm(wal) /\ data.header \in States /\ wal.txns \in States
      /\ (~walExists => wal = EmptyLog) /\ (pc = "dropWAL" => wal.stop = "checkpoint")
      /\ data.header \o <<>> = data.header
  <2>1. wal \in Logs /\ LogForm(wal) /\ data.header \in States
    BY DEF IInv, TypeOK, WALInv
  <2>2. (~walExists => wal = EmptyLog) /\ (pc = "dropWAL" => wal.stop = "checkpoint")
    BY DEF IInv, WALInv
  <2> QED
    BY <2>1, <2>2, StateConcatEmpty DEF Logs
<1>1. CASE wal.stop # "checkpoint"
  <2>1. Contents(data) = data.header
    BY <1>1 DEF IInv, FileInv, QuietFiles, Whole, Contents
  <2>2. CommittedPart(wal) = wal.txns
    BY <1>a DEF CommittedPart, HasCommit, LogForm
  <2>3. CASE wal = EmptyLog
    BY <1>1, <1>a, <2>1, <2>3 DEF Recovered, Durable, EmptyLog
  <2>4. CASE wal # EmptyLog
    BY <1>1, <1>a, <2>1, <2>2, <2>4, Zenon DEF Recovered, Durable, IsLastRecordCheckpoint, Redo
  <2> QED
    BY <2>3, <2>4
<1>2. CASE wal.stop = "checkpoint" /\ pc = "dropWAL"
  BY <1>2 DEF IInv, FileInv, DroppedFiles, Whole, Contents, Recovered, Durable
<1>3. CASE wal.stop = "checkpoint" /\ pc # "dropWAL"
  <2>1. wal # EmptyLog /\ IsLastRecordCheckpoint(wal)
    <3>1. EmptyLog.stop = "end" /\ wal # EmptyLog
      BY <1>3 DEF EmptyLog
    <3>2. wal.header /\ ~wal.more
      BY <1>a, <1>3, <3>1 DEF LogForm
    <3> QED
      BY <1>3, <3>1, <3>2 DEF IsLastRecordCheckpoint
  <2>2. shadow.state = "complete" /\ Contents(shadow) = shadow.header
    BY <1>3 DEF IInv, FileInv, CheckpointFiles, Whole, Contents
  <2> QED
    BY <1>a, <1>3, <2>1, <2>2 DEF Recovered, Durable
<1> QED
  BY <1>1, <1>2, <1>3

\* In every reachable state the files hold the acknowledged commits in order, where
\* the invariant says (logCommittedWAL, writeCheckpoint, WALReplayer::replay and the
\* ends of the process together).
THEOREM FilesAreConsistent ==
    ASSUME ToleratedFaults
    PROVE  Spec => []IInv
<1>1. Init => IInv
  BY InitialState
<1>2. IInv /\ [Next]_vars => IInv'
  BY NextStep
<1> QED
  BY <1>1, <1>2, PTL DEF Spec

\* The files and the memory of the process keep their types.
THEOREM TypeCorrectness ==
    ASSUME ToleratedFaults
    PROVE  Spec => []TypeOK
<1>1. IInv => TypeOK
  BY DEF IInv
<1> QED
  BY <1>1, FilesAreConsistent, PTL

\* A commit that logCommittedWAL acknowledged is in every database that recovery opens,
\* exactly once, for any number of commits, checkpoints, failed checkpoints, failed
\* syncs, kills and losses of power that ToleratedFaults admits.
THEOREM AcknowledgedCommitsSurvive ==
    ASSUME ToleratedFaults
    PROVE  Spec => []NothingLost
<1>1. IInv => NothingLost
  <2>1. SUFFICES ASSUME IInv, pc = "open", NEW t \in acked
                 PROVE  \E i \in 1..Len(mem) : /\ mem[i] = t
                                               /\ \A j \in 1..Len(mem) : mem[j] = t => j = i
    BY DEF NothingLost
  <2>2. Good(mem, nextTxn - 1, acked)
    BY <2>1 DEF IInv, MemInv
  <2>3. PICK i \in 1..Len(mem) : mem[i] = t
    BY <2>1, <2>2 DEF Good, Includes
  <2>4. ASSUME NEW j \in 1..Len(mem), mem[j] = t PROVE j = i
    <3>1. Len(mem) \in Nat /\ \A k \in 1..Len(mem) : mem[k] \in Nat
      BY <2>2, LenProperties DEF Good, States
    <3>2. ~(i < j) /\ ~(j < i)
      BY <2>2, <2>3, <2>4, <3>1 DEF Good, Ordered
    <3> QED
      BY <3>1, <3>2
  <2> QED
    BY <2>3, <2>4
<1> QED
  BY <1>1, FilesAreConsistent, PTL

\* Under the same faults WALReplayer::replay brings transactions back in the order of
\* their commits, none of them twice.
THEOREM CommitOrderSurvives ==
    ASSUME ToleratedFaults
    PROVE  Spec => []OrderKept
<1>1. IInv => OrderKept
  BY DEF IInv, MemInv, Good, OrderKept
<1> QED
  BY <1>1, FilesAreConsistent, PTL

\* Under the same faults, so with no kill between the removal of the shadow file and that of
\* the WAL in recovery, no files are left behind that WALReplayer::replay refuses, unless
\* the user asks for an exception when the tail of the WAL is torn.
THEOREM EveryCrashIsRecoverable ==
    ASSUME ToleratedFaults
    PROVE  Spec => []RecoverySucceeds
<1>1. IInv => RecoverySucceeds
  BY DEF IInv, MemInv, RecoverySucceeds
<1> QED
  BY <1>1, FilesAreConsistent, PTL

\* If no sync of a commit fails, the files of an open database hold what memory holds,
\* whatever checkpoints failed half way, except COPYs whose forced checkpoint threw: these
\* are all that a crash at this moment can take away.
THEOREM MemoryIsOnDisk ==
    ASSUME ToleratedFaults, "commitSync" \notin IOFaults
    PROVE  Spec => []FilesMatchMemory
<1>1. IInv => FilesMatchMemory
  <2>1. SUFFICES ASSUME IInv, pc = "open"
                 PROVE  Ordered(Recovered) /\ Saved(Recovered, mem, acked)
    BY Zenon DEF FilesMatchMemory, Saved
  <2>2. wal.stop = "end" /\ Saved(data.header \o wal.txns, mem, acked)
    BY <2>1, Zenon DEF IInv, WALInv, SyncInv
  <2>3. Recovered = data.header \o wal.txns
    BY <2>1, <2>2, RecoveredIsDurable, Zenon DEF Durable
  <2>4. Ordered(data.header \o wal.txns)
    BY <2>1, <2>2 DEF IInv, FileInv, QuietFiles, Good
  <2> QED
    BY <2>2, <2>3, <2>4, Zenon
<1> QED
  BY <1>1, FilesAreConsistent, PTL

(***************************************************************************)
(* The files implement DurableDatabase: every step makes one transaction   *)
(* or some COPYs durable, acknowledges one or changes nothing.             *)
(***************************************************************************)

\* Steps that leave alone what the state is read from.
LEMMA WALKept ==
    ASSUME wal'.stop = wal.stop, wal'.txns = wal.txns, data'.header = data.header,
           wal.stop = "checkpoint" => /\ shadow'.header = shadow.header
                                      /\ pc # "dropWAL" /\ pc' # "dropWAL"
    PROVE  Durable' = Durable
BY DEF Durable

\* The state is read from the files in the next state too.
LEMMA RecoveredNext == ASSUME IInv' PROVE Recovered' = Durable'
<1>1. (Recovered = Durable)'
  BY RecoveredIsDurable, PTL
<1> QED
  BY <1>1

\* The transaction at hand becomes durable when its records are in the WAL.
LEMMA CommitPersists ==
    ASSUME IInv, IInv', pc = "commit", wal.stop = "end", wal'.stop # "checkpoint",
           wal'.txns = wal.txns \o Redone(nextTxn), data' = data,
           acked' = acked, refused' = refused
    PROVE  Abstract!Next \/ UNCHANGED Abstract!vars
<1>1. /\ data.header \in States /\ wal.txns \in States /\ nextTxn \in 0..MaxTxns
      /\ nextTxn \in 1..MaxTxns /\ refused \subseteq 1..(nextTxn - 1)
  BY DEF IInv, TypeOK, ClientInv, Logs
<1>2. /\ data.header \o (wal.txns \o Redone(nextTxn)) = Extended(data.header \o wal.txns, nextTxn)
      /\ data.header \o wal.txns \in States
  BY <1>1, ConcatRedone, StateConcat, Zenon
<1>3. Durable = data.header \o wal.txns /\ Durable' = Extended(Durable, nextTxn)
  BY <1>2, Zenon DEF Durable
<1>4. Recovered = Durable /\ Recovered' = Durable'
  BY RecoveredIsDurable, RecoveredNext
<1>5. CASE nextTxn \in Copies
  <2>1. Recovered' = Recovered
    BY <1>3, <1>4, <1>5, Zenon DEF Extended
  <2> QED
    BY <2>1, Zenon DEF Abstract!vars
<1>6. CASE nextTxn \notin Copies
  <2>1. Elements(Recovered') = Elements(Recovered) \union {nextTxn}
    BY <1>1, <1>2, <1>3, <1>4, <1>6, AppendElements, Zenon DEF Extended
  <2>2. Good(Durable, nextTxn - 1, acked)
    BY <1>3 DEF IInv, FileInv, QuietFiles, LastTxn
  <2>3. nextTxn \notin refused /\ \A i \in 1..Len(Durable) : Durable[i] # nextTxn
    BY <1>1, <2>2 DEF Good
  <2>4. nextTxn \notin Elements(Recovered) \union refused
    BY <1>4, <2>3 DEF Elements
  <2>5. Abstract!Persist(nextTxn)
    BY <2>1, <2>4, Zenon DEF Abstract!Persist
  <2> QED
    BY <1>1, <2>5, Zenon DEF Abstract!Next, Txns
<1> QED
  BY <1>5, <1>6

\* A commit becomes durable when it is flushed and is acknowledged when it is synced.
LEMMA CommitRefines ==
    ASSUME ToleratedFaults, "commitSync" \notin IOFaults, IInv, IInv', Commit
    PROVE  Abstract!Next \/ UNCHANGED Abstract!vars
<1>a. Recovered = Durable /\ Recovered' = Durable'
  BY RecoveredIsDurable, RecoveredNext
<1>1. CASE BufferCommit
  <2>1. wal.stop = "end"
    BY <1>1 DEF IInv, WALInv, BufferCommit
  <2>2. wal' = wal /\ data' = data /\ acked' = acked /\ refused' = refused
    BY <1>1 DEF BufferCommit, BufferRecords
  <2>3. Durable' = Durable
    BY <2>1, <2>2, WALKept
  <2> QED
    BY <1>a, <2>2, <2>3, Zenon DEF Abstract!vars
<1>2. CASE FlushCommit
  <2>1. /\ wal.stop = "end" /\ wal'.stop = "end" /\ pc = "commit" /\ data' = data
        /\ wal'.txns = wal.txns \o Redone(nextTxn) /\ acked' = acked /\ refused' = refused
    BY <1>2, FlushedCommit, Zenon DEF FlushCommit
  <2> QED
    BY <2>1, CommitPersists
<1>3. CASE SyncCommit
  <2>1. /\ pc = "commitSync" /\ wal.stop = "end" /\ wal' = wal /\ data' = data
        /\ acked' = acked \union {nextTxn} /\ refused' = refused /\ nextTxn \in Txns
        /\ nextTxn \notin Copies
    BY <1>3 DEF IInv, WALInv, TypeOK, ClientInv, SyncCommit, CommitTxn, Txns
  <2>2. Durable = data.header \o wal.txns /\ Durable' = Durable
    BY <2>1, WALKept, Zenon DEF Durable
  <2>3. \E i \in 1..Len(Durable) : Durable[i] = nextTxn
    BY <2>1, <2>2, Zenon DEF IInv, FileInv, Includes
  <2>4. nextTxn \in Elements(Recovered) /\ Recovered' = Recovered
    BY <1>a, <2>2, <2>3, Zenon DEF Elements
  <2>5. Abstract!Acknowledge(nextTxn)
    BY <2>1, <2>4, Zenon DEF Abstract!Acknowledge
  <2> QED
    BY <2>1, <2>5, Zenon DEF Abstract!Next
<1>4. CASE SyncCopy
  <2>1. wal.stop = "end"
    BY <1>4 DEF IInv, WALInv, SyncCopy
  <2>2. wal' = wal /\ data' = data /\ acked' = acked /\ refused' = refused
    BY <1>4 DEF SyncCopy, CommitTxn
  <2>3. Durable' = Durable
    BY <2>1, <2>2, WALKept
  <2> QED
    BY <1>a, <2>2, <2>3, Zenon DEF Abstract!vars
<1>5. CASE CommitFails
  BY <1>5 DEF CommitFails, ToleratedFaults
<1> QED
  BY <1>1, <1>2, <1>3, <1>4, <1>5 DEF Commit

\* The CHECKPOINT record makes the COPYs durable that are in memory and not yet in the files.
LEMMA CheckpointPersists ==
    ASSUME ToleratedFaults, "commitSync" \notin IOFaults, IInv, IInv', FlushCheckpointRecord
    PROVE  Abstract!Next
<1>1. pc = "logFlush" /\ WALInv /\ SyncInv /\ MemInv
  BY DEF IInv, FlushCheckpointRecord
<1>2. wal.stop = "end" /\ Saved(data.header \o wal.txns, mem, acked) /\ refused = {}
  BY <1>1, Zenon DEF WALInv, SyncInv
<1>3. shadow = [state |-> "complete", body |-> mem, header |-> mem]
  BY <1>1 DEF MemInv
<1>4. wal'.stop = "checkpoint" /\ pc' = "logSync" /\ shadow' = shadow
  BY DEF IInv, WALInv, FlushCheckpointRecord
<1>5. Recovered = data.header \o wal.txns
  BY <1>2, RecoveredIsDurable, Zenon DEF Durable
<1>6. Recovered' = mem
  BY <1>3, <1>4, RecoveredNext DEF Durable
<1> DEFINE C == Elements(mem) \ Elements(Recovered)
<1>7. C \subseteq Copies /\ Elements(Recovered') = Elements(Recovered) \union C
  BY <1>2, <1>5, <1>6, Zenon DEF Saved
<1>8. Abstract!PersistCopies(C)
  BY <1>2, <1>7, Zenon DEF Abstract!PersistCopies, FlushCheckpointRecord
<1> QED
  BY <1>7, <1>8, Zenon DEF Abstract!Next

\* The end of a checkpoint acknowledges the COPY that forced it.
LEMMA CheckpointAcknowledges ==
    ASSUME IInv, IInv', RemoveShadow
    PROVE  Abstract!Next \/ UNCHANGED Abstract!vars
<1>1. /\ wal = EmptyLog /\ EmptyLog.stop = "end" /\ EmptyLog.txns = <<>> /\ data.header = mem
      /\ wal' = wal /\ data' = data /\ data.header \o <<>> = data.header /\ refused' = refused
      /\ acked' = acked \union ({forcing} \ {0})
  BY StateConcatEmpty DEF IInv, TypeOK, WALInv, MemInv, RemoveShadow, EmptyLog
<1>2. Recovered = mem /\ Recovered' = Recovered
  <2>1. Durable' = Durable /\ Durable = mem
    BY <1>1, WALKept, Zenon DEF Durable
  <2> QED
    BY <2>1, RecoveredIsDurable, RecoveredNext
<1>3. CASE forcing = 0
  <2>1. acked' = acked
    BY <1>1, <1>3
  <2> QED
    BY <1>1, <1>2, <2>1, Zenon DEF Abstract!vars
<1>4. CASE forcing # 0
  <2>1. Includes(mem, {forcing})
    BY <1>4 DEF IInv, MemInv, RemoveShadow
  <2>2. forcing \in Elements(Recovered)
    BY <1>2, <2>1, Zenon DEF Includes, Elements
  <2>3. forcing \in Txns
    BY <1>4, CopyAssumption DEF IInv, TypeOK, Txns
  <2>4. acked' = acked \union {forcing}
    BY <1>1, <1>4
  <2>5. Abstract!Acknowledge(forcing)
    BY <1>1, <1>2, <2>2, <2>4, Zenon DEF Abstract!Acknowledge
  <2> QED
    BY <2>3, <2>5, Zenon DEF Abstract!Next
<1> QED
  BY <1>3, <1>4

\* Clearing the WAL moves the state from the shadow file to the data file; the other steps
\* of a checkpoint do not change it.
LEMMA CheckpointKeeps ==
    ASSUME ToleratedFaults, IInv, Checkpoint, ~FlushCheckpointRecord, ~RemoveShadow
    PROVE  Durable' = Durable /\ acked' = acked /\ refused' = refused
<1>1. CASE \/ StartCheckpoint \/ CheckpointStorage \/ WriteDatabaseHeader \/ FlushShadow
           \/ FlushShadowEnds \/ BufferCheckpointRecord \/ CheckpointFails \/ ClearShadow
  <2>1. wal.stop = "end" /\ wal' = wal /\ data' = data /\ acked' = acked /\ refused' = refused
    BY <1>1 DEF IInv, WALInv, EmptyLog, StartCheckpoint, CheckpointStorage, WriteDatabaseHeader,
                FlushShadow, FlushShadowEnds, BufferCheckpointRecord, BufferRecords,
                CheckpointFails, ClearShadow, ToleratedFaults
  <2> QED
    BY <2>1, WALKept
<1>2. CASE SyncCheckpointRecord \/ ApplyBody \/ ApplyHeader \/ SyncData
  <2>1. /\ wal.stop = "checkpoint" /\ wal' = wal /\ shadow' = shadow /\ acked' = acked
        /\ refused' = refused /\ pc # "dropWAL" /\ pc' # "dropWAL"
    BY <1>2 DEF IInv, WALInv, SyncCheckpointRecord, ApplyBody, ApplyHeader, SyncData
  <2> QED
    BY <2>1 DEF Durable
<1>3. CASE ClearWAL
  <2>1. /\ wal.stop = "checkpoint" /\ pc = "clearWAL" /\ wal' = EmptyLog /\ data' = data
        /\ acked' = acked /\ refused' = refused
    BY <1>3 DEF IInv, WALInv, ClearWAL
  <2>2. data = [body |-> shadow.header, header |-> shadow.header] /\ data.header \in States
    BY <2>1 DEF IInv, TypeOK, FileInv
  <2>3. EmptyLog.stop = "end" /\ EmptyLog.txns = <<>> /\ data.header \o <<>> = data.header
    BY <2>2, StateConcatEmpty DEF EmptyLog
  <2>4. data.header = shadow.header
    BY <2>2
  <2> QED
    BY <2>1, <2>3, <2>4 DEF Durable
<1>4. CASE RemoveWAL
  <2>1. /\ wal = EmptyLog /\ wal' = EmptyLog /\ data' = data /\ acked' = acked
        /\ refused' = refused /\ EmptyLog.stop = "end"
    BY <1>4 DEF IInv, WALInv, RemoveWAL, EmptyLog
  <2> QED
    BY <2>1, WALKept
<1> QED
  BY <1>1, <1>2, <1>3, <1>4 DEF Checkpoint

\* The end of a process does not change it, but a kill while a commit is written may make
\* this commit durable.
LEMMA EndKeeps ==
    ASSUME ToleratedFaults, IInv, IInv', Close \/ Crash
    PROVE  Abstract!Next \/ UNCHANGED Abstract!vars
<1>a. Recovered = Durable /\ Recovered' = Durable'
  BY RecoveredIsDurable, RecoveredNext
<1>1. CASE Close
  <2>1. /\ wal' = wal /\ data' = data /\ acked' = acked /\ refused' = refused /\ wal.stop = "end"
    BY <1>1, ConcatEmpty DEF IInv, WriterInv, WALInv, Close, Abandon
  <2>2. Durable' = Durable
    BY <2>1, WALKept
  <2> QED
    BY <1>a, <2>1, <2>2, Zenon DEF Abstract!vars
<1>2. CASE Crash
  <2>1. /\ data' = data /\ shadow' = shadow /\ pc' = "closed" /\ pc # "dropWAL"
        /\ acked' = acked /\ refused' = refused
    BY <1>2 DEF Crash, Abandon, ToleratedFaults
  <2>2. \/ wal' = wal
        \/ wal.stop = "end" /\ wal'.stop \in {"end", "torn"} /\ wal'.txns = wal.txns
        \/ /\ wal.stop = "end" /\ wal'.stop \in {"end", "torn"} /\ pc = "commit"
           /\ wal'.txns = wal.txns \o Redone(nextTxn)
    BY <1>2, CrashedWAL, Zenon
  <2>3. CASE wal' = wal
    <3>1. Durable' = Durable
      BY <2>1, <2>3, WALKept
    <3> QED
      BY <1>a, <2>1, <3>1, Zenon DEF Abstract!vars
  <2>4. CASE wal.stop = "end" /\ wal'.stop \in {"end", "torn"} /\ wal'.txns = wal.txns
    <3>1. Durable' = Durable
      BY <2>1, <2>4, Zenon DEF Durable
    <3> QED
      BY <1>a, <2>1, <3>1, Zenon DEF Abstract!vars
  <2>5. CASE /\ wal.stop = "end" /\ wal'.stop \in {"end", "torn"} /\ pc = "commit"
             /\ wal'.txns = wal.txns \o Redone(nextTxn)
    BY <2>1, <2>5, CommitPersists
  <2> QED
    BY <2>2, <2>3, <2>4, <2>5
<1> QED
  BY <1>1, <1>2

\* Recovery does not change it, wherever it is killed.
LEMMA RecoverKeeps ==
    ASSUME ToleratedFaults, IInv, Recover
    PROVE  Durable' = Durable /\ acked' = acked /\ refused' = refused
<1>1. CASE Open \/ DryReplayFails \/ ResumeCheckpoint
  <2>1. /\ wal' = wal /\ data' = data /\ shadow' = shadow /\ pc # "dropWAL" /\ pc' # "dropWAL"
        /\ acked' = acked /\ refused' = refused
    BY <1>1 DEF Open, DryReplayFails, ResumeCheckpoint, DryReplay
  <2> QED
    BY <2>1, WALKept
<1>2. CASE RecoverWithoutWAL \/ RecoverWithEmptyWAL \/ ResumeFromWAL
  <2>1. wal' = wal /\ data' = data /\ acked' = acked /\ refused' = refused
    BY <1>2 DEF RecoverWithoutWAL, RecoverWithEmptyWAL, ResumeFromWAL, DryReplay
  <2>2. wal.stop # "checkpoint"
    <3>1. CASE RecoverWithoutWAL \/ RecoverWithEmptyWAL
      BY <3>1 DEF IInv, WALInv, RecoverWithoutWAL, RecoverWithEmptyWAL, EmptyLog
    <3>2. CASE ResumeFromWAL
      BY <3>2 DEF IInv, WALInv, LogForm, EmptyLog, ResumeFromWAL, IsLastRecordCheckpoint
    <3> QED
      BY <1>2, <3>1, <3>2
  <2> QED
    BY <2>1, <2>2, WALKept
<1>3. CASE ReplayBody \/ ReplayHeader
  <2>1. /\ wal' = wal /\ wal.stop = "checkpoint" /\ shadow' = shadow /\ pc # "dropWAL"
        /\ pc' # "dropWAL" /\ acked' = acked /\ refused' = refused
    BY <1>3 DEF IInv, WALInv, ReplayBody, ReplayHeader
  <2> QED
    BY <2>1 DEF Durable
<1>4. CASE DropShadow
  <2>1. /\ wal' = wal /\ wal.stop = "checkpoint" /\ data' = data /\ pc = "dropShadow"
        /\ pc' = "dropWAL" /\ acked' = acked /\ refused' = refused
    BY <1>4 DEF IInv, WALInv, DropShadow
  <2>2. data = [body |-> shadow.header, header |-> shadow.header]
    BY <2>1 DEF IInv, FileInv
  <2>3. data.header = shadow.header
    BY <2>2
  <2> QED
    BY <2>1, <2>3 DEF Durable
<1>5. CASE DropWAL
  <2>1. /\ wal' = EmptyLog /\ data' = data /\ acked' = acked /\ refused' = refused
        /\ EmptyLog.stop = "end" /\ EmptyLog.txns = <<>>
    BY <1>5 DEF DropWAL, EmptyLog
  <2>3. wal = EmptyLog \/ (pc = "dropWAL" /\ wal.stop = "checkpoint")
    BY <1>5 DEF IInv, WALInv, DropWAL
  <2>2. data.header \o <<>> = data.header
    <3>1. data.header \in States
      BY DEF IInv, TypeOK
    <3> QED
      BY <3>1, StateConcatEmpty
  <2> QED
    BY <2>1, <2>2, <2>3, Zenon DEF Durable
<1>6. CASE ReadCheckpoint
  <2>1. wal' = wal /\ data' = data /\ acked' = acked /\ refused' = refused /\ wal.stop = "end"
    BY <1>6 DEF IInv, WALInv, ReadCheckpoint, EmptyLog
  <2> QED
    BY <2>1, WALKept
<1>7. CASE ReplayWAL
  <2>1. data' = data /\ acked' = acked /\ refused' = refused
    BY <1>7 DEF ReplayWAL
  <2>2. wal'.txns = wal.txns /\ wal'.stop = "end" /\ wal.stop # "checkpoint"
    BY <1>7, ReplayedWAL
  <2> QED
    BY <2>1, <2>2, Zenon DEF Durable
<1> QED
  BY <1>1, <1>2, <1>3, <1>4, <1>5, <1>6, <1>7 DEF Recover

LEMMA StepRefines ==
    ASSUME ToleratedFaults, "commitSync" \notin IOFaults, PowerLossAt = {}, IInv, IInv', [Next]_vars
    PROVE  [Abstract!Next]_Abstract!vars
<1>1. CASE Commit
  BY <1>1, CommitRefines
<1>2. ASSUME Durable' = Durable /\ acked' = acked /\ refused' = refused
      PROVE  UNCHANGED Abstract!vars
  <2>1. Recovered' = Recovered
    BY <1>2, RecoveredIsDurable, RecoveredNext
  <2> QED
    BY <1>2, <2>1, Zenon DEF Abstract!vars
<1>3. CASE Checkpoint
  BY <1>2, <1>3, CheckpointPersists, CheckpointAcknowledges, CheckpointKeeps
<1>4. CASE Close \/ Crash
  BY <1>4, EndKeeps
<1>5. CASE LosePower
  BY <1>5 DEF LosePower
<1>6. CASE Recover
  BY <1>2, <1>6, RecoverKeeps
<1>7. CASE UNCHANGED vars
  <2>1. Durable' = Durable /\ acked' = acked /\ refused' = refused
    BY <1>7 DEF vars, Durable
  <2> QED
    BY <1>2, <2>1
<1> QED
  BY <1>1, <1>3, <1>4, <1>5, <1>6, <1>7 DEF Next

\* Under kills and failed checkpoints the WAL, the shadow file and the data file together
\* implement a durable set of commits: the flush of a commit in logCommittedWAL makes it
\* durable and its sync acknowledges it; a COPY becomes durable with the next CHECKPOINT
\* record and is acknowledged at the end of the checkpoint it forced; nothing that is durable
\* is lost to a checkpoint, a crash or recovery.
THEOREM StorageIsDurable ==
    ASSUME ToleratedFaults, "commitSync" \notin IOFaults, PowerLossAt = {}
    PROVE  Spec => ImplementsDurableDatabase
<1>1. Init => Abstract!Init
  <2>1. SUFFICES ASSUME Init PROVE Abstract!Init
    OBVIOUS
  <2>2. data.body = <<>> /\ data.header = <<>> /\ <<>> \in fresh
    BY <2>1 DEF Init
  <2>3. Recovered = <<>>
    BY <2>1, <2>2 DEF Init, Recovered, Contents
  <2>4. Elements(Recovered) = {}
    BY <2>3 DEF Elements
  <2> QED
    BY <2>1, <2>4 DEF Init, Abstract!Init
<1>2. IInv /\ IInv' /\ [Next]_vars => [Abstract!Next]_Abstract!vars
  BY StepRefines
<1> QED
  BY <1>1, <1>2, FilesAreConsistent, PTL DEF Spec, ImplementsDurableDatabase, Abstract!Spec
===============================================================================
