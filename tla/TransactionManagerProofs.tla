----------------------- MODULE TransactionManagerProofs -----------------------
(***************************************************************************)
(* Proofs about TransactionManager, for any set of connections and any     *)
(* value of its switches and bounds.                                       *)
(***************************************************************************)
EXTENDS TransactionManager, TLAPS

USE NoClientAssumption, SwitchAssumption, BoundAssumption

\* Leaving runFuncInTransaction changes nothing but the stage and the label.
LEMMA LeaveType ==
    ASSUME TypeOK, NEW c \in Clients, NEW t, LeaveRunFunc(c, t)
    PROVE  stage' \in [Clients -> Stages] /\ pc' \in [Clients -> Labels]
BY DEF LeaveRunFunc, TypeOK, Goto, Stages, Labels, LockingLabels

LEMMA NoTxnType == NoTxn \in Transactions
BY DEF NoTxn, Transactions

LEMMA StampType == ASSUME TypeOK, NEW c \in Clients PROVE Stamp(c) \in Stamps
BY DEF TypeOK, Stamp, Stamps, Transactions

\* The variables keep their types: ids and timestamps are natural numbers, and
\* labels, modes and log entries are what the actions are written for.
THEOREM TypeCorrect == Spec => []TypeOK
<1>1. Init => TypeOK
  BY DEF Init, TypeOK, Transactions, NoTxn, Statements, Stages, Labels, LockingLabels, Stamps
<1>2. TypeOK /\ [Next]_vars => TypeOK'
  <2> SUFFICES ASSUME TypeOK, [Next]_vars PROVE TypeOK'
    OBVIOUS
  <2> USE DEF TypeOK, vars, mgrVars, ctxVars, stmtVars, logVars, Goto
  <2>1. CASE UNCHANGED vars
    BY <2>1
  <2>2. ASSUME NEW c \in Clients, IssueStatement(c) PROVE TypeOK'
    BY <2>2 DEF IssueStatement, Statements, Stages, Labels
  <2>3. ASSUME NEW c \in Clients, CloseConnection(c) PROVE TypeOK'
    BY Zenon, <2>3 DEF CloseConnection, Stages, Labels, LockingLabels
  <2>4. ASSUME NEW c \in Clients, EnterRunFunc(c) PROVE TypeOK'
    BY <2>4 DEF EnterRunFunc, Labels, LockingLabels, TransactionAvailable
  <2>5. ASSUME NEW c \in Clients, RunStatement(c) PROVE TypeOK'
    BY Zenon, <2>5, LeaveType DEF RunStatement, Labels, LockingLabels
  <2>6. ASSUME NEW c \in Clients, RunTransactionStatement(c) PROVE TypeOK'
    BY Zenon, <2>6 DEF RunTransactionStatement, Labels, LockingLabels
  <2>7. ASSUME NEW c \in Clients, CatchException(c) PROVE TypeOK'
    BY <2>7 DEF CatchException, Labels, LockingLabels
  <2>8. ASSUME NEW c \in Clients, CatchCheckpointException(c) PROVE TypeOK'
    BY <2>8, NoTxnType DEF CatchCheckpointException, Labels
  <2>9. ASSUME NEW c \in Clients, LockPublicFunctions(c) PROVE TypeOK'
    BY Zenon, <2>9 DEF LockPublicFunctions, EnterPublicFunction, Labels, LockingLabels
  <2>10. ASSUME NEW c \in Clients, BeginTransaction(c) PROVE TypeOK'
    <3> DEFINE t == [id |-> lastTransactionID + 1, type |-> RequestedType(c),
                     startTS |-> lastTimestamp]
    <3>1. t \in Transactions
      BY DEF Transactions, RequestedType
    <3> HIDE DEF t
    <3>2. /\ lastTransactionID' = lastTransactionID + 1
          /\ activeTransactions' = activeTransactions \union {t}
          /\ cur' = [cur EXCEPT ![c] = t]
          /\ pubMtx' = NoClient
          /\ newTxn[c] => Goto(c, "fun") /\ stage' = stage
          /\ ~newTxn[c] => LeaveRunFunc(c, t)
          /\ UNCHANGED <<startMtx, lastTimestamp, mode, commitTS, stmt, newTxn, numTimesWaited,
                         logVars>>
      BY <2>10 DEF BeginTransaction, t
    <3>3. pc' \in [Clients -> Labels] /\ stage' \in [Clients -> Stages]
      BY Zenon, <3>2, LeaveType DEF Labels
    <3>4. cur' \in [Clients -> Transactions] /\ activeTransactions' \subseteq Transactions
      BY <3>1, <3>2
    <3>5. lastTransactionID' \in Nat
      BY <3>2
    <3> QED
      BY <3>2, <3>3, <3>4, <3>5
  <2>11. ASSUME NEW c \in Clients, BeginTransactionThrows(c) PROVE TypeOK'
    BY <2>11 DEF BeginTransactionThrows, Labels
  <2>12. ASSUME NEW c \in Clients, CommitReadOnly(c) PROVE TypeOK'
    BY <2>12, LeaveType, NoTxnType DEF CommitReadOnly, ReleaseAndClear
  <2>13. ASSUME NEW c \in Clients, CommitTakesTimestamp(c) PROVE TypeOK'
    BY <2>13 DEF CommitTakesTimestamp, Labels
  <2>14. ASSUME NEW c \in Clients, CommitVersions(c) PROVE TypeOK'
    BY ZenonT(60), <2>14, StampType DEF CommitVersions, Labels
  <2>15. ASSUME NEW c \in Clients, CommitLogAndClear(c) PROVE TypeOK'
    <3>1. commitLog' \in Seq(Stamps)
      BY <2>15, StampType DEF CommitLogAndClear
    <3> QED
      BY Zenon, <2>15, <3>1 DEF CommitLogAndClear, Labels
  <2>16. ASSUME NEW c \in Clients, CommitLogThrows(c) PROVE TypeOK'
    BY <2>16 DEF CommitLogThrows, Labels
  <2>17. ASSUME NEW c \in Clients, Rollback(c) PROVE TypeOK'
    BY <2>17, NoTxnType DEF Rollback, ReleaseAndClear, Labels
  <2>18. ASSUME NEW c \in Clients, StopNewTransactions(c) PROVE TypeOK'
    BY <2>18 DEF StopNewTransactions, Labels
  <2>19. ASSUME NEW c \in Clients, WaitAgain(c) PROVE TypeOK'
    BY <2>19 DEF WaitAgain
  <2>20. ASSUME NEW c \in Clients, WaitTimesOut(c) PROVE TypeOK'
    BY <2>20 DEF WaitTimesOut, Labels
  <2>21. ASSUME NEW c \in Clients, WaitSucceeds(c) PROVE TypeOK'
    BY <2>21 DEF WaitSucceeds, Labels
  <2>22. ASSUME NEW c \in Clients, WriteCheckpoint(c) PROVE TypeOK'
    BY Zenon, <2>22 DEF WriteCheckpoint, Labels
  <2>23. ASSUME NEW c \in Clients, CheckpointReturns(c) PROVE TypeOK'
    <3>0. LeaveRunFunc(c, NoTxn)
      BY <2>23 DEF CheckpointReturns
    <3>1. pc' \in [Clients -> Labels] /\ stage' \in [Clients -> Stages]
      BY <3>0, LeaveType
    <3>2. CASE HasActiveTransaction(c)
      <4>1. ReleaseAndClear(c)
        BY <2>23, <3>2 DEF CheckpointReturns
      <4> QED
        BY <2>23, <3>1, <4>1, NoTxnType DEF CheckpointReturns, ReleaseAndClear
    <3>3. CASE ~HasActiveTransaction(c)
      BY <2>23, <3>1, <3>3 DEF CheckpointReturns
    <3> QED
      BY Zenon, <3>2, <3>3
  <2> QED
    BY Zenon, <2>1, <2>2, <2>3, <2>4, <2>5, <2>6, <2>7, <2>8, <2>9, <2>10, <2>11, <2>12, <2>13,
       <2>14, <2>15, <2>16, <2>17, <2>18, <2>19, <2>20, <2>21, <2>22, <2>23
    DEF Next, ClientStep
<1> QED
  BY <1>1, <1>2, PTL DEF Spec

(***************************************************************************)
(* The mutexes.  A connection owns mtxForSerializingPublicFunctionCalls    *)
(* exactly inside the public functions, and mtxForStartingNewTransactions  *)
(* across steps exactly while it waits for transactions to leave.          *)
(***************************************************************************)
InManager ==
    {"begin", "commit", "commitVersions", "commitLog", "rollback", "checkpoint", "wait",
     "writeCheckpoint", "checkpointDone"}

MutexInv ==
    \A c \in Clients : /\ pubMtx = c <=> pc[c] \in InManager
                       /\ startMtx = c <=> pc[c] = "wait"

\* Where leaving runFuncInTransaction leads.
LEMMA LeaveTarget ==
    ASSUME TypeOK, NEW c \in Clients, NEW t, LeaveRunFunc(c, t)
    PROVE  \E l \in {"enter", "idle"} : pc' = [pc EXCEPT ![c] = l]
BY Zenon DEF LeaveRunFunc, Goto

\* A connection that leaves the manager and unlocks, keeps the mutex invariant.
LEMMA UnlockKeepsMutexInv ==
    ASSUME TypeOK, MutexInv, NEW c \in Clients, NEW l \in Labels \ InManager,
           pc[c] \in InManager \ {"wait"}, pubMtx' = NoClient, startMtx' = startMtx,
           pc' = [pc EXCEPT ![c] = l]
    PROVE  MutexInv'
BY DEF TypeOK, MutexInv, InManager

LEMMA MutexStep == TypeOK /\ MutexInv /\ [Next]_vars => MutexInv'
<1> SUFFICES ASSUME TypeOK, MutexInv, [Next]_vars PROVE MutexInv'
  OBVIOUS
<1> USE DEF MutexInv, InManager, TypeOK, mgrVars, Goto
<1>1. ASSUME NEW c \in Clients, IssueStatement(c) PROVE MutexInv'
  BY <1>1 DEF IssueStatement
<1>2. ASSUME NEW c \in Clients, CloseConnection(c) PROVE MutexInv'
  BY <1>2 DEF CloseConnection
<1>3. ASSUME NEW c \in Clients, EnterRunFunc(c) PROVE MutexInv'
  BY <1>3 DEF EnterRunFunc
<1>4. ASSUME NEW c \in Clients, RunStatement(c) PROVE MutexInv'
  BY <1>4, LeaveTarget DEF RunStatement
<1>5. ASSUME NEW c \in Clients, RunTransactionStatement(c) PROVE MutexInv'
  BY <1>5 DEF RunTransactionStatement
<1>6. ASSUME NEW c \in Clients, CatchException(c) PROVE MutexInv'
  BY <1>6 DEF CatchException
<1>7. ASSUME NEW c \in Clients, CatchCheckpointException(c) PROVE MutexInv'
  BY <1>7 DEF CatchCheckpointException
<1>8. ASSUME NEW c \in Clients, LockPublicFunctions(c) PROVE MutexInv'
  BY <1>8 DEF LockPublicFunctions, EnterPublicFunction, LockingLabels
<1>9. ASSUME NEW c \in Clients, BeginTransaction(c) PROVE MutexInv'
  <2>1. \E l \in {"enter", "idle", "fun"} : pc' = [pc EXCEPT ![c] = l]
    <3>1. CASE newTxn[c]
      BY <1>9, <3>1 DEF BeginTransaction
    <3>2. CASE ~newTxn[c]
      <4>1. PICK t : LeaveRunFunc(c, t)
        BY <1>9, <3>2 DEF BeginTransaction
      <4> QED
        BY <4>1, LeaveTarget
    <3> QED
      BY <3>1, <3>2
  <2>2. pc[c] = "begin" /\ pubMtx' = NoClient /\ startMtx' = startMtx
    BY <1>9 DEF BeginTransaction
  <2> QED
    BY <2>1, <2>2, UnlockKeepsMutexInv DEF Labels, LockingLabels
<1>10. ASSUME NEW c \in Clients, BeginTransactionThrows(c) PROVE MutexInv'
  BY <1>10 DEF BeginTransactionThrows
<1>11. ASSUME NEW c \in Clients, CommitReadOnly(c) PROVE MutexInv'
  <2>1. \E l \in {"enter", "idle"} : pc' = [pc EXCEPT ![c] = l]
    BY <1>11, LeaveTarget DEF CommitReadOnly
  <2>2. pc[c] = "commit" /\ pubMtx' = NoClient /\ startMtx' = startMtx
    BY <1>11 DEF CommitReadOnly, ReleaseAndClear
  <2> QED
    BY <2>1, <2>2, UnlockKeepsMutexInv DEF Labels, LockingLabels
<1>12. ASSUME NEW c \in Clients, CommitTakesTimestamp(c) PROVE MutexInv'
  BY <1>12 DEF CommitTakesTimestamp
<1>13. ASSUME NEW c \in Clients, CommitVersions(c) PROVE MutexInv'
  BY <1>13 DEF CommitVersions
<1>14. ASSUME NEW c \in Clients, CommitLogAndClear(c) PROVE MutexInv'
  BY <1>14 DEF CommitLogAndClear
<1>15. ASSUME NEW c \in Clients, CommitLogThrows(c) PROVE MutexInv'
  BY <1>15 DEF CommitLogThrows
<1>16. ASSUME NEW c \in Clients, Rollback(c) PROVE MutexInv'
  BY <1>16 DEF Rollback, ReleaseAndClear
<1>17. ASSUME NEW c \in Clients, StopNewTransactions(c) PROVE MutexInv'
  BY <1>17 DEF StopNewTransactions
<1>18. ASSUME NEW c \in Clients, WaitAgain(c) PROVE MutexInv'
  BY <1>18 DEF WaitAgain
<1>19. ASSUME NEW c \in Clients, WaitTimesOut(c) PROVE MutexInv'
  BY <1>19 DEF WaitTimesOut
<1>20. ASSUME NEW c \in Clients, WaitSucceeds(c) PROVE MutexInv'
  BY <1>20 DEF WaitSucceeds
<1>21. ASSUME NEW c \in Clients, WriteCheckpoint(c) PROVE MutexInv'
  BY <1>21 DEF WriteCheckpoint
<1>22. ASSUME NEW c \in Clients, CheckpointReturns(c) PROVE MutexInv'
  <2>1. \E l \in {"enter", "idle"} : pc' = [pc EXCEPT ![c] = l]
    BY <1>22, LeaveTarget DEF CheckpointReturns
  <2>2. pc[c] = "checkpointDone" /\ pubMtx' = NoClient /\ startMtx' = startMtx
    BY <1>22 DEF CheckpointReturns, ReleaseAndClear
  <2> QED
    BY <2>1, <2>2, UnlockKeepsMutexInv DEF Labels, LockingLabels
<1>23. CASE UNCHANGED vars
  BY <1>23 DEF vars
<1> QED
  BY Zenon, <1>1, <1>2, <1>3, <1>4, <1>5, <1>6, <1>7, <1>8, <1>9, <1>10, <1>11, <1>12, <1>13,
     <1>14, <1>15, <1>16, <1>17, <1>18, <1>19, <1>20, <1>21, <1>22, <1>23 DEF Next, ClientStep

\* Every public function that returns or throws has released both mutexes: a
\* connection outside the manager owns neither.
THEOREM MutexesReleased == Spec => []MutexesAreReleased
<1>1. Init => MutexInv
  BY DEF Init, MutexInv, InManager
<1>2. MutexInv => MutexesAreReleased
  BY Zenon DEF MutexInv, MutexesAreReleased, InManager, LockingLabels
<1> QED
  BY <1>1, <1>2, MutexStep, TypeCorrect, PTL DEF Spec

(***************************************************************************)
(* Checkpoints run alone.  While a connection writes a checkpoint it owns  *)
(* the public mutex, and only beginTransaction, which also runs under that *)
(* mutex, adds to activeTransactions.                                      *)
(***************************************************************************)

\* Only beginTransaction adds an active transaction, and it does so under the mutex.
LEMMA OnlyBeginAdds ==
    ASSUME TypeOK, [Next]_vars, ~(activeTransactions' \subseteq activeTransactions)
    PROVE  \E c \in Clients : BeginTransaction(c)
<1>1. ~UNCHANGED vars
  BY DEF vars, mgrVars
<1>2. PICK c \in Clients : IssueStatement(c) \/ CloseConnection(c) \/ ClientStep(c)
  BY Zenon, <1>1 DEF Next
<1>3. ~IssueStatement(c) /\ ~CloseConnection(c)
  BY Zenon DEF IssueStatement, CloseConnection, mgrVars
<1>4. ~EnterRunFunc(c) /\ ~RunStatement(c) /\ ~RunTransactionStatement(c)
  BY Zenon DEF EnterRunFunc, RunStatement, RunTransactionStatement, mgrVars
<1>5. ~CatchException(c) /\ ~CatchCheckpointException(c) /\ ~LockPublicFunctions(c)
  BY Zenon DEF CatchException, CatchCheckpointException, LockPublicFunctions, mgrVars
<1>6. ~BeginTransactionThrows(c) /\ ~CommitReadOnly(c) /\ ~CommitTakesTimestamp(c)
  BY Zenon DEF BeginTransactionThrows, CommitReadOnly, CommitTakesTimestamp, mgrVars
<1>7. ~CommitVersions(c) /\ ~CommitLogAndClear(c) /\ ~CommitLogThrows(c) /\ ~Rollback(c)
  BY Zenon DEF CommitVersions, CommitLogAndClear, CommitLogThrows, Rollback, mgrVars
<1>8. ~StopNewTransactions(c) /\ ~WaitAgain(c) /\ ~WaitTimesOut(c) /\ ~WaitSucceeds(c)
  BY Zenon DEF StopNewTransactions, WaitAgain, WaitTimesOut, WaitSucceeds, mgrVars
<1>9. ~WriteCheckpoint(c) /\ ~CheckpointReturns(c)
  BY Zenon DEF WriteCheckpoint, CheckpointReturns, mgrVars
<1> QED
  BY Zenon, <1>2, <1>3, <1>4, <1>5, <1>6, <1>7, <1>8, <1>9 DEF ClientStep

\* Only a wait that has seen every transaction leave goes on to write.
LEMMA OnlyWaitWrites ==
    ASSUME TypeOK, [Next]_vars, NEW c \in Clients,
           pc[c] # "writeCheckpoint", pc'[c] = "writeCheckpoint"
    PROVE  WaitSucceeds(c)
<1> USE DEF TypeOK, Goto
<1>1. PICK d \in Clients : IssueStatement(d) \/ CloseConnection(d) \/ ClientStep(d)
  BY DEF Next, vars
<1>2. ASSUME NEW t, LeaveRunFunc(d, t) PROVE FALSE
  BY Zenon, <1>2, LeaveTarget
<1> QED
  BY Zenon, <1>1, <1>2
  DEF ClientStep, IssueStatement, CloseConnection, EnterRunFunc,
      RunStatement, RunTransactionStatement, CatchException, CatchCheckpointException,
      LockPublicFunctions, EnterPublicFunction, BeginTransaction, BeginTransactionThrows,
      CommitReadOnly, CommitTakesTimestamp, CommitVersions, CommitLogAndClear,
      CommitLogThrows, Rollback, StopNewTransactions, WaitAgain, WaitTimesOut, WaitSucceeds,
      WriteCheckpoint, CheckpointReturns

\* No transaction is active while a checkpoint is written, although
\* checkpointNoLock has released mtxForStartingNewTransactions by then.
THEOREM CheckpointAlone == Spec => []CheckpointRunsAlone
<1>1. Init => MutexInv /\ CheckpointRunsAlone
  BY DEF Init, MutexInv, InManager, CheckpointRunsAlone
<1>2. TypeOK /\ MutexInv /\ CheckpointRunsAlone /\ [Next]_vars => CheckpointRunsAlone'
  <2> SUFFICES ASSUME TypeOK, MutexInv, CheckpointRunsAlone, [Next]_vars,
                      NEW c \in Clients, pc'[c] = "writeCheckpoint"
               PROVE  activeTransactions' = {}
    BY DEF CheckpointRunsAlone
  <2>1. CASE pc[c] = "writeCheckpoint"
    <3>1. activeTransactions = {} /\ pubMtx = c
      BY <2>1 DEF CheckpointRunsAlone, MutexInv, InManager
    <3>2. ASSUME NEW d \in Clients, BeginTransaction(d) PROVE FALSE
      BY <2>1, <3>1, <3>2 DEF BeginTransaction, MutexInv, InManager
    <3> QED
      BY <3>1, <3>2, OnlyBeginAdds
  <2>2. CASE pc[c] # "writeCheckpoint"
    BY <2>2, OnlyWaitWrites DEF WaitSucceeds
  <2> QED
    BY <2>1, <2>2
<1> QED
  BY <1>1, <1>2, MutexStep, TypeCorrect, PTL DEF Spec

\* Without multi-writes there is at most one active write transaction, whatever
\* the interleaving of the connections.
THEOREM OneWriter == Spec => []SingleWriter
<1>1. Init => SingleWriter
  BY DEF Init, SingleWriter
<1>2. TypeOK /\ SingleWriter /\ [Next]_vars => SingleWriter'
  <2> SUFFICES ASSUME TypeOK, SingleWriter, [Next]_vars PROVE SingleWriter'
    OBVIOUS
  <2>1. CASE activeTransactions' \subseteq activeTransactions
    BY <2>1 DEF SingleWriter
  <2>2. ASSUME NEW c \in Clients, BeginTransaction(c) PROVE SingleWriter'
    <3> DEFINE t == [id |-> lastTransactionID + 1, type |-> RequestedType(c),
                     startTS |-> lastTimestamp]
    <3>1. activeTransactions' = activeTransactions \union {t} /\ ~BeginRefused(c)
      BY <2>2 DEF BeginTransaction
    <3>2. t.type = RequestedType(c)
      OBVIOUS
    <3> HIDE DEF t
    <3> QED
      BY <3>1, <3>2 DEF SingleWriter, BeginRefused, HasActiveWriteTransaction
  <2> QED
    BY <2>1, <2>2, OnlyBeginAdds
<1> QED
  BY <1>1, <1>2, TypeCorrect, PTL DEF Spec

(***************************************************************************)
(* Who owns a transaction.  No two connections share one, because ids are  *)
(* never used twice, and a connection begins one only when it has none.    *)
(* commit deletes the transaction before it writes a checkpoint, so until  *)
(* it returns the context holds a pointer to a deleted transaction.        *)
(***************************************************************************)

\* The labels between the end of a transaction in the manager and the return of commit.
Finishing == {"checkpoint", "wait", "writeCheckpoint", "checkpointDone", "checkpointExcept"}
\* The labels at which a connection has no transaction.
Without == {"lockBegin", "begin", "lockCheckpoint"}

\* Every active transaction is that of a connection, and every transaction of a
\* connection is active until its commit has deleted it.
OwnerInv ==
    /\ \A c \in Clients : cur[c] = NoTxn \/ cur[c].id \in 1..lastTransactionID
    /\ \A c, d \in Clients : c # d /\ cur[c].id = cur[d].id => cur[c] = NoTxn
    /\ \A t \in activeTransactions : t # NoTxn /\ \E c \in Clients : cur[c] = t
    /\ \A c \in Clients :
        cur[c] # NoTxn => (cur[c] \in activeTransactions <=> pc[c] \notin Finishing)
    /\ \A c \in Clients : pc[c] \in Without => cur[c] = NoTxn

\* A step that neither begins nor ends a transaction.
LEMMA OwnersKept ==
    ASSUME TypeOK, OwnerInv, UNCHANGED <<activeTransactions, lastTransactionID, cur>>,
           NEW c \in Clients, NEW l, pc' = [pc EXCEPT ![c] = l],
           l \in Without => cur[c] = NoTxn,
           cur[c] = NoTxn \/ (l \in Finishing <=> pc[c] \in Finishing)
    PROVE  OwnerInv'
BY DEF TypeOK, OwnerInv

\* The connection gives up its transaction, and the manager deletes it if it has not yet.
LEMMA OwnerLeaves ==
    ASSUME TypeOK, OwnerInv, NEW c \in Clients, NEW l, l \notin Without,
           activeTransactions' = activeTransactions \ {cur[c]},
           lastTransactionID' = lastTransactionID,
           cur' = [cur EXCEPT ![c] = NoTxn], pc' = [pc EXCEPT ![c] = l]
    PROVE  OwnerInv'
<1>1. cur'[c] = NoTxn /\ \A d \in Clients \ {c} : cur'[d] = cur[d] /\ pc'[d] = pc[d]
  BY DEF TypeOK
<1>2. \A d \in Clients \ {c} : cur[d] # NoTxn => cur[d] # cur[c]
  BY DEF OwnerInv
<1>3. \A d \in Clients : cur'[d] = NoTxn \/ cur'[d].id \in 1..lastTransactionID
  BY <1>1 DEF OwnerInv
<1>4. \A d, e \in Clients : d # e /\ cur'[d].id = cur'[e].id => cur'[d] = NoTxn
  <2> SUFFICES ASSUME NEW d \in Clients, NEW e \in Clients, d # e, cur'[d].id = cur'[e].id
               PROVE  cur'[d] = NoTxn
    OBVIOUS
  <2>1. CASE d # c /\ e # c
    BY <1>1, <2>1 DEF OwnerInv
  <2>2. CASE e = c
    <3>1. cur'[d] = NoTxn \/ cur'[d].id \in 1..lastTransactionID
      BY <1>3
    <3>2. cur'[d].id = 0
      BY <1>1, <2>2 DEF NoTxn
    <3> QED
      BY <3>1, <3>2 DEF TypeOK
  <2> QED
    BY <1>1, <2>1, <2>2
<1>5. \A t \in activeTransactions' : t # NoTxn /\ \E d \in Clients : cur'[d] = t
  BY <1>1 DEF OwnerInv
<1>6. \A d \in Clients :
     cur'[d] # NoTxn => (cur'[d] \in activeTransactions' <=> pc'[d] \notin Finishing)
  BY <1>1, <1>2 DEF OwnerInv
<1>7. \A d \in Clients : pc'[d] \in Without => cur'[d] = NoTxn
  BY <1>1 DEF OwnerInv, TypeOK
<1> QED
  BY <1>3, <1>4, <1>5, <1>6, <1>7 DEF OwnerInv

\* beginTransaction makes a transaction with a new id.
LEMMA NewOwner ==
    ASSUME TypeOK, OwnerInv, NEW c \in Clients, NEW l, l \notin Without \union Finishing,
           NEW t \in Transactions, t.id = lastTransactionID + 1, cur[c] = NoTxn,
           activeTransactions' = activeTransactions \union {t},
           lastTransactionID' = lastTransactionID + 1,
           cur' = [cur EXCEPT ![c] = t], pc' = [pc EXCEPT ![c] = l]
    PROVE  OwnerInv'
<1>1. cur'[c] = t /\ pc'[c] = l /\ \A d \in Clients \ {c} : cur'[d] = cur[d] /\ pc'[d] = pc[d]
  BY DEF TypeOK
<1>2. t # NoTxn /\ lastTransactionID \in Nat
  BY DEF NoTxn, TypeOK
<1>a. \A d \in Clients : cur[d] = NoTxn \/ cur[d].id \in 1..lastTransactionID
  BY DEF OwnerInv
<1>b. \A d \in Clients : cur[d] # NoTxn => cur[d].id # t.id
  BY <1>2, <1>a
<1>3. \A d \in Clients : cur'[d] = NoTxn \/ cur'[d].id \in 1..lastTransactionID'
  BY <1>1, <1>2, <1>a
<1>4. \A d, e \in Clients : d # e /\ cur'[d].id = cur'[e].id => cur'[d] = NoTxn
  <2> SUFFICES ASSUME NEW d \in Clients, NEW e \in Clients, d # e, cur'[d].id = cur'[e].id
               PROVE  cur'[d] = NoTxn
    OBVIOUS
  <2>1. CASE d # c /\ e # c
    BY <1>1, <2>1 DEF OwnerInv
  <2>2. CASE e = c
    BY <1>1, <1>b, <2>2
  <2>3. CASE d = c
    <3>1. cur[e] = NoTxn
      BY <1>1, <1>b, <2>3
    <3> QED
      BY <1>1, <1>2, <2>3, <3>1 DEF NoTxn
  <2> QED
    BY <2>1, <2>2, <2>3
<1>5. \A u \in activeTransactions' : u # NoTxn /\ \E d \in Clients : cur'[d] = u
  BY <1>1, <1>2 DEF OwnerInv
<1>6. \A d \in Clients :
     cur'[d] # NoTxn => (cur'[d] \in activeTransactions' <=> pc'[d] \notin Finishing)
  BY <1>1, <1>b DEF OwnerInv
<1>7. \A d \in Clients : pc'[d] \in Without => cur'[d] = NoTxn
  BY <1>1 DEF OwnerInv
<1> QED
  BY <1>3, <1>4, <1>5, <1>6, <1>7 DEF OwnerInv

LEMMA OwnerStep == TypeOK /\ OwnerInv /\ [Next]_vars => OwnerInv'
<1> SUFFICES ASSUME TypeOK, OwnerInv, [Next]_vars PROVE OwnerInv'
  OBVIOUS
<1> USE DEF mgrVars, ctxVars, Goto, Finishing, Without
<1>0. \A c \in Clients : pc[c] \in Finishing => activeTransactions \ {cur[c]} = activeTransactions
  BY DEF OwnerInv
<1>1. ASSUME NEW c \in Clients, IssueStatement(c) \/ EnterRunFunc(c) PROVE OwnerInv'
  BY <1>1, OwnersKept DEF IssueStatement, EnterRunFunc, HasActiveTransaction
<1>2. ASSUME NEW c \in Clients, CloseConnection(c) PROVE OwnerInv'
  <2>1. \E l \in {"idle", "lockRollback"} : pc' = [pc EXCEPT ![c] = l]
    BY <1>2 DEF CloseConnection, TypeOK
  <2> QED
    BY <1>2, <2>1, OwnersKept DEF CloseConnection
<1>3. ASSUME NEW c \in Clients, RunStatement(c) PROVE OwnerInv'
  <2>1. \E l \in {"except", "lockCommit", "enter", "idle"} : pc' = [pc EXCEPT ![c] = l]
    BY <1>3, LeaveTarget DEF RunStatement
  <2> QED
    BY <1>3, <2>1, OwnersKept DEF RunStatement
<1>4. ASSUME NEW c \in Clients, RunTransactionStatement(c) PROVE OwnerInv'
  BY <1>4, OwnersKept DEF RunTransactionStatement, HasActiveTransaction
<1>5. ASSUME NEW c \in Clients, CatchException(c) PROVE OwnerInv'
  BY <1>5, OwnersKept DEF CatchException
<1>6. ASSUME NEW c \in Clients, CatchCheckpointException(c) PROVE OwnerInv'
  BY <1>0, <1>6, OwnerLeaves DEF CatchCheckpointException
<1>7. ASSUME NEW c \in Clients, LockPublicFunctions(c) PROVE OwnerInv'
  <2>1. PICK l \in {"begin", "commit", "rollback", "checkpointDone", "checkpoint"} :
           pc' = [pc EXCEPT ![c] = l] /\ (l \in Without \union Finishing => pc[c] \in Without)
    BY <1>7 DEF LockPublicFunctions, EnterPublicFunction
  <2>2. l \in Without \union Finishing => cur[c] = NoTxn
    BY <2>1 DEF OwnerInv
  <2>3. pc[c] \notin Finishing
    BY <1>7 DEF LockPublicFunctions, LockingLabels
  <2> QED
    BY <1>7, <2>1, <2>2, <2>3, OwnersKept DEF LockPublicFunctions
<1>8. ASSUME NEW c \in Clients, BeginTransactionThrows(c) PROVE OwnerInv'
  BY <1>8, OwnersKept DEF BeginTransactionThrows
<1>9. ASSUME NEW c \in Clients, BeginTransaction(c) PROVE OwnerInv'
  <2> DEFINE t == [id |-> lastTransactionID + 1, type |-> RequestedType(c),
                   startTS |-> lastTimestamp]
  <2>1. t \in Transactions /\ t.id = lastTransactionID + 1
    BY DEF Transactions, RequestedType, TypeOK
  <2> HIDE DEF t
  <2>2. /\ pc[c] = "begin" /\ lastTransactionID' = lastTransactionID + 1
        /\ activeTransactions' = activeTransactions \union {t}
        /\ cur' = [cur EXCEPT ![c] = t]
        /\ (newTxn[c] => pc' = [pc EXCEPT ![c] = "fun"]) /\ (~newTxn[c] => LeaveRunFunc(c, t))
    BY <1>9 DEF BeginTransaction, t
  <2>3. \E l \in {"enter", "idle", "fun"} : pc' = [pc EXCEPT ![c] = l]
    BY <2>2, LeaveTarget
  <2>4. cur[c] = NoTxn
    BY <2>2 DEF OwnerInv
  <2> QED
    BY <2>1, <2>2, <2>3, <2>4, NewOwner
<1>10. ASSUME NEW c \in Clients, CommitReadOnly(c) PROVE OwnerInv'
  <2>1. \E l \in {"enter", "idle"} : pc' = [pc EXCEPT ![c] = l]
    BY <1>10, LeaveTarget DEF CommitReadOnly
  <2> QED
    BY <1>10, <2>1, OwnerLeaves DEF CommitReadOnly, ReleaseAndClear
<1>11. ASSUME NEW c \in Clients, CommitTakesTimestamp(c) \/ CommitLogThrows(c) PROVE OwnerInv'
  BY <1>11, OwnersKept DEF CommitTakesTimestamp, CommitLogThrows
<1>12. ASSUME NEW c \in Clients, CommitVersions(c) PROVE OwnerInv'
  BY <1>12, OwnersKept DEF CommitVersions
<1>13. ASSUME NEW c \in Clients, CommitLogAndClear(c) PROVE OwnerInv'
  <2>1. PICK l \in {"checkpointDone", "checkpoint"} : pc' = [pc EXCEPT ![c] = l]
    BY <1>13 DEF CommitLogAndClear
  <2>2. /\ activeTransactions' = activeTransactions \ {cur[c]} /\ cur' = cur
        /\ lastTransactionID' = lastTransactionID
    BY <1>13 DEF CommitLogAndClear
  <2>3. \A d \in Clients \ {c} : pc'[d] = pc[d] /\ (cur[d] # NoTxn => cur[d] # cur[c])
    BY <2>1 DEF OwnerInv, TypeOK
  <2>4. pc'[c] \in Finishing /\ pc'[c] \notin Without
    BY <2>1 DEF TypeOK
  <2>5. \A d \in Clients :
       cur[d] # NoTxn => (cur[d] \in activeTransactions' <=> pc'[d] \notin Finishing)
    BY <2>2, <2>3, <2>4 DEF OwnerInv
  <2> QED
    BY <2>2, <2>3, <2>4, <2>5 DEF OwnerInv
<1>14. ASSUME NEW c \in Clients, Rollback(c) PROVE OwnerInv'
  BY <1>14, OwnerLeaves DEF Rollback, ReleaseAndClear
<1>15. ASSUME NEW c \in Clients, StopNewTransactions(c) PROVE OwnerInv'
  BY <1>15, OwnersKept DEF StopNewTransactions
<1>16. ASSUME NEW c \in Clients, WaitAgain(c) PROVE OwnerInv'
  BY <1>16 DEF WaitAgain, OwnerInv
<1>17. ASSUME NEW c \in Clients, WaitTimesOut(c) \/ WaitSucceeds(c) PROVE OwnerInv'
  BY <1>17, OwnersKept DEF WaitTimesOut, WaitSucceeds
<1>18. ASSUME NEW c \in Clients, WriteCheckpoint(c) PROVE OwnerInv'
  BY <1>18, OwnersKept DEF WriteCheckpoint
<1>19. ASSUME NEW c \in Clients, CheckpointReturns(c) PROVE OwnerInv'
  <2>1. PICK l \in {"enter", "idle"} : pc' = [pc EXCEPT ![c] = l]
    BY <1>19, LeaveTarget DEF CheckpointReturns
  <2>2. CASE HasActiveTransaction(c)
    BY <1>0, <1>19, <2>1, <2>2, OwnerLeaves DEF CheckpointReturns, ReleaseAndClear
  <2>3. CASE ~HasActiveTransaction(c)
    BY <1>19, <2>1, <2>3, OwnersKept DEF CheckpointReturns, HasActiveTransaction
  <2> QED
    BY <2>2, <2>3
<1>20. CASE UNCHANGED vars
  BY <1>20 DEF vars, OwnerInv
<1> QED
  BY Zenon, <1>1, <1>2, <1>3, <1>4, <1>5, <1>6, <1>7, <1>8, <1>9, <1>10, <1>11, <1>12, <1>13,
     <1>14, <1>15, <1>16, <1>17, <1>18, <1>19, <1>20 DEF Next, ClientStep

\* Whatever fails (begin, commit, the WAL, a checkpoint), every active transaction belongs
\* to exactly one connection, and a connection between two calls of the manager refers to
\* no transaction that clearTransactionNoLock has deleted.
THEOREM TransactionsOwned == Spec => []TransactionsAreOwned
<1>1. Init => OwnerInv
  BY DEF Init, OwnerInv, Without
<1>2. OwnerInv => TransactionsAreOwned
  BY DEF OwnerInv, TransactionsAreOwned, Finishing, HasActiveTransaction
<1> QED
  BY <1>1, <1>2, OwnerStep, TypeCorrect, PTL DEF Spec

(***************************************************************************)
(* What transactions may read, for any number of connections: while the    *)
(* WAL does not fail, a snapshot consists of logged commits and never      *)
(* changes, and the log is in timestamp order.                             *)
(*                                                                         *)
(* A committing connection owns the public mutex from the assignment of    *)
(* its timestamp to the end of the WAL flush.  So no transaction begins in *)
(* between, and every active one began before the timestamp was taken.     *)
(***************************************************************************)

Committing == {"commitVersions", "commitLog"}
\* The labels at which a connection may still refer to a logged transaction.
Logged == {"commitLog", "checkpoint", "wait", "writeCheckpoint", "checkpointDone",
           "checkpointExcept"}
InLog(v) == \E i \in 1..Len(commitLog) : commitLog[i] = v

\* Timestamps: the committing connection's is ahead of every active transaction, of
\* every logged commit, and its versions are the only ones that are not logged yet.
TimestampInv ==
    /\ \A t \in activeTransactions : t.startTS <= lastTimestamp
    /\ \A v \in versions : InLog(v) \/ \E c \in Clients : pc[c] = "commitLog" /\ v = Stamp(c)
    /\ \A i \in 1..Len(commitLog) : commitLog[i].ts <= lastTimestamp
    /\ \A c \in Clients : pc[c] \in Committing =>
        /\ commitTS[c] = lastTimestamp
        /\ \A t \in activeTransactions : t.startTS < lastTimestamp
        /\ \A i \in 1..Len(commitLog) : commitLog[i].ts < lastTimestamp

\* Ids: no two connections share a transaction, and until a transaction is committed
\* no row version carries its id.
IdInv ==
    /\ \A c \in Clients : /\ cur[c].id <= lastTransactionID
                          /\ cur[c].type = "WRITE" => cur[c].id # 0
                          /\ pc[c] \in Committing => cur[c].type = "WRITE"
    /\ \A c, d \in Clients : c # d /\ cur[c].id = cur[d].id => cur[c].id = 0
    /\ \A v \in versions : v.id \in 1..lastTransactionID
    /\ \A c \in Clients : pc[c] \notin Logged => \A v \in versions : v.id # cur[c].id

\* A step that touches no transaction, version or timestamp, and neither starts nor
\* abandons a commit.
Quiet ==
    /\ UNCHANGED <<activeTransactions, lastTransactionID, lastTimestamp, cur, commitTS,
                   versions, commitLog>>
    /\ \A c \in Clients : /\ pc'[c] \in Committing => pc'[c] = pc[c]
                          /\ pc[c] = "commitLog" => pc'[c] = "commitLog"
                          /\ pc'[c] \notin Logged => pc[c] \notin Logged

\* The steps of a connection that are not quiet.
Loud(c) ==
    \/ BeginTransaction(c) \/ CommitReadOnly(c) \/ CommitTakesTimestamp(c) \/ CommitVersions(c)
    \/ CommitLogAndClear(c) \/ Rollback(c) \/ CheckpointReturns(c)
    \/ CatchCheckpointException(c)

\* While the WAL does not fail, every other action is quiet.
LEMMA QuietSteps ==
    ASSUME TypeOK, ~WALMayFail, [Next]_vars
    PROVE  Quiet \/ \E c \in Clients : Loud(c)
<1> USE DEF TypeOK, Goto, Quiet, Committing, Logged, mgrVars, ctxVars, logVars
<1>1. CASE UNCHANGED vars
  BY <1>1 DEF vars
<1>2. ASSUME NEW c \in Clients, IssueStatement(c) \/ CloseConnection(c) PROVE Quiet
  BY <1>2 DEF IssueStatement, CloseConnection
<1>3. ASSUME NEW c \in Clients, EnterRunFunc(c) PROVE Quiet
  BY <1>3 DEF EnterRunFunc
<1>4. ASSUME NEW c \in Clients, RunStatement(c) PROVE Quiet
  <2>1. \E l \in {"except", "lockCommit", "enter", "idle"} : pc' = [pc EXCEPT ![c] = l]
    BY <1>4, LeaveTarget DEF RunStatement
  <2> QED
    BY <1>4, <2>1 DEF RunStatement
<1>5. ASSUME NEW c \in Clients, RunTransactionStatement(c) PROVE Quiet
  BY <1>5 DEF RunTransactionStatement
<1>6. ASSUME NEW c \in Clients, CatchException(c) PROVE Quiet
  BY <1>6 DEF CatchException
<1>7. ASSUME NEW c \in Clients, LockPublicFunctions(c) PROVE Quiet
  BY <1>7 DEF LockPublicFunctions, EnterPublicFunction
<1>8. ASSUME NEW c \in Clients, BeginTransactionThrows(c) PROVE Quiet
  BY <1>8 DEF BeginTransactionThrows
<1>9. ASSUME NEW c \in Clients,
             StopNewTransactions(c) \/ WaitAgain(c) \/ WaitTimesOut(c) \/ WaitSucceeds(c)
      PROVE  Quiet
  BY <1>9 DEF StopNewTransactions, WaitAgain, WaitTimesOut, WaitSucceeds
<1>10. ASSUME NEW c \in Clients, WriteCheckpoint(c) PROVE Quiet
  BY <1>10 DEF WriteCheckpoint
<1>11. ASSUME NEW c \in Clients, CommitLogThrows(c) PROVE FALSE
  BY <1>11 DEF CommitLogThrows
<1> QED
  BY <1>1, <1>2, <1>3, <1>4, <1>5, <1>6, <1>7, <1>8, <1>9, <1>10, <1>11
  DEF Next, ClientStep, Loud

\* At most one connection is inside the manager.
LEMMA OneInManager ==
    ASSUME MutexInv, NEW c \in Clients, NEW d \in Clients,
           pc[c] \in InManager, pc[d] \in InManager
    PROVE  c = d
BY DEF MutexInv

\* So while a connection that is not committing is inside, every version is logged.
LEMMA AllLogged ==
    ASSUME MutexInv, TimestampInv, NEW c \in Clients, pc[c] \in InManager \ Committing
    PROVE  /\ \A d \in Clients : pc[d] \notin Committing
           /\ \A v \in versions : InLog(v)
BY OneInManager DEF TimestampInv, Committing, InManager

LEMMA TimeTypes ==
    ASSUME TypeOK
    PROVE  /\ lastTimestamp \in Nat /\ \A t \in activeTransactions : t.startTS \in Nat
           /\ commitLog \in Seq(Stamps)
           /\ \A i \in 1..Len(commitLog) : commitLog[i].ts \in Nat
           /\ commitTS \in [Clients -> Nat] /\ pc \in [Clients -> Labels]
<1>1. commitLog \in Seq(Stamps) /\ activeTransactions \subseteq Transactions
  BY DEF TypeOK
<1>2. \A i \in 1..Len(commitLog) : commitLog[i] \in Stamps
  BY <1>1
<1>3. \A i \in 1..Len(commitLog) : commitLog[i].ts \in Nat
  BY <1>2 DEF Stamps
<1>4. \A t \in activeTransactions : t.startTS \in Nat
  BY <1>1 DEF Transactions
<1> QED
  BY <1>1, <1>3, <1>4 DEF TypeOK

LEMMA TimestampStep ==
    TypeOK /\ MutexInv /\ TimestampInv /\ ~WALMayFail /\ [Next]_vars => TimestampInv'
<1> SUFFICES ASSUME TypeOK, MutexInv, TimestampInv, ~WALMayFail, [Next]_vars
             PROVE  TimestampInv'
  OBVIOUS
<1>0. /\ lastTimestamp \in Nat /\ \A t \in activeTransactions : t.startTS \in Nat
      /\ commitLog \in Seq(Stamps)
      /\ \A i \in 1..Len(commitLog) : commitLog[i].ts \in Nat
      /\ commitTS \in [Clients -> Nat] /\ pc \in [Clients -> Labels]
  BY TimeTypes
<1>1. CASE Quiet
  BY <1>1 DEF Quiet, TimestampInv, InLog, Stamp, Committing
<1>2. ASSUME NEW c \in Clients, BeginTransaction(c) PROVE TimestampInv'
  <2> DEFINE t == [id |-> lastTransactionID + 1, type |-> RequestedType(c),
                   startTS |-> lastTimestamp]
  <2>1. \E l \in {"enter", "idle", "fun"} : pc' = [pc EXCEPT ![c] = l]
    <3>1. CASE newTxn[c]
      BY <1>2, <3>1 DEF BeginTransaction, Goto
    <3>2. CASE ~newTxn[c]
      <4>1. PICK u : LeaveRunFunc(c, u)
        BY <1>2, <3>2 DEF BeginTransaction
      <4> QED
        BY <4>1, LeaveTarget
    <3> QED
      BY <3>1, <3>2
  <2>2. /\ pc[c] = "begin" /\ activeTransactions' = activeTransactions \union {t}
        /\ UNCHANGED <<lastTimestamp, versions, commitLog>>
    BY <1>2 DEF BeginTransaction, logVars
  <2>3. t.startTS = lastTimestamp
    OBVIOUS
  <2> HIDE DEF t
  <2>4. /\ \A d \in Clients : pc[d] \notin Committing
        /\ \A v \in versions : InLog(v)
    BY <2>2, AllLogged DEF InManager, Committing
  <2>5. \A d \in Clients : pc'[d] \notin Committing
    BY <1>0, <2>1, <2>4 DEF Committing
  <2> QED
    BY <1>0, <2>2, <2>3, <2>4, <2>5 DEF TimestampInv, InLog
<1>3. ASSUME NEW c \in Clients, CommitReadOnly(c) \/ Rollback(c) \/ CheckpointReturns(c)
      PROVE  TimestampInv'
  <2>1. \E l \in {"enter", "idle"} : pc' = [pc EXCEPT ![c] = l]
    BY <1>3, LeaveTarget DEF CommitReadOnly, Rollback, CheckpointReturns, Goto
  <2>2. /\ pc[c] \in InManager \ Committing
        /\ activeTransactions' \subseteq activeTransactions /\ versions' \subseteq versions
        /\ UNCHANGED <<lastTimestamp, commitLog>>
    BY <1>3 DEF CommitReadOnly, Rollback, CheckpointReturns, logVars, InManager, Committing
  <2>3. /\ \A d \in Clients : pc[d] \notin Committing
        /\ \A v \in versions : InLog(v)
    BY <2>2, AllLogged
  <2>4. \A d \in Clients : pc'[d] \notin Committing
    BY <1>0, <2>1, <2>3 DEF Committing
  <2> QED
    BY <1>0, <2>2, <2>3, <2>4 DEF TimestampInv, InLog
<1>4. ASSUME NEW c \in Clients, CommitTakesTimestamp(c) PROVE TimestampInv'
  <2>1. /\ pc[c] = "commit" /\ pc' = [pc EXCEPT ![c] = "commitVersions"]
        /\ lastTimestamp' = lastTimestamp + 1
        /\ commitTS' = [commitTS EXCEPT ![c] = lastTimestamp + 1]
        /\ UNCHANGED <<activeTransactions, versions, commitLog>>
    BY <1>4 DEF CommitTakesTimestamp, Goto, logVars
  <2>2. /\ \A d \in Clients : pc[d] \notin Committing
        /\ \A v \in versions : InLog(v)
    BY <2>1, AllLogged DEF InManager, Committing
  <2>3. \A d \in Clients : pc'[d] \in Committing => d = c
    BY <1>0, <2>1, <2>2
  <2>4. \A t \in activeTransactions : t.startTS <= lastTimestamp /\ t.startTS < lastTimestamp + 1
    BY <1>0 DEF TimestampInv
  <2>5. \A i \in 1..Len(commitLog) :
           commitLog[i].ts <= lastTimestamp + 1 /\ commitLog[i].ts < lastTimestamp + 1
    BY <1>0 DEF TimestampInv
  <2>6. \A v \in versions : InLog(v)'
    BY <2>1, <2>2 DEF InLog
  <2>7. commitTS'[c] = lastTimestamp'
    BY <1>0, <2>1
  <2>8. \A t \in activeTransactions' : t.startTS <= lastTimestamp' /\ t.startTS < lastTimestamp'
    BY <1>0, <2>1, <2>4
  <2> QED
    BY <2>1, <2>3, <2>5, <2>6, <2>7, <2>8 DEF TimestampInv
<1>5. ASSUME NEW c \in Clients, CommitVersions(c) PROVE TimestampInv'
  <2>1. /\ pc[c] = "commitVersions"
        /\ UNCHANGED <<activeTransactions, lastTimestamp, commitTS, cur, commitLog>>
        /\ \/ versions' = versions \union {Stamp(c)} /\ pc' = [pc EXCEPT ![c] = "commitLog"]
           \/ versions' = versions /\ pc' = [pc EXCEPT ![c] = "except"]
    BY <1>5 DEF CommitVersions, Goto, ctxVars
  <2>2. \A d \in Clients : d # c => pc[d] \notin Committing
    BY <2>1, OneInManager DEF InManager, Committing
  <2>3. \A v \in versions : InLog(v)
    BY <2>1, <2>2 DEF TimestampInv, Committing
  <2>4. \A d \in Clients : pc'[d] \in Committing => d = c
    BY <1>0, <2>1, <2>2
  <2>5. Stamp(c)' = Stamp(c)
    BY <2>1 DEF Stamp
  <2>6. \A v \in versions' : InLog(v)' \/ (pc'[c] = "commitLog" /\ v = Stamp(c)')
    BY Zenon, <1>0, <2>1, <2>3, <2>5 DEF InLog
  <2> QED
    BY <1>0, <2>1, <2>4, <2>6 DEF TimestampInv, Committing
<1>6. ASSUME NEW c \in Clients, CommitLogAndClear(c) PROVE TimestampInv'
  <2>1. /\ pc[c] = "commitLog" /\ commitLog' = Append(commitLog, Stamp(c))
        /\ activeTransactions' \subseteq activeTransactions
        /\ UNCHANGED <<lastTimestamp, versions>>
        /\ \E l \in {"checkpointDone", "checkpoint"} : pc' = [pc EXCEPT ![c] = l]
    BY <1>6 DEF CommitLogAndClear, Goto
  <2>2. \A d \in Clients : d # c => pc[d] \notin Committing
    BY <2>1, OneInManager DEF InManager, Committing
  <2>3. \A d \in Clients : pc'[d] \notin Committing
    BY <1>0, <2>1, <2>2 DEF Committing
  <2>4. Stamp(c) \in Stamps /\ Stamp(c).ts = lastTimestamp
    BY <2>1, StampType DEF Stamp, TimestampInv, Committing
  <2>5. /\ Len(commitLog') = Len(commitLog) + 1 /\ commitLog'[Len(commitLog) + 1] = Stamp(c)
        /\ \A i \in 1..Len(commitLog) : commitLog'[i] = commitLog[i]
        /\ Len(commitLog) \in Nat
    BY <1>0, <2>1, <2>4
  <2>6. \A v \in versions : InLog(v)'
    BY <2>1, <2>2, <2>5 DEF TimestampInv, InLog, Committing
  <2>7. \A i \in 1..Len(commitLog') : commitLog'[i].ts <= lastTimestamp
    BY <1>0, <2>4, <2>5, SMTT(60) DEF TimestampInv
  <2> QED
    BY <2>1, <2>3, <2>6, <2>7 DEF TimestampInv
<1>7. ASSUME NEW c \in Clients, CatchCheckpointException(c) PROVE TimestampInv'
  <2>1. /\ pc[c] = "checkpointExcept" /\ pc' = [pc EXCEPT ![c] = "idle"]
        /\ cur' = [cur EXCEPT ![c] = NoTxn]
        /\ UNCHANGED <<activeTransactions, lastTimestamp, commitTS, versions, commitLog>>
    BY <1>7 DEF CatchCheckpointException, Goto, mgrVars, logVars
  <2>2. \A d \in Clients : pc'[d] \in Committing => pc[d] = pc'[d]
    BY <1>0, <2>1 DEF Committing
  <2>3. \A d \in Clients : pc[d] = "commitLog" => pc'[d] = "commitLog" /\ Stamp(d)' = Stamp(d)
    BY <1>0, <2>1 DEF Stamp, TypeOK
  <2> QED
    BY <2>1, <2>2, <2>3 DEF TimestampInv, InLog
<1> QED
  BY <1>1, <1>2, <1>3, <1>4, <1>5, <1>6, <1>7, QuietSteps DEF Loud

LEMMA IdTypes ==
    ASSUME TypeOK
    PROVE  /\ lastTransactionID \in Nat /\ cur \in [Clients -> Transactions]
           /\ pc \in [Clients -> Labels]
           /\ \A c \in Clients : cur[c].id \in Nat
           /\ \A v \in versions : v.id \in Nat
           /\ NoTxn.id = 0 /\ NoTxn.type = "NONE"
BY DEF TypeOK, Transactions, Stamps, NoTxn

\* Clearing a connection's transaction keeps the id invariant.
LEMMA ClearKeepsIdInv ==
    ASSUME TypeOK, IdInv, NEW c \in Clients, NEW l \in Labels \ Committing,
           pc' = [pc EXCEPT ![c] = l], cur' = [cur EXCEPT ![c] = NoTxn],
           versions' \subseteq versions, lastTransactionID' = lastTransactionID
    PROVE  IdInv'
<1>1. /\ cur'[c].id = 0 /\ cur'[c].type = "NONE" /\ pc'[c] = l
      /\ \A d \in Clients \ {c} : cur'[d] = cur[d] /\ pc'[d] = pc[d]
  BY IdTypes
<1>2. \A d \in Clients : cur[d].id \in Nat /\ lastTransactionID \in Nat
  BY IdTypes
<1> QED
  BY <1>1, <1>2 DEF IdInv

LEMMA IdStep == TypeOK /\ IdInv /\ ~WALMayFail /\ [Next]_vars => IdInv'
<1> SUFFICES ASSUME TypeOK, IdInv, ~WALMayFail, [Next]_vars PROVE IdInv'
  OBVIOUS
<1>0. /\ lastTransactionID \in Nat /\ cur \in [Clients -> Transactions]
      /\ pc \in [Clients -> Labels]
      /\ \A c \in Clients : cur[c].id \in Nat
      /\ \A v \in versions : v.id \in Nat
      /\ NoTxn.id = 0 /\ NoTxn.type = "NONE"
  BY IdTypes
<1>1. CASE Quiet
  BY <1>1 DEF Quiet, IdInv
<1>2. ASSUME NEW c \in Clients, BeginTransaction(c) PROVE IdInv'
  <2> DEFINE t == [id |-> lastTransactionID + 1, type |-> RequestedType(c),
                   startTS |-> lastTimestamp]
  <2>1. \E l \in {"enter", "idle", "fun"} : pc' = [pc EXCEPT ![c] = l]
    <3>1. CASE newTxn[c]
      BY <1>2, <3>1 DEF BeginTransaction, Goto
    <3>2. CASE ~newTxn[c]
      <4>1. PICK u : LeaveRunFunc(c, u)
        BY <1>2, <3>2 DEF BeginTransaction
      <4> QED
        BY <4>1, LeaveTarget
    <3> QED
      BY <3>1, <3>2
  <2>2. /\ cur' = [cur EXCEPT ![c] = t] /\ lastTransactionID' = lastTransactionID + 1
        /\ versions' = versions
    BY <1>2 DEF BeginTransaction, logVars
  <2>3. t.id = lastTransactionID + 1
    OBVIOUS
  <2> HIDE DEF t
  <2>4. /\ cur'[c].id = lastTransactionID + 1
        /\ pc'[c] \notin Committing
        /\ \A d \in Clients \ {c} : cur'[d] = cur[d] /\ pc'[d] = pc[d]
    BY <1>0, <2>1, <2>2, <2>3 DEF Committing
  <2> QED
    BY <1>0, <2>2, <2>4 DEF IdInv
<1>3. ASSUME NEW c \in Clients, CommitReadOnly(c) \/ Rollback(c) \/ CatchCheckpointException(c)
      PROVE  IdInv'
  <2>1. \E l \in {"enter", "idle"} : pc' = [pc EXCEPT ![c] = l]
    BY <1>3, LeaveTarget DEF CommitReadOnly, Rollback, CatchCheckpointException, Goto
  <2>2. /\ cur' = [cur EXCEPT ![c] = NoTxn] /\ versions' \subseteq versions
        /\ lastTransactionID' = lastTransactionID
    BY <1>3 DEF CommitReadOnly, Rollback, CatchCheckpointException, ReleaseAndClear, logVars,
                mgrVars
  <2> QED
    BY Zenon, <2>1, <2>2, ClearKeepsIdInv DEF Labels, LockingLabels, Committing
<1>4. ASSUME NEW c \in Clients, CheckpointReturns(c) PROVE IdInv'
  <2>1. \E l \in {"enter", "idle"} : pc' = [pc EXCEPT ![c] = l]
    BY <1>4, LeaveTarget DEF CheckpointReturns
  <2>2. versions' = versions /\ lastTransactionID' = lastTransactionID
    BY <1>4 DEF CheckpointReturns, logVars
  <2>3. cur' = [cur EXCEPT ![c] = NoTxn]
    <3>1. CASE HasActiveTransaction(c)
      BY <1>4, <3>1 DEF CheckpointReturns, ReleaseAndClear
    <3>2. CASE ~HasActiveTransaction(c)
      <4>1. cur' = cur /\ cur[c] = NoTxn
        BY <1>4, <3>2 DEF CheckpointReturns, ctxVars, HasActiveTransaction
      <4> QED
        BY <1>0, <4>1
    <3> QED
      BY <3>1, <3>2
  <2> QED
    BY Zenon, <2>1, <2>2, <2>3, ClearKeepsIdInv DEF Labels, LockingLabels, Committing
<1>5. ASSUME NEW c \in Clients, CommitTakesTimestamp(c) PROVE IdInv'
  <2>1. /\ pc[c] = "commit" /\ cur[c].type = "WRITE"
        /\ pc' = [pc EXCEPT ![c] = "commitVersions"]
        /\ UNCHANGED <<lastTransactionID, cur, versions>>
    BY <1>5 DEF CommitTakesTimestamp, Goto, ctxVars, logVars
  <2> QED
    BY <1>0, <2>1 DEF IdInv, Logged
<1>6. ASSUME NEW c \in Clients, CommitVersions(c) PROVE IdInv'
  <2>1. /\ pc[c] = "commitVersions" /\ UNCHANGED <<lastTransactionID, cur>>
        /\ \/ versions' = versions \union {Stamp(c)} /\ pc' = [pc EXCEPT ![c] = "commitLog"]
           \/ versions' = versions /\ pc' = [pc EXCEPT ![c] = "except"]
    BY <1>6 DEF CommitVersions, Goto, ctxVars
  <2>2. Stamp(c).id = cur[c].id
    BY DEF Stamp
  <2>3. cur[c].id \in 1..lastTransactionID /\ cur[c].type = "WRITE"
    BY <1>0, <2>1 DEF IdInv, Committing
  <2>4. \A d \in Clients : d # c => pc'[d] = pc[d] /\ cur[d].id # cur[c].id
    BY <1>0, <2>1, <2>3 DEF IdInv
  <2>5. pc'[c] \in {"commitLog", "except"} /\ (pc'[c] = "except" => versions' = versions)
    BY <1>0, <2>1
  <2>6. \A v \in versions' : v \in versions \/ v.id = cur[c].id
    BY <2>1, <2>2
  <2>7. \A d \in Clients : pc'[d] \notin Logged => \A v \in versions' : v.id # cur[d].id
    BY <2>1, <2>4, <2>5, <2>6 DEF IdInv, Logged
  <2>8. \A v \in versions' : v.id \in 1..lastTransactionID
    BY <2>3, <2>6 DEF IdInv
  <2> QED
    BY <2>1, <2>3, <2>4, <2>7, <2>8 DEF IdInv
<1>7. ASSUME NEW c \in Clients, CommitLogAndClear(c) PROVE IdInv'
  <2>1. /\ pc[c] = "commitLog" /\ UNCHANGED <<lastTransactionID, cur, versions>>
        /\ \E l \in {"checkpointDone", "checkpoint"} : pc' = [pc EXCEPT ![c] = l]
    BY <1>7 DEF CommitLogAndClear, Goto, ctxVars
  <2> QED
    BY <1>0, <2>1 DEF IdInv, Logged, Committing
<1> QED
  BY <1>1, <1>2, <1>3, <1>4, <1>5, <1>6, <1>7, QuietSteps DEF Loud

(***************************************************************************)
(* The theorems.                                                           *)
(***************************************************************************)
SnapshotInv == TypeOK /\ MutexInv /\ TimestampInv /\ IdInv

LEMMA SnapshotInvariant == ASSUME ~WALMayFail PROVE Spec => []SnapshotInv
<1>1. Init => MutexInv /\ TimestampInv /\ IdInv
  <2> SUFFICES ASSUME Init PROVE MutexInv /\ TimestampInv /\ IdInv
    OBVIOUS
  <2>1. MutexInv
    BY NoClientAssumption DEF Init, MutexInv, InManager
  <2>2. TimestampInv
    BY DEF Init, TimestampInv, Committing
  <2>3. \A c \in Clients : cur[c].id = 0 /\ cur[c].type = "NONE" /\ pc[c] = "idle"
    BY DEF Init, NoTxn
  <2>4. IdInv
    BY <2>3 DEF Init, IdInv, Committing
  <2> QED
    BY <2>1, <2>2, <2>4
<1>2. SnapshotInv /\ [Next]_vars => MutexInv' /\ TimestampInv' /\ IdInv'
  BY MutexStep, TimestampStep, IdStep DEF SnapshotInv
<1>3. TypeOK /\ MutexInv /\ TimestampInv /\ IdInv <=> SnapshotInv
  BY DEF SnapshotInv
<1> QED
  BY <1>1, <1>2, <1>3, TypeCorrect, PTL DEF Spec

\* While WAL::logCommittedWAL does not throw, no active transaction can read a version
\* whose commit is not in the log, although commit stamps versions before it logs them.
THEOREM SnapshotsLogged == ASSUME ~WALMayFail PROVE Spec => []SnapshotsAreLogged
<1>1. SnapshotInv => SnapshotsAreLogged
  <2> SUFFICES ASSUME SnapshotInv, NEW t \in activeTransactions, NEW v \in Snapshot(t)
               PROVE  InLog(v)
    BY DEF SnapshotsAreLogged, InLog
  <2>1. v \in versions /\ v.ts <= t.startTS
    BY DEF Snapshot
  <2>2. TypeOK /\ TimestampInv
    BY DEF SnapshotInv
  <2>3. ASSUME NEW c \in Clients, pc[c] = "commitLog", v = Stamp(c) PROVE FALSE
    <3>1. v.ts = lastTimestamp
      BY <2>2, <2>3 DEF Stamp, TimestampInv, Committing
    <3>2. t.startTS < lastTimestamp
      BY <2>2, <2>3 DEF TimestampInv, Committing
    <3>3. t.startTS \in Nat /\ lastTimestamp \in Nat
      BY <2>2, TimeTypes
    <3> QED
      BY <2>1, <3>1, <3>2, <3>3
  <2> QED
    BY <2>1, <2>2, <2>3 DEF TimestampInv
<1> QED
  BY <1>1, SnapshotInvariant, PTL

\* The log is in timestamp order, so that recovery, which replays it front to back,
\* repeats the commits in the order in which they were made.
THEOREM LogInOrder == ASSUME ~WALMayFail PROVE Spec => []LogFollowsTimestamps
<1>1. Init => LogFollowsTimestamps
  BY DEF Init, LogFollowsTimestamps
<1>2. SnapshotInv /\ LogFollowsTimestamps /\ [Next]_vars => LogFollowsTimestamps'
  <2> SUFFICES ASSUME SnapshotInv, LogFollowsTimestamps, [Next]_vars
               PROVE  LogFollowsTimestamps'
    OBVIOUS
  <2>0. TypeOK /\ TimestampInv
    BY DEF SnapshotInv
  <2>1. CASE commitLog' = commitLog
    BY <2>1 DEF LogFollowsTimestamps
  <2>2. ASSUME NEW c \in Clients, CommitLogAndClear(c) PROVE LogFollowsTimestamps'
    <3>1. commitLog' = Append(commitLog, Stamp(c)) /\ pc[c] = "commitLog"
      BY <2>2 DEF CommitLogAndClear
    <3>2. /\ Stamp(c) \in Stamps /\ Stamp(c).ts = lastTimestamp
          /\ \A i \in 1..Len(commitLog) : commitLog[i].ts < lastTimestamp
      BY <2>0, <3>1, StampType DEF Stamp, TimestampInv, Committing
    <3>3. commitLog \in Seq(Stamps)
      BY <2>0, TimeTypes
    <3>4. /\ Len(commitLog') = Len(commitLog) + 1 /\ Len(commitLog) \in Nat
          /\ commitLog'[Len(commitLog) + 1] = Stamp(c)
          /\ \A i \in 1..Len(commitLog) : commitLog'[i] = commitLog[i]
      BY <3>1, <3>2, <3>3
    <3>5. ASSUME NEW i \in 1..Len(commitLog'), NEW j \in 1..Len(commitLog'), i < j
          PROVE  commitLog'[i].ts < commitLog'[j].ts
      <4>1. i \in 1..Len(commitLog)
        BY <3>4, <3>5
      <4>2. CASE j = Len(commitLog) + 1
        BY <3>2, <3>4, <4>1, <4>2
      <4>3. CASE j \in 1..Len(commitLog)
        BY <3>4, <3>5, <4>1, <4>3 DEF LogFollowsTimestamps
      <4> QED
        BY <3>4, <4>2, <4>3
    <3> QED
      BY <3>5 DEF LogFollowsTimestamps
  <2>3. Quiet => commitLog' = commitLog
    BY DEF Quiet
  <2>4. ASSUME NEW c \in Clients, Loud(c), ~CommitLogAndClear(c) PROVE commitLog' = commitLog
    BY Zenon, <2>4 DEF Loud, BeginTransaction, CommitReadOnly, CommitTakesTimestamp, CommitVersions,
                Rollback, CheckpointReturns, CatchCheckpointException, logVars
  <2> QED
    BY <2>0, <2>1, <2>2, <2>3, <2>4, QuietSteps
<1> QED
  BY <1>1, <1>2, SnapshotInvariant, PTL DEF Spec

\* A transaction reads one state of the database from its begin to its end: commits
\* add versions above its startTS only, and rollbacks remove versions of no one else.
THEOREM SnapshotsStable == ASSUME ~WALMayFail PROVE Spec => SnapshotsAreStable
<1> DEFINE Same == \A t \in activeTransactions :
                       t \in activeTransactions' => Snapshot(t)' = Snapshot(t)
<1>1. SnapshotInv /\ [Next]_vars => [Same]_vars
  <2> SUFFICES ASSUME SnapshotInv, [Next]_vars, NEW t \in activeTransactions
               PROVE  Snapshot(t)' = Snapshot(t)
    OBVIOUS
  <2>0. TypeOK /\ TimestampInv /\ IdInv
    BY DEF SnapshotInv
  <2>1. CASE versions' = versions
    BY <2>1 DEF Snapshot
  <2>2. ASSUME NEW c \in Clients, CommitVersions(c) PROVE Snapshot(t)' = Snapshot(t)
    <3>1. versions' \in {versions, versions \union {Stamp(c)}} /\ pc[c] = "commitVersions"
      BY <2>2 DEF CommitVersions
    <3>2. Stamp(c).ts = lastTimestamp /\ t.startTS < lastTimestamp
      BY <2>0, <3>1 DEF Stamp, TimestampInv, Committing
    <3>3. t.startTS \in Nat /\ lastTimestamp \in Nat
      BY <2>0, TimeTypes
    <3>4. ~(Stamp(c).ts <= t.startTS)
      BY <3>2, <3>3
    <3> QED
      BY <3>1, <3>4 DEF Snapshot
  <2>3. ASSUME NEW c \in Clients, Rollback(c) PROVE Snapshot(t)' = Snapshot(t)
    <3>1. versions' = {v \in versions : v.id # cur[c].id} /\ pc[c] = "rollback"
      BY <2>3 DEF Rollback
    <3>2. \A v \in versions : v.id # cur[c].id
      BY <2>0, <3>1 DEF IdInv, Logged
    <3> QED
      BY <2>1, <3>1, <3>2
  <2>4. ASSUME NEW c \in Clients, Loud(c), ~CommitVersions(c), ~Rollback(c)
        PROVE  versions' = versions
    BY Zenon, <2>4 DEF Loud, BeginTransaction, CommitReadOnly, CommitTakesTimestamp,
                CommitLogAndClear, CheckpointReturns, CatchCheckpointException, logVars
  <2> QED
    BY Zenon, <2>0, <2>1, <2>2, <2>3, <2>4, QuietSteps DEF Quiet
<1> QED
  BY <1>1, SnapshotInvariant, PTL DEF Spec, SnapshotsAreStable
===============================================================================
