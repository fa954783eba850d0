-------------------------- MODULE TransactionManager --------------------------
(***************************************************************************)
(* Connections that run statements against one TransactionManager.         *)
(*                                                                         *)
(* A connection (ClientContext with its TransactionContext) runs one       *)
(* statement at a time.  A statement goes through the three calls of       *)
(* TransactionHelper::runFuncInTransaction made by prepareNoLock and       *)
(* executeNoLock: "analyze" (a read-only transaction of its own),          *)
(* "prepare" (bind and plan) and "execute".  The manager's public          *)
(* functions are split at every point where another connection can         *)
(* observe the state: taking mtxForSerializingPublicFunctionCalls (pubMtx),*)
(* taking mtxForStartingNewTransactions (startMtx), the assignment of the  *)
(* commit timestamp, the in-memory commit, the WAL flush and every poll of *)
(* the wait loop of a checkpoint.  KU_ASSERT is modelled as in a build     *)
(* with runtime checks, where it throws.                                   *)
(***************************************************************************)
EXTENDS Integers, Sequences, FiniteSets

CONSTANTS
    Clients,           \* the connections
    NoClient,          \* the owner of a free mutex
    MultiWrites,       \* DBConfig::enableMultiWrites (debug_enable_multi_writes)
    InMemory,          \* clientContext.isInMemory()
    WALMayFail,        \* whether WAL::logCommittedWAL may throw
    MaxWaits,          \* polls that fit in checkpointWaitTimeoutInMicros
    MaxTransactionID   \* bound: statements are issued while ids remain

ASSUME NoClientAssumption == NoClient \notin Clients
ASSUME SwitchAssumption ==
    MultiWrites \in BOOLEAN /\ InMemory \in BOOLEAN /\ WALMayFail \in BOOLEAN
ASSUME BoundAssumption == MaxWaits \in Nat /\ MaxTransactionID \in Nat

VARIABLES
    pubMtx, startMtx,   \* owners of the two mutexes of the manager
    lastTransactionID,  \* counted from START_TRANSACTION_ID
    lastTimestamp,
    activeTransactions, \* the transactions the manager owns
    mode,               \* TransactionContext::mode of each connection
    cur,                \* TransactionContext::activeTransaction
    commitTS,           \* commitTS of the transaction the connection commits
    pc, stmt, stage,    \* where each connection is in its statement
    newTxn,             \* requireNewTransaction of runFuncInTransaction
    numTimesWaited,     \* the counter of the wait loop
    versions,           \* commits whose row versions carry their timestamp
    commitLog           \* history: commits in the order they were logged

mgrVars == <<pubMtx, startMtx, lastTransactionID, lastTimestamp, activeTransactions>>
ctxVars == <<mode, cur>>
stmtVars == <<stmt, stage, newTxn>>
logVars == <<versions, commitLog>>
vars == <<mgrVars, ctxVars, commitTS, pc, stmtVars, numTimesWaited, logVars>>

Statements ==
    {"read", "write", "beginRead", "beginWrite", "commit", "rollback", "checkpoint"}
TransactionStatements == Statements \ {"read", "write"}
Stages == {"analyze", "prepare", "execute"}

\* A Transaction object; the sentinel NoTxn stands for a null pointer.
Transactions == [id : Nat, type : {"NONE", "READ_ONLY", "WRITE"}, startTS : Nat]
NoTxn == [id |-> 0, type |-> "NONE", startTS |-> 0]
HasActiveTransaction(c) == cur[c] # NoTxn

\* The version stamp a committed transaction leaves on its rows.
Stamp(c) == [id |-> cur[c].id, ts |-> commitTS[c]]

\* What a transaction reads: every row version stamped up to its startTS.
Snapshot(t) == {v \in versions : v.ts <= t.startTS}

Init ==
    /\ pubMtx = NoClient /\ startMtx = NoClient
    /\ lastTransactionID = 0 /\ lastTimestamp = 1
    /\ activeTransactions = {}
    /\ mode = [c \in Clients |-> "AUTO"]
    /\ cur = [c \in Clients |-> NoTxn]
    /\ commitTS = [c \in Clients |-> 0]
    /\ pc = [c \in Clients |-> "idle"]
    /\ stmt = [c \in Clients |-> "read"]
    /\ stage = [c \in Clients |-> "analyze"]
    /\ newTxn = [c \in Clients |-> FALSE]
    /\ numTimesWaited = [c \in Clients |-> 0]
    /\ versions = {}
    /\ commitLog = <<>>

Goto(c, label) == pc' = [pc EXCEPT ![c] = label]

(***************************************************************************)
(* The statement loop of a connection (ClientContext).                     *)
(***************************************************************************)

\* A statement begins at most two transactions: one to be analyzed, one to run.
IDsPerStatement == 2
IDsRemain ==
    lastTransactionID + IDsPerStatement * (Cardinality({c \in Clients : pc[c] # "idle"}) + 1)
        <= MaxTransactionID

\* ClientContext::queryNoLock takes up the next statement.
IssueStatement(c) ==
    /\ pc[c] = "idle"
    /\ IDsRemain
    /\ \E s \in Statements : stmt' = [stmt EXCEPT ![c] = s]
    /\ stage' = [stage EXCEPT ![c] = "analyze"]
    /\ Goto(c, "enter")
    /\ UNCHANGED <<mgrVars, ctxVars, commitTS, newTxn, numTimesWaited, logVars>>

\* The KU_ASSERT at the head of runFuncInTransaction.
TransactionAvailable(c) == mode[c] = "AUTO" \/ HasActiveTransaction(c)

\* Whether the call of runFuncInTransaction is made for a transaction statement.
IsTransactionCall(c) == stage[c] # "analyze" /\ stmt[c] \in TransactionStatements

\* runFuncInTransaction up to the call of fun: a failed assertion ends the
\* statement, otherwise an auto transaction is begun when one is needed.
EnterRunFunc(c) ==
    LET new == mode[c] = "AUTO" /\ ~HasActiveTransaction(c) /\ ~IsTransactionCall(c) IN
    /\ pc[c] = "enter"
    /\ newTxn' = [newTxn EXCEPT ![c] = TransactionAvailable(c) /\ new]
    /\ Goto(c, IF ~TransactionAvailable(c) THEN "idle" ELSE IF new THEN "lockBegin" ELSE "fun")
    /\ UNCHANGED <<mgrVars, ctxVars, commitTS, stmt, stage, numTimesWaited, logVars>>

\* validateTransaction, between the analysis and the preparation of a statement.
StatementAllowed(s, t) == t = NoTxn \/ s # "write" \/ t.type # "READ_ONLY"

\* The return of runFuncInTransaction: the next call for the statement, given
\* the transaction t the connection is left with, or its end.
LeaveRunFunc(c, t) ==
    LET goesOn == \/ stage[c] = "analyze" /\ StatementAllowed(stmt[c], t)
                  \/ stage[c] = "prepare" IN
    /\ stage' = IF ~goesOn THEN stage ELSE
                [stage EXCEPT ![c] = IF @ = "analyze" THEN "prepare" ELSE "execute"]
    /\ Goto(c, IF goesOn THEN "enter" ELSE "idle")

\* The condition under which runFuncInTransaction commits after fun: a new
\* transaction when analyzing (COMMIT_IF_NEW), nothing when preparing, any
\* auto transaction when executing.
CommitsAfterFun(c) ==
    \/ stage[c] = "analyze" /\ newTxn[c]
    \/ stage[c] = "execute" /\ ~IsTransactionCall(c) /\ mode[c] = "AUTO"

\* fun() analyzes, binds, plans or executes; it returns or throws.
RunStatement(c) ==
    /\ pc[c] = "fun"
    /\ stage[c] # "execute" \/ stmt[c] \notin TransactionStatements
    /\ \/ Goto(c, "except") /\ stage' = stage
       \/ IF CommitsAfterFun(c) /\ HasActiveTransaction(c)
          THEN Goto(c, "lockCommit") /\ stage' = stage
          ELSE LeaveRunFunc(c, cur[c])
    /\ UNCHANGED <<mgrVars, ctxVars, commitTS, stmt, newTxn, numTimesWaited, logVars>>

\* The transaction operator: validateActiveTransaction, then the call that the
\* action names.  Mode becomes MANUAL before the manager begins a transaction.
RunTransactionStatement(c) ==
    LET invalid == IF stmt[c] \in {"commit", "rollback"}
                   THEN ~HasActiveTransaction(c) ELSE HasActiveTransaction(c)
        begins == stmt[c] \in {"beginRead", "beginWrite"} IN
    /\ pc[c] = "fun" /\ stage[c] = "execute" /\ stmt[c] \in TransactionStatements
    /\ mode' = [mode EXCEPT ![c] = IF ~invalid /\ begins THEN "MANUAL" ELSE @]
    /\ \/ invalid /\ Goto(c, "except")
       \/ ~invalid /\ begins /\ Goto(c, "lockBegin")
       \/ ~invalid /\ stmt[c] = "commit" /\ Goto(c, "lockCommit")
       \/ ~invalid /\ stmt[c] = "rollback" /\ Goto(c, "lockRollback")
       \/ ~invalid /\ stmt[c] = "checkpoint" /\ Goto(c, "lockCheckpoint")
    /\ UNCHANGED <<mgrVars, cur, commitTS, stmtVars, numTimesWaited, logVars>>

\* Mutant: the transaction is dropped from the context but not rolled back.
CatchExceptionForgets(c) ==
    /\ pc[c] = "except"
    /\ cur' = [cur EXCEPT ![c] = NoTxn]
    /\ mode' = [mode EXCEPT ![c] = "AUTO"]
    /\ Goto(c, "idle")
    /\ UNCHANGED <<mgrVars, commitTS, stmtVars, numTimesWaited, logVars>>

\* The catch clause for ordinary exceptions: TransactionContext::rollback, which
\* returns at once (leaving the mode) when there is no active transaction.
CatchException(c) ==
    /\ pc[c] = "except"
    /\ Goto(c, IF HasActiveTransaction(c) THEN "lockRollback" ELSE "idle")
    /\ UNCHANGED <<mgrVars, ctxVars, commitTS, stmtVars, numTimesWaited, logVars>>

\* The catch clause for CheckpointException: TransactionContext::clearTransaction.
CatchCheckpointException(c) ==
    /\ pc[c] = "checkpointExcept"
    /\ cur' = [cur EXCEPT ![c] = NoTxn]
    /\ mode' = [mode EXCEPT ![c] = "AUTO"]
    /\ Goto(c, "idle")
    /\ UNCHANGED <<mgrVars, commitTS, stmtVars, numTimesWaited, logVars>>

\* ~ClientContext, and a new connection in its place.
CloseConnection(c) ==
    /\ pc[c] = "idle"
    /\ stage' = [stage EXCEPT ![c] = "execute"]
    /\ IF HasActiveTransaction(c)
       THEN Goto(c, "lockRollback") /\ mode' = mode
       ELSE pc' = pc /\ mode' = [mode EXCEPT ![c] = "AUTO"]
    /\ UNCHANGED <<mgrVars, cur, commitTS, stmt, newTxn, numTimesWaited, logVars>>

(***************************************************************************)
(* The public functions of TransactionManager.                             *)
(***************************************************************************)

LockingLabels == {"lockBegin", "lockCommit", "lockRollback", "lockCheckpoint"}

\* The function whose lock was waited for; checkpoint returns at once in memory.
EnterPublicFunction(c) ==
    \/ pc[c] = "lockBegin" /\ Goto(c, "begin")
    \/ pc[c] = "lockCommit" /\ Goto(c, "commit")
    \/ pc[c] = "lockRollback" /\ Goto(c, "rollback")
    \/ pc[c] = "lockCheckpoint" /\ Goto(c, IF InMemory THEN "checkpointDone" ELSE "checkpoint")

\* Mutant: beginTransaction relies on mtxForStartingNewTransactions alone.
LockAllButBegin(c) ==
    /\ pc[c] \in LockingLabels
    /\ pubMtx = NoClient \/ pc[c] = "lockBegin"
    /\ pubMtx' = IF pc[c] = "lockBegin" THEN pubMtx ELSE c
    /\ EnterPublicFunction(c)
    /\ UNCHANGED <<startMtx, lastTransactionID, lastTimestamp, activeTransactions, ctxVars,
                   commitTS, stmtVars, numTimesWaited, logVars>>

\* Every public function starts by locking mtxForSerializingPublicFunctionCalls.
LockPublicFunctions(c) ==
    /\ pc[c] \in LockingLabels
    /\ pubMtx = NoClient
    /\ pubMtx' = c
    /\ EnterPublicFunction(c)
    /\ UNCHANGED <<startMtx, lastTransactionID, lastTimestamp, activeTransactions, ctxVars,
                   commitTS, stmtVars, numTimesWaited, logVars>>

\* The type passed to beginTransaction by beginAutoTransaction or by BEGIN.
RequestedType(c) ==
    IF \/ newTxn[c] /\ (stage[c] = "analyze" \/ stmt[c] # "write")
       \/ ~newTxn[c] /\ stmt[c] = "beginRead"
    THEN "READ_ONLY" ELSE "WRITE"

HasActiveWriteTransaction == \E t \in activeTransactions : t.type = "WRITE"

\* Mutant: only the connection's own transaction is looked at.
BeginRefusedByOwn(c) == RequestedType(c) = "WRITE" /\ ~MultiWrites /\ cur[c].type = "WRITE"

\* beginTransaction for a write transaction while another one is active.
BeginRefused(c) ==
    RequestedType(c) = "WRITE" /\ ~MultiWrites /\ HasActiveWriteTransaction

\* beginTransaction throws; no catch clause finds a transaction to roll back.
BeginTransactionThrows(c) ==
    /\ pc[c] = "begin" /\ startMtx = NoClient
    /\ BeginRefused(c)
    /\ pubMtx' = NoClient
    /\ Goto(c, "idle")
    /\ UNCHANGED <<startMtx, lastTransactionID, lastTimestamp, activeTransactions, ctxVars,
                   commitTS, stmtVars, numTimesWaited, logVars>>

\* beginTransaction under both mutexes.
BeginTransaction(c) ==
    LET t == [id |-> lastTransactionID + 1, type |-> RequestedType(c),
              startTS |-> lastTimestamp] IN
    /\ pc[c] = "begin" /\ startMtx = NoClient
    /\ ~BeginRefused(c)
    /\ lastTransactionID' = lastTransactionID + 1
    /\ activeTransactions' = activeTransactions \union {t}
    /\ cur' = [cur EXCEPT ![c] = t]
    /\ pubMtx' = NoClient
    /\ IF newTxn[c] THEN Goto(c, "fun") /\ stage' = stage ELSE LeaveRunFunc(c, t)
    /\ UNCHANGED <<startMtx, lastTimestamp, mode, commitTS, stmt, newTxn, numTimesWaited,
                   logVars>>

\* The return from TransactionContext::commit or rollback: the mutex is
\* released, the context is cleared and the statement goes on.
ReleaseAndClear(c) ==
    /\ pubMtx' = NoClient
    /\ cur' = [cur EXCEPT ![c] = NoTxn]
    /\ mode' = [mode EXCEPT ![c] = "AUTO"]

CommitReadOnly(c) ==
    /\ pc[c] = "commit" /\ cur[c].type = "READ_ONLY"
    /\ activeTransactions' = activeTransactions \ {cur[c]}
    /\ ReleaseAndClear(c)
    /\ LeaveRunFunc(c, NoTxn)
    /\ UNCHANGED <<startMtx, lastTransactionID, lastTimestamp, commitTS, stmt, newTxn,
                   numTimesWaited, logVars>>

\* Mutant: the transaction commits at the timestamp that readers already hold.
CommitReusesTimestamp(c) ==
    /\ pc[c] = "commit" /\ cur[c].type = "WRITE"
    /\ lastTimestamp' = lastTimestamp + 1
    /\ commitTS' = [commitTS EXCEPT ![c] = lastTimestamp]
    /\ Goto(c, "commitVersions")
    /\ UNCHANGED <<pubMtx, startMtx, lastTransactionID, activeTransactions, ctxVars, stmtVars,
                   numTimesWaited, logVars>>

\* Mutant: lastTimestamp is not advanced.
CommitKeepsTimestamp(c) ==
    /\ pc[c] = "commit" /\ cur[c].type = "WRITE"
    /\ commitTS' = [commitTS EXCEPT ![c] = lastTimestamp + 1]
    /\ Goto(c, "commitVersions")
    /\ UNCHANGED <<mgrVars, ctxVars, stmtVars, numTimesWaited, logVars>>

\* commit of a write transaction takes the next timestamp.
CommitTakesTimestamp(c) ==
    /\ pc[c] = "commit" /\ cur[c].type = "WRITE"
    /\ lastTimestamp' = lastTimestamp + 1
    /\ commitTS' = [commitTS EXCEPT ![c] = lastTimestamp + 1]
    /\ Goto(c, "commitVersions")
    /\ UNCHANGED <<pubMtx, startMtx, lastTransactionID, activeTransactions, ctxVars, stmtVars,
                   numTimesWaited, logVars>>

\* Transaction::commit: LocalStorage::commit, which may throw (a duplicated
\* key, a failed allocation), then UndoBuffer::commit stamps the row versions.
CommitVersions(c) ==
    /\ pc[c] = "commitVersions"
    /\ \/ versions' = versions \union {Stamp(c)} /\ pubMtx' = pubMtx
          /\ Goto(c, "commitLog")
       \/ versions' = versions /\ pubMtx' = NoClient /\ Goto(c, "except")
    /\ UNCHANGED <<startMtx, lastTransactionID, lastTimestamp, activeTransactions, ctxVars,
                   commitTS, stmtVars, numTimesWaited, commitLog>>

\* WAL::logCommittedWAL throws; the exception leaves TransactionManager::commit.
CommitLogThrows(c) ==
    /\ pc[c] = "commitLog" /\ WALMayFail /\ ~InMemory
    /\ pubMtx' = NoClient
    /\ Goto(c, "except")
    /\ UNCHANGED <<startMtx, lastTransactionID, lastTimestamp, activeTransactions, ctxVars,
                   commitTS, stmtVars, numTimesWaited, logVars>>

\* The log is flushed and the transaction leaves the manager; a checkpoint
\* follows when it is forced (COPY FROM) or the WAL has passed its threshold.
CommitLogAndClear(c) ==
    /\ pc[c] = "commitLog"
    /\ commitLog' = Append(commitLog, Stamp(c))
    /\ activeTransactions' = activeTransactions \ {cur[c]}
    /\ \/ Goto(c, "checkpointDone")
       \/ ~InMemory /\ Goto(c, "checkpoint")
    /\ UNCHANGED <<pubMtx, startMtx, lastTransactionID, lastTimestamp, ctxVars, commitTS,
                   stmtVars, numTimesWaited, versions>>

\* TransactionManager::rollback: the versions of the transaction are undone.
Rollback(c) ==
    /\ pc[c] = "rollback"
    /\ versions' = {v \in versions : v.id # cur[c].id}
    /\ activeTransactions' = activeTransactions \ {cur[c]}
    /\ ReleaseAndClear(c)
    /\ Goto(c, "idle")
    /\ UNCHANGED <<startMtx, lastTransactionID, lastTimestamp, commitTS, stmtVars,
                   numTimesWaited, commitLog>>

\* checkpointNoLock: stopNewTransactionsAndWaitUntilAllTransactionsLeave begins.
StopNewTransactions(c) ==
    /\ pc[c] = "checkpoint" /\ startMtx = NoClient
    /\ startMtx' = c
    /\ numTimesWaited' = [numTimesWaited EXCEPT ![c] = 0]
    /\ Goto(c, "wait")
    /\ UNCHANGED <<pubMtx, lastTransactionID, lastTimestamp, activeTransactions, ctxVars,
                   commitTS, stmtVars, logVars>>

WaitTimedOut(c) == numTimesWaited[c] + 1 > MaxWaits

\* Mutant: polls are not counted.
WaitForever(c) ==
    /\ pc[c] = "wait" /\ activeTransactions # {} /\ ~WaitTimedOut(c)
    /\ UNCHANGED vars

\* One poll of the wait loop that finds active transactions and sleeps.
WaitAgain(c) ==
    /\ pc[c] = "wait" /\ activeTransactions # {} /\ ~WaitTimedOut(c)
    /\ numTimesWaited' = [numTimesWaited EXCEPT ![c] = @ + 1]
    /\ UNCHANGED <<mgrVars, ctxVars, commitTS, pc, stmtVars, logVars>>

\* Mutant: a wait that times out writes the checkpoint all the same.
WaitTimesOutAndWrites(c) ==
    /\ pc[c] = "wait" /\ activeTransactions # {} /\ WaitTimedOut(c)
    /\ numTimesWaited' = [numTimesWaited EXCEPT ![c] = 0]
    /\ startMtx' = NoClient
    /\ Goto(c, "writeCheckpoint")
    /\ UNCHANGED <<pubMtx, lastTransactionID, lastTimestamp, activeTransactions, ctxVars,
                   commitTS, stmtVars, logVars>>

\* The wait times out: both mutexes are released by the exception.
WaitTimesOut(c) ==
    /\ pc[c] = "wait" /\ activeTransactions # {} /\ WaitTimedOut(c)
    /\ numTimesWaited' = [numTimesWaited EXCEPT ![c] = 0]
    /\ startMtx' = NoClient /\ pubMtx' = NoClient
    /\ Goto(c, "checkpointExcept")
    /\ UNCHANGED <<lastTransactionID, lastTimestamp, activeTransactions, ctxVars, commitTS,
                   stmtVars, logVars>>

\* The wait succeeds.  The lock it returns lives to the end of the try block
\* of checkpointNoLock, so mtxForStartingNewTransactions is free from here on.
WaitSucceeds(c) ==
    /\ pc[c] = "wait" /\ activeTransactions = {}
    /\ numTimesWaited' = [numTimesWaited EXCEPT ![c] = 0]
    /\ startMtx' = NoClient
    /\ Goto(c, "writeCheckpoint")
    /\ UNCHANGED <<pubMtx, lastTransactionID, lastTimestamp, activeTransactions, ctxVars,
                   commitTS, stmtVars, logVars>>

\* Checkpointer::writeCheckpoint, which may throw; then Checkpointer::rollback.
WriteCheckpoint(c) ==
    /\ pc[c] = "writeCheckpoint"
    /\ \/ Goto(c, "checkpointDone") /\ pubMtx' = pubMtx
       \/ Goto(c, "checkpointExcept") /\ pubMtx' = NoClient
    /\ UNCHANGED <<startMtx, lastTransactionID, lastTimestamp, activeTransactions, ctxVars,
                   commitTS, stmtVars, numTimesWaited, logVars>>

\* The return of commit, which clears the context, or of checkpoint, which
\* leaves it alone (a CHECKPOINT statement runs without a transaction).
CheckpointReturns(c) ==
    /\ pc[c] = "checkpointDone"
    /\ IF HasActiveTransaction(c)
       THEN ReleaseAndClear(c) ELSE pubMtx' = NoClient /\ UNCHANGED ctxVars
    /\ LeaveRunFunc(c, NoTxn)
    /\ UNCHANGED <<startMtx, lastTransactionID, lastTimestamp, activeTransactions, commitTS,
                   stmt, newTxn, numTimesWaited, logVars>>

ClientStep(c) ==
    \/ EnterRunFunc(c) \/ RunStatement(c) \/ RunTransactionStatement(c)
    \/ CatchException(c) \/ CatchCheckpointException(c)
    \/ LockPublicFunctions(c) \/ BeginTransaction(c) \/ BeginTransactionThrows(c)
    \/ CommitReadOnly(c) \/ CommitTakesTimestamp(c) \/ CommitVersions(c)
    \/ CommitLogAndClear(c) \/ CommitLogThrows(c) \/ Rollback(c)
    \/ StopNewTransactions(c) \/ WaitAgain(c) \/ WaitTimesOut(c) \/ WaitSucceeds(c)
    \/ WriteCheckpoint(c) \/ CheckpointReturns(c)

Next == \E c \in Clients : IssueStatement(c) \/ CloseConnection(c) \/ ClientStep(c)

Spec == Init /\ [][Next]_vars

\* A connection that is inside a statement keeps running.
FairSpec == Spec /\ \A c \in Clients : WF_vars(ClientStep(c))

(***************************************************************************)
(* Properties.                                                             *)
(***************************************************************************)

Labels == LockingLabels \union
    {"idle", "enter", "fun", "except", "checkpointExcept", "begin", "commit",
     "commitVersions", "commitLog", "rollback", "checkpoint", "wait",
     "writeCheckpoint", "checkpointDone"}
Stamps == [id : Nat, ts : Nat]

\* Every variable has its type.
TypeOK ==
    /\ pubMtx \in Clients \union {NoClient} /\ startMtx \in Clients \union {NoClient}
    /\ lastTransactionID \in Nat /\ lastTimestamp \in Nat
    /\ activeTransactions \subseteq Transactions
    /\ mode \in [Clients -> {"AUTO", "MANUAL"}]
    /\ cur \in [Clients -> Transactions]
    /\ commitTS \in [Clients -> Nat]
    /\ pc \in [Clients -> Labels]
    /\ stmt \in [Clients -> Statements]
    /\ stage \in [Clients -> Stages]
    /\ newTxn \in [Clients -> BOOLEAN]
    /\ numTimesWaited \in [Clients -> Nat]
    /\ versions \subseteq Stamps
    /\ commitLog \in Seq(Stamps)

\* beginTransaction refuses a second writer: unless multi-writes are enabled, no
\* two write transactions are ever active together.
SingleWriter ==
    ~MultiWrites =>
        \A t, u \in activeTransactions : t.type = "WRITE" /\ u.type = "WRITE" => t = u

\* checkpointNoLock releases mtxForStartingNewTransactions before writeCheckpoint
\* runs: even so, no transaction is active while a checkpoint is written.
CheckpointRunsAlone ==
    \A c \in Clients : pc[c] = "writeCheckpoint" => activeTransactions = {}

\* commit stamps the row versions before it flushes the WAL: no active
\* transaction can read a version whose commit has not reached the log.
SnapshotsAreLogged ==
    \A t \in activeTransactions : \A v \in Snapshot(t) :
        \E i \in 1..Len(commitLog) : commitLog[i] = v

\* A transaction reads one state of the database: the versions within its
\* startTS are the same from beginTransaction to commit or rollback.
SnapshotsAreStable ==
    [][\A t \in activeTransactions : t \in activeTransactions' => Snapshot(t)' = Snapshot(t)]_vars

\* Recovery replays the WAL front to back: the log order of commits is the order
\* of their timestamps, strictly.
LogFollowsTimestamps ==
    \A i, j \in 1..Len(commitLog) : i < j => commitLog[i].ts < commitLog[j].ts

\* Every transaction the manager keeps is reachable from exactly one connection,
\* so it will be finished (a leaked one would block every later checkpoint), and
\* a connection between two statements holds no pointer to a cleared transaction.
TransactionsAreOwned ==
    /\ \A t \in activeTransactions :
        \E c \in Clients : cur[c] = t /\ \A d \in Clients \ {c} : cur[d] # t
    /\ \A c \in Clients :
        pc[c] \in {"idle", "enter", "fun"} /\ HasActiveTransaction(c)
            => cur[c] \in activeTransactions

\* A connection outside the manager holds neither of its mutexes: every return
\* and every exception (refused begin, failed commit, timed-out or failed
\* checkpoint) releases what was taken.
MutexesAreReleased ==
    \A c \in Clients :
        pc[c] \in LockingLabels \union {"idle", "enter", "fun", "except", "checkpointExcept"}
            => pubMtx # c /\ startMtx # c

\* Every statement ends: the checkpoint wait, which keeps all other connections
\* from committing, gives up, and no mutex is kept forever.
StatementsEnd == \A c \in Clients : pc[c] # "idle" ~> pc[c] = "idle"

\* The KU_ASSERT of runFuncInTransaction (client_context.cpp:577): a statement is
\* run in AUTO mode or inside an active transaction.
RunFuncAssertion == \A c \in Clients : pc[c] = "enter" => TransactionAvailable(c)

===============================================================================
