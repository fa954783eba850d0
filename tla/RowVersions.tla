----------------------------- MODULE RowVersions -----------------------------
(* Multi-version storage of one vector of a node table: which rows exist for  *)
(* whom (VectorVersionInfo), which updates of a column each transaction sees  *)
(* (UpdateInfo), and the undo buffer whose records a commit stamps and a      *)
(* rollback reverts, one record per step, while other transactions read.      *)
(*                                                                          *)
(* The history variable db holds, for every timestamp, the contents that the *)
(* commits up to it leave.                                                   *)
EXTENDS Integers, Sequences, FiniteSets, SequencesExt

CONSTANTS
    Capacity,       \* rows of the vector (DEFAULT_VECTOR_CAPACITY in the code)
    Values,         \* values of the column
    MaxTxns,        \* transactions begun (bound)
    Setups          \* the settings to check, one of them per behaviour

\* A setting.  A vector belongs either to a checkpointed chunked group, which
\* takes no appends (NodeGroup::append opens a new group), or to one in memory.
SetupOK(s) ==
    /\ s.onDisk \in {0, Capacity}          \* rows that a checkpoint left in the vector
    /\ s.maxUndo \in Nat                  \* undo records of a transaction's statements (bound)
    /\ s.matchTwice \in BOOLEAN           \* whether a statement may delete a row twice
    /\ s.enableMultiWrites \in BOOLEAN    \* debug_enable_multi_writes
    /\ s.faults \subseteq {"append", "index", "log"}  \* where a commit may throw

ASSUME SizeAssumption == Capacity \in Nat \ {0} /\ MaxTxns \in Nat \ {0}
ASSUME SetupAssumption == \A s \in Setups : SetupOK(s)

VARIABLES
    setup,      \* the setting of this behaviour
    vinfo,      \* the VectorVersionInfo, or NoInfo
    numRows,    \* rows of the chunked group
    base,       \* the values in the column chunk, without updates
    chain,      \* the vector's updates, newest first
    txn,        \* the transactions
    lastTS,     \* TransactionManager::lastTimestamp
    db          \* history: contents after each timestamp

vars == <<setup, vinfo, numRows, base, chain, txn, lastTS, db>>

Rows == 0 .. Capacity - 1
Txns == 1 .. MaxTxns
Absent == "absent"
Some == CHOOSE v \in Values : TRUE

\* Transaction IDs lie above every timestamp, and INVALID_TRANSACTION above both.
StartTransactionID == MaxTxns + 2
ID(t) == StartTransactionID + t
INVALID == StartTransactionID + MaxTxns + 1
Versions == 0 .. INVALID

NoInfo == [ins |-> "none"]
NoArray == <<>>

NewVectorInfo ==
    [ins |-> "NO_INSERTED", sameIns |-> INVALID, insV |-> NoArray,
     del |-> "NO_DELETED", delV |-> NoArray]

VInfos ==
    {NoInfo} \union
    [ins : {"NO_INSERTED", "CHECK_VERSION", "ALWAYS_INSERTED"}, sameIns : Versions,
     insV : {NoArray} \union [Rows -> Versions],
     del : {"NO_DELETED", "CHECK_VERSION"}, delV : {NoArray} \union [Rows -> Versions]]

Fill(v) == [r \in Rows |-> v]
Overwrite(f, g) == [x \in DOMAIN f \union DOMAIN g |-> IF x \in DOMAIN g THEN g[x] ELSE f[x]]

--------------------------------------------------------------------------------
(* VectorVersionInfo                                                        *)

getOrCreate(v) == IF v = NoInfo THEN NewVectorInfo ELSE v

appendKeepsArrayEmpty(v, id, start, n) ==
    LET w == getOrCreate(v)
    IN  IF w.sameIns = INVALID /\ w.insV = NoArray
        THEN [w EXCEPT !.ins = "CHECK_VERSION", !.sameIns = id]
        ELSE LET old == IF w.insV = NoArray THEN Fill(INVALID) ELSE w.insV
             IN  [w EXCEPT !.ins = "CHECK_VERSION", !.sameIns = INVALID,
                           !.insV = [r \in Rows |-> IF r \in start .. start + n - 1 THEN id ELSE old[r]]]

append(v, id, start, n) ==
    LET w == [getOrCreate(v) EXCEPT !.ins = "CHECK_VERSION"]
        old == IF w.insV = NoArray
               THEN [r \in Rows |-> IF r < start THEN w.sameIns ELSE INVALID]
               ELSE w.insV
    IN  IF w.sameIns = id
        THEN w
        ELSE IF w.sameIns = INVALID /\ w.insV = NoArray
             THEN [w EXCEPT !.sameIns = id]
             ELSE [w EXCEPT !.sameIns = INVALID,
                            !.insV = [r \in Rows |-> IF r \in start .. start + n - 1 THEN id ELSE old[r]]]

\* VersionInfo::delete_ and VectorVersionInfo::delete_, up to the check of the row.
prepareDelete(v) ==
    LET w == getOrCreate(v)
    IN  [w EXCEPT !.ins = IF @ = "NO_INSERTED" THEN "ALWAYS_INSERTED" ELSE @,
                  !.del = "CHECK_VERSION",
                  !.delV = IF @ = NoArray THEN Fill(INVALID) ELSE @]

deleteConflict(v, id, row) == prepareDelete(v).delV[row] \notin {id, INVALID}

delete(v, id, row) == [prepareDelete(v) EXCEPT !.delV[row] = id]

setInsertCommitTS(v, ts, start, n) ==
    IF v.sameIns # INVALID
    THEN [v EXCEPT !.sameIns = ts]
    ELSE [v EXCEPT !.insV = [r \in Rows |-> IF r \in start .. start + n - 1 THEN ts ELSE @[r]]]

setDeleteCommitTS(v, ts, row) == [v EXCEPT !.delV[row] = ts]

isInserted(v, startTS, id, row) ==
    \/ v.ins = "ALWAYS_INSERTED"
    \/ /\ v.ins = "CHECK_VERSION"
       /\ LET insertion == IF v.sameIns # INVALID THEN v.sameIns ELSE v.insV[row]
          IN  insertion = id \/ insertion <= startTS

isDeleted(v, startTS, id, row) ==
    /\ v.del = "CHECK_VERSION"
    /\ v.delV[row] = id \/ v.delV[row] <= startTS

isSelected(v, startTS, id, row) ==
    \/ v = NoInfo
    \/ isInserted(v, startTS, id, row) /\ ~isDeleted(v, startTS, id, row)

rollbackInsertions(v, start, n) ==
    LET cleared == [r \in Rows |-> IF r \in start .. start + n - 1 THEN INVALID ELSE v.insV[r]]
        w == IF v.sameIns # INVALID
             THEN [v EXCEPT !.sameIns = INVALID]
             ELSE IF v.insV = NoArray
                  THEN v
                  ELSE [v EXCEPT !.insV = IF cleared = Fill(INVALID) THEN NoArray ELSE cleared]
    IN  IF w.insV = NoArray THEN [w EXCEPT !.ins = "NO_INSERTED", !.del = "NO_DELETED"] ELSE w

rollbackDeletionsAll(v, row) == [v EXCEPT !.delV = NoArray, !.del = "NO_DELETED"]

rollbackDeletionsOfOwner(v, row) ==
    IF v.delV # NoArray /\ v.delV[row] <= StartTransactionID
    THEN v
    ELSE rollbackDeletionsAll(v, row)

rollbackDeletions(v, row) ==
    LET cleared == [v.delV EXCEPT ![row] = INVALID]
        w == IF v.delV = NoArray
             THEN v
             ELSE [v EXCEPT !.delV = IF cleared = Fill(INVALID) THEN NoArray ELSE cleared]
    IN  IF w.delV = NoArray THEN [w EXCEPT !.del = "NO_DELETED"] ELSE w

--------------------------------------------------------------------------------
(* UpdateInfo: a chain of VectorUpdateInfo, one per updating transaction.    *)
(* "owner" stands for the pointer that the undo record keeps to its node.    *)

noUpdateConflict(t, row) == FALSE

updateConflict(t, row) ==
    \E i \in DOMAIN chain :
        /\ chain[i].version # ID(t)
        /\ chain[i].version > txn[t].startTS
        /\ row \in DOMAIN chain[i].vals

update(t, row, v) ==
    IF \E i \in DOMAIN chain : chain[i].version = ID(t)
    THEN [i \in DOMAIN chain |->
             IF chain[i].version = ID(t)
             THEN [chain[i] EXCEPT !.vals = Overwrite(@, [r \in {row} |-> v])]
             ELSE chain[i]]
    ELSE <<[version |-> ID(t), owner |-> t, vals |-> [r \in {row} |-> v]]>> \o chain

updateVisible(u, startTS, id) == u.version = id \/ u.version <= startTS

\* The newest visible update of the row, else the column's value.
lookup(startTS, id, row) ==
    LET seen == {i \in DOMAIN chain : updateVisible(chain[i], startTS, id) /\ row \in DOMAIN chain[i].vals}
    IN  IF seen = {} THEN base[row + 1] ELSE chain[CHOOSE i \in seen : \A j \in seen : i <= j].vals[row]

commitUpdates(t, ts) ==
    [i \in DOMAIN chain |-> IF chain[i].owner = t THEN [chain[i] EXCEPT !.version = ts] ELSE chain[i]]

rollbackUpdates(version) == SelectSeq(chain, LAMBDA u : u.version # version)

--------------------------------------------------------------------------------
(* What a transaction reads of a row: NodeGroup::lookup and scan.            *)

ReadAs(startTS, id, row) ==
    IF row < numRows /\ isSelected(vinfo, startTS, id, row)
    THEN lookup(startTS, id, row)
    ELSE Absent

Read(t, row) == ReadAs(txn[t].startTS, ID(t), row)

--------------------------------------------------------------------------------
(* Transactions                                                             *)

Phases == {"unborn", "active", "append", "stamp", "log", "failed", "rollback", "done", "committed"}

\* Where TransactionManager holds its public mutex.
Held == \E t \in Txns : txn[t].phase \in {"append", "stamp", "log", "rollback"}

Unfinished(t) == txn[t].phase \notin {"unborn", "done", "committed"}
Writing == {t \in Txns : Unfinished(t) /\ txn[t].write}

Unborn ==
    [phase |-> "unborn", write |-> FALSE, startTS |-> 0, commitTS |-> 0, local |-> <<>>,
     undo |-> <<>>, pos |-> 0, ws |-> <<>>]

Init ==
    /\ setup \in Setups
    /\ vinfo = NoInfo
    /\ numRows = setup.onDisk
    /\ base = [i \in 1 .. setup.onDisk |-> Some]
    /\ chain = <<>>
    /\ txn = [t \in Txns |-> Unborn]
    /\ lastTS = 1
    /\ db = <<[r \in Rows |-> IF r < setup.onDisk THEN Some ELSE Absent]>>

Begin(t, write) ==
    /\ txn[t].phase = "unborn"
    /\ \A u \in 1 .. t - 1 : txn[u].phase # "unborn"
    /\ ~Held
    /\ write /\ ~setup.enableMultiWrites => Writing = {}
    /\ txn' = [txn EXCEPT ![t].phase = "active", ![t].write = write, ![t].startTS = lastTS]
    /\ UNCHANGED <<vinfo, numRows, base, chain, lastTS, db>>

Runs(t) == txn[t].phase = "active" /\ txn[t].write

\* Rows of the vector that are neither appended nor waiting in a local table.
RoomLeft == numRows + MapThenSumSet(LAMBDA t : Len(txn[t].local), Txns) < Capacity

\* NodeTable::insert and LocalNodeTable: rows stay local until the commit.
Insert(t, v) ==
    /\ Runs(t)
    /\ RoomLeft
    /\ txn' = [txn EXCEPT ![t].local = Append(@, v)]
    /\ UNCHANGED <<vinfo, numRows, base, chain, lastTS, db>>

\* NodeTable::delete_ of a row of the local table.
DeleteLocal(t, i) ==
    /\ Runs(t)
    /\ txn[t].local[i] # Absent
    /\ txn' = [txn EXCEPT ![t].local[i] = Absent]
    /\ UNCHANGED <<vinfo, numRows, base, chain, lastTS, db>>

DeletedBy(t) == {row \in DOMAIN txn[t].ws : txn[t].ws[row] = Absent}

\* NodeTable::delete_ of a committed row. The statement has read the row, and
\* may delete it a second time (two matches of one node); the undo record is
\* pushed whatever VectorVersionInfo::delete_ returns.
Delete(t, row) ==
    /\ Runs(t)
    /\ Len(txn[t].undo) < setup.maxUndo
    /\ Read(t, row) # Absent \/ (setup.matchTwice /\ row \in DeletedBy(t))
    /\ ~deleteConflict(vinfo, ID(t), row)
    /\ vinfo' = delete(vinfo, ID(t), row)
    /\ txn' = [txn EXCEPT ![t].undo = Append(@, <<"delete", row, 1>>),
                          ![t].ws = Overwrite(@, [r \in {row} |-> Absent])]
    /\ UNCHANGED <<numRows, base, chain, lastTS, db>>

\* "Write-write conflict": the statement fails and its transaction rolls back.
DeleteConflicts(t, row) ==
    /\ Runs(t)
    /\ Read(t, row) # Absent
    /\ deleteConflict(vinfo, ID(t), row)
    /\ vinfo' = prepareDelete(vinfo)
    /\ txn' = [txn EXCEPT ![t].phase = "failed"]
    /\ UNCHANGED <<numRows, base, chain, lastTS, db>>

\* ColumnChunk::update.
Update(t, row, v) ==
    /\ Runs(t)
    /\ Len(txn[t].undo) < setup.maxUndo
    /\ Read(t, row) # Absent
    /\ ~updateConflict(t, row)
    /\ chain' = update(t, row, v)
    /\ txn' = [txn EXCEPT ![t].undo = Append(@, <<"update">>),
                          ![t].ws = Overwrite(@, [r \in {row} |-> v])]
    /\ UNCHANGED <<vinfo, numRows, base, lastTS, db>>

UpdateConflicts(t, row) ==
    /\ Runs(t)
    /\ Read(t, row) # Absent
    /\ updateConflict(t, row)
    /\ txn' = [txn EXCEPT ![t].phase = "failed"]
    /\ UNCHANGED <<vinfo, numRows, base, chain, lastTS, db>>

EndReading(t) ==
    /\ txn[t].phase = "active"
    /\ ~txn[t].write
    /\ ~Held
    /\ txn' = [txn EXCEPT ![t].phase = "done"]
    /\ UNCHANGED <<vinfo, numRows, base, chain, lastTS, db>>

StartCommit(t) ==
    /\ Runs(t)
    /\ ~Held
    /\ lastTS' = lastTS + 1
    /\ db' = Append(db, Last(db))
    /\ txn' = [txn EXCEPT ![t].phase = "append", ![t].commitTS = lastTS']
    /\ UNCHANGED <<vinfo, numRows, base, chain>>

\* NodeTable::commit: append every local row, then delete those deleted locally.
Appended(t) == numRows .. numRows + Len(txn[t].local) - 1
LocalRow(t, row) == txn[t].local[row - numRows + 1]
DeletedLocally(t) == {row \in Appended(t) : LocalRow(t, row) = Absent}

RowsAppended(t) ==
    LET n == Len(txn[t].local)
        v == append(vinfo, ID(t), numRows, n)
    IN  /\ numRows' = numRows + n
        /\ base' = base \o [i \in 1 .. n |-> IF txn[t].local[i] = Absent THEN Some ELSE txn[t].local[i]]
        /\ vinfo' = IF n = 0 THEN vinfo
                    ELSE FoldSet(LAMBDA row, w : delete(w, ID(t), row), v, DeletedLocally(t))

InsertRecord(t) == IF txn[t].local = <<>> THEN <<>> ELSE <<<<"insert", numRows, Len(txn[t].local)>>>>
DeleteRecords(t) ==
    LET rows == SetToSortSeq(DeletedLocally(t), LAMBDA r, s : r < s)
    IN  [i \in DOMAIN rows |-> <<"delete", rows[i], 1>>]

CommitLocalStorage(t) ==
    /\ txn[t].phase = "append"
    /\ RowsAppended(t)
    /\ txn' = [txn EXCEPT
                 ![t].phase = "stamp", ![t].pos = 1, ![t].local = <<>>,
                 ![t].undo = @ \o InsertRecord(t) \o DeleteRecords(t),
                 ![t].ws = Overwrite(@, [r \in Appended(t) |-> LocalRow(t, r)])]
    /\ UNCHANGED <<chain, lastTS, db>>

\* NodeGroup::append throws after the undo record is pushed; handleAppendException
\* cuts the column chunks back to the rows of the group.
AppendFails(t) ==
    /\ "append" \in setup.faults
    /\ txn[t].phase = "append"
    /\ txn[t].local # <<>>
    /\ txn' = [txn EXCEPT ![t].phase = "failed", ![t].undo = @ \o InsertRecord(t)]
    /\ base' = SubSeq(base, 1, numRows)
    /\ UNCHANGED <<vinfo, numRows, chain, lastTS, db>>

\* An index refuses a row that is already appended (a duplicate primary key).
IndexFails(t) ==
    /\ "index" \in setup.faults
    /\ txn[t].phase = "append"
    /\ txn[t].local # <<>>
    /\ RowsAppended(t)
    /\ txn' = [txn EXCEPT ![t].phase = "failed", ![t].undo = @ \o InsertRecord(t) \o DeleteRecords(t)]
    /\ UNCHANGED <<chain, lastTS, db>>

\* NodeGroup::applyFuncToChunkedGroups does nothing for a row that another
\* transaction's rollback has truncated.
HasRow(row) == row < numRows

\* UndoBuffer::commit, one record at a time, oldest first.
commitRecord(t) ==
    LET record == txn[t].undo[txn[t].pos]
        ts == txn[t].commitTS
    IN  CASE record[1] = "insert" ->
                /\ vinfo' = setInsertCommitTS(vinfo, ts, record[2], record[3])
                /\ UNCHANGED chain
          [] record[1] = "delete" ->
                /\ vinfo' = IF HasRow(record[2]) THEN setDeleteCommitTS(vinfo, ts, record[2]) ELSE vinfo
                /\ UNCHANGED chain
          [] record[1] = "update" ->
                /\ chain' = commitUpdates(t, ts)
                /\ UNCHANGED vinfo

Stamp(t) ==
    /\ txn[t].phase = "stamp"
    /\ txn[t].pos <= Len(txn[t].undo)
    /\ commitRecord(t)
    /\ txn' = [txn EXCEPT ![t].pos = @ + 1]
    /\ UNCHANGED <<numRows, base, lastTS, db>>

StampedAllButOne(t) ==
    /\ txn[t].phase = "stamp"
    /\ txn[t].pos >= Len(txn[t].undo)
    /\ txn' = [txn EXCEPT ![t].phase = "log"]
    /\ UNCHANGED <<vinfo, numRows, base, chain, lastTS, db>>

StampedAll(t) ==
    /\ txn[t].phase = "stamp"
    /\ txn[t].pos > Len(txn[t].undo)
    /\ txn' = [txn EXCEPT ![t].phase = "log"]
    /\ UNCHANGED <<vinfo, numRows, base, chain, lastTS, db>>

\* What the commit leaves. An update of a row that a concurrent transaction
\* has deleted in the meantime leaves the row deleted.
Outcome(t) ==
    LET before == db[txn[t].startTS]
        now == Last(db)
        ws == txn[t].ws
    IN  [r \in Rows |-> IF r \notin DOMAIN ws \/ (before[r] # Absent /\ now[r] = Absent)
                        THEN now[r] ELSE ws[r]]

\* WAL::logCommittedWAL returns, and the commit with it.
LogCommit(t) ==
    /\ txn[t].phase = "log"
    /\ db' = [db EXCEPT ![txn[t].commitTS] = Outcome(t)]
    /\ txn' = [txn EXCEPT ![t].phase = "committed"]
    /\ UNCHANGED <<vinfo, numRows, base, chain, lastTS>>

\* It throws: the mutex is free until the client's rollback takes it.
LogFails(t) ==
    /\ "log" \in setup.faults
    /\ txn[t].phase = "log"
    /\ txn' = [txn EXCEPT ![t].phase = "failed"]
    /\ UNCHANGED <<vinfo, numRows, base, chain, lastTS, db>>

\* The user's ROLLBACK, or the one that follows an exception.
StartRollback(t) ==
    /\ Runs(t) \/ txn[t].phase = "failed"
    /\ ~Held
    /\ txn' = [txn EXCEPT ![t].phase = "rollback", ![t].pos = Len(txn[t].undo), ![t].local = <<>>]
    /\ UNCHANGED <<vinfo, numRows, base, chain, lastTS, db>>

\* NodeTableVersionRecordHandler::rollbackInsert on the chunked group; a group
\* that is left empty is removed with its updates. The column chunks of one
\* that keeps rows are not truncated, and later rows are appended behind.
rollbackInsert(start, n) ==
    \/ /\ start >= numRows
       /\ UNCHANGED <<vinfo, numRows, base, chain>>
    \/ /\ start < numRows
       /\ numRows' = start
       /\ vinfo' = IF start = 0 THEN NoInfo ELSE rollbackInsertions(vinfo, start, Min({n, numRows - start}))
       /\ base' = IF start = 0 THEN <<>> ELSE base
       /\ chain' = IF start = 0 THEN <<>> ELSE chain

\* UndoBuffer::rollback, one record at a time, newest first.
rollbackRecord(t) ==
    LET record == txn[t].undo[txn[t].pos]
    IN  CASE record[1] = "insert" -> rollbackInsert(record[2], record[3])
          [] record[1] = "delete" ->
                /\ vinfo' = IF HasRow(record[2]) THEN rollbackDeletions(vinfo, record[2]) ELSE vinfo
                /\ UNCHANGED <<numRows, base, chain>>
          [] record[1] = "update" ->
                /\ chain' = rollbackUpdates(ID(t))
                /\ UNCHANGED <<vinfo, numRows, base>>

Undo(t) ==
    /\ txn[t].phase = "rollback"
    /\ txn[t].pos > 0
    /\ rollbackRecord(t)
    /\ txn' = [txn EXCEPT ![t].pos = @ - 1]
    /\ UNCHANGED <<lastTS, db>>

RolledBack(t) ==
    /\ txn[t].phase = "rollback"
    /\ txn[t].pos = 0
    /\ txn' = [txn EXCEPT ![t].phase = "done"]
    /\ UNCHANGED <<vinfo, numRows, base, chain, lastTS, db>>

\* The bound on transactions is reached and none is left.
AllDone ==
    /\ \A t \in Txns : txn[t].phase \in {"done", "committed"}
    /\ UNCHANGED vars

Step ==
    \/ AllDone
    \/ \E t \in Txns :
        \/ \E write \in BOOLEAN : Begin(t, write)
        \/ \E v \in Values : Insert(t, v)
        \/ \E i \in DOMAIN txn[t].local : DeleteLocal(t, i)
        \/ \E row \in Rows : Delete(t, row)
        \/ \E row \in Rows : DeleteConflicts(t, row)
        \/ \E row \in Rows, v \in Values : Update(t, row, v)
        \/ \E row \in Rows : UpdateConflicts(t, row)
        \/ EndReading(t)
        \/ StartCommit(t)
        \/ CommitLocalStorage(t)
        \/ AppendFails(t)
        \/ IndexFails(t)
        \/ Stamp(t)
        \/ StampedAll(t)
        \/ LogCommit(t)
        \/ LogFails(t)
        \/ StartRollback(t)
        \/ Undo(t)
        \/ RolledBack(t)

Next == Step /\ UNCHANGED setup

Spec == Init /\ [][Next]_vars

--------------------------------------------------------------------------------
(* Properties                                                               *)

\* Types, with what the code takes for granted about the version info: a status
\* of CHECK_VERSION comes with a version for every row (the KU_ASSERTs of
\* VectorVersionInfo::isInserted and isDeleted).
TypeOK ==
    /\ vinfo \in VInfos
    /\ vinfo # NoInfo =>
          /\ vinfo.ins = "CHECK_VERSION" => (vinfo.sameIns = INVALID) = (vinfo.insV # NoArray)
          /\ vinfo.del = "CHECK_VERSION" => vinfo.delV # NoArray
    /\ numRows \in 0 .. Capacity
    /\ base \in Seq(Values) /\ Len(base) >= numRows
    /\ \A i \in DOMAIN chain : chain[i].version \in Versions /\ chain[i].owner \in Txns
    /\ lastTS \in 1 .. MaxTxns + 1
    /\ Len(db) = lastTS
    /\ \A t \in Txns : txn[t].phase \in Phases /\ txn[t].startTS \in 0 .. lastTS

View(t) == Overwrite(db[txn[t].startTS], txn[t].ws)

\* The column chunk holds no value of rows that were rolled back.
Aligned == Len(base) = numRows

\* In every state, also in the middle of another transaction's commit or
\* rollback, a running transaction reads exactly the rows committed when it
\* began, and its own writes (VersionInfo::isSelected with UpdateInfo::lookup),
\* as long as no WAL write fails; and it reads their values, as long as
\* ChunkedNodeGroup::rollbackInsert has left none of other rows in the column.
SnapshotReads ==
    "log" \notin setup.faults =>
        \A t \in Txns : txn[t].phase = "active" => \A row \in Rows :
            /\ (Read(t, row) = Absent) = (View(t)[row] = Absent)
            /\ Aligned => Read(t, row) = View(t)[row]

\* Once no write transaction is unfinished, a new transaction would read exactly
\* what the commits left: UndoBuffer::rollback leaves no trace of the others.
\* Of one whose WAL write failed, once everything was stamped, or whose rows
\* were in a group with others, this is so at least for the rows: those it
\* inserted are gone, those it deleted are back.
RollbackRestores ==
    Writing = {} =>
        \A row \in Rows :
            LET now == ReadAs(lastTS, StartTransactionID, row)
                committed == Last(db)[row]
            IN  /\ (now = Absent) = (committed = Absent)
                /\ "log" \notin setup.faults /\ Aligned => now = committed

\* The same with the values, whatever failed: a transaction that the client was
\* told has failed leaves no value behind. After a failed append "we reset the
\* state of the chunk so later changes won't corrupt any data due to the
\* numValues in column chunks not matching the number of rows"
\* (handleAppendException); after a later failure nothing does.
RollbackRestoresValues ==
    Writing = {} => \A row \in Rows : ReadAs(lastTS, StartTransactionID, row) = Last(db)[row]

\* "Versions should be either INVALID_TRANSACTION or committed timestamps"
\* (VectorVersionInfo::serialize) when a checkpoint may run: with no write
\* transaction unfinished, no version is a transaction ID or in the future.
CommittedVersions ==
    Writing = {} =>
        /\ vinfo # NoInfo =>
              /\ vinfo.sameIns = INVALID \/ vinfo.sameIns <= lastTS
              /\ \A a \in {vinfo.insV, vinfo.delV} : \A row \in DOMAIN a : a[row] = INVALID \/ a[row] <= lastTS
        /\ \A i \in DOMAIN chain : chain[i].version <= lastTS

Committed == {t \in Txns : txn[t].phase = "committed"}
Concurrent(t, u) == txn[t].startTS < txn[u].commitTS /\ txn[u].startTS < txn[t].commitTS
BothWrite(t, u) == DOMAIN txn[t].ws \intersect DOMAIN txn[u].ws

\* Two concurrent transactions never both delete, or both update, a row and
\* commit: the write-write conflicts of VectorVersionInfo::delete_ and
\* UpdateInfo::update.
FirstUpdaterWins ==
    \A t, u \in Committed : t # u /\ Concurrent(t, u) =>
        \A row \in BothWrite(t, u) : (txn[t].ws[row] = Absent) # (txn[u].ws[row] = Absent)

================================================================================
