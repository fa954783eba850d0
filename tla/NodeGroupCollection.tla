-------------------------- MODULE NodeGroupCollection --------------------------
(* Where the rows of a node table go: node groups of a fixed capacity, filled *)
(* by the workers of a COPY in parallel or by the commit of local rows, and    *)
(* emptied again by rollbacks. A node's offset, kept in the primary-key index  *)
(* and in relationships, is its group's number times the capacity plus its     *)
(* row; the statements compute it from numTotalRows before the row is stored.  *)
EXTENDS Integers, Sequences, FiniteSets, FiniteSetsExt, Functions

CONSTANTS
    Capacity,   \* rows of a node group (StorageConfig::NODE_GROUP_SIZE)
    ChunkCapacity,  \* rows of a chunked group (CHUNKED_NODE_GROUP_CAPACITY)
    Workers,    \* threads of a COPY
    MaxRows,    \* rows that all statements together bring (bound)
    FaultModes  \* what may fail, one mode per behaviour

ASSUME SizeAssumption == Capacity \in Nat \ {0} /\ MaxRows \in Nat
ASSUME ChunkAssumption == ChunkCapacity \in 1 .. Capacity
ASSUME WorkerAssumption == IsFiniteSet(Workers) /\ Workers # {}

\* "append": storing rows throws; "index": a later step does.  Statements fail
\* on any table, or only while nothing is committed.
ASSUME FaultAssumption ==
    FaultModes \subseteq [steps : SUBSET {"append", "index"}, onlyOnEmptyTable : BOOLEAN]

VARIABLES
    mode,           \* the fault mode of this behaviour
    groups,         \* nodeGroups, each with
                    \*   rows, ends: the rows of its chunked groups, and where each of these ends
                    \*   torn: a rollback has left values behind the rows of a chunked group
                    \*     (its values are not followed from then on, only its counts)
                    \*   num, next: numRows and the cursor nextRowToAppend
    numTotalRows,
    undo,           \* the INSERT_INFO records of the running statement
    stmt,           \* what the write transaction does
    work,           \* per worker: rows left to write, and the group being flushed
    index,          \* offsets of committed rows
    pending,        \* offsets given to rows of the running statement
    nextRow         \* rows are numbered in the order statements bring them

vars == <<mode, groups, numTotalRows, undo, stmt, work, index, pending, nextRow>>

Ids == 1 .. MaxRows
EmptyGroup == [rows |-> <<>>, ends |-> {}, torn |-> FALSE, num |-> 0, next |-> 0]
NotWorking == [left |-> <<>>, flush |-> 0, ids |-> <<>>, off |-> 0]
isFullNever(g) == FALSE
isFull(g) == g.num = Capacity
leftWithoutCursor(g) == Capacity - g.num
getNumRowsLeftToAppend(g) == Capacity - g.next
getLastGroup(g) == g[Len(g)]
Fewer(m, n) == IF m <= n THEN m ELSE n
Drop(s, k) == SubSeq(s, k + 1, Len(s))
Take(s, k) == SubSeq(s, 1, k)

\* Offsets off, off + 1, ... for the rows ids.
Entries(ids, off) == {<<ids[i], off + i - 1>> : i \in DOMAIN ids}

MayFail(kind) == kind \in mode.steps /\ (mode.onlyOnEmptyTable => index = {})

Init ==
    /\ mode \in FaultModes
    /\ groups = <<>>
    /\ numTotalRows = 0
    /\ undo = <<>>
    /\ stmt = "idle"
    /\ work = [w \in Workers |-> NotWorking]
    /\ index = {}
    /\ pending = {}
    /\ nextRow = 1

Fresh(n, after) == [i \in 1 .. n |-> nextRow + after + i - 1]

\* COPY: every worker has up to a full chunked group of rows to write.
StartCopy(sizes) ==
    LET order == CHOOSE f \in [1 .. Cardinality(Workers) -> Workers] : IsInjective(f)
        before(i) == MapThenSumSet(LAMBDA j : sizes[order[j]], 1 .. i - 1)
        total == before(Cardinality(Workers) + 1)
    IN  /\ stmt = "idle"
        /\ total \in 1 .. MaxRows - nextRow + 1
        /\ stmt' = "copy"
        /\ work' = [w \in Workers |->
                      [NotWorking EXCEPT !.left = Fresh(sizes[w], before(CHOOSE i \in DOMAIN order : order[i] = w))]]
        /\ nextRow' = nextRow + total
        /\ UNCHANGED <<groups, numTotalRows, undo, index, pending>>

\* appendToLastNodeGroupAndFlushWhenFull, under the lock of the collection: the
\* last group, or a new one when no row is left in it; an empty group that is
\* filled at once is only reserved, and flushed without the lock.
GroupsForCopy ==
    IF groups = <<>> \/ getNumRowsLeftToAppend(getLastGroup(groups)) = 0
    THEN Append(groups, EmptyGroup) ELSE groups

directFlushWhenAppend(g, k) == k = getNumRowsLeftToAppend(getLastGroup(g)) /\ getLastGroup(g).num = 0

Record(g, k) == <<[group |-> Len(g), start |-> getLastGroup(g).num, n |-> k]>>

\* Rows are reserved: the cursor moves.
moveNextRowToAppend(g, k) == [g EXCEPT !.next = @ + k]

\* The first row of the chunked group that takes the next row: the last one, or a
\* new one when that is full.
openChunk(g) ==
    LET start == Max({0} \union {e \in g.ends : e < Len(g.rows)})
    IN  IF Len(g.rows) - start < ChunkCapacity THEN start ELSE Len(g.rows)

\* Where the chunked groups end that k more rows fill.
fills(g, k) == {e \in Len(g.rows) + 1 .. Len(g.rows) + k : (e - openChunk(g)) % ChunkCapacity = 0}

endsBehind(g, k) == {e \in g.ends : e <= openChunk(g)} \union fills(g, k) \union {Len(g.rows) + k}

\* The loop of NodeGroup::append, chunked group by chunked group.
store(g, ids) == [g EXCEPT !.rows = g.rows \o ids, !.ends = endsBehind(g, Len(ids))]

\* The rows count once all of them are stored.
append(g, ids) == [store(g, ids) EXCEPT !.num = g.num + Len(ids)]

\* How many of k rows are stored when a round of that loop throws.
storedBefore(g, k) == {0} \union {e - Len(g.rows) : e \in fills(g, k - 1)}

\* NodeGroup::merge: a flushed chunked group follows the ones that are there.
merge(g, ids) ==
    [g EXCEPT !.rows = g.rows \o ids,
              !.ends = g.ends \union {Len(g.rows) + Len(ids)},
              !.num = g.num + Len(ids)]

\* The cursor moves, the undo record is pushed and the rows are counted before
\* any row is stored.
Reserve(g, k) ==
    /\ undo' = undo \o Record(g, k)
    /\ numTotalRows' = numTotalRows + k

\* Other workers go on after one has failed, until they are interrupted.
AppendToLast(w) ==
    LET g == GroupsForCopy
        left == work[w].left
        k == Fewer(Len(left), getNumRowsLeftToAppend(getLastGroup(g)))
        moved == [g EXCEPT ![Len(g)] = moveNextRowToAppend(@, k)]
    IN  /\ stmt \in {"copy", "failed"}
        /\ work[w].flush = 0
        /\ left # <<>>
        /\ Reserve(g, k)
        /\ IF directFlushWhenAppend(g, k)
           THEN /\ groups' = moved
                /\ work' = [work EXCEPT ![w] = [left |-> Drop(left, k), flush |-> Len(g),
                                                ids |-> Take(left, k), off |-> numTotalRows]]
                /\ UNCHANGED pending
           ELSE /\ groups' = [moved EXCEPT ![Len(g)] = append(@, Take(left, k))]
                /\ work' = [work EXCEPT ![w].left = Drop(left, k)]
                /\ pending' = pending \union Entries(Take(left, k), numTotalRows)
        /\ UNCHANGED <<stmt, index, nextRow>>

\* NodeGroup::append throws, with the first chunked groups filled, and the worker
\* leaves the task (handleAppendException cuts the columns of the last one back).
AppendToLastFails(w) ==
    LET g == GroupsForCopy
        left == work[w].left
        k == Fewer(Len(left), getNumRowsLeftToAppend(getLastGroup(g)))
    IN  /\ MayFail("append")
        /\ stmt \in {"copy", "failed"}
        /\ work[w].flush = 0
        /\ left # <<>>
        /\ ~directFlushWhenAppend(g, k)
        /\ Reserve(g, k)
        /\ \E p \in storedBefore(getLastGroup(g), k) :
              groups' = [g EXCEPT ![Len(g)] = moveNextRowToAppend(store(@, Take(left, p)), k)]
        /\ stmt' = "failed"
        /\ work' = [work EXCEPT ![w] = NotWorking]
        /\ UNCHANGED <<index, pending, nextRow>>

\* The chunked group is on disk and becomes the content of its node group.
FlushGroup(w) ==
    /\ stmt \in {"copy", "failed"}
    /\ work[w].flush # 0
    /\ groups' = [groups EXCEPT ![work[w].flush] = merge(@, work[w].ids)]
    /\ pending' = pending \union Entries(work[w].ids, work[w].off)
    /\ work' = [work EXCEPT ![w] = [NotWorking EXCEPT !.left = work[w].left]]
    /\ UNCHANGED <<numTotalRows, undo, stmt, index, nextRow>>

FlushFails(w) ==
    /\ MayFail("append")
    /\ stmt \in {"copy", "failed"}
    /\ work[w].flush # 0
    /\ work' = [work EXCEPT ![w] = NotWorking]
    /\ stmt' = "failed"
    /\ UNCHANGED <<groups, numTotalRows, undo, index, pending, nextRow>>

--------------------------------------------------------------------------------
(* CREATE: NodeTable::commit appends the local rows, in the committing thread. *)

Main == CHOOSE w \in Workers : TRUE

StartCreate(n) ==
    /\ stmt = "idle"
    /\ n <= MaxRows - nextRow + 1
    /\ stmt' = "create"
    /\ work' = [work EXCEPT ![Main].left = Fresh(n, 0), ![Main].off = numTotalRows]
    /\ nextRow' = nextRow + n
    /\ UNCHANGED <<groups, numTotalRows, undo, index, pending>>

\* NodeGroupCollection::append opens a new group by another test: isFull.
GroupsForLocal ==
    IF groups = <<>> \/ isFull(getLastGroup(groups)) THEN Append(groups, EmptyGroup) ELSE groups

\* One round of the loop in NodeGroupCollection::append. A round that finds no
\* row to reserve changes nothing (its undo record covers no row and is left out).
AppendLocal ==
    LET g == GroupsForLocal
        left == work[Main].left
        k == Fewer(Len(left), getNumRowsLeftToAppend(getLastGroup(g)))
    IN  /\ stmt = "create"
        /\ left # <<>>
        /\ IF k = 0 THEN UNCHANGED <<undo, numTotalRows>> ELSE Reserve(g, k)
        /\ groups' = [g EXCEPT ![Len(g)] = moveNextRowToAppend(append(@, Take(left, k)), k)]
        /\ pending' = pending \union Entries(Take(left, k), work[Main].off)
        /\ work' = [work EXCEPT ![Main].left = Drop(left, k), ![Main].off = @ + k]
        /\ UNCHANGED <<stmt, index, nextRow>>

AppendLocalFails ==
    LET g == GroupsForLocal
        left == work[Main].left
        k == Fewer(Len(left), getNumRowsLeftToAppend(getLastGroup(g)))
    IN  /\ MayFail("append")
        /\ stmt = "create"
        /\ left # <<>>
        /\ k > 0
        /\ Reserve(g, k)
        /\ \E p \in storedBefore(getLastGroup(g), k) :
              groups' = [g EXCEPT ![Len(g)] = moveNextRowToAppend(store(@, Take(left, p)), k)]
        /\ stmt' = "failed"
        /\ work' = [work EXCEPT ![Main] = NotWorking]
        /\ UNCHANGED <<index, pending, nextRow>>

--------------------------------------------------------------------------------
(* The end of a statement and of its transaction.                            *)

NothingLeft == \A w \in Workers : work[w].left = <<>> /\ work[w].flush = 0

Commit ==
    /\ stmt \in {"copy", "create"}
    /\ NothingLeft
    /\ index' = index \union pending
    /\ pending' = {}
    /\ undo' = <<>>
    /\ work' = [w \in Workers |-> NotWorking]
    /\ stmt' = "idle"
    /\ UNCHANGED <<groups, numTotalRows, nextRow>>

\* A primary key is already there, or the user rolls back, or interrupts a COPY.
StatementFails ==
    /\ MayFail("index")
    /\ stmt = "copy" \/ (stmt = "create" /\ NothingLeft)
    /\ undo # <<>>
    /\ stmt' = "failed"
    /\ UNCHANGED <<groups, numTotalRows, undo, work, index, pending, nextRow>>

\* The statement's task has ended in every worker (those that had rows left were
\* interrupted), and its transaction rolls back; the index forgets the rows
\* (rollbackPKIndexInsert).
StartRollback ==
    /\ stmt = "failed"
    /\ \A w \in Workers : work[w].flush = 0
    /\ stmt' = "rollback"
    /\ work' = [w \in Workers |-> NotWorking]
    /\ pending' = {}
    /\ UNCHANGED <<groups, numTotalRows, undo, index, nextRow>>

WithoutEmptyTail(g) ==
    LET last == {i \in DOMAIN g : g[i].num # 0}
    IN  Take(g, IF last = {} THEN 0 ELSE CHOOSE i \in last : \A j \in last : j <= i)

\* The end of the chunked group that holds the row.
chunkEnd(g, row) == Min({Len(g.rows)} \union {e \in g.ends : e >= row})

\* Rows from start to end are gone, and the chunked groups behind follow.
endsWithout(g, start, end) ==
    {e \in g.ends : e < start} \union ({start} \ {0}) \union {e - (end - start) : e \in {x \in g.ends : x > end}}

\* The columns of a chunked group are truncated only when it keeps no row.
leavesValues(g, start) == start < Len(g.rows) /\ start \notin g.ends

\* Every chunked group with some of the n rows behind start loses all its rows from
\* there on, and the group counts the rows before start.
cut(g, start, n) ==
    LET end == chunkEnd(g, start + n)
    IN  [g EXCEPT !.rows = Take(g.rows, start) \o Drop(g.rows, end),
                  !.ends = endsWithout(g, start, end),
                  !.torn = start # 0 /\ (g.torn \/ leavesValues(g, start)),
                  !.num = start]
truncateCounted(g, start, n) == cut(g, start, Fewer(n, g.num - start))
truncate(g, start, n) == cut(g, start, n)

\* As many rows of the record as are stored, numRowsToRollback.
numRowsToRollback(r) == Fewer(r.n, groups[r.group].num - r.start)

\* NodeTableVersionRecordHandler::rollbackInsert of the newest record.
rollbackInsert ==
    LET r == undo[Len(undo)]
    IN  /\ stmt = "rollback"
        /\ undo # <<>>
        /\ undo' = Take(undo, Len(undo) - 1)
        /\ IF r.group \in DOMAIN groups
           THEN /\ groups' = WithoutEmptyTail([groups EXCEPT ![r.group] = truncate(@, r.start, r.n)])
                /\ numTotalRows' = numTotalRows - numRowsToRollback(r)
           ELSE UNCHANGED <<groups, numTotalRows>>
        /\ UNCHANGED <<stmt, work, index, pending, nextRow>>

RolledBack ==
    /\ stmt = "rollback"
    /\ undo = <<>>
    /\ stmt' = "idle"
    /\ UNCHANGED <<groups, numTotalRows, undo, work, index, pending, nextRow>>

\* No rows are left within the bound.
Exhausted == stmt = "idle" /\ nextRow > MaxRows /\ UNCHANGED vars

\* The steps of a statement that has begun, which its threads take.
Step ==
    /\ \/ \E w \in Workers : AppendToLast(w) \/ FlushGroup(w)
       \/ AppendLocal
       \/ Commit
       \/ StartRollback
       \/ rollbackInsert
       \/ RolledBack
    /\ UNCHANGED mode

Fault ==
    /\ \/ \E w \in Workers : AppendToLastFails(w) \/ FlushFails(w)
       \/ AppendLocalFails
       \/ StatementFails
    /\ UNCHANGED mode

Start ==
    /\ \/ \E sizes \in [Workers -> 0 .. Capacity] : StartCopy(sizes)
       \/ \E n \in 1 .. MaxRows : StartCreate(n)
    /\ UNCHANGED mode

Next == Start \/ Step \/ Fault \/ Exhausted

Spec == Init /\ [][Next]_vars
FairSpec == Spec /\ WF_vars(Step)

--------------------------------------------------------------------------------
(* Properties                                                               *)

Stored(g) == Take(groups[g].rows, groups[g].num)
NumRows == MapThenSumSet(LAMBDA g : groups[g].num, DOMAIN groups)

\* Types; a group never stores or reserves more rows than its capacity.
TypeOK ==
    /\ \A g \in DOMAIN groups :
          /\ groups[g].rows \in Seq(Ids)
          /\ groups[g].num <= Fewer(groups[g].next, Len(groups[g].rows))
          /\ groups[g].next <= Capacity
    /\ numTotalRows \in Nat
    /\ stmt \in {"idle", "copy", "create", "failed", "rollback"}
    /\ \A w \in Workers : work[w].flush # 0 => work[w].flush \in DOMAIN groups
    /\ nextRow \in 1 .. MaxRows + 1

\* Rollbacks find no committed row in the groups they truncate.
RollbacksEmptyTheTable == mode.steps \subseteq {"index"} /\ mode.onlyOnEmptyTable

\* A committed row stays where its offset in the primary-key index says, through
\* everything that parallel COPYs and commits do later, and rollbacks of whole tables.
OffsetsMatch ==
    RollbacksEmptyTheTable => \A entry \in index :
        LET g == entry[2] \div Capacity + 1
            row == (entry[2] % Capacity) + 1
        IN  /\ g \in DOMAIN groups
            /\ row \in DOMAIN Stored(g)
            /\ Stored(g)[row] = entry[1]

\* Between statements the groups have as many rows as were committed, none of a
\* statement that failed or was rolled back: the chunked groups, which scans read,
\* agree with the groups, although a failed append may have filled some of them and
\* other workers appended behind. And they hold every committed row, once, as long
\* as ChunkedNodeGroup::rollbackInsert has left no values in a column.
RowsAreCommitted ==
    stmt = "idle" =>
        /\ NumRows = Cardinality(index)
        /\ \A g \in DOMAIN groups : Len(groups[g].rows) = groups[g].num
        /\ (\A g \in DOMAIN groups : ~groups[g].torn) =>
              /\ UNION {Range(Stored(g)) : g \in DOMAIN groups} = {entry[1] : entry \in index}
              /\ \A g, h \in DOMAIN groups : g # h => Range(Stored(g)) \intersect Range(Stored(h)) = {}
              /\ \A g \in DOMAIN groups : IsInjective(Stored(g))

\* Every statement ends: the loop of NodeGroupCollection::append always finds
\* room for another row, in the last group or in a new one.
StatementsEnd == (stmt # "idle") ~> (stmt = "idle")

\* The same as long as rollbacks find no committed row in the groups they truncate.
StatementsEndOnWholeGroups == (RollbacksEmptyTheTable /\ stmt # "idle") ~> (stmt = "idle")

================================================================================
