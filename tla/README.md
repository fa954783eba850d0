# Verification of ladybug's transactions, storage and task scheduling

TLA+ models of the parts of ladybug on which correct results depend when things
happen at the same time, or go wrong half way: transactions, the write-ahead
log with checkpoints and recovery, row versions, the placement of rows, the lists
of relationships, the pages of the data file, the buffer manager, and the
scheduling of queries on threads. TLC checks the models on small instances;
TLAPS proves the safety properties of the transaction manager for any number of
connections, of the task scheduler for any number of threads and tasks, of WAL,
checkpoint and recovery for any number of commits and crashes, two of the buffer
manager's for any number of threads and pages, and that rows stay at their offsets.

Paths below are relative to the repository; the code is in `src/src/`.

## The system

| Part | State | Operations that change it | What is hard |
|---|---|---|---|
| `TransactionManager` (`transaction/transaction_manager.cpp`) | two mutexes, `activeTransactions`, `lastTransactionID`, `lastTimestamp` | `beginTransaction`, `commit`, `rollback`, `checkpoint` | the checkpoint waits for transactions that need the mutex it holds; one mutex is released before the checkpoint is written |
| `TransactionContext`, `ClientContext` (`transaction/transaction_context.cpp`, `main/client_context.cpp`) | mode, active transaction | every statement, in up to three calls of `runFuncInTransaction`; the transaction operator; closing | exceptions between any two steps |
| WAL, checkpointer, shadow file, replayer (`storage/wal/`, `storage/checkpointer.cpp`, `storage/shadow_file.cpp`) | data file, WAL, shadow file, each in memory, in the operating system and on the disk | commit, checkpoint, open | kills and loss of power between any two writes, also during recovery; I/O errors |
| Row versions and undo buffer (`storage/table/version_info.cpp`, `update_info.cpp`, `storage/undo_buffer.cpp`) | version arrays in two representations, update chains, undo records | insert, delete, update, commit, rollback | readers between two records of a commit or rollback; commits that fail half way |
| Node groups (`storage/table/node_group_collection.cpp`, `node_group.cpp`) | groups with a row count and a cursor, `numTotalRows` | COPY by several workers, commit of local rows, rollback | offsets are handed out before rows are stored |
| Task scheduler (`common/task_system/`) | queue, registrations, exceptions | schedule, register, deregister, finalize, stop | workers that wait for work only workers can do; lost notifications |
| Relationship tables (`storage/table/csr_node_group.cpp`, `csr_chunked_node_group.cpp`, `rel_table.cpp`, `rel_table_data.cpp`) | a packed array of adjacency lists with header and gaps, rows in memory with an index by node | CREATE, COPY, SET, DELETE, DETACH DELETE, checkpoint | a checkpoint moves as few lists, and rewrites as few columns, as it can |
| Page manager, free space manager, optimistic allocator, and the page side of a checkpoint (`storage/page_manager.cpp`, `free_space_manager.cpp`, `checkpointer.cpp`, `table/column.cpp`) | free lists, ranges freed since the last checkpoint, header, shadow pages | allocate, free, COPY and its rollback, every step of a checkpoint, reopening | pages are freed, reused and truncated while an older checkpoint may still be needed |
| Buffer manager, memory manager, spiller (`storage/buffer_manager/`) | a state word per page, frames, the eviction queue, two memory counters, groups on the heap or in the spill file | pin, optimistic read, evict, reserve, remove, spill, load | lock-free: every access to a word or slot can interleave with others |
| Catalog, sequences, hash index, disk arrays, local storage | | | not modelled, see "Not modelled" |
| Parser to optimizer, operators, functions, compression, extensions, bindings | | | not modelled: see `components` in `PROJECT.json` |

A statement goes through them from the top: a task of the scheduler runs inside
a transaction, its changes get row versions and undo records, the commit stamps
the versions, moves local rows into node groups and writes the WAL, and a
checkpoint later moves the state into the data file. The modules meet at the
commit. `TransactionManager` has its steps and mutexes with an abstract log;
`CheckpointRecovery` what one logged commit does to the files, using that commits
and checkpoints run one at a time, which is what `TransactionManager` shows;
`RowVersions` what it does to the rows of a vector, record by record, using the
timestamps of the manager; `NodeGroupCollection` and `CSRNodeGroup` where its rows
and relationships go. They meet again at the checkpoint: `CSRNodeGroup` has what it
does to the lists of a group, `PageManager` which pages it takes, frees and writes,
`CheckpointRecovery` in which order the files are written and synced.
`BufferManager` is below all of them: they take reading and writing a page as one
step that returns what was written last. It shows this for pages that stay in their
frame while they are read; an optimistic read during which its page is evicted and
loaded again may return old content (`NoStaleReads` fails, see the table below), which
the other modules leave out.

## Modules

**TransactionManager** has one label `pc[c]` per connection. A public function of
the manager is split wherever another connection can see a difference: each
mutex, the commit timestamp, stamping, the WAL write, each poll of the wait
loop. `versions` and `commitLog` are what other transactions can read and what
has been logged. Statements are drawn from seven kinds; whether a statement, a
commit or a checkpoint throws is a free choice. `KU_ASSERT` throws, as it does in
builds with runtime checks.

**CheckpointRecovery** runs commits, checkpoints and recovery step by step. A state
of the database is the sequence of transactions in it. The transactions in `Copies` are
a COPY FROM: no record redoes them, so their commit forces a checkpoint, and they are
acknowledged when it has succeeded. Each file is kept twice,
as the operating system shows it (what a killed process leaves) and as it is
after a loss of power; an unsynced write may or may not have reached the disk, and
of what was appended to the WAL any prefix, ending in a whole record or a torn one.
Creating, truncating and removing files take effect at once, on the disk too:
this is an assumption about the file system, which the code needs as it never
syncs a directory. A torn WAL is one that stops at a record that cannot be
parsed. Which steps may throw, be interrupted or lose power is given by the sets
`IOFaults`, `CrashAt` and `PowerLossAt`. Each time the database is opened,
`throwOnWalReplayFailure` is chosen anew.

**DurableDatabase** is the promise, without files: transactions become durable one
at a time, those in `Copies` several at once when a checkpoint ends; an acknowledged commit is
durable, a refused one never. `CheckpointRecovery` refines it with
`durable <- Elements(Recovered)`, the transactions that recovery would find in the files
at this moment. Kills, recovery and checkpoints without COPYs must then be steps that
change nothing. A commit is refused only where writing or syncing the WAL may fail, which
the run and the proof of the refinement leave out: there `refused` stays empty.

**RowVersions** is one vector of a node table, with `VectorVersionInfo` in both of
its representations (one version for all rows, or an array), the update chain of
one column, and for each transaction its undo records. A commit stamps, and a
rollback reverts, one record per step. The history variable `db` has the
contents after every timestamp, against which reads are compared. A setting (one
writer or several, checkpointed or not, which commits fail) is chosen in the
initial state.

**NodeGroupCollection** is a table as a sequence of groups: the rows of their chunked
groups and where each of these ends, the row count, and the cursor `nextRowToAppend`.
They are filled by the workers of a COPY (where a worker that fills an empty group
flushes it without the lock) or by the commit of a CREATE, and truncated by rollbacks.
An append that throws may have filled some chunked groups, and the other workers go on
behind it until they are interrupted. A rollback that leaves values in the columns of
a chunked group marks the group `torn`: from then on only its counts are followed,
not its values (`RowVersions` follows them). `index` holds the offsets that statements
gave to rows.

**CSRNodeGroup** is one group of a relationship table in one direction. `persistent`
has the ends and lengths of the header, the columns (one for what never changes,
one for what SET writes), and which positions are deleted or updated; `rows` and
`csrIndex` are what was committed since the last checkpoint. Each statement commits
at once or fails. A checkpoint is one action that follows
`checkpointInMemAndOnDisk`: it collects the regions with changes, merges
neighbours until the density bounds hold, lays the lists out anew and rewrites the
columns that need it. Scans are operators, with and without the cache of
`tryScanCachedTuples`. `rels` is the graph the clients know. The code has four steps
that lose or mix up relationships; such a step puts its name into `flaws` and ends
the behaviour, so that the other properties are about groups that met none of them,
and four properties say of each one that it does no harm (it does). Assumed: the
group is the last of its table and full of nodes, rows in memory fit in one chunk,
a cached scan visits its nodes in ascending order. The bounds are computed with
integers, without the rounding of the code's doubles.

**PageManager** follows every page of the data file: header, catalog, metadata,
column chunks, the pages of a running COPY, free ranges by level, ranges freed
since the last checkpoint. A checkpoint is a step per table (nothing, flush, in
place through shadow pages, or out of place into new pages), then dropped tables,
catalog, metadata, header, log record, application of the shadow pages, and the end
that merges free ranges and truncates the file; it may fail before each of them,
and the process may die at any point. A table has one column of one segment; a row
is the number of the commit that wrote it. `wal` is what replaying the log writes.

**BufferManager** has a label per thread. A step is one access to an atomic word or
slot, or a section under a mutex. Pages have a word (state, dirty bit, version), a
frame, and their contents in the file; `content` is what was written last. A read
copies its page in two steps, so that it can be torn. `reserve` follows
the code's counters through claiming, spilling and evicting; `usedMemory` and
`nonEvictableMemory` are changed one after the other, and read one after the other.
A group may be destroyed at any time, also while it is in the spiller's set or claimed:
nothing removes it there. What `spillToDisk` then finds in its memory is undefined, so
that it spills nothing or gives memory back a second time, and `strayed` records that it
happened. For example: a group is filled and put into the set, its COPY fails and
destroys it, another group is allocated and a page is pinned; `reserve` claims the first
group and subtracts its memory again. `Races` admits two further interleavings in which
the code goes wrong, see below.

**TaskScheduler** has a label for every call of `scheduleTaskAndWaitOrError` and for
every thread. The worker's walk through the queue is split where a launched
thread, which does not take the scheduler's mutex, can interfere. Runs of tasks
return or throw; the interrupt flag, which only makes them throw, is left out.
Timeouts and spurious wakeups of both condition variables are steps that may
happen at any time and need not.

The `MC...` modules give instances; definitions named in comments as mutants are
deviations that each property is known to reject (`mutants` in `PROJECT.json`).

## Runs

| Run | Checks | Bounds |
|---|---|---|
| `txn_single_writer` | `SingleWriter`, `CheckpointRunsAlone`, `TransactionsAreOwned`, `StatementsEnd` | two connections, five transaction ids, one poll before the timeout, failing WAL writes |
| `txn_multi_writes` | `SnapshotsAreLogged`, `LogFollowsTimestamps`, `SnapshotsAreStable` | the same with concurrent writers, seven ids, no failing WAL writes |
| `dur_crashes` | `FilesMatchMemory`, `RecoverySucceeds`, refinement of `DurableDatabase` | four commits, two of them COPYs, kills everywhere but one point of recovery, failures of checkpoints that leave the WAL alone |
| `dur_power_loss` | `NothingLost`, `OrderKept` | three commits, one of them a COPY, loss of power everywhere but while a checkpoint is applied, a failing sync of commits |
| `dur_crash_in_recovery` | `RecoverySucceeds` is violated | two commits |
| `rows_snapshots` | `SnapshotReads`, `RollbackRestores`, `CommittedVersions`, `FirstUpdaterWins` | two rows, two values, three transactions, three settings |
| `groups_offsets` | `OffsetsMatch`, `RowsAreCommitted`, `StatementsEndOnWholeGroups` | groups of four rows in chunked groups of two, two workers, eight rows, two fault modes |
| `csr_lists` | `ListsMatch`, `CachedScansAgree`, `HeaderIsSane`, `GapsFollowLists` | eight nodes in four leaf regions, relationships on three of them, three relationships, statements with up to two, one failing commit |
| `csr_emptied_region` | `DeletedRowsBecomeGaps` is violated | the same |
| `pages_checkpoints` | `Recoverable`, `NoPageHasTwoOwners`, `NoPageIsLost`, `MetadataFit`, `ScansReadCommitted` | one table with three commits and three checkpoints, or two tables with two and two; one fault |
| `bm_pages` | `MemoryIsAccounted`, `PoolNeverExceeded`, `ReadsAreStable`, `WritesAreKept`, `CachedPagesAreCandidates`, `GroupsInUseAreInMemory` | two threads, two pages and two groups of two pages each in a pool of two pages, two calls for pages and two that allocate or load groups, a queue of three slots |
| `sched_queries` | `NoStragglers`, `DependenciesFirst`, `FinalizedOnce`, `ErrorsReported`, `QueriesEnd`, `WorkersStop` | two queries on one worker or one on two, with a dependency, a nested task and parallel tasks |

Why the bounds are enough to be of interest: two connections suffice for every
conflict in the manager, since its state is about "another" transaction; the
proofs remove this bound. Ids run out only after each connection has been through
several statements. A checkpoint and its repetition after a failure or kill need
two commits before and one after, so three or four. Three transactions are a
reader, a writer it overlaps, and one that reuses what the writer left; two rows
are needed for a vector to change its representation. Groups of four rows
in chunked groups of two, with eight rows altogether, give full and partly filled groups
beside each other, appends that fail between two chunked groups and rollbacks that cut
one in the middle (275,901 states).
The nodes of `csr_lists` have a leaf region with two lists beside one with a single
list, empty ones, and two levels at which regions merge; three relationships fill a
region beyond its bound. The same properties hold with up to four relationships
(1,540,046 states, which takes a quarter of an hour) and with a fourth node in another
region (130,679 states). In `pages_checkpoints` (`Bounds` holds the two cases) a second
table takes pages that the first has given back, and the third checkpoint of the one
table reuses what the second freed. `Recoverable` says of every state that a crash in it does no
harm, so one crash is enough to see what follows a crash. Also checked with two tables:
three checkpoints (1,051,724 states), these with one failure and one crash (3,786,206),
and three commits with two checkpoints (2.5 million); and one table with segments of one or two pages, three commits and three checkpoints
(3.2 million). In `bm_pages` the pool is smaller than what the threads use, so that each
evicts or spills what the other needs; the run reaches failing reservations, groups
destroyed while they are claimed, memory given back twice, an unsigned difference of the
counters below zero, and slots cleared too late (1,202,350 states). The properties
also hold with three calls for pages and one for a group (981,006 states), with two and
three (4,696,270), and with a repeated attempt of `reserve` (`MaxFailures = 1`, 2,717,587).
One worker is the case of which `function/gds/gds_utils.cpp:50` warns, two are needed
for a task with several threads beside the launched one.

Deadlock is checked in every run but `csr_lists`, `csr_emptied_region` and
`pages_checkpoints`, whose statements run out when the bounds are reached: the other
models have stuttering steps where the program may really stop.

**Fairness.** `txn_single_writer`: a connection inside a statement keeps running
(`WF` for each). That is enough although mutexes are contended, because statements
run out of ids. `groups_offsets`: the statement goes on. `sched_queries`: threads run
and runs end (`WF`), and a mutex that is free again and again is granted to each that
waits for it (`SF` for calls and workers); without the latter a client could be kept
from the queue by workers that wake up spuriously for ever. New queries, shutdown,
timeouts and wakeups are not fair.

## What does not hold

Two runs expect a violation; `findings` in `PROJECT.json` describes them.

- A kill in recovery between the removal of the shadow file and that of the WAL
  makes the database impossible to open (`dur_crash_in_recovery`).
- A checkpoint that finds all relationships of the changed regions deleted drops the
  group, with the relationships of its other regions (`csr_emptied_region`).

The models have further behaviours under which properties fail, which the passing
runs leave out by their constants or by the antecedents of their properties. Most
are errors after a failure, an I/O error or a failed allocation. To see one, take
the constants of the run named with these changes:

| Run | Constants | Fails | Cause |
|---|---|---|---|
| `txn_multi_writes` | `MultiWrites = FALSE`, `WALMayFail = TRUE`, `MaxTransactionID = 6` | `SnapshotsAreLogged` | `Transaction::commit` stamps versions before it writes the WAL; when the write throws, a transaction that begins before the rollback reads them |
| `txn_multi_writes` | `MultiWrites = FALSE`, `MaxTransactionID = 8` | `RunFuncAssertion` | a refused BEGIN leaves the connection in MANUAL mode without a transaction |
| `dur_crashes` | `MaxTxns = 2`, `Copies = {1}`, `IOFaults = {"storage"}`, and `Elements(mem) = Elements(Recovered)` while `pc = "open"` | this invariant | a COPY whose forced checkpoint throws is in memory, although its client sees an error, and in no file until the next checkpoint |
| `dur_crashes` | `MaxTxns = 2`, `Copies = {}`, `IOFaults = {"applyBody"}`, `RuntimeChecks = FALSE` | `FilesMatchMemory`, `NothingLost` | the CHECKPOINT record stays in the WAL, later commits are logged behind it and dropped |
| `dur_crashes` | `MaxTxns = 2`, `Copies = {}`, `IOFaults = {"removeWAL"}` | `FilesMatchMemory`, `NothingLost` | the writer stays open on a truncated file: no header before later commits |
| `dur_crashes` | `MaxTxns = 2`, `Copies = {}`, `IOFaults = {"commit"}` | `ImplementsDurableDatabase` | bytes of a refused commit stay in the buffer and are written later |
| `dur_power_loss` | `MaxTxns = 2`, `Copies = {}`, `IOFaults = {}`, `CrashAt = {}`, `PowerLossAt = {"applyBody"}` | `NothingLost` | new pages need not be on disk when the CHECKPOINT record is |
| `dur_power_loss` | `MaxTxns = 2`, `Copies = {}`, `IOFaults = {}`, `CrashAt = {"applyBody"}`, `PowerLossAt = {"open"}` | `NothingLost` | recovery does not sync the data file before it removes the shadow file and the WAL |
| `rows_snapshots` | `Capacity = 1`, `MaxTxns = 2`, `Setups <- LogFaultsOnDisk` | `RollbackRestoresValues` | updates are rolled back by the transaction id, which the stamp of the failed commit has replaced |
| `rows_snapshots` | setting `InMemory` with `faults = {"index"}` | `RollbackRestoresValues` | a rollback of some rows of a chunk leaves their values in the columns, where later rows get them |
| `rows_snapshots` | `MaxTxns = 2`; setting `onDisk = 0`, `maxUndo = 0`, `enableMultiWrites`, `faults = {"index"}` | `RollbackRestores` | a rollback truncates the group behind its first row, rows of another commit included |
| `rows_snapshots` | `Capacity = 1`, `MaxTxns = 2`; setting `onDisk = 1`, `maxUndo = 2`, `matchTwice`, `enableMultiWrites` | `SnapshotReads` | the second undo record of a row deleted twice clears another transaction's deletion |
| `groups_offsets` | `Capacity = 2`, `ChunkCapacity = 2`, one worker, `MaxRows = 4`, `FaultModes <- LaterSteps` | `StatementsEnd` | a rollback in a group that keeps rows leaves the cursor behind, and the loop of a later commit never finds room |
| `groups_offsets` | the same, and `OffsetsMatch` without its antecedent | `OffsetsMatch` | a COPY opens a new group while offsets point into the old one |
| `groups_offsets` | one worker, `MaxRows = 3`, mode `steps = {"append"}`, and `OffsetsMatch` without its antecedent | `OffsetsMatch` | rows counted but never stored are not subtracted from `numTotalRows` |
| `csr_lists` | | `DeletedRowsLeaveTheIndex` | a checkpoint with nothing to write returns after it has marked deleted rows of the index it keeps as invalid |
| `csr_lists` | | `UpdatesMoveNothing` | updates are looked for one position past a region: a region without space takes an update of its neighbour for its own and grows, moving lists in columns that are not rewritten |
| `csr_lists` | | `FailedCommitsLeaveNothing` | a rollback leaves the rows in the index, and removes the last group when it has no rows in memory although it has relationships on disk |
| `pages_checkpoints` | one table, three commits | `RetriedCheckpointSavesAll` | a chunk updated in place by a checkpoint that fails is rewritten out of place by the next, from a file that lacks the update |
| `pages_checkpoints` | one table, one row, `Sizes = {3}`, `MaxPages = 20`, four checkpoints, `WriteMayFail = TRUE` | `NoPageHasTwoOwners` | a COPY that fails between allocating pages at the end of the file and writing them gives back pages that the file does not have; after a crash they are handed out twice |
| `bm_pages` | `Pages = {p1, p2, p3}`, `Groups = {}`, four calls | `NoStaleReads` | eviction sets the version of a page back to 0, so that a page evicted, loaded and written can look as it did to a slow reader |
| `bm_pages` | `~miscleared` as invariant | `~miscleared` | `clear()` meets a slot that is no longer its own, which the code calls unreachable |
| `bm_pages` | `Races = {"rollback"}` | `MemoryIsAccounted` | `removePageFromFrame` locks a page that an eviction has locked; the frame is freed twice |
| `bm_pages` | `PoolNeverExceeded` without `strayed` | `PoolNeverExceeded` | a group destroyed while it is in the spiller's set (the destructor at `chunked_node_group.h:43` is the default one, and does not call `clearUnusedChunk`) is spilled afterwards: its memory is given back twice |
| `bm_pages` | `Races = {"otherQuery"}` | `SpilledDataIsKept` | a query that ends truncates the spill file under the groups of another connection |

The rows with `enableMultiWrites` concern the debug setting
`debug_enable_multi_writes` only.

One sentence of documentation is not literally met: `task_scheduler.h:53` says that when
`scheduleTaskAndWaitOrError` returns no task of the query is in the queue; completed
tasks stay there until a worker passes them, as the comment at
`task_scheduler.cpp:68` explains.

## Proofs

`TransactionManagerProofs` proves, for any set of connections, any bounds and both
values of every switch:

- `TypeCorrect`: `Spec => []TypeOK`;
- `MutexesReleased`, `CheckpointAlone`, `OneWriter`, `TransactionsOwned`:
  `MutexesAreReleased`, `CheckpointRunsAlone`, `SingleWriter` and `TransactionsAreOwned`
  are invariants.

They rest on the inductive invariant `MutexInv` (a connection inside the manager is
the owner of the public mutex, and one in the wait loop of the other mutex as
well), without which nothing forbids a second connection to begin a transaction
between the check for active transactions and the checkpoint.

It also proves, under the assumption `~WALMayFail` (the first row of
the table above shows why it is needed):

- `SnapshotsLogged`, `LogInOrder`: `SnapshotsAreLogged` and `LogFollowsTimestamps` are
  invariants;
- `SnapshotsStable`: the action property `SnapshotsAreStable`.

Their inductive invariant adds `TimestampInv` (a committing connection has the
latest timestamp, ahead of every active transaction's and every logged one, and
its versions are the only ones not logged) and `IdInv` (ids are unique and versions
carry the id of their transaction). `QuietSteps` reduces the case distinction: all
but eight kinds of steps leave everything these invariants mention alone.

`TaskSchedulerProofs` proves, for any finite sets of workers and tasks and any plan:

- `TypeCorrect`: `Spec => []TypeOK`;
- `NobodyLeft`, `InOrder`, `FinalizedByTheLast`, `ErrorsArrive`, `QueueIsClean`:
  `NoStragglers`, `DependenciesFirst`, `FinalizedOnce`, `ErrorsReported` and
  `NoErroringTaskLeft` are invariants;
- `IteratorsSafe`: the action property `IteratorsStayValid`.

`ErrorsReported` has both directions: a call that returns had no failed run, no failed
finalize and no dependency that threw, and one that throws had one of them.

All safety properties of `sched_queries` are thus proved; types, `NoErroringTaskLeft` and
`IteratorsStayValid`, like the types and `MutexesAreReleased` of the transaction
manager, are left to the proofs. The inductive invariant
`SchedulerInv` is in `TaskSchedulerSteps`. Its heart is `CountInv`: the threads
registered for a task are those that have finished and those that still work on
it, so that a completed task has no thread, and cannot get one. `LockInv` says
who is under the scheduler's mutex, `QueueInv` that a task is in the queue at most
once, `CallInv` how far a call can be given the counters of its task, `FinalInv`,
`ErrorInv`, `DependencyInv` and `RethrowInv` what is known of finalization, of an
exception on its way from a thread to the task, and of dependencies. A stopped
thread may have registered for a task without running it (`runWorkerThread` looks at
`stopWorkerThreads` after `getTaskAndRegister`); `Holders` counts it, which spares the
proofs any reasoning about shutdown. `TaskSchedulerSteps` shows that the steps preserve
the parts up to `CallInv`, `TaskSchedulerProofs` the rest.

`BufferManagerProofs` proves, for any sets of threads, pages and groups, any pool and
queue, provided that pages are removed in checkpoints only (`"rollback" \notin Races`):

- `WritesKept`: `WritesAreKept` is an invariant;
- `StableReads`: `ReadsAreStable` is an invariant.

In the inductive invariant `PageInv`, `OneHolder` says that a page
is LOCKED exactly while one thread holds it, to pin, to evict or to remove it, and
`ContentKept` where the content is in each of these roles; neither holds without the
other, since only the lock keeps a second thread from releasing a frame just filled.
`CopyOK` says of an optimistic read that as long as its page stays in the frame
the version only grows, and that until it does the halves copied are the content
unless somebody pins the page. Nothing about the queue, the counters or the
candidates of an eviction is needed: a wrong candidate is caught by the state word.

`BufferManagerSteps` has the invariant and the steps of `reserve`, of evictions and of
reads, `BufferManagerProofs` the others and the theorems. The other four properties of
`bm_pages` are only model-checked, see below.

`CheckpointRecoveryProofs` proves, for any number of commits and any sequence of the
faults that `ToleratedFaults` admits (those of the passing runs):

- `FilesAreConsistent`: the inductive invariant `IInv`;
- `AcknowledgedCommitsSurvive`, `CommitOrderSurvives`, `EveryCrashIsRecoverable`,
  `MemoryIsOnDisk`: `NothingLost`, `OrderKept`, `RecoverySucceeds` and `FilesMatchMemory`
  are invariants, the last one without failing syncs of commits. `FilesMatchMemory` says
  that a crash of the open database adds nothing, keeps the order, and loses nothing but
  COPYs that were not acknowledged;
- `StorageIsDurable`: the refinement of `DurableDatabase`, without loss of power and
  failing syncs of commits.

`IInv` says at each label which files hold the committed state: the data file followed
by the WAL, or, once the WAL ends with a CHECKPOINT record, the shadow file; and which
prefixes of the WAL may be on the disk. A kill or a loss of power keeps this, and
recovery starts from it. `ToleratedFaults` excludes what the table above shows to be
fatal: failures that leave a CHECKPOINT record or unwritten bytes in the WAL, a kill
between the two removals that end recovery, and, with losses of power, any crash while a
logged checkpoint is applied.

`NodeGroupProofs` proves `RowsStayAtTheirOffsets`: `OffsetsMatch` is an invariant, for any
capacity, workers and rows. `OffsetsMatch` is about the mode in which statements fail
only while nothing is committed. The inductive invariant says that every group but the
last is full and `numTotalRows` is where the next row goes (`Packed`), that a group a worker
flushes is empty and its own (`StoredInv`, `FlushInv`), and that while nothing is
committed the undo records follow each other from the first row to the last (`Chain`):
only then does a rollback, which goes by the stored rows and leaves the cursor alone,
empty the table.

The assumptions on constants are the named `ASSUME`s of the modules.

Only model-checked:

- the liveness properties (TLAPS does not reason about fairness and `ENABLED`);
- `RowVersions`: what a reader sees is the first match in an update chain and
  a version array in one of two representations, compared with a history of contents;
- `RowsAreCommitted` of `NodeGroupCollection`, which says which rows are left after any
  sequence of failures, not only after those that empty the table;
- `MemoryIsAccounted`, `PoolNeverExceeded`, `CachedPagesAreCandidates` and
  `GroupsInUseAreInMemory` of `BufferManager`: the first three relate counters and slots to
  sums over all threads, groups and pages. They except what follows once a destroyed
  group was spilled (`strayed`), or a slot cleared that was not the eviction's own
  (`miscleared`); the run reaches both;
- `CSRNodeGroup`: its checkpoint is computed by recursive operators, about which TLAPS
  proves nothing;
- `PageManager`: its free lists are searched, split and merged by folds over sequences.

## Not modelled

Contents of columns and their encoding, query compilation, operators and functions,
statistics, extensions and bindings: sequential code over data that TLC cannot
enumerate, or pure input and output (see `components` in `PROJECT.json`).

The catalog and its sequences, the hash index with its disk arrays, and the local
storage of a transaction have state that changes. They are left out because what is
hard in them is of another kind than interleavings and faults: with one writer at a
time (the default) the version chains of the catalog have one uncommitted version,
and the slots, splits and overlays of the hash index are single-threaded algorithms
over arrays much larger than those a model checker can fill. What the other parts
need of them is in the models: tables that are created and dropped, whether the
catalog changed since the last checkpoint, entries of the primary key index as a set,
rows that are local until the commit.

Within the modelled parts: ALTER TABLE, attached databases, the single-threaded build
of the scheduler, the interrupt flag, directory metadata that does not reach the
disk; the second direction of a relationship table (an independent copy), groups
that are not the last one, added and dropped columns; a table's checkpoint that
fails half way, segments that split, the pages of the primary key index, updates to
a table that a COPY has loaded and no checkpoint has saved; files in memory mode,
temporary pages of the memory manager, failing reads and writes of pages.
