---------------------------- MODULE PageManager ----------------------------
(***************************************************************************)
(* The pages of the data file: who owns each of them, from the allocation  *)
(* by PageManager and FreeSpaceManager, through COPY's optimistic          *)
(* allocator, the checkpoint that moves, frees and reuses them (Column,    *)
(* StorageManager, Checkpointer, ShadowFile), to the reopening of the file *)
(* after a crash.                                                          *)
(*                                                                         *)
(* A table has one column of one segment, whose pages all hold the same    *)
(* rows; a row is the number of the commit that wrote it, 0 before.  The   *)
(* log of commits is abstracted to what replaying it writes (wal):         *)
(* CheckpointRecovery models the log itself and the order of the syncs.    *)
(***************************************************************************)
EXTENDS Integers, FiniteSetsExt, SequencesExt

CONSTANTS
    Tables, Rows,
    Sizes,              \* numbers of pages a flushed segment may need
    PageUnits,          \* entries of the metadata that fit in a page
    MaxPages,           \* bound on the pages of the file
    Bounds,             \* bounds on the tables, commits and checkpoints of a behaviour
    MaxFaults,          \* bound on crashes and failed checkpoints
    WriteMayFail        \* whether a COPY may fail between allocating pages and writing them

ASSUME PageConstants ==
    /\ Sizes \subseteq 1..MaxPages /\ PageUnits \in Nat \ {0} /\ WriteMayFail \in BOOLEAN
    /\ {MaxPages, MaxFaults} \subseteq Nat
    /\ Bounds \subseteq [tables : Nat, writes : Nat, checkpoints : Nat]

VARIABLES
    freeLists, uncheckpointed,  \* FreeSpaceManager: free lists by level, ranges freed since
    numPages, version,          \* FileHandle::numPages; whether PageManager::version # 0
    file, shadow, frames,       \* data file, shadow pages, pages cached in the buffer manager
    logged,                     \* whether the WAL ends with a checkpoint record
    wal,                        \* rows that replaying the WAL writes
    header, newHeader,          \* DatabaseHeader in memory, and the checkpointer's copy
    tables, catalogChanged,     \* StorageManager::tables; Catalog::changedSinceLastCheckpoint
    copy,                       \* the running COPY and its optimistically allocated pages
    pc, todo,                   \* the checkpoint: next step, tables to do
    hasStorageChanges,
    committed,                  \* what clients were told is committed
    unlogged,                   \* tables loaded by a COPY that no checkpoint has saved
    torn,                       \* tables with shadow pages from a failed checkpoint
    commits, checkpoints, faults,
    bounds                      \* the member of Bounds for this behaviour

spaceVars == <<freeLists, uncheckpointed, numPages, version>>
fileVars == <<file, shadow, frames, logged>>
checkpointVars == <<header, newHeader, todo, hasStorageChanges>>
dataVars == <<wal, committed, unlogged, torn>>
counters == <<commits, checkpoints, faults>>
vars == <<spaceVars, fileVars, checkpointVars, dataVars, counters, tables, catalogChanged, copy, pc,
          bounds>>

----------------------------------------------------------------------------
\* Page ranges and the contents of pages.
NoRange == [start |-> -1, num |-> 0]
Pages(r) == r.start .. (r.start + r.num - 1)
EndOffByOne(r) == r.start + r.num + 1
End(r) == r.start + r.num
RangeSeq(r) == IF r = NoRange THEN <<>> ELSE <<r>>

Empty == [r \in Rows |-> 0]
Overlay(base, upd) == [r \in Rows |-> IF upd[r] # 0 THEN upd[r] ELSE base[r]]

Blank == [kind |-> "blank"]
Data(t, rows) == [kind |-> "data", table |-> t, rows |-> rows]
Fill(r, content) == [p \in Pages(r) |-> content]
NoPages == [p \in {} |-> Blank]

\* Writing pages extends the file when needed.
WriteTo(f, pages) ==
    [p \in 0 .. Max(DOMAIN f \cup DOMAIN pages) |->
        IF p \in DOMAIN pages THEN pages[p] ELSE IF p \in DOMAIN f THEN f[p] ELSE Blank]
KeepCached(cached, ps) == cached
Evict(cached, ps) == [p \in DOMAIN cached \ ps |-> cached[p]]

Live == {t \in Tables : tables[t].status = "live"}

NoTable == [status |-> "none", loaded |-> FALSE, range |-> NoRange, updates |-> Empty,
            changed |-> FALSE]
NoHeader == [catalog |-> NoRange, metadata |-> NoRange]
HeaderPage(h) == [kind |-> "header", header |-> h]

----------------------------------------------------------------------------
\* FreeSpaceManager.  Level l holds the ranges of 2^l .. 2^(l+1)-1 pages, sorted
\* by size and then by start.
MaxLevel == Max({l \in 0..MaxPages : 2^l <= MaxPages})
GetLevel(n) == Max({l \in 0..MaxLevel : 2^l <= n})
EntryCmp(a, b) == IF a.num = b.num THEN a.start < b.start ELSE a.num < b.num

AddFreePages(lists, r) == [lists EXCEPT ![GetLevel(r.num)] = @ \cup {r}]
FreeEntries(lists) == UNION {lists[l] : l \in 0..MaxLevel}
NoFreePages == [l \in 0..MaxLevel |-> {}]

LowerBound(list, n) == {e \in list : ~EntryCmp(e, [start |-> 0, num |-> n])}
LevelsFrom(lists, n) == {l \in GetLevel(n)..MaxLevel : LowerBound(lists[l], n) # {}}

\* splitPageRange: what is left of the range goes back to the lists.
DropRemainder(lists, entry, n) == lists
SplitPageRange(lists, entry, n) ==
    IF entry.num = n THEN lists
    ELSE AddFreePages(lists, [start |-> entry.start + n, num |-> entry.num - n])

\* popFreePages, when some range is large enough.
PopFreePages(lists, n) ==
    LET level == Min(LevelsFrom(lists, n))
        entry == CHOOSE e \in LowerBound(lists[level], n) :
                     \A o \in LowerBound(lists[level], n) \ {e} : EntryCmp(e, o)
    IN  [range |-> [start |-> entry.start, num |-> n],
         lists |-> SplitPageRange([lists EXCEPT ![level] = @ \ {entry}], entry, n)]

\* mergePageRanges: sorted by start, adjacent ranges become one.
MergeNext(merged, e) ==
    IF merged # <<>> /\ End(Last(merged)) = e.start
    THEN [merged EXCEPT ![Len(merged)].num = @ + e.num]
    ELSE Append(merged, e)
SortedByStart(entries) ==
    LET starts == {e.start : e \in entries}
    IN  FoldLeft(LAMBDA sorted, p : IF p \in starts
                                    THEN Append(sorted, CHOOSE e \in entries : e.start = p)
                                    ELSE sorted,
                 <<>>, [i \in 1..MaxPages |-> i - 1])
MergePageRanges(entries) == FoldLeft(MergeNext, <<>>, SortedByStart(entries))

----------------------------------------------------------------------------
\* PageManager::allocatePageRange: a free range, or new pages at the end of the
\* file.  Only the former counts as a change (++version).
AllocatePageRange(n) ==
    IF LevelsFrom(freeLists, n) # {}
    THEN LET popped == PopFreePages(freeLists, n)
         IN  [range |-> popped.range, lists |-> popped.lists, numPages |-> numPages,
              version |-> TRUE, evicted |-> {}]
    ELSE [range |-> [start |-> numPages, num |-> n], lists |-> freeLists,
          numPages |-> numPages + n, version |-> version,
          evicted |-> numPages .. (numPages + n - 1)]

Allocated(a) ==
    /\ a.numPages <= MaxPages
    /\ freeLists' = a.lists
    /\ numPages' = a.numPages

Init ==
    /\ freeLists = NoFreePages /\ uncheckpointed = <<>> /\ numPages = 1 /\ version = FALSE
    /\ file = [p \in {0} |-> HeaderPage(NoHeader)]
    /\ shadow = NoPages /\ frames = NoPages /\ logged = FALSE
    /\ header = NoHeader /\ newHeader = NoHeader
    /\ tables = [t \in Tables |-> NoTable] /\ catalogChanged = FALSE
    /\ copy = {} /\ pc = "idle" /\ todo = {} /\ hasStorageChanges = FALSE
    /\ wal = [t \in Tables |-> Empty] /\ committed = [t \in Tables |-> Empty]
    /\ unlogged = {} /\ torn = {}
    /\ commits = 0 /\ checkpoints = 0 /\ faults = 0
    /\ bounds \in Bounds

----------------------------------------------------------------------------
\* Statements.  One write transaction runs at a time and checkpoints run alone.
Quiet == pc = "idle" /\ copy = {}

CreateTable(t) ==
    /\ Quiet /\ tables[t].status = "none"
    /\ Cardinality({u \in Tables : tables[u].status # "none"}) < bounds.tables
    /\ tables' = [tables EXCEPT ![t].status = "live", ![t].loaded = TRUE]
    /\ catalogChanged' = TRUE
    /\ UNCHANGED <<spaceVars, fileVars, checkpointVars, dataVars, counters, copy, pc>>

DropTable(t) ==
    /\ Quiet /\ tables[t].status = "live"
    /\ tables' = [tables EXCEPT ![t].status = "dropped"]
    /\ catalogChanged' = TRUE
    /\ UNCHANGED <<spaceVars, fileVars, checkpointVars, dataVars, counters, copy, pc>>

\* A committed insertion of all rows, or update of one: kept in memory and logged.
CommitWrite(t, rows) ==
    /\ Quiet /\ tables[t].status = "live" /\ t \notin unlogged /\ commits < bounds.writes
    /\ IF committed[t] = Empty THEN rows = Rows ELSE Cardinality(rows) = 1
    /\ LET written == [r \in Rows |-> IF r \in rows THEN commits + 1 ELSE 0]
       IN  /\ tables' = [tables EXCEPT ![t].updates = Overlay(@, written), ![t].changed = TRUE]
           /\ wal' = [wal EXCEPT ![t] = Overlay(@, written)]
           /\ committed' = [committed EXCEPT ![t] = Overlay(@, written)]
    /\ commits' = commits + 1
    /\ UNCHANGED <<spaceVars, fileVars, checkpointVars, unlogged, torn, checkpoints, faults,
                   catalogChanged, copy, pc>>

\* A query scans a table: its pages are cached.
ScanTable(t) ==
    /\ pc = "idle" /\ tables[t].status = "live" /\ ~(Pages(tables[t].range) \subseteq DOMAIN frames)
    /\ frames' = [p \in DOMAIN frames \cup Pages(tables[t].range) |->
                     IF p \in DOMAIN frames THEN frames[p] ELSE file[p]]
    /\ UNCHANGED <<spaceVars, file, shadow, logged, checkpointVars, dataVars, counters, tables,
                   catalogChanged, copy, pc>>

\* COPY into an empty table: ColumnChunkData::flush allocates pages through the
\* transaction's OptimisticAllocator ...
CopyAllocate(t, n) ==
    LET a == AllocatePageRange(n)
    IN  /\ Quiet /\ tables[t].status = "live" /\ committed[t] = Empty /\ commits < bounds.writes
        /\ Allocated(a) /\ version' = a.version /\ frames' = Evict(frames, a.evicted)
        /\ copy' = {[table |-> t, range |-> a.range, written |-> FALSE]}
        /\ UNCHANGED <<uncheckpointed, file, shadow, logged, checkpointVars, dataVars, counters,
                       tables, catalogChanged, pc>>

\* ... and writes them to the data file, past the buffer manager.
CopyWrite ==
    \E c \in copy :
        /\ ~c.written
        /\ file' = WriteTo(file, Fill(c.range, Data(c.table, [r \in Rows |-> commits + 1])))
        /\ copy' = {[c EXCEPT !.written = TRUE]}
        /\ UNCHANGED <<spaceVars, shadow, frames, logged, checkpointVars, dataVars, counters,
                       tables, catalogChanged, pc>>

\* OptimisticAllocator::rollback, from LocalStorage::rollback.
CopyRollback ==
    \E c \in copy :
        /\ c.written \/ WriteMayFail
        /\ freeLists' = AddFreePages(freeLists, c.range)
        /\ frames' = Evict(frames, Pages(c.range))
        /\ version' = TRUE
        /\ copy' = {}
        /\ UNCHANGED <<uncheckpointed, numPages, file, shadow, logged, checkpointVars, dataVars,
                       counters, tables, catalogChanged, pc>>

----------------------------------------------------------------------------
\* Checkpointer::writeCheckpoint, from its copy of the header on.
BeginCheckpoint ==
    /\ pc' = "tables"
    /\ checkpoints < bounds.checkpoints /\ checkpoints' = checkpoints + 1
    /\ todo' = Live /\ hasStorageChanges' = FALSE
    /\ newHeader' = header

Checkpoint ==
    /\ Quiet
    /\ BeginCheckpoint
    /\ UNCHANGED <<spaceVars, fileVars, header, dataVars, commits, faults, tables,
                   catalogChanged, copy>>

\* A COPY is not logged: its commit forces a checkpoint.
CopyCommit ==
    \E c \in copy :
        /\ c.written
        /\ tables' = [tables EXCEPT ![c.table].range = c.range, ![c.table].changed = TRUE]
        /\ committed' = [committed EXCEPT ![c.table] = [r \in Rows |-> commits + 1]]
        /\ unlogged' = unlogged \cup {c.table}
        /\ commits' = commits + 1
        /\ copy' = {}
        /\ BeginCheckpoint
        /\ UNCHANGED <<spaceVars, fileVars, header, wal, torn, faults, catalogChanged>>

\* NodeTable::checkpoint leaves a table with nothing to write as it is ...
Checkpointed(t) ==
    /\ pc = "tables" /\ t \in todo
    /\ todo' = todo \ {t}
    /\ hasStorageChanges' = (hasStorageChanges \/ tables[t].changed)
    /\ UNCHANGED <<header, newHeader, dataVars, counters, catalogChanged, copy, pc, logged>>

Saved(t, range) ==
    tables' = [tables EXCEPT ![t].range = range, ![t].updates = Empty, ![t].changed = FALSE]

KeepTable(t) ==
    /\ Checkpointed(t)
    /\ tables[t].updates = Empty
    /\ Saved(t, tables[t].range)
    /\ UNCHANGED <<spaceVars, file, shadow, frames>>

\* ... writes new rows to new pages (NodeGroup::checkpointInMemOnly) ...
FlushTable(t, n) ==
    LET a == AllocatePageRange(n)
    IN  /\ Checkpointed(t)
        /\ tables[t].updates # Empty /\ tables[t].range = NoRange
        /\ Allocated(a) /\ version' = a.version /\ frames' = Evict(frames, a.evicted)
        /\ file' = WriteTo(file, Fill(a.range, Data(t, tables[t].updates)))
        /\ Saved(t, a.range)
        /\ UNCHANGED <<uncheckpointed, shadow>>

\* ... and updates through shadow pages (checkpointColumnChunkInPlace) ...
CheckpointInPlace(t) ==
    LET page(p) == IF p \in DOMAIN shadow THEN shadow[p] ELSE file[p]
    IN  /\ Checkpointed(t)
        /\ tables[t].updates # Empty /\ tables[t].range # NoRange
        /\ shadow' = [p \in DOMAIN shadow \cup Pages(tables[t].range) |->
                         IF p \in Pages(tables[t].range)
                         THEN Data(t, Overlay(page(p).rows, tables[t].updates))
                         ELSE shadow[p]]
        /\ Saved(t, tables[t].range)
        /\ UNCHANGED <<spaceVars, file, frames>>

\* ... or, when they do not fit, by a new copy (checkpointColumnChunkOutOfPlace),
\* read from the data file.
CheckpointOutOfPlace(t, n) ==
    LET a   == AllocatePageRange(n)
        old == tables[t].range
    IN  /\ Checkpointed(t)
        /\ tables[t].updates # Empty /\ old # NoRange
        /\ uncheckpointed' = Append(uncheckpointed, old)
        /\ Allocated(a) /\ version' = TRUE /\ frames' = Evict(frames, a.evicted)
        /\ file' = WriteTo(file, Fill(a.range, Data(t, Overlay(file[old.start].rows,
                                                              tables[t].updates))))
        /\ Saved(t, a.range)
        /\ UNCHANGED shadow

\* StorageManager::reclaimDroppedTables.
ReclaimDroppedTables ==
    LET dropped == {t \in Tables : tables[t].status = "dropped" /\ tables[t].loaded}
        freed   == {tables[t].range : t \in dropped} \ {NoRange}
    IN  /\ pc = "tables" /\ todo = {}
        /\ uncheckpointed' = uncheckpointed \o SetToSeq(freed)
        /\ version' = (version \/ freed # {})
        /\ tables' = [t \in Tables |->
                         IF t \in dropped
                         THEN [tables[t] EXCEPT !.loaded = FALSE, !.range = NoRange]
                         ELSE tables[t]]
        /\ pc' = "catalog"
        /\ UNCHANGED <<freeLists, numPages, fileVars, checkpointVars, dataVars, counters,
                       catalogChanged, copy>>

\* Pages of the catalog and of the metadata are written to shadow pages.
ShadowRange(r, content) ==
    shadow' = [p \in DOMAIN shadow \cup Pages(r) |->
                  IF p \in Pages(r) THEN content ELSE shadow[p]]

CatalogIsStale == header.catalog = NoRange \/ catalogChanged
SerializeCatalog ==
    LET a == AllocatePageRange(1)
    IN  /\ pc = "catalog" /\ pc' = "metadata"
        /\ IF CatalogIsStale
           THEN /\ Allocated(a) /\ frames' = Evict(frames, a.evicted)
                /\ version' = (a.version \/ header.catalog # NoRange)
                /\ uncheckpointed' = uncheckpointed \o RangeSeq(header.catalog)
                /\ ShadowRange(a.range, [kind |-> "catalog", tables |-> Live])
                /\ newHeader' = [newHeader EXCEPT !.catalog = a.range]
           ELSE UNCHANGED <<spaceVars, shadow, frames, newHeader>>
        /\ UNCHANGED <<file, logged, header, todo, hasStorageChanges, dataVars, counters,
                       tables, catalogChanged, copy>>

\* The storage metadata take a unit for each table, the page manager's one for
\* each range.  The pages are allocated before the ranges are serialized, from
\* an estimate that starts a new page for the page manager.
Ceil(n) == (n + PageUnits - 1) \div PageUnits
MetadataUnits == 1 + Cardinality(Live)
EntryUnits(lists, freed) == 1 + Cardinality(FreeEntries(lists)) + Len(freed)
EstimatedBeforeFreeing(freed) == Ceil(MetadataUnits) + Ceil(EntryUnits(freeLists, uncheckpointed))
EstimatedPages(freed) == Ceil(MetadataUnits) + Ceil(EntryUnits(freeLists, freed))

Metadata(lists, freed) ==
    [kind |-> "metadata", chunks |-> [t \in Live |-> tables[t].range],
     free |-> FreeEntries(lists) \cup ToSet(freed),
     used |-> Ceil(MetadataUnits + EntryUnits(lists, freed))]

CatalogOrPagesChanged == header.metadata = NoRange \/ catalogChanged \/ version
MetadataAreStale ==
    header.metadata = NoRange \/ hasStorageChanges \/ catalogChanged \/ version
SerializeMetadata ==
    LET freed == uncheckpointed \o RangeSeq(header.metadata)
        a     == AllocatePageRange(EstimatedPages(freed))
    IN  /\ pc = "metadata" /\ pc' = "header"
        /\ IF MetadataAreStale
           THEN /\ Allocated(a) /\ frames' = Evict(frames, a.evicted)
                /\ version' = (a.version \/ header.metadata # NoRange)
                /\ uncheckpointed' = freed
                /\ ShadowRange(a.range, Metadata(a.lists, freed))
                /\ newHeader' = [newHeader EXCEPT !.metadata = a.range]
           ELSE UNCHANGED <<spaceVars, shadow, frames, newHeader>>
        /\ UNCHANGED <<file, logged, header, todo, hasStorageChanges, dataVars, counters,
                       tables, catalogChanged, copy>>

WriteDatabaseHeader ==
    /\ pc = "header" /\ pc' = "log"
    /\ ShadowRange([start |-> 0, num |-> 1], HeaderPage(newHeader))
    /\ header' = newHeader
    /\ UNCHANGED <<spaceVars, file, frames, logged, newHeader, todo, hasStorageChanges,
                   dataVars, counters, tables, catalogChanged, copy>>

\* The shadow file is flushed and the checkpoint logged: from here on it counts.
LogCheckpoint ==
    /\ pc = "log" /\ pc' = "apply"
    /\ logged' = TRUE
    /\ wal' = [t \in Tables |-> Empty] /\ unlogged' = {}
    /\ UNCHANGED <<spaceVars, file, shadow, frames, checkpointVars, committed, torn, counters,
                   tables, catalogChanged, copy>>

\* applyShadowPages updates the file and the cached pages; WAL and shadow file
\* are then cleared.
ApplyShadowPages ==
    /\ pc = "apply" /\ pc' = "finalize"
    /\ file' = WriteTo(file, shadow)
    /\ frames' = [p \in DOMAIN frames |-> IF p \in DOMAIN shadow THEN shadow[p] ELSE frames[p]]
    /\ shadow' = NoPages /\ logged' = FALSE
    /\ UNCHANGED <<spaceVars, checkpointVars, dataVars, counters, tables, catalogChanged, copy>>

\* FreeSpaceManager::finalizeCheckpoint: freed pages leave the cache and become
\* free; a last range that reaches the end of the file shortens it (in memory
\* only) instead.
FinalizeCheckpoint ==
    LET freed  == ToSet(uncheckpointed)
        merged == MergePageRanges(freed \cup FreeEntries(freeLists))
        atEnd  == merged # <<>> /\ End(Last(merged)) = numPages
        kept   == IF atEnd THEN Front(merged) ELSE merged
    IN  /\ pc = "finalize" /\ pc' = "idle"
        /\ frames' = Evict(frames, UNION {Pages(r) : r \in freed})
        /\ freeLists' = FoldLeft(AddFreePages, NoFreePages, kept)
        /\ numPages' = IF atEnd THEN Last(merged).start ELSE numPages
        /\ uncheckpointed' = <<>> /\ version' = FALSE /\ catalogChanged' = FALSE
        /\ UNCHANGED <<file, shadow, logged, checkpointVars, dataVars, counters, tables, copy>>

\* A step that needs memory or writes throws before the checkpoint is logged:
\* Checkpointer::rollback.  Shadow pages, and what tables already wrote, stay.
FailCheckpoint ==
    /\ \/ pc = "tables" /\ \E t \in todo : tables[t].changed
       \/ pc = "catalog" /\ CatalogIsStale
       \/ pc = "metadata" /\ MetadataAreStale
       \/ pc \in {"header", "log"}
    /\ version' = (version \/ (pc = "metadata" /\ header.metadata # NoRange))
    /\ pc' = "idle"
    /\ faults < MaxFaults /\ faults' = faults + 1
    /\ uncheckpointed' = <<>>
    /\ newHeader' = header
    /\ torn' = torn \cup {t \in Live : Pages(tables[t].range) \cap DOMAIN shadow # {}}
    /\ UNCHANGED <<freeLists, numPages, fileVars, header, todo, hasStorageChanges,
                   wal, committed, unlogged, commits, checkpoints, tables, catalogChanged, copy>>

----------------------------------------------------------------------------
\* What the file holds, shadow pages included once the checkpoint is logged.
Disk == IF logged THEN WriteTo(file, shadow) ELSE file
DiskHeader == Disk[0].header
DiskTables == IF DiskHeader.catalog = NoRange THEN {} ELSE Disk[DiskHeader.catalog.start].tables
DiskMetadata == Disk[DiskHeader.metadata.start]
DiskRange(t) == IF t \in DiskTables THEN DiskMetadata.chunks[t] ELSE NoRange

\* A crash and the next open: Checkpointer::readCheckpoint after replaying the
\* shadow pages of a logged checkpoint, then the WAL.
CrashAndReopen ==
    /\ faults < MaxFaults /\ faults' = faults + 1
    /\ file' = Disk /\ shadow' = NoPages /\ frames' = NoPages /\ logged' = FALSE
    /\ header' = DiskHeader /\ newHeader' = DiskHeader
    /\ numPages' = Cardinality(DOMAIN Disk) /\ version' = FALSE /\ uncheckpointed' = <<>>
    /\ freeLists' = IF DiskHeader.catalog = NoRange THEN NoFreePages
                    ELSE FoldSet(LAMBDA r, lists : AddFreePages(lists, r), NoFreePages, DiskMetadata.free)
    /\ tables' = [t \in Tables |->
                     [status  |-> tables[t].status,
                      loaded  |-> t \in DiskTables \cup Live,
                      range   |-> DiskRange(t),
                      updates |-> wal[t], changed |-> wal[t] # Empty]]
    /\ catalogChanged' = (Live # DiskTables)
    /\ committed' = [t \in Tables |-> IF t \in unlogged THEN Empty ELSE committed[t]]
    /\ unlogged' = {} /\ copy' = {} /\ pc' = "idle" /\ todo' = {}
    /\ hasStorageChanges' = FALSE
    /\ UNCHANGED <<wal, torn, commits, checkpoints>>

CheckpointStep ==
    \/ \E t \in Tables : KeepTable(t)
    \/ \E t \in Tables, n \in Sizes : FlushTable(t, n)
    \/ \E t \in Tables : CheckpointInPlace(t)
    \/ \E t \in Tables, n \in Sizes : CheckpointOutOfPlace(t, n)
    \/ ReclaimDroppedTables
    \/ SerializeCatalog
    \/ SerializeMetadata
    \/ WriteDatabaseHeader
    \/ LogCheckpoint
    \/ ApplyShadowPages
    \/ FinalizeCheckpoint

Step ==
    \/ \E t \in Tables : CreateTable(t)
    \/ \E t \in Tables : DropTable(t)
    \/ \E t \in Tables, rows \in SUBSET Rows : CommitWrite(t, rows)
    \/ \E t \in Tables : ScanTable(t)
    \/ \E t \in Tables, n \in Sizes : CopyAllocate(t, n)
    \/ CopyWrite
    \/ CopyRollback
    \/ CopyCommit
    \/ Checkpoint
    \/ CheckpointStep
    \/ FailCheckpoint
    \/ CrashAndReopen

Next == Step /\ UNCHANGED bounds

Spec == Init /\ [][Next]_vars

----------------------------------------------------------------------------
\* After a crash at any moment the file reads back as what was committed: the
\* header leads to a catalog and to metadata that list the same tables (or
\* StorageManager::deserialize throws), every page of every chunk still holds
\* that table's rows, and with the WAL's writes they are the committed ones.
\* Freed pages must therefore not be reused before the checkpoint that frees
\* them is logged.  Tables that a failed checkpoint had updated in place are
\* excepted from the last part: see RetriedCheckpointSavesAll.
WholeRange(r, kind) ==
    /\ Pages(r) \subseteq DOMAIN Disk
    /\ \A p \in Pages(r) : Disk[p].kind = kind /\ Disk[p] = Disk[r.start]
DiskIsWhole ==
    DiskHeader.catalog # NoRange =>
        /\ WholeRange(DiskHeader.catalog, "catalog") /\ WholeRange(DiskHeader.metadata, "metadata")
        /\ DOMAIN DiskMetadata.chunks = DiskTables
        /\ \A t \in DiskTables :
               /\ WholeRange(DiskRange(t), "data")
               /\ \A p \in Pages(DiskRange(t)) : Disk[p].table = t
DiskRows(t) == IF DiskRange(t) = NoRange THEN Empty ELSE Disk[DiskRange(t).start].rows
DiskHolds(t) ==
    Overlay(DiskRows(t), wal[t]) = IF t \in unlogged THEN Empty ELSE committed[t]
Recoverable == DiskIsWhole /\ \A t \in Live \ torn : DiskHolds(t)

\* No page has two owners among the header, the catalog, the metadata, the
\* chunks, a running COPY, the free lists and the ranges freed since the last
\* checkpoint, and all of them lie in the file: allocatePageRange never hands
\* out a page in use, also after reopening a file whose length decides where
\* new pages go.
Owned ==
    <<[start |-> 0, num |-> 1], newHeader.catalog, newHeader.metadata>>
    \o FoldSet(LAMBDA t, ranges : Append(ranges, tables[t].range), <<>>, Tables)
    \o FoldSet(LAMBDA c, ranges : Append(ranges, c.range), uncheckpointed, copy)
OwnedPages == UNION {Pages(r) : r \in ToSet(Owned) \cup FreeEntries(freeLists)}
Disjoint(r, s) == Pages(r) \cap Pages(s) = {}
NoPageHasTwoOwners ==
    LET owned == Owned
        free  == FreeEntries(freeLists)
    IN  /\ \A i, j \in DOMAIN owned : i < j => Disjoint(owned[i], owned[j])
        /\ \A e \in free : \A i \in DOMAIN owned : Disjoint(e, owned[i])
        /\ \A e, f \in free : e # f => Disjoint(e, f)
        /\ OwnedPages \subseteq 0 .. (numPages - 1)

\* Every page has an owner as long as no checkpoint fails and no process crashes:
\* freeing, splitting, merging and truncating ranges loses none, nor does a COPY
\* that rolls back.  (A failed checkpoint loses the pages it allocated.)
NoPageIsLost ==
    faults = 0 => OwnedPages = 0 .. (numPages - 1)

\* The metadata fit in the pages allocated from the estimate that precedes the
\* allocation, although the allocation itself may split a range and the old
\* metadata's range is freed (the assertion of InMemFileWriter::flush).
MetadataFit ==
    \A p \in DOMAIN shadow :
        shadow[p].kind = "metadata" /\ p \in Pages(newHeader.metadata) =>
            shadow[p].used <= newHeader.metadata.num

\* Between checkpoints a scan of a table returns what was committed, whether its
\* pages come from the file or from the cache: pages written past the buffer
\* manager, or through the shadow file, have no stale copy left in it.
ScansReadCommitted ==
    pc = "idle" =>
        \A t \in Live \ torn :
            IF tables[t].range = NoRange THEN tables[t].updates = committed[t]
            ELSE \A p \in Pages(tables[t].range) :
                     LET page == IF p \in DOMAIN frames THEN frames[p] ELSE file[p]
                     IN  /\ page.kind = "data" /\ page.table = t
                         /\ Overlay(page.rows, tables[t].updates) = committed[t]

\* What is committed survives a crash also when a checkpoint failed half way and
\* the next one succeeded: Checkpointer::rollback undoes the failed one.
RetriedCheckpointSavesAll ==
    \A t \in Live : DiskHolds(t)
=============================================================================
