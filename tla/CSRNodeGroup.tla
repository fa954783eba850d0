---------------------------- MODULE CSRNodeGroup ----------------------------
(***************************************************************************)
(* A node group of a relationship table (CSRNodeGroup, RelTable,           *)
(* RelTableData, RelBatchInsert): the adjacency lists of its nodes in one  *)
(* direction.  Checkpointed lists lie side by side in columns, with a      *)
(* header of their ends and lengths and gaps left for growth; committed    *)
(* rels that no checkpoint has merged yet are rows in memory, indexed by   *)
(* node.  A checkpoint merges the rows into the columns, moving as few     *)
(* lists as the density bounds of a packed memory array allow.             *)
(*                                                                         *)
(* A rel is its ID and one property: the column "rel" stands for those     *)
(* that never change (neighbour, ID), "prop" for those that SET writes.    *)
(* Transactions are in RowVersions; here each statement commits at once    *)
(* or fails while committing.  The rows in memory fit in one chunk, and    *)
(* the group is the last one of its table.                                 *)
(*                                                                         *)
(* The code has steps that lose or mix up rels.  Such a step adds its name *)
(* to `flaws` and ends the behaviour: the other properties are about       *)
(* groups without flaws, the last four say of each flaw that it is none.   *)
(***************************************************************************)
EXTENDS Integers, FiniteSetsExt, SequencesExt, TLC

CONSTANTS
    LeafLog2, Height,   \* CSR_LEAF_REGION_SIZE_LOG2, calibratorTreeHeight
    BoundNodes,         \* the nodes that get rels
    VectorCapacity,     \* rows a scan reads at a time
    MaxRels, MaxBatch,  \* bounds on rels ever created, and by one statement
    MaxFailures         \* bound on commits that fail

LeafSize == 2^LeafLog2
NumNodes == 2^(LeafLog2 + Height)
Nodes == 0..(NumNodes - 1)
Leaves == 0..(2^Height - 1)

ASSUME CSRConstants ==
    /\ LeafLog2 \in Nat /\ Height \in Nat \ {0} /\ VectorCapacity \in Nat \ {0}
    /\ BoundNodes \subseteq Nodes /\ {MaxRels, MaxBatch, MaxFailures} \subseteq Nat

VARIABLES
    persistent,      \* persistentChunkGroup: header, columns, deleted and updated rows
    rows,            \* chunkedGroups: the rows in memory
    csrIndex,        \* for each node its rows in memory
    hasChanges,      \* RelTable::hasChanges
    nextRel,         \* RelTable::nextRelOffset
    rels,            \* the committed rels: the graph that clients know
    flaws,           \* what a step did wrong
    failures

vars == <<persistent, rows, csrIndex, hasChanges, nextRel, rels, flaws, failures>>

Absent == [end |-> <<>>]
NoIndex == [n \in Nodes |-> <<>>]
InvalidRow == MaxRels + 1
Gap == 0
Columns == {"rel", "prop"}

HasPersistent == persistent # Absent
IsEmpty == ~HasPersistent /\ rows = <<>>
Sum(f, S) == MapThenSumSet(LAMBDA x : f[x], {x \in S : f[x] # 0})
Ascending(S, last) == SelectSeq([i \in 1..(last + 1) |-> i - 1], LAMBDA x : x \in S)

----------------------------------------------------------------------------
\* The header: end[n] is where the space of node n ends, length[n] its rels.
Start(end, n) == IF n = 0 THEN 0 ELSE end[n - 1]
Capacity(end) == end[NumNodes - 1]
NodeAt(end, p) == CHOOSE n \in Nodes : Start(end, n) <= p /\ p < end[n]

\* The fifth of the space that is left free in a region of m rels.
Packed(m) == (5 * m + 3) \div 4
LeafOf(n) == n \div LeafSize
NodesIn(leaf) == (leaf * LeafSize)..(leaf * LeafSize + LeafSize - 1)

\* Lists of the given lengths packed from 0, with the gap of a leaf region at
\* the last of its nodes up to `last`; later nodes have no space.
gapPerNode(length, last) ==
    [n \in Nodes |-> Sum([m \in Nodes |-> Packed(length[m])], 0..(IF n < last THEN n ELSE last))]
Layout(length, last) ==
    LET size == [l \in Leaves |-> Packed(Sum(length, NodesIn(l)))]
        start(l) == Sum(size, 0..(l - 1))
        rightNodes == {n \in 0..(last - 1) : LeafOf(n + 1) # LeafOf(n)}
    IN  [n \in rightNodes |-> start(LeafOf(n)) + size[LeafOf(n)]]
        @@ [n \in last..(NumNodes - 1) |-> start(LeafOf(last)) + size[LeafOf(last)]]
        @@ [n \in Nodes |-> start(LeafOf(n)) + Sum(length, (LeafOf(n) * LeafSize)..n)]

----------------------------------------------------------------------------
\* Reading: the checkpointed list of a node, then its rows in memory.
Rows(n) == [i \in 1..persistent.length[n] |-> Start(persistent.end, n) + i - 1]
NotDeleted(p) == p \notin persistent.deleted
Value(c, p) ==
    IF c = "prop" /\ p \in DOMAIN persistent.updated THEN persistent.updated[p]
    ELSE IF p \in DOMAIN persistent.columns[c] THEN persistent.columns[c][p]
    ELSE Gap
Rel(p) == [rel |-> Value("rel", p), prop |-> Value("prop", p)]
KeptRows(n) == IF HasPersistent THEN SelectSeq(Rows(n), NotDeleted) ELSE <<>>

ScanPersistent(n) == [i \in DOMAIN KeptRows(n) |-> Rel(KeptRows(n)[i])]
LiveRows(n) == SelectSeq(csrIndex[n], LAMBDA r : r \in DOMAIN rows /\ ~rows[r].deleted)
ScanInMemory(n) ==
    [i \in DOMAIN LiveRows(n) |-> [rel |-> rows[LiveRows(n)[i]].rel, prop |-> rows[LiveRows(n)[i]].prop]]
Scan(n) == ScanPersistent(n) \o ScanInMemory(n)

\* CSRNodeGroupScanState over the checkpointed lists of an ascending sequence
\* of nodes: idx is the node it is at, next the row after the last window
\* read, cached the size of that window, nextCached the row to return next.
windowAtNext(s) == s.next
WindowStart(s) == s.next - s.cached

TryScanCachedTuples(nodes, s) ==
    LET n == nodes[s.idx]
        start == Start(persistent.end, n)
        stop == start + persistent.length[n]
        from == Max({s.nextCached, start})
        until == Min({s.next, stop})
        got == SelectSeq([i \in 1..(until - from) |-> from + i - 1], NotDeleted)
        done == until = stop
    IN  IF s.cached = 0 \/ from >= s.next \/ from < WindowStart(s) THEN [s EXCEPT !.nextCached = from]
        ELSE [s EXCEPT !.lists[n] = @ \o got,
                       !.idx = IF done THEN @ + 1 ELSE @,
                       !.nextCached = IF done THEN 0 ELSE until,
                       !.hit = TRUE]

ReadWindow(nodes, s) ==
    LET from == Max({Start(persistent.end, nodes[s.idx]), s.next})
        num == Min({Capacity(persistent.end) - from, VectorCapacity})
    IN  [s EXCEPT !.next = from + num, !.cached = num]

RECURSIVE ScanWithCache(_, _)
ScanWithCache(nodes, s) ==
    IF s.idx > Len(nodes) THEN s.lists
    ELSE LET tried == TryScanCachedTuples(nodes, [s EXCEPT !.hit = FALSE])
         IN  IF tried.hit THEN ScanWithCache(nodes, tried)
             ELSE IF tried.next = Capacity(persistent.end) THEN tried.lists
             ELSE ScanWithCache(nodes, ReadWindow(nodes, tried))

ScanNodes(nodes) ==
    ScanWithCache(nodes, [idx |-> 1, next |-> 0, cached |-> 0, nextCached |-> 0, hit |-> FALSE,
                          lists |-> [n \in Range(nodes) |-> <<>>]])

----------------------------------------------------------------------------
\* Statements.  The rels of a batch get IDs in the order they were created and
\* are appended in the order of their nodes.
Batches == BoundedSeq(BoundNodes, MaxBatch) \ {<<>>}
Fits(batch) == nextRel + Len(batch) <= MaxRels + 1
InNodeOrder(batch) ==
    SortSeq([i \in DOMAIN batch |-> [node |-> batch[i], rel |-> nextRel + i - 1, prop |-> 1]],
            LAMBDA a, b : a.node < b.node \/ (a.node = b.node /\ a.rel < b.rel))

\* CSRNodeGroup::append and updateCSRIndex for new rows.
updateCSRIndex(new) ==
    [n \in Nodes |->
        csrIndex[n]
        \o SelectSeq([j \in DOMAIN new |-> Len(rows) + j], LAMBDA r : new[r - Len(rows)].node = n)]

appendRows(new) ==
    /\ rows' = rows \o [j \in DOMAIN new |-> [rel |-> new[j].rel, prop |-> 1, deleted |-> FALSE]]
    /\ csrIndex' = updateCSRIndex(new)

Created(batch) ==
    /\ rels' = rels \cup Range(InNodeOrder(batch))
    /\ nextRel' = nextRel + Len(batch)
    /\ hasChanges' = TRUE
    /\ UNCHANGED <<flaws, failures>>

CommitInsert(batch) ==
    /\ flaws = {} /\ Fits(batch)
    /\ appendRows(InNodeOrder(batch))
    /\ Created(batch)
    /\ UNCHANGED persistent

\* COPY writes the lists of an empty group straight to disk.
Loaded(batch) ==
    LET new == InNodeOrder(batch)
        length == [n \in Nodes |-> Cardinality({i \in DOMAIN batch : batch[i] = n})]
        end == Layout(length, NumNodes - 1)
        At(p, c) == LET n == NodeAt(end, p)
                        i == p - Start(end, n) + 1
                    IN  IF i > length[n] THEN Gap ELSE new[Sum(length, 0..(n - 1)) + i][c]
    IN  [end |-> end, length |-> length, deleted |-> {}, updated |-> <<>>,
         columns |-> [c \in Columns |-> [p \in 0..(Capacity(end) - 1) |-> At(p, c)]]]

CopyRels(batch) ==
    /\ flaws = {} /\ Fits(batch)
    /\ IF IsEmpty THEN persistent' = Loaded(batch) /\ UNCHANGED <<rows, csrIndex>>
       ELSE appendRows(InNodeOrder(batch)) /\ UNCHANGED persistent
    /\ Created(batch)

\* A commit that fails behind k rows of the group: rollbackInsert takes the rows
\* out and leaves the index as it is.  A last group without rows in memory is
\* removed (removeTrailingGroups), with what it has on disk.  INSERT has set
\* hasChanges, COPY would have set it at its end.
FailedStatement(batch, k) ==
    /\ flaws = {} /\ failures < MaxFailures /\ Fits(batch)
    /\ nextRel' = nextRel + Len(batch)
    /\ failures' = failures + 1
    /\ hasChanges' \in {hasChanges, TRUE}
    /\ persistent' = IF rows = <<>> THEN Absent ELSE persistent
    /\ csrIndex' = IF rows = <<>> THEN NoIndex ELSE updateCSRIndex(SubSeq(InNodeOrder(batch), 1, k))
    /\ flaws' = IF csrIndex' # csrIndex \/ persistent' # persistent THEN {"rolledBack"} ELSE {}
    /\ UNCHANGED <<rows, rels>>

----------------------------------------------------------------------------
\* SET and DELETE of a rel found by a scan of its node: on disk or in memory.
PositionOf(r) == {p \in Range(KeptRows(r.node)) : Value("rel", p) = r.rel}
RowOf(r) == {i \in Range(LiveRows(r.node)) : rows[i].rel = r.rel}

Update(r) ==
    /\ flaws = {} /\ r.prop = 1
    /\ IF PositionOf(r) # {}
       THEN /\ persistent' = [persistent EXCEPT !.updated = [p \in PositionOf(r) |-> 2] @@ @]
            /\ UNCHANGED rows
       ELSE /\ \E i \in RowOf(r) : rows' = [rows EXCEPT ![i].prop = 2]
            /\ UNCHANGED persistent
    /\ rels' = (rels \ {r}) \cup {[r EXCEPT !.prop = 2]}
    /\ hasChanges' = TRUE
    /\ UNCHANGED <<csrIndex, nextRel, flaws, failures>>

deleteRels(gone) ==
    LET positions == UNION {PositionOf(r) : r \in gone}
        deletedRows == UNION {RowOf(r) : r \in gone}
    IN  /\ flaws = {}
        /\ persistent' = IF positions = {} THEN persistent
                         ELSE [persistent EXCEPT !.deleted = @ \cup positions]
        /\ rows' = [i \in DOMAIN rows |-> [rows[i] EXCEPT !.deleted = @ \/ i \in deletedRows]]
        /\ rels' = rels \ gone
        /\ hasChanges' = TRUE
        /\ UNCHANGED <<csrIndex, nextRel, flaws, failures>>

Delete(r) == deleteRels({r})

\* detachDelete: the rels of a node, when the node is deleted.
DetachDelete(n) == deleteRels({r \in rels : r.node = n})

----------------------------------------------------------------------------
\* Checkpoint.  A group without lists on disk is written whole.
InMemOnly ==
    LET last == Max({n \in Nodes : csrIndex[n] # <<>>})
        length == [n \in Nodes |-> Len(LiveRows(n))]
        end == Layout(length, last)
        At(p, c) == LET n == NodeAt(end, p)
                        i == p - Start(end, n) + 1
                    IN  IF i > length[n] THEN Gap ELSE rows[LiveRows(n)[i]][c]
    IN  [end |-> end, length |-> length, deleted |-> {}, updated |-> <<>>,
         columns |-> [c \in Columns |-> [p \in 0..(Capacity(end) - 1) |-> At(p, c)]]]

\* Otherwise leaf regions collect their changes.  Updates are looked for one
\* position past the end of the region.
NumDeletions(n) == Len(Rows(n)) - Len(KeptRows(n))
NewLength ==
    LET changed == {n \in Nodes : csrIndex[n] # <<>> \/ NumDeletions(n) > 0}
    IN  [n \in changed |-> Len(KeptRows(n)) + Len(LiveRows(n))] @@ persistent.length

\* CSRRegion: 2^level leaf regions side by side.
Region(leaf, level) ==
    LET width == 2^level * LeafSize
        left == (leaf \div 2^level) * width
    IN  [left |-> left, right |-> Min({left + width - 1, NumNodes - 1}), level |-> level]
NodesOf(region) == region.left..region.right
LeavesOf(region) == LeafOf(region.left)..LeafOf(region.right)
Begin(region) == Start(persistent.end, region.left)

HasInsertions(region) == \E n \in NodesOf(region) : LiveRows(n) # <<>>
HasPersistentDeletions(region) == \E n \in NodesOf(region) : NumDeletions(n) > 0
LeafHasUpdates(leaf) ==
    \E p \in DOMAIN persistent.updated :
        Begin(Region(leaf, 0)) <= p /\ p <= persistent.end[Region(leaf, 0).right]
HasUpdates(region, c) == c = "prop" /\ \E l \in LeavesOf(region) : LeafHasUpdates(l)
needForInsertOrUpdate(region, c) == HasInsertions(region) \/ HasUpdates(region, c)
NeedCheckpointColumn(region, c) ==
    HasInsertions(region) \/ HasPersistentDeletions(region) \/ HasUpdates(region, c)
NeedCheckpoint(leaf) == \E c \in Columns : NeedCheckpointColumn(Region(leaf, 0), c)

\* mergeRegionsToCheckpoint: a touched leaf grows to the first ancestor within the
\* bound of its level, which falls from 1 at the leaves to 4/5 at the top; a
\* larger region takes over those inside it.
IsWithinBoundOfLeaves(region, length) ==
    LET capacity == persistent.end[region.right] - Begin(region)
    IN  Sum(length, NodesOf(region)) <= capacity + 1
IsWithinDensityBound(region, length) ==
    LET capacity == persistent.end[region.right] - Begin(region)
    IN  /\ capacity > 0
        /\ Sum(length, NodesOf(region)) * 5 * Height <= capacity * (5 * Height - region.level)
Grown(leaf, length) ==
    LET within == {k \in 0..Height : IsWithinDensityBound(Region(leaf, k), length)}
    IN  Region(leaf, Min(within \cup {Height + 1}))
RegionsToCheckpoint(length) ==
    LET found == {Grown(l, length) : l \in {l \in Leaves : NeedCheckpoint(l)}}
    IN  {r \in found : ~\E s \in found : s.level > r.level /\ r.left \in NodesOf(s)}

\* A region keeps its place unless it is the whole group, laid out anew.
NewEnd(regions, length) ==
    IF \E r \in regions : r.level > Height THEN Layout(length, NumNodes - 1)
    ELSE LET inner == UNION {NodesOf(r) \ {r.right} : r \in regions}
             region(n) == CHOOSE r \in regions : n \in NodesOf(r)
         IN  [n \in inner |-> Begin(region(n)) + Sum(length, region(n).left..n)] @@ persistent.end

\* checkpointColumn writes the lists of the regions that need it.
Rewritten(regions, c) == UNION {NodesOf(r) : r \in {r \in regions : NeedCheckpointColumn(r, c)}}
Merged(c, n) ==
    [i \in DOMAIN KeptRows(n) |-> Value(c, KeptRows(n)[i])]
    \o [i \in DOMAIN LiveRows(n) |-> rows[LiveRows(n)[i]][c]]
NewColumn(c, end, rewritten) ==
    LET At(p) == LET n == NodeAt(end, p)
                     i == p - Start(end, n) + 1
                     list == Merged(c, n)
                 IN  IF n \notin rewritten THEN Value(c, p)
                     ELSE IF i > Len(list) THEN Gap ELSE list[i]
    IN  [p \in 0..(Capacity(end) - 1) |-> At(p)]

Moved(length, end, rewritten) ==
    \E n \in Nodes \ rewritten : length[n] > 0 /\ Start(end, n) # Start(persistent.end, n)

\* The early return marks deleted rows in the index and keeps both; looking one
\* of them up again is undefined.
NothingToWrite ==
    /\ persistent' = [persistent EXCEPT !.deleted = {}, !.updated = <<>>]
    /\ csrIndex' = [n \in Nodes |-> [i \in DOMAIN csrIndex[n] |-> InvalidRow]]
    /\ flaws' = IF csrIndex' = NoIndex THEN {} ELSE {"dangling"}
    /\ UNCHANGED rows

Finalize == rows' = <<>> /\ csrIndex' = NoIndex

WriteRegions(regions, length) ==
    LET end == NewEnd(regions, length)
        rewritten == [c \in Columns |-> Rewritten(regions, c)]
    IN  /\ persistent' = [end |-> end, length |-> length, deleted |-> {}, updated |-> <<>>,
                          columns |-> [c \in Columns |-> NewColumn(c, end, rewritten[c])]]
        /\ flaws' = IF \E c \in Columns : Moved(length, end, rewritten[c])
                    THEN {"shifted"} ELSE {}

\* checkpointInMemAndOnDisk: a group whose regions hold no more rels is dropped.
CheckpointOnDisk ==
    LET length == NewLength
        regions == RegionsToCheckpoint(length)
        numTuples == Sum(length, UNION {NodesOf(r) : r \in regions})
    IN  \/ regions = {} /\ NothingToWrite
        \/ /\ regions # {} /\ numTuples = 0
           /\ persistent' = Absent
           /\ flaws' = IF Sum(length, Nodes) = 0 THEN {} ELSE {"emptied"}
           /\ Finalize
        \/ /\ regions # {} /\ numTuples > 0
           /\ WriteRegions(regions, length)
           /\ Finalize

Checkpoint ==
    /\ flaws = {} /\ hasChanges
    /\ hasChanges' = FALSE
    /\ \/ HasPersistent /\ CheckpointOnDisk
       \/ ~HasPersistent /\ rows # <<>> /\ persistent' = InMemOnly /\ Finalize /\ flaws' = {}
       \/ IsEmpty /\ UNCHANGED <<persistent, rows, csrIndex, flaws>>
    /\ UNCHANGED <<nextRel, rels, failures>>

----------------------------------------------------------------------------
Init ==
    /\ persistent = Absent /\ rows = <<>> /\ csrIndex = NoIndex
    /\ hasChanges = FALSE /\ nextRel = 1 /\ rels = {}
    /\ flaws = {} /\ failures = 0

Next ==
    \/ \E batch \in Batches :
          \/ CommitInsert(batch)
          \/ CopyRels(batch)
          \/ \E k \in 0..Len(batch) : FailedStatement(batch, k)
    \/ \E r \in rels : Update(r) \/ Delete(r)
    \/ \E n \in BoundNodes : DetachDelete(n)
    \/ Checkpoint

Spec == Init /\ [][Next]_vars

----------------------------------------------------------------------------
\* The rels of a node as a scan has to return them: in the order of their IDs.
Expected(n) ==
    LET own == {r \in rels : r.node = n}
        ids == Ascending({r.rel : r \in own}, MaxRels)
    IN  [i \in DOMAIN ids |->
            [rel |-> ids[i], prop |-> (CHOOSE r \in own : r.rel = ids[i]).prop]]

\* Whatever was inserted, copied, set, deleted, merged, packed and redistributed,
\* CSRNodeGroup::scan returns for every node its committed rels with their last
\* values, each once and in the order of creation.
ListsMatch == flaws = {} => \A n \in BoundNodes : Scan(n) = Expected(n)

\* A scan over several nodes that caches a window of rows (tryScanCachedTuples)
\* returns the rows that scans of the single nodes return.
CachedScansAgree ==
    HasPersistent =>
        \A S \in SUBSET BoundNodes :
            LET lists == ScanNodes(Ascending(S, NumNodes - 1))
            IN  \A n \in S : lists[n] = KeptRows(n)

\* ChunkedCSRHeader::sanityCheck: the lists of the header do not overlap.
HeaderIsSane ==
    HasPersistent =>
        \A n \in Nodes : Start(persistent.end, n) + persistent.length[n] <= persistent.end[n]

\* "Gaps should only happen at the end of the CSR region": no node has a gap before
\* a list of its leaf region.  A checkpoint of updates packs a leaf region and
\* rewrites only the updated columns, which is right as long as nothing moves.
GapsFollowLists ==
    HasPersistent =>
        \A n, m \in Nodes :
            n < m /\ LeafOf(n) = LeafOf(m) /\ persistent.length[m] > 0 =>
                Start(persistent.end, n) + persistent.length[n] = persistent.end[n]

Intact == \A n \in BoundNodes : Range(csrIndex[n]) \subseteq DOMAIN rows /\ Scan(n) = Expected(n)

\* When all rels of the regions that changed are deleted, checkpointInMemAndOnDisk
\* keeps "deleted rows as gaps" and the rels of the other regions stay.
DeletedRowsBecomeGaps == flaws \subseteq {"emptied"} => Intact

\* After a checkpoint that finds "nothing is updated or deleted" no deleted row in
\* memory is left behind in the index.
DeletedRowsLeaveTheIndex == flaws \subseteq {"dangling"} => Intact

\* A checkpoint of updates moves no list of a column that it does not rewrite.
UpdatesMoveNothing == flaws \subseteq {"shifted"} => Intact

\* A commit that fails leaves the group as it was: no row of it stays in the index,
\* no other rel is lost.
FailedCommitsLeaveNothing == flaws \subseteq {"rolledBack"} => Intact
=============================================================================
