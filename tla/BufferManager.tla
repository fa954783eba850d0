--------------------------- MODULE BufferManager ---------------------------
(***************************************************************************)
(* The buffer manager: page states with versions, pinning, optimistic      *)
(* reads, the eviction queue, the reservation of memory, and the spilling  *)
(* of full partitioner groups                                              *)
(* (storage/buffer_manager/buffer_manager.cpp, page_state.h, spiller.cpp,  *)
(* memory_manager.cpp; storage/table/chunked_node_group.cpp).              *)
(*                                                                         *)
(* Threads run calls of the buffer manager.  A step is one access to an    *)
(* atomic word, to a slot of the queue, or a section under a mutex, so     *)
(* the calls of two threads interleave wherever the code lets them.  A     *)
(* step that loads a word and swaps it is one step: the swap of a stale    *)
(* value fails and the code loads again.  What a thread does to a page     *)
(* whose lock it holds, and to usedMemory when it removes the page, is one *)
(* step too: the others wait for the lock.  Memory is counted in pages.    *)
(***************************************************************************)
EXTENDS Integers, Sequences, FiniteSets, FiniteSetsExt

CONSTANTS
    Threads,        \* threads that run queries
    Pages,          \* pages of the data file
    Groups,         \* chunked node groups of a partitioner
    ChunkSize,      \* pages of memory a group takes
    PoolSize,       \* bufferPoolSize
    Capacity,       \* slots of the eviction queue
    BatchSize,      \* slots that next() hands out
    MaxFailures,    \* empty-handed attempts that reserve makes after the first
    MaxCalls,       \* bounds on the calls for pages and on those that allocate or load groups
    EMPTY,          \* EvictionQueue::EMPTY, and any other null
    Nobody,         \* nobody holds a mutex
    Races           \* which of these may happen: "rollback": a rollback removes pages while
                    \* others run; "otherQuery": a query of another connection ends while
                    \* groups are spilled

ASSUME PoolAssumption ==
    /\ PoolSize \in Nat \ {0} /\ ChunkSize \in Nat \ {0}
    /\ BatchSize \in Nat \ {0} /\ Capacity \in Nat
    /\ Capacity % BatchSize = 0 /\ Capacity > PoolSize
    /\ MaxFailures \in Nat /\ MaxCalls \in [{"page", "group"} -> Nat]
    /\ Races \subseteq {"rollback", "otherQuery"}
    /\ EMPTY \notin Pages \union Groups /\ Nobody \notin Threads
    /\ IsFiniteSet(Threads) /\ IsFiniteSet(Pages) /\ IsFiniteSet(Groups)

Slots == 0 .. Capacity - 1

\* What a frame holds once its memory was given back (MADV_DONTNEED).
Released == -1

VARIABLES
    word,           \* PageState::stateAndVersion of every page
    frame,          \* content of every frame
    disk,           \* content of every page of the file
    slots,          \* EvictionQueue::data
    cursor,         \* evictionCursor modulo the capacity
    usedMemory,
    nonEvictable,   \* nonEvictableMemory
    group,          \* chunked node groups: buffer, dataInUse, isFull(), spillToDiskMutex
    unused,         \* Spiller::fullPartitionerGroups
    pc,             \* next step of every thread
    call,           \* the call of every thread: operation, page or group
    read,           \* locals of optimisticRead and of removePageFromFrame
    loc,            \* locals of reserve and evictPages
    cand,           \* the page or group a thread evicts or spills
    calls,          \* calls made so far, of each kind
    content,        \* history: what the last unpin left in every page
    miscleared,     \* history: some clear() met a slot that was not its own
    strayed,        \* history: some spillToDisk() met a group that was not there to spill
    lost            \* history: groups whose spilled data was truncated away

pageVars == <<word, frame, disk>>
queueVars == <<slots, cursor>>
memoryVars == <<usedMemory, nonEvictable>>
groupVars == <<group, unused>>
shared == <<pageVars, queueVars, memoryVars, groupVars>>
history == <<content, miscleared, strayed, lost>>
vars == <<shared, pc, call, read, loc, cand, calls, history>>

Word == [state : {"UNLOCKED", "LOCKED", "MARKED", "EVICTED"}, version : Nat, dirty : BOOLEAN]

EvictedWord == [state |-> "EVICTED", version |-> 0, dirty |-> FALSE]

NoCall == [op |-> "none", page |-> EMPTY, group |-> EMPTY]
NoRead == [seen |-> EvictedWord, copy |-> <<>>, evicted |-> FALSE]
NoLocals == [claimed |-> 0, spilled |-> 0, got |-> 0, failed |-> 0, used |-> 0,
             budget |-> 0, base |-> 0, at |-> 0, todo |-> <<>>]
NoGroup == [buffer |-> "none", inUse |-> FALSE, full |-> FALSE, mutex |-> Nobody]

Init ==
    /\ word = [p \in Pages |-> EvictedWord]
    /\ frame = [p \in Pages |-> Released]
    /\ disk = [p \in Pages |-> 0]
    /\ slots = [s \in Slots |-> EMPTY]
    /\ cursor = 0 /\ usedMemory = 0 /\ nonEvictable = 0
    /\ group = [g \in Groups |-> NoGroup]
    /\ unused = {}
    /\ pc = [t \in Threads |-> "idle"]
    /\ call = [t \in Threads |-> NoCall]
    /\ read = [t \in Threads |-> NoRead]
    /\ loc = [t \in Threads |-> NoLocals]
    /\ cand = [t \in Threads |-> EMPTY]
    /\ calls = [page |-> 0, group |-> 0]
    /\ content = disk /\ miscleared = FALSE /\ strayed = FALSE /\ lost = {}

----------------------------------------------------------------------------
\* PageState: a change of state keeps the version; unlock increments it;
\* resetToEvicted starts again at version 0.
SetState(p, s) == [word EXCEPT ![p].state = s]
Unlocked(p) == [word EXCEPT ![p].state = "UNLOCKED", ![p].version = @ + 1]
ResetToEvicted(p) == [word EXCEPT ![p] = EvictedWord]

Goto(t, l) == pc' = [pc EXCEPT ![t] = l]
Set(t, l) == loc' = [loc EXCEPT ![t] = l]
SetRead(t, r) == read' = [read EXCEPT ![t] = r]
SetCand(t, c) == cand' = [cand EXCEPT ![t] = c]

\* A call returns, or throws out of the buffer manager.
Return(t) ==
    /\ Goto(t, "idle")
    /\ call' = [call EXCEPT ![t] = NoCall]
    /\ SetRead(t, NoRead) /\ Set(t, NoLocals) /\ SetCand(t, EMPTY)

AllIdle == \A t \in Threads : pc[t] = "idle"
Removing(p) == \E t \in Threads : call[t].op = "remove" /\ call[t].page = p
Checkpointing == "rollback" \notin Races /\ \E t \in Threads : call[t].op = "remove"

\* A client calls the buffer manager.
Kind(c) == IF c.group = EMPTY THEN "page" ELSE "group"
Call(t, c, first) ==
    /\ pc[t] = "idle" /\ calls[Kind(c)] < MaxCalls[Kind(c)] /\ ~Checkpointing
    /\ calls' = [calls EXCEPT ![Kind(c)] = @ + 1]
    /\ call' = [call EXCEPT ![t] = c]
    /\ Goto(t, first)
    /\ UNCHANGED <<shared, read, loc, cand, history>>

PageCall(op, p) == [NoCall EXCEPT !.op = op, !.page = p]
GroupCall(op, g) == [NoCall EXCEPT !.op = op, !.group = g]

----------------------------------------------------------------------------
\* pin: an evicted page is locked and then given memory; a cached page is
\* only locked; a locked page is waited for.
StartWrite(t, p) == ~Removing(p) /\ Call(t, PageCall("write", p), "pin")

PinEvicted(t) ==
    LET p == call[t].page IN
    /\ pc[t] = "pin" /\ word[p].state = "EVICTED"
    /\ word' = SetState(p, "LOCKED")
    /\ Goto(t, "reserve")
    /\ UNCHANGED <<frame, disk, queueVars, memoryVars, groupVars, call, read, loc, cand,
                   calls, history>>

PinCached(t) ==
    LET p == call[t].page IN
    /\ pc[t] = "pin" /\ word[p].state \in {"UNLOCKED", "MARKED"}
    /\ word' = SetState(p, "LOCKED")
    /\ Goto(t, "pinned")
    /\ UNCHANGED <<frame, disk, queueVars, memoryVars, groupVars, call, read, loc, cand,
                   calls, history>>

\* cachePageIntoFrame: the page is read from the file and is clean.
CachePage(t) ==
    LET p == call[t].page IN
    /\ pc[t] = "cache"
    /\ word' = [word EXCEPT ![p].dirty = FALSE]
    /\ frame' = [frame EXCEPT ![p] = disk[p]]
    /\ Goto(t, "insert")
    /\ UNCHANGED <<disk, queueVars, memoryVars, groupVars, call, read, loc, cand, calls,
                   history>>

\* Mutant of IsFree: insert stores without a comparison.
IsAnySlot(s) == s \in Slots
IsFree(s) == slots[s] = EMPTY

\* EvictionQueue::insert: a weak compare-and-swap may fail on an empty slot,
\* so the candidate may land in any of them; a full queue throws and leaves
\* the page locked.
InsertCandidate(t) ==
    LET p == call[t].page IN
    /\ pc[t] = "insert"
    /\ \/ \E s \in Slots :
            /\ IsFree(s)
            /\ slots' = [slots EXCEPT ![s] = p]
            /\ Goto(t, "pinned")
       \/ /\ \A s \in Slots : ~IsFree(s)
          /\ slots' = slots
          /\ Goto(t, "thrown")
    /\ UNCHANGED <<pageVars, cursor, memoryVars, groupVars, call, read, loc, cand, calls,
                   history>>

\* The client writes to the pinned page and calls setLockedPageDirty.
WritePage(t) ==
    LET p == call[t].page IN
    /\ pc[t] = "pinned" /\ call[t].op = "write"
    /\ frame' = [frame EXCEPT ![p] = content[p] + 1]
    /\ word' = [word EXCEPT ![p].dirty = TRUE]
    /\ Goto(t, "unpin")
    /\ UNCHANGED <<disk, queueVars, memoryVars, groupVars, call, read, loc, cand, calls,
                   history>>

\* unpin; an optimistic read that had to pin starts over.
Unpin(t) ==
    LET p == call[t].page IN
    /\ pc[t] = "unpin" \/ (pc[t] = "pinned" /\ call[t].op = "read")
    /\ word' = Unlocked(p)
    /\ content' = [content EXCEPT ![p] = frame[p]]
    /\ IF call[t].op = "write"
       THEN Return(t)
       ELSE Goto(t, "load") /\ UNCHANGED <<call, read, loc, cand>>
    /\ UNCHANGED <<frame, disk, queueVars, memoryVars, groupVars, calls, miscleared, strayed, lost>>

----------------------------------------------------------------------------
\* optimisticRead: an unlocked page is copied, in two halves, without a lock;
\* the copy counts if the page's word is the one loaded before.
StartRead(t, p) == ~Removing(p) /\ Call(t, PageCall("read", p), "load")

LoadWord(t) ==
    LET p == call[t].page IN
    /\ pc[t] = "load"
    /\ \/ /\ word[p].state = "UNLOCKED"
          /\ SetRead(t, [seen |-> word[p], copy |-> <<>>, evicted |-> FALSE])
          /\ Goto(t, "copy") /\ word' = word
       \/ /\ word[p].state = "MARKED"
          /\ word' = SetState(p, "UNLOCKED")
          /\ UNCHANGED <<pc, read>>
       \/ /\ word[p].state = "EVICTED"
          /\ Goto(t, "pin") /\ UNCHANGED <<word, read>>
    /\ UNCHANGED <<frame, disk, queueVars, memoryVars, groupVars, call, loc, cand, calls,
                   history>>

CopyHalf(t) ==
    LET p == call[t].page IN
    /\ pc[t] = "copy"
    /\ SetRead(t, [read[t] EXCEPT !.copy = Append(@, frame[p])])
    /\ IF Len(read[t].copy) = 1 THEN Goto(t, "validate") ELSE pc' = pc
    /\ UNCHANGED <<shared, call, loc, cand, calls, history>>

\* Mutant of IsUnchanged: only the state is compared.
HasSameState(t) == word[call[t].page].state = read[t].seen.state
IsUnchanged(t) == word[call[t].page] = read[t].seen

Validate(t) ==
    /\ pc[t] = "validate"
    /\ IF IsUnchanged(t)
       THEN Return(t)
       ELSE Goto(t, "load") /\ UNCHANGED <<call, read, loc, cand>>
    /\ UNCHANGED <<shared, calls, history>>

----------------------------------------------------------------------------
\* reserve: the memory is counted first; pages are evicted, or groups
\* spilled, until what was claimed or what is free suffices.
Size(t) == IF call[t].op \in {"write", "read"} THEN 1 ELSE ChunkSize

\* Mutant of NeedMoreMemory: the thread's own request is not counted.
NeedMoreForOthers(t) ==
    /\ Size(t) > loc[t].claimed
    /\ usedMemory - Size(t) > PoolSize - loc[t].claimed

NeedMoreMemory(t) ==
    /\ Size(t) > loc[t].claimed
    /\ usedMemory > PoolSize - loc[t].claimed

\* usedMemory, loaded first, minus nonEvictableMemory is unsigned: below zero it is huge.
MostlyEvictable(t) ==
    loc[t].used < nonEvictable \/ loc[t].used - nonEvictable > PoolSize \div 2

AfterReserve(t) == IF call[t].op \in {"write", "read"} THEN "cache" ELSE "malloc"

Reserve(t) ==
    /\ pc[t] = "reserve"
    /\ usedMemory' = usedMemory + Size(t)
    /\ Set(t, [loc[t] EXCEPT !.claimed = 0, !.spilled = 0, !.failed = 0])
    /\ Goto(t, "need")
    /\ UNCHANGED <<pageVars, queueVars, nonEvictable, groupVars, call, read, cand, calls,
                   history>>

\* Enough memory: what was claimed is given back, to one counter after the other.
Reserved(t) ==
    /\ pc[t] = "need" /\ ~NeedMoreMemory(t)
    /\ Goto(t, IF loc[t].claimed > 0 THEN "give" ELSE AfterReserve(t))
    /\ UNCHANGED <<shared, call, read, loc, cand, calls, history>>

GiveClaimed(t) ==
    /\ pc[t] = "give"
    /\ usedMemory' = usedMemory - loc[t].claimed
    /\ Set(t, [loc[t] EXCEPT !.claimed = 0, !.failed = 0])
    /\ Goto(t, "giveSpilled")
    /\ UNCHANGED <<pageVars, queueVars, nonEvictable, groupVars, call, read, cand, calls,
                   history>>

GiveSpilled(t) ==
    /\ pc[t] = "giveSpilled"
    /\ nonEvictable' = nonEvictable - loc[t].spilled
    /\ Set(t, [loc[t] EXCEPT !.spilled = 0])
    /\ Goto(t, AfterReserve(t))
    /\ UNCHANGED <<pageVars, queueVars, usedMemory, groupVars, call, read, cand, calls,
                   history>>

\* evictPages may hand out every slot twice before it gives up.
StartScan(t) ==
    /\ Set(t, [loc[t] EXCEPT !.got = 0, !.used = 0, !.budget = 2 * (Capacity \div BatchSize)])
    /\ SetCand(t, EMPTY)
    /\ Goto(t, "scan")

\* Line 368 loads usedMemory again, then nonEvictableMemory.
NeedMore(t) ==
    /\ pc[t] = "need" /\ NeedMoreMemory(t)
    /\ Goto(t, "loadUsed")
    /\ UNCHANGED <<shared, call, read, loc, cand, calls, history>>

LoadUsed(t) ==
    /\ pc[t] = "loadUsed"
    /\ Set(t, [loc[t] EXCEPT !.used = usedMemory])
    /\ Goto(t, "choose")
    /\ UNCHANGED <<shared, call, read, cand, calls, history>>

ChooseEvict(t) ==
    /\ pc[t] = "choose"
    /\ MostlyEvictable(t) \/ unused = {}
    /\ StartScan(t)
    /\ UNCHANGED <<shared, call, read, calls, history>>

\* claimNextGroup takes a group out of the set, then spills it under the
\* group's mutex unless the group is in use again by then.
ChooseSpill(t) ==
    /\ pc[t] = "choose" /\ ~MostlyEvictable(t)
    /\ \E g \in unused :
         /\ unused' = unused \ {g}
         /\ SetCand(t, g)
    /\ Goto(t, "spill") /\ Set(t, [loc[t] EXCEPT !.used = 0])
    /\ UNCHANGED <<pageVars, queueVars, memoryVars, group, call, read, calls, history>>

\* Mutant of IsInUse: the group is spilled although it is in use again.
IsNeverInUse(g) == g \notin Groups
IsInUse(g) == group[g].inUse

SpillGroup(t) ==
    LET g == cand[t] IN
    /\ pc[t] = "spill" /\ group[g].buffer = "memory" /\ group[g].mutex = Nobody
    /\ IF IsInUse(g)
       THEN StartScan(t) /\ group' = group
       ELSE /\ group' = [group EXCEPT ![g].buffer = "file"]
            /\ Set(t, [loc[t] EXCEPT !.got = ChunkSize, !.spilled = @ + ChunkSize])
            /\ SetCand(t, EMPTY)
            /\ Goto(t, "tally")
    /\ UNCHANGED <<pageVars, queueVars, memoryVars, unused, call, read, calls, history>>

\* The group was destroyed while the spiller knew of it: whatever is left in its memory
\* says that it is in use, or that a buffer is to be spilled, which was freed already.
SpillStray(t) ==
    LET g == cand[t] IN
    /\ pc[t] = "spill" /\ group[g].buffer # "memory" /\ group[g].mutex = Nobody
    /\ strayed' = TRUE
    /\ \/ StartScan(t)
       \/ /\ Set(t, [loc[t] EXCEPT !.got = ChunkSize, !.spilled = @ + ChunkSize])
          /\ SetCand(t, EMPTY)
          /\ Goto(t, "tally")
    /\ UNCHANGED <<shared, call, read, calls, content, miscleared, lost>>

\* An attempt that claimed nothing is repeated MaxFailures times.
Tally(t) ==
    /\ pc[t] = "tally"
    /\ \/ loc[t].got > 0 \/ ~NeedMoreMemory(t) \/ loc[t].failed < MaxFailures
    /\ Set(t, [loc[t] EXCEPT !.claimed = @ + loc[t].got, !.got = 0,
                             !.failed = IF loc[t].got = 0 /\ NeedMoreMemory(t) THEN @ + 1 ELSE @])
    /\ Goto(t, "need")
    /\ UNCHANGED <<shared, call, read, cand, calls, history>>

\* What a failed reserve gives back.  Mutant: not what it claimed.
RequestedOnly(t) == Size(t)
RequestedAndClaimed(t) == Size(t) + loc[t].claimed

GiveUp(t) ==
    /\ pc[t] = "tally"
    /\ loc[t].got = 0 /\ NeedMoreMemory(t) /\ loc[t].failed = MaxFailures
    /\ Goto(t, "fail")
    /\ UNCHANGED <<shared, call, read, loc, cand, calls, history>>

ReserveFails(t) ==
    /\ pc[t] = "fail"
    /\ usedMemory' = usedMemory - RequestedAndClaimed(t)
    /\ Set(t, [loc[t] EXCEPT !.claimed = 0, !.failed = 0])
    /\ Goto(t, "failSpilled")
    /\ UNCHANGED <<pageVars, queueVars, nonEvictable, groupVars, call, read, cand, calls,
                   history>>

FailSpilled(t) ==
    /\ pc[t] = "failSpilled"
    /\ nonEvictable' = nonEvictable - loc[t].spilled
    /\ Set(t, [loc[t] EXCEPT !.spilled = 0])
    /\ Goto(t, "failed")
    /\ UNCHANGED <<pageVars, queueVars, usedMemory, groupVars, call, read, cand, calls,
                   history>>

\* The caller of reserve throws: pin resets the page to EVICTED and
\* loadFromDisk leaves the group's mutex.
CallFails(t) ==
    LET p == call[t].page  g == call[t].group IN
    /\ pc[t] = "failed"
    /\ word' = IF call[t].op \in {"write", "read"} THEN ResetToEvicted(p) ELSE word
    /\ group' = IF call[t].op = "load" THEN [group EXCEPT ![g].mutex = Nobody] ELSE group
    /\ Return(t)
    /\ UNCHANGED <<frame, disk, queueVars, memoryVars, unused, calls, history>>

----------------------------------------------------------------------------
\* evictPages: the cursor is shared, so the batches other threads take count
\* against a thread's attempts.  Unlocked pages get a second chance, marked
\* pages are collected.
NextBatch(t) ==
    /\ pc[t] = "scan" /\ loc[t].budget > 0
    /\ cursor' = (cursor + BatchSize) % Capacity
    /\ loc' = [u \in Threads |->
                 LET spent == IF pc[u] \in {"scan", "slot"} /\ loc[u].budget > 0
                              THEN [loc[u] EXCEPT !.budget = @ - 1] ELSE loc[u]
                 IN IF u = t THEN [spent EXCEPT !.base = cursor', !.at = 0] ELSE spent]
    /\ Goto(t, "slot")
    /\ UNCHANGED <<pageVars, slots, memoryVars, groupVars, call, read, cand, calls,
                   history>>

ScanSlot(t) ==
    LET s == loc[t].base + loc[t].at
        c == slots[s]
        evictable == c # EMPTY /\ word[c].state = "MARKED"
        todo == IF evictable THEN Append(loc[t].todo, s) ELSE loc[t].todo
        last == loc[t].at + 1 = BatchSize
    IN
    /\ pc[t] = "slot"
    /\ word' = IF c # EMPTY /\ word[c].state = "UNLOCKED" THEN SetState(c, "MARKED") ELSE word
    /\ Set(t, IF ~last THEN [loc[t] EXCEPT !.at = @ + 1, !.todo = todo]
              ELSE [loc[t] EXCEPT !.base = 0, !.at = 0, !.todo = todo,
                                  !.budget = IF todo = <<>> THEN @ ELSE 0])
    /\ IF ~last THEN pc' = pc ELSE Goto(t, IF todo = <<>> THEN "scan" ELSE "evict")
    /\ UNCHANGED <<frame, disk, queueVars, memoryVars, groupVars, call, read, cand, calls,
                   history>>

ScanEnds(t) ==
    /\ \/ pc[t] = "scan" /\ loc[t].budget = 0
       \/ pc[t] = "evict" /\ loc[t].todo = <<>>
    /\ Goto(t, "tally")
    /\ UNCHANGED <<shared, call, read, loc, cand, calls, history>>

\* One candidate is done with, having freed n pages.
NextTodo(t, n) ==
    /\ Set(t, [loc[t] EXCEPT !.todo = Tail(@), !.got = @ + n])
    /\ SetCand(t, EMPTY)
    /\ Goto(t, "evict")

\* tryEvictPage: load the slot, lock the page it names, look at the slot
\* again, flush and release the frame, and only then empty the slot.
TryEvictPage(t) ==
    LET c == slots[Head(loc[t].todo)] IN
    /\ pc[t] = "evict" /\ loc[t].todo # <<>>
    /\ IF c = EMPTY
       THEN NextTodo(t, 0)
       ELSE SetCand(t, c) /\ Goto(t, "lock") /\ loc' = loc
    /\ UNCHANGED <<shared, call, read, calls, history>>

LockCandidate(t) ==
    LET c == cand[t] IN
    /\ pc[t] = "lock"
    /\ IF word[c].state = "MARKED"
       THEN word' = SetState(c, "LOCKED") /\ Goto(t, "check") /\ UNCHANGED <<loc, cand>>
       ELSE word' = word /\ NextTodo(t, 0)
    /\ UNCHANGED <<frame, disk, queueVars, memoryVars, groupVars, call, read, calls,
                   history>>

CheckCandidate(t) ==
    LET c == cand[t] IN
    /\ pc[t] = "check"
    /\ IF slots[Head(loc[t].todo)] = c
       THEN Goto(t, "release") /\ UNCHANGED <<word, loc, cand>>
       ELSE word' = SetState(c, "UNLOCKED") /\ NextTodo(t, 0)
    /\ UNCHANGED <<frame, disk, queueVars, memoryVars, groupVars, call, read, calls,
                   history>>

\* Readers of page p see it leave its frame.
Outdated(p) ==
    [u \in Threads |-> IF pc[u] \in {"copy", "validate"} /\ call[u].page = p
                       THEN [read[u] EXCEPT !.evicted = TRUE] ELSE read[u]]

\* Mutant of Flushed: the page is not written.
NotFlushed(c) == [disk EXCEPT ![c] = @]
Flushed(c) == IF word[c].dirty THEN [disk EXCEPT ![c] = frame[c]] ELSE disk

ReleaseFrame(t) ==
    LET c == cand[t] IN
    /\ pc[t] = "release"
    /\ disk' = Flushed(c)
    /\ frame' = [frame EXCEPT ![c] = Released]
    /\ word' = ResetToEvicted(c)
    /\ read' = Outdated(c)
    /\ Goto(t, "clear")
    /\ UNCHANGED <<queueVars, memoryVars, groupVars, call, loc, cand, calls, history>>

\* EvictionQueue::clear empties whatever the slot holds by now; an empty slot
\* is KU_UNREACHABLE, which throws through reserve.
ClearSlot(t) ==
    LET s == Head(loc[t].todo) IN
    /\ pc[t] = "clear"
    /\ miscleared' = (miscleared \/ slots[s] # cand[t])
    /\ slots' = [slots EXCEPT ![s] = EMPTY]
    /\ IF slots[s] = EMPTY
       THEN Goto(t, "thrown") /\ UNCHANGED <<loc, cand>>
       ELSE NextTodo(t, 1)
    /\ UNCHANGED <<pageVars, cursor, memoryVars, groupVars, call, read, calls, content,
                   strayed, lost>>

----------------------------------------------------------------------------
\* removePageFromFrame, for pages nobody uses any more: a checkpoint removes
\* them while no query runs, a rollback while the others go on.
StartRemove(t, p) ==
    /\ AllIdle \/ "rollback" \in Races
    /\ \A u \in Threads : call[u].page # p
    /\ Call(t, PageCall("remove", p), "remove")

RemoveLoad(t) ==
    LET p == call[t].page IN
    /\ pc[t] = "remove"
    /\ Goto(t, IF word[p].state = "EVICTED" THEN "removeCandidates" ELSE "removeLoad")
    /\ UNCHANGED <<shared, call, read, loc, cand, calls, history>>

RemoveReload(t) ==
    /\ pc[t] = "removeLoad"
    /\ SetRead(t, [read[t] EXCEPT !.seen = word[call[t].page]])
    /\ Goto(t, "removeLock")
    /\ UNCHANGED <<shared, call, loc, cand, calls, history>>

\* spinLock compares with the word loaded once, whatever its state was.
RemoveLock(t) ==
    LET p == call[t].page IN
    /\ pc[t] = "removeLock" /\ word[p] = read[t].seen
    /\ word' = SetState(p, "LOCKED")
    /\ Goto(t, "removeDrop")
    /\ UNCHANGED <<frame, disk, queueVars, memoryVars, groupVars, call, read, loc, cand,
                   calls, history>>

\* The page's next owner starts from what the file holds.
RemoveDrop(t) ==
    LET p == call[t].page IN
    /\ pc[t] = "removeDrop"
    /\ frame' = [frame EXCEPT ![p] = Released]
    /\ usedMemory' = usedMemory - 1
    /\ word' = ResetToEvicted(p)
    /\ content' = [content EXCEPT ![p] = disk[p]]
    /\ Goto(t, "removeCandidates")
    /\ UNCHANGED <<disk, queueVars, nonEvictable, groupVars, call, read, loc, cand, calls,
                   miscleared, strayed, lost>>

\* removeEvictedCandidates: checkpoints and rollbacks end by emptying the
\* slots of evicted pages.
RemoveEvictedCandidates(t) ==
    /\ pc[t] = "removeCandidates"
    /\ slots' = [s \in Slots |-> IF slots[s] # EMPTY /\ word[slots[s]].state = "EVICTED"
                                 THEN EMPTY ELSE slots[s]]
    /\ Return(t)
    /\ UNCHANGED <<pageVars, cursor, memoryVars, groupVars, calls, history>>

----------------------------------------------------------------------------
\* MemoryManager::allocateBuffer for a new group.
StartAllocate(t, g) ==
    /\ group[g].buffer = "none" /\ \A u \in Threads : call[u].group # g
    /\ Call(t, GroupCall("allocate", g), "reserve")

\* mallocBuffer after reserve; loadFromDisk then reads the file, sets
\* dataInUse and leaves the mutex.
Malloc(t) ==
    LET g == call[t].group IN
    /\ pc[t] = "malloc"
    /\ nonEvictable' = nonEvictable + ChunkSize
    /\ group' = [group EXCEPT ![g].buffer = "memory", ![g].inUse = TRUE, ![g].mutex = Nobody]
    /\ Return(t)
    /\ UNCHANGED <<pageVars, queueVars, usedMemory, unused, calls, history>>

\* append calls setUnused once a group is full: it may be spilled from now on.
SetUnused(t, g) ==
    /\ pc[t] = "idle" /\ ~Checkpointing
    /\ group[g].inUse /\ ~group[g].full
    /\ group' = [group EXCEPT ![g].inUse = FALSE, ![g].full = TRUE]
    /\ unused' = unused \union {g}
    /\ UNCHANGED <<pageVars, queueVars, memoryVars, pc, call, read, loc, cand, calls, history>>

\* InMemChunkedNodeGroup::loadFromDisk, by the one thread that owns the group.
StartLoad(t, g) ==
    /\ group[g].buffer # "none" /\ ~group[g].inUse /\ \A u \in Threads : call[u].group # g
    /\ Call(t, GroupCall("load", g), "lockGroup")

LockGroup(t) ==
    LET g == call[t].group IN
    /\ pc[t] = "lockGroup" /\ group[g].mutex = Nobody
    /\ unused' = unused \ {g}
    /\ IF group[g].buffer = "file"
       THEN /\ group' = [group EXCEPT ![g].mutex = t]
            /\ Goto(t, "reserve") /\ UNCHANGED <<call, read, loc, cand>>
       ELSE /\ group' = [group EXCEPT ![g].inUse = TRUE]
            /\ Return(t)
    /\ UNCHANGED <<pageVars, queueVars, memoryVars, calls, history>>

\* A query is done with a group, or has failed and its shared state is destroyed:
\* ~MemoryBuffer counts the memory of a buffer that is not spilled, in one counter
\* after the other.  Nothing takes the group from the spiller's set.
FreeGroup(t, g) ==
    /\ pc[t] = "idle" /\ ~Checkpointing
    /\ group[g].buffer # "none" /\ \A u \in Threads : call[u].group # g
    /\ group' = [group EXCEPT ![g] = NoGroup]
    /\ IF group[g].buffer = "memory"
       THEN /\ usedMemory' = usedMemory - ChunkSize
            /\ call' = [call EXCEPT ![t] = GroupCall("free", g)]
            /\ Goto(t, "freed")
       ELSE UNCHANGED <<usedMemory, call, pc>>
    /\ lost' = lost \ {g}
    /\ UNCHANGED <<pageVars, queueVars, nonEvictable, unused, read, loc, cand, calls,
                   content, miscleared, strayed>>

FreeNonEvictable(t) ==
    /\ pc[t] = "freed"
    /\ nonEvictable' = nonEvictable - ChunkSize
    /\ Return(t)
    /\ UNCHANGED <<pageVars, queueVars, usedMemory, groupVars, calls, history>>

\* Every query that ends truncates the spill file (Spiller::clearFile).
ClearFile ==
    /\ "otherQuery" \in Races \/ (AllIdle /\ \A g \in Groups : group[g].buffer = "none")
    /\ lost' = lost \union {g \in Groups : group[g].buffer = "file"}
    /\ UNCHANGED <<shared, pc, call, read, loc, cand, calls, content, miscleared, strayed>>

----------------------------------------------------------------------------
ThreadStep(t) ==
    \/ \E p \in Pages : StartWrite(t, p) \/ StartRead(t, p) \/ StartRemove(t, p)
    \/ \E g \in Groups : \/ StartAllocate(t, g) \/ SetUnused(t, g)
                         \/ StartLoad(t, g) \/ FreeGroup(t, g)
    \/ PinEvicted(t) \/ PinCached(t) \/ CachePage(t) \/ InsertCandidate(t)
    \/ WritePage(t) \/ Unpin(t) \/ LoadWord(t) \/ CopyHalf(t) \/ Validate(t)
    \/ Reserve(t) \/ Reserved(t) \/ GiveClaimed(t) \/ GiveSpilled(t)
    \/ NeedMore(t) \/ LoadUsed(t) \/ ChooseEvict(t) \/ ChooseSpill(t)
    \/ SpillGroup(t) \/ SpillStray(t)
    \/ Tally(t) \/ GiveUp(t) \/ ReserveFails(t) \/ FailSpilled(t) \/ CallFails(t)
    \/ NextBatch(t) \/ ScanSlot(t) \/ ScanEnds(t) \/ TryEvictPage(t) \/ LockCandidate(t)
    \/ CheckCandidate(t) \/ ReleaseFrame(t) \/ ClearSlot(t)
    \/ RemoveLoad(t) \/ RemoveReload(t) \/ RemoveLock(t) \/ RemoveDrop(t)
    \/ RemoveEvictedCandidates(t)
    \/ Malloc(t) \/ LockGroup(t) \/ FreeNonEvictable(t)

\* No step is left only when every call returned, or when an exception left
\* a page locked and the others spin on it.
Finished ==
    /\ (AllIdle /\ calls = MaxCalls) \/ \E t \in Threads : pc[t] = "thrown"
    /\ UNCHANGED vars

Next == (\E t \in Threads : ThreadStep(t)) \/ ClearFile \/ Finished

Spec == Init /\ [][Next]_vars

----------------------------------------------------------------------------
Labels ==
    {"idle", "pin", "reserve", "need", "loadUsed", "choose", "spill", "tally", "scan", "slot",
     "evict", "lock", "check", "release", "clear", "give", "giveSpilled", "fail", "failSpilled",
     "failed", "freed", "cache", "insert", "pinned", "unpin", "thrown", "load", "copy",
     "validate", "remove", "removeLoad", "removeLock", "removeDrop", "removeCandidates",
     "lockGroup", "malloc"}

CallTypes ==
    [op : {"none", "write", "read", "remove", "allocate", "load", "free"}, page : Pages \union {EMPTY},
     group : Groups \union {EMPTY}]
ReadTypes == [seen : Word, copy : Seq(Int), evicted : BOOLEAN]
LocalTypes ==
    [claimed : Nat, spilled : Nat, got : Nat, failed : 0 .. MaxFailures, used : Int, budget : Nat,
     base : Slots, at : Slots, todo : Seq(Slots)]

TypeOK ==
    /\ word \in [Pages -> Word]
    /\ frame \in [Pages -> Nat \union {Released}]
    /\ disk \in [Pages -> Nat] /\ content \in [Pages -> Nat]
    /\ slots \in [Slots -> Pages \union {EMPTY}] /\ cursor \in Slots
    /\ usedMemory \in Int /\ nonEvictable \in Int
    /\ group \in [Groups -> [buffer : {"none", "memory", "file"}, inUse : BOOLEAN,
                             full : BOOLEAN, mutex : Threads \union {Nobody}]]
    /\ unused \subseteq Groups /\ lost \subseteq Groups
    /\ pc \in [Threads -> Labels] /\ call \in [Threads -> CallTypes]
    /\ read \in [Threads -> ReadTypes] /\ loc \in [Threads -> LocalTypes]
    /\ cand \in [Threads -> Pages \union Groups \union {EMPTY}]
    /\ calls \in [{"page", "group"} -> Nat] /\ miscleared \in BOOLEAN /\ strayed \in BOOLEAN

\* Threads inside reserve; an exception out of clear() leaves reserve's
\* counters as they are.
Reserving(t) ==
    \/ pc[t] \in {"need", "loadUsed", "choose", "spill", "tally", "scan", "slot", "evict", "lock",
                  "check", "release", "clear", "give", "fail"}
    \/ pc[t] = "thrown" /\ cand[t] # EMPTY

\* Memory that is counted for a thread and that no page or buffer occupies:
\* what it reserves, and what it took from others and has not given back.
InFlight ==
    [t \in Threads |->
        IF Reserving(t)
        THEN Size(t) + loc[t].claimed + loc[t].got
             + (IF pc[t] \in {"clear", "thrown"} THEN 1 ELSE 0)
        ELSE IF pc[t] \in {"giveSpilled", "cache", "malloc"} THEN Size(t) ELSE 0]

\* The same for nonEvictableMemory: spilled or freed, and not yet given back.
Spilled == [t \in Threads |-> IF pc[t] = "freed" THEN ChunkSize ELSE loc[t].spilled]

Total(f) == MapThenSumSet(LAMBDA x : f[x], DOMAIN f)

PageMemory == Cardinality({p \in Pages : frame[p] # Released})
BufferMemory == ChunkSize * Cardinality({g \in Groups : group[g].buffer = "memory"})

\* usedMemory is the memory of the frames and buffers plus what the threads
\* in reserve() hold, and nonEvictableMemory that of the buffers plus what they
\* are about to subtract, between any two updates of the counters by reserve,
\* evictPages, claimNextGroup and the frees, as long as no group was spilled
\* after it had been destroyed.
MemoryIsAccounted ==
    strayed \/
        /\ usedMemory = PageMemory + BufferMemory + Total(InFlight)
        /\ nonEvictable = BufferMemory + Total(Spilled)

\* reserve() says "we should never actually exceed the buffer pool size",
\* although usedMemory does: frames and buffers together fit in the pool, with
\* the same exception.
PoolNeverExceeded == strayed \/ PageMemory + BufferMemory <= PoolSize

\* An optimistic read that validates has copied what the last unpin left in
\* the page, unless the page left its frame in the meantime.
ReadsAreStable ==
    \A t \in Threads :
        LET p == call[t].page IN
        pc[t] = "validate" /\ IsUnchanged(t) /\ ~read[t].evicted
            => read[t].copy = <<content[p], content[p]>>

\* buffer_manager.h: the version is incremented "to forbid stale reads".  An
\* optimistic read that validates has copied the content of the page.
NoStaleReads ==
    \A t \in Threads :
        LET p == call[t].page IN
        pc[t] = "validate" /\ IsUnchanged(t) => read[t].copy = <<content[p], content[p]>>

\* What a client wrote to a pinned page stays in the frame or reaches the
\* file before the frame is released, and a page that is clean can be
\* released without a write.
WritesAreKept ==
    \A p \in Pages :
        /\ frame[p] = Released \/ ~word[p].dirty => disk[p] = content[p]
        /\ frame[p] # Released => \/ frame[p] = content[p]
                                  \/ \E t \in Threads : pc[t] = "unpin" /\ call[t].page = p

\* buffer_manager.h: "One candidate should be stored for each page currently
\* in memory".  A cached page has a slot, so that it can be evicted, as long
\* as no clear() emptied a slot that was another eviction's.
CachedPagesAreCandidates ==
    \A p \in Pages :
        \/ frame[p] = Released \/ miscleared
        \/ \E t \in Threads : pc[t] \in {"insert", "thrown"} /\ call[t].page = p
        \/ \E s \in Slots : slots[s] = p

\* A group in use is in memory, and only groups that are not in use can be
\* spilled: loadFromDisk and spillToDisk exclude each other.
GroupsInUseAreInMemory ==
    \A g \in Groups : group[g].inUse => group[g].buffer = "memory"

\* spiller.h: clearFile "Must only be used once all chunks have been loaded
\* from disk".  No group's spilled data is truncated away.
SpilledDataIsKept == lost = {}

=============================================================================
