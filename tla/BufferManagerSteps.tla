------------------------ MODULE BufferManagerSteps -------------------------
(***************************************************************************)
(* Proofs about the page protocol of the buffer manager, for any number of *)
(* threads, pages, groups and calls, any pool and any queue: writes are    *)
(* kept, and optimistic reads are stable.                                  *)
(***************************************************************************)
EXTENDS BufferManager, TLAPS

\* The types the argument needs: nothing is said of the counters, of the
\* queue or of the candidates an eviction works on.
PageTypes ==
    /\ word \in [Pages -> Word]
    /\ frame \in [Pages -> Nat \union {Released}]
    /\ disk \in [Pages -> Nat] /\ content \in [Pages -> Nat]
    /\ pc \in [Threads -> Labels]
    /\ call \in [Threads -> CallTypes] /\ read \in [Threads -> ReadTypes]
    /\ cand = [t \in Threads |-> cand[t]]

InReserve == {"reserve", "need", "loadUsed", "choose", "spill", "tally", "scan", "slot", "evict",
              "lock", "check", "release", "clear", "give", "giveSpilled", "fail", "failSpilled",
              "failed", "cache"}
InRemove == {"remove", "removeLoad", "removeLock", "removeDrop", "removeCandidates"}

\* Which call a thread at a label runs.
CallFits(t) ==
    /\ pc[t] = "idle" => call[t].op = "none"
    /\ pc[t] \in {"pin", "cache", "insert", "pinned"} => call[t].op \in {"write", "read"}
    /\ pc[t] \in {"load", "copy", "validate"} => call[t].op = "read"
    /\ pc[t] = "unpin" => call[t].op = "write"
    /\ pc[t] \in {"lockGroup", "malloc", "freed"} => call[t].op \notin {"write", "read"}
    /\ pc[t] \in InRemove <=> call[t].op = "remove"
    /\ call[t].op \in {"write", "read", "remove"} => call[t].page \in Pages

\* Who holds the lock of a page: the thread that pinned it (or is about to
\* give it a frame), the one that evicts it, the one that removes it.
Pins(t, p) ==
    /\ call[t].op \in {"write", "read"} /\ call[t].page = p
    /\ pc[t] \notin {"pin", "load", "copy", "validate"}
Drops(t, p) ==
    \/ pc[t] \in {"check", "release"} /\ cand[t] = p
    \/ pc[t] = "removeDrop" /\ call[t].page = p
Holds(t, p) == Pins(t, p) \/ Drops(t, p)

\* A page is LOCKED exactly while one thread holds it, in one role.
OneHolder(p) ==
    /\ word[p].state = "LOCKED" <=> \E t \in Threads : Holds(t, p)
    /\ \A t, u \in Threads : Holds(t, p) /\ Holds(u, p) => t = u
    /\ \A t \in Threads : ~(Pins(t, p) /\ Drops(t, p))

\* A checkpoint removes pages while nothing else runs.
RemovesAlone ==
    \A t \in Threads : call[t].op = "remove" =>
        /\ \A u \in Threads \ {t} : pc[u] = "idle"
        /\ pc[t] \in {"removeLoad", "removeLock"} => word[call[t].page].state # "EVICTED"

\* The content of a page is in the file, or in the frame.
OnFile(p) == frame[p] = Released /\ disk[p] = content[p]
InFrame(p) == frame[p] = content[p] /\ (word[p].dirty \/ disk[p] = content[p])

ContentKept(p) ==
    /\ word[p].state = "EVICTED" => OnFile(p)
    /\ word[p].state \in {"UNLOCKED", "MARKED"} => InFrame(p)
    /\ \A t \in Threads :
         /\ Drops(t, p) => InFrame(p)
         /\ Pins(t, p) /\ pc[t] \in InReserve => OnFile(p)
         /\ Pins(t, p) /\ pc[t] \in {"insert", "pinned"} => InFrame(p)
         /\ Pins(t, p) /\ pc[t] = "unpin" => frame[p] # Released /\ word[p].dirty
         /\ Pins(t, p) /\ pc[t] = "thrown" => OnFile(p) \/ InFrame(p)

PageOK(p) == OneHolder(p) /\ ContentKept(p)

\* While the page of an optimistic read stays in its frame its version only
\* grows, and until it does what was copied is the content, except that a
\* thread that pins the page may be writing to it.
CopyOK(t) ==
    pc[t] \in {"copy", "validate"} =>
        /\ read[t].seen.state = "UNLOCKED"
        /\ pc[t] = "copy" => Len(read[t].copy) < 2
        /\ pc[t] = "validate" => Len(read[t].copy) = 2
        /\ ~read[t].evicted =>
             /\ frame[call[t].page] # Released
             /\ read[t].seen.version <= word[call[t].page].version
             /\ /\ read[t].seen.version = word[call[t].page].version
                /\ \A u \in Threads : ~Pins(u, call[t].page)
                => \A i \in 1 .. Len(read[t].copy) : read[t].copy[i] = content[call[t].page]

PageInv ==
    /\ PageTypes
    /\ \A t \in Threads : CallFits(t)
    /\ \A p \in Pages : PageOK(p)
    /\ RemovesAlone
    /\ \A t \in Threads : CopyOK(t)

----------------------------------------------------------------------------
\* What a step leaves as it is: thread u, and page p.
ThreadSame(u) ==
    pc'[u] = pc[u] /\ call'[u] = call[u] /\ cand'[u] = cand[u] /\ read'[u] = read[u]

PageSame(p) ==
    /\ word'[p] = word[p] /\ frame'[p] = frame[p]
    /\ disk'[p] = disk[p] /\ content'[p] = content[p]

\* Thread u has the same role for page p after the step.
RoleSame(u, p) ==
    /\ Pins(u, p)' <=> Pins(u, p)
    /\ Drops(u, p)' <=> Drops(u, p)
    /\ Pins(u, p) => \/ pc'[u] = pc[u]
                     \/ pc[u] \in InReserve /\ pc'[u] \in InReserve
                     \/ pc[u] \in InReserve \union {"insert", "pinned"} /\ pc'[u] = "thrown"
                     \/ pc[u] \in {"insert", "pinned"} /\ pc'[u] \in {"insert", "pinned"}

\* The step is none that an optimistic read of page p must notice, or one it
\* does notice.
ReadersSafe(p) ==
    frame[p] # Released =>
        /\ frame'[p] # Released
        /\ word[p].version <= word'[p].version
        /\ word[p].version = word'[p].version /\ (\A u \in Threads : ~Pins(u, p)')
             => content'[p] = content[p] /\ \A u \in Threads : ~Pins(u, p)

\* A change of a page's state keeps the type of the words.
LEMMA StateSet ==
  ASSUME NEW w \in [Pages -> Word], NEW p,
         NEW s \in {"UNLOCKED", "LOCKED", "MARKED", "EVICTED"}
  PROVE  [w EXCEPT ![p].state = s] \in [Pages -> Word]
  BY Zenon DEF Word

\* A thread that does nothing keeps its roles.
LEMMA SameThreadSameRole ==
  ASSUME NEW u \in Threads, NEW p, ThreadSame(u)
  PROVE  RoleSame(u, p)
  BY DEF ThreadSame, RoleSame, Pins, Drops

\* A page that nothing happens to stays as it should be.
LEMMA SamePage ==
  ASSUME NEW p \in Pages, word[p] \in Word, PageOK(p), PageSame(p),
         \A u \in Threads : RoleSame(u, p)
  PROVE  PageOK(p)' /\ ReadersSafe(p)
<1>1. OneHolder(p)'
  BY DEF PageOK, OneHolder, PageSame, RoleSame, Holds
<1>2. ContentKept(p)'
  <2>1. (OnFile(p)' <=> OnFile(p)) /\ (InFrame(p)' <=> InFrame(p))
    BY DEF PageSame, OnFile, InFrame
  <2>2. /\ (word[p].state = "EVICTED" => OnFile(p))'
        /\ (word[p].state \in {"UNLOCKED", "MARKED"} => InFrame(p))'
    BY <2>1 DEF PageOK, ContentKept, PageSame
  <2>3. ASSUME NEW u \in Threads
        PROVE  /\ (Drops(u, p) => InFrame(p))'
               /\ (Pins(u, p) /\ pc[u] \in InReserve => OnFile(p))'
               /\ (Pins(u, p) /\ pc[u] \in {"insert", "pinned"} => InFrame(p))'
               /\ (Pins(u, p) /\ pc[u] = "unpin" => frame[p] # Released /\ word[p].dirty)'
               /\ (Pins(u, p) /\ pc[u] = "thrown" => OnFile(p) \/ InFrame(p))'
    BY <2>1 DEF PageOK, ContentKept, PageSame, RoleSame, InReserve
  <2> QED BY <2>2, <2>3 DEF ContentKept
<1>3. ReadersSafe(p)
  BY DEF ReadersSafe, PageSame, RoleSame, Word
<1> QED BY <1>1, <1>2, <1>3 DEF PageOK

\* A reader that does nothing keeps its copy.
LEMMA SameReader ==
  ASSUME NEW u \in Threads, PageInv, PageTypes', ThreadSame(u),
         call[u].page \in Pages => ReadersSafe(call[u].page)
  PROVE  CopyOK(u)'
<1> DEFINE p == call[u].page
<1>1. read[u].seen.version \in Nat
  BY DEF PageInv, PageTypes, ReadTypes, Word
<1>2. CopyOK(u)
  BY DEF PageInv
<1> SUFFICES ASSUME (pc[u] \in {"copy", "validate"})' PROVE CopyOK(u)'
  BY DEF CopyOK
<1>3. pc[u] \in {"copy", "validate"} /\ p \in Pages
  BY DEF ThreadSame, PageInv, CallFits
<1>5. word[p].version \in Nat /\ word'[p].version \in Nat
  BY <1>3 DEF PageInv, PageTypes, Word
<1>4. ASSUME ~read[u].evicted
      PROVE  /\ frame'[p] # Released
             /\ read[u].seen.version <= word'[p].version
             /\ read[u].seen.version = word'[p].version /\ (\A w \in Threads : ~Pins(w, p)')
                => \A i \in 1 .. Len(read[u].copy) : read[u].copy[i] = content'[p]
  <2>1. ReadersSafe(p)
    BY <1>3
  <2>2. /\ frame[p] # Released /\ read[u].seen.version <= word[p].version
        /\ read[u].seen.version = word[p].version /\ (\A w \in Threads : ~Pins(w, p))
             => \A i \in 1 .. Len(read[u].copy) : read[u].copy[i] = content[p]
    BY <1>2, <1>3, <1>4 DEF CopyOK
  <2>3. frame'[p] # Released /\ read[u].seen.version <= word'[p].version
    BY <2>1, <2>2, <1>1, <1>5 DEF ReadersSafe
  <2>4. ASSUME read[u].seen.version = word'[p].version, \A w \in Threads : ~Pins(w, p)'
        PROVE  \A i \in 1 .. Len(read[u].copy) : read[u].copy[i] = content'[p]
    <3>1. word[p].version = word'[p].version
      BY <2>1, <2>2, <2>4, <1>1, <1>5 DEF ReadersSafe
    <3> QED BY <3>1, <2>1, <2>2, <2>4 DEF ReadersSafe
  <2> QED BY <2>3, <2>4
<1> QED BY <1>2, <1>3, <1>4 DEF CopyOK, ThreadSame

\* The thread of a step is one of those that are no checkpoint, and it alone
\* changes: the invariant is left to show for it and for the pages.
LEMMA BusyStep ==
  ASSUME NEW t \in Threads, PageInv, PageTypes',
         \A u \in Threads \ {t} : ThreadSame(u),
         pc[t] # "idle", call[t].op # "remove", call'[t].op # "remove",
         CallFits(t)', \A p \in Pages : PageOK(p)' /\ ReadersSafe(p), CopyOK(t)'
  PROVE  PageInv'
<1>1. \A u \in Threads : CallFits(u)'
  BY DEF PageInv, CallFits, ThreadSame
<1>2. RemovesAlone'
  <2>1. \A u \in Threads : call[u].op # "remove"
    BY DEF PageInv, RemovesAlone
  <2> QED BY <2>1 DEF RemovesAlone, ThreadSame
<1>3. \A u \in Threads : CopyOK(u)'
  BY SameReader
<1> QED BY <1>1, <1>2, <1>3 DEF PageInv

\* A step that touches no page and changes no role.
LEMMA QuietStep ==
  ASSUME NEW t \in Threads, PageInv, PageTypes',
         \A u \in Threads \ {t} : ThreadSame(u),
         pc[t] # "idle", call[t].op # "remove", call'[t].op # "remove",
         CallFits(t)', \A p \in Pages : PageSame(p) /\ RoleSame(t, p), CopyOK(t)'
  PROVE  PageInv'
<1>1. ASSUME NEW p \in Pages PROVE PageOK(p)' /\ ReadersSafe(p)
  <2>1. word[p] \in Word /\ PageOK(p)
    BY DEF PageInv, PageTypes
  <2>2. \A u \in Threads : RoleSame(u, p)
    BY SameThreadSameRole
  <2> QED BY <2>1, <2>2, SamePage
<1> QED BY <1>1, BusyStep

\* A step that touches one page.
LEMMA PageStep ==
  ASSUME NEW t \in Threads, NEW q, PageInv, PageTypes',
         \A u \in Threads \ {t} : ThreadSame(u),
         pc[t] # "idle", call[t].op # "remove", call'[t].op # "remove",
         CallFits(t)', \A p \in Pages \ {q} : PageSame(p) /\ RoleSame(t, p),
         q \in Pages => PageOK(q)' /\ ReadersSafe(q), CopyOK(t)'
  PROVE  PageInv'
<1>1. ASSUME NEW p \in Pages \ {q} PROVE PageOK(p)' /\ ReadersSafe(p)
  <2>1. word[p] \in Word /\ PageOK(p)
    BY DEF PageInv, PageTypes
  <2>2. \A u \in Threads : RoleSame(u, p)
    BY SameThreadSameRole
  <2> QED BY <2>1, <2>2, SamePage
<1>2. \A p \in Pages : PageOK(p)' /\ ReadersSafe(p)
  BY <1>1
<1> QED BY <1>2, BusyStep

\* pin locks a page in state s, which nobody holds.
LEMMA PinStep ==
  ASSUME NEW t \in Threads, PageInv, PinEvicted(t) \/ PinCached(t)
  PROVE  PageInv'
<1> DEFINE p == call[t].page
<1> USE DEF PinEvicted, PinCached, Goto, SetState, history, queueVars, memoryVars, groupVars
<1>1. pc[t] = "pin" /\ p \in Pages /\ call[t].op \in {"write", "read"} /\ pc'[t] \in {"reserve", "pinned"}
  BY DEF PageInv, PageTypes, CallFits
<1>2. PageTypes'
  <2>1. word' \in [Pages -> Word]
    BY <1>1, SMTT(60) DEF PageInv, PageTypes, Word
  <2>2. pc' \in [Threads -> Labels]
    BY <1>1 DEF PageInv, PageTypes, Labels
  <2> QED BY <2>1, <2>2 DEF PageInv, PageTypes
<1>3. /\ \A u \in Threads \ {t} : ThreadSame(u)
      /\ call' = call /\ cand' = cand /\ read' = read
  BY DEF ThreadSame, PageInv, PageTypes
<1>4. /\ word[p].state # "LOCKED" /\ word'[p].state = "LOCKED"
      /\ word'[p].version = word[p].version /\ word'[p].dirty = word[p].dirty
      /\ frame' = frame /\ disk' = disk /\ content' = content
      /\ \A q \in Pages \ {p} : PageSame(q)
  BY <1>1 DEF PageInv, PageTypes, Word, PageSame
<1>5. CallFits(t)' /\ CopyOK(t)'
  BY <1>1, <1>3 DEF PageInv, CallFits, CopyOK, InRemove
<1>6. \A q \in Pages \ {p} : RoleSame(t, q)
  BY <1>1, <1>3 DEF RoleSame, Pins, Drops
<1>7. /\ PageOK(p) /\ \A u \in Threads : ~Holds(u, p)
      /\ \A u \in Threads \ {t} : RoleSame(u, p)
      /\ Pins(t, p)' /\ ~Drops(t, p)'
  <2>1. PageOK(p) /\ \A u \in Threads : ~Holds(u, p)
    BY <1>1, <1>4 DEF PageInv, PageOK, OneHolder
  <2>2. \A u \in Threads \ {t} : RoleSame(u, p)
    BY <1>3, SameThreadSameRole
  <2> QED BY <2>1, <2>2, <1>1, <1>3 DEF Pins, Drops
<1>8. OneHolder(p)'
  BY <1>4, <1>7 DEF OneHolder, Holds, RoleSame
<1>9. ContentKept(p)'
  <2>1. (OnFile(p)' <=> OnFile(p)) /\ (InFrame(p)' <=> InFrame(p))
    BY <1>4 DEF OnFile, InFrame
  <2>2. IF pc'[t] = "reserve" THEN OnFile(p) ELSE InFrame(p)
    BY <1>1, <1>7 DEF PageOK, ContentKept, PageInv, PageTypes
  <2> QED BY <2>1, <2>2, <1>1, <1>4, <1>7 DEF ContentKept, RoleSame, Holds, InReserve
<1>10. ReadersSafe(p)
  BY <1>1, <1>4, <1>7 DEF ReadersSafe, PageInv, PageTypes, Word
<1> QED BY <1>1, <1>2, <1>3, <1>4, <1>5, <1>6, <1>8, <1>9, <1>10, PageStep DEF PageOK

\* cachePageIntoFrame fills the frame of a page whose content is in the file.
LEMMA CacheStep ==
  ASSUME NEW t \in Threads, PageInv, CachePage(t)
  PROVE  PageInv'
<1> DEFINE p == call[t].page
<1> USE DEF CachePage, Goto, history, queueVars, memoryVars, groupVars
<1>1. pc[t] = "cache" /\ p \in Pages /\ call[t].op \in {"write", "read"} /\ pc'[t] = "insert"
  BY DEF PageInv, PageTypes, CallFits
<1>2. PageTypes'
  <2>1. word' \in [Pages -> Word] /\ frame' \in [Pages -> Nat \union {Released}]
    BY <1>1, Zenon DEF PageInv, PageTypes, Word
  <2>2. pc' \in [Threads -> Labels]
    BY <1>1 DEF PageInv, PageTypes, Labels
  <2> QED BY <2>1, <2>2 DEF PageInv, PageTypes
<1>3. /\ \A u \in Threads \ {t} : ThreadSame(u)
      /\ call' = call /\ cand' = cand /\ read' = read
  BY DEF ThreadSame, PageInv, PageTypes
<1>4. /\ word'[p].state = word[p].state /\ frame'[p] = disk[p]
      /\ disk' = disk /\ content' = content
      /\ \A q \in Pages \ {p} : PageSame(q)
  BY <1>1 DEF PageInv, PageTypes, Word, PageSame
<1>5. CallFits(t)' /\ CopyOK(t)'
  BY <1>1, <1>3 DEF PageInv, CallFits, CopyOK, InRemove
<1>6. \A q \in Pages \ {p} : RoleSame(t, q)
  BY <1>1, <1>3 DEF RoleSame, Pins, Drops
<1>7. /\ PageOK(p) /\ Pins(t, p) /\ Pins(t, p)' /\ ~Drops(t, p)'
      /\ \A u \in Threads \ {t} : RoleSame(u, p)
  <2>1. PageOK(p) /\ Pins(t, p) /\ Pins(t, p)' /\ ~Drops(t, p)'
    BY <1>1, <1>3 DEF PageInv, Pins, Drops
  <2> QED BY <2>1, <1>3, SameThreadSameRole
<1>8. OneHolder(p)'
  BY <1>4, <1>7 DEF PageOK, OneHolder, Holds, RoleSame
<1>9. OnFile(p) /\ InFrame(p)' /\ word[p].state = "LOCKED"
  BY <1>1, <1>4, <1>7 DEF PageOK, OneHolder, Holds, ContentKept, InReserve, OnFile, InFrame
<1>10. ContentKept(p)'
  BY <1>1, <1>4, <1>7, <1>9 DEF PageOK, OneHolder, ContentKept, RoleSame, Holds, InReserve
<1>11. ReadersSafe(p)
  BY <1>9 DEF ReadersSafe, OnFile
<1> QED BY <1>1, <1>2, <1>3, <1>4, <1>5, <1>6, <1>8, <1>10, <1>11, PageStep DEF PageOK

\* The client writes to the page it pinned: readers must not trust the page
\* before its version changes.
LEMMA WriteStep ==
  ASSUME NEW t \in Threads, PageInv, WritePage(t)
  PROVE  PageInv'
<1> DEFINE p == call[t].page
<1> USE DEF WritePage, Goto, history, queueVars, memoryVars, groupVars
<1>1. pc[t] = "pinned" /\ p \in Pages /\ call[t].op = "write" /\ pc'[t] = "unpin"
  BY DEF PageInv, PageTypes, CallFits
<1>2. PageTypes'
  <2>1. word' \in [Pages -> Word]
    BY <1>1, Zenon DEF PageInv, PageTypes, Word
  <2>3. content[p] + 1 \in Nat
    BY <1>1 DEF PageInv, PageTypes
  <2>4. frame' \in [Pages -> Nat \union {Released}]
    BY <2>3, Zenon DEF PageInv, PageTypes
  <2>2. pc' \in [Threads -> Labels]
    BY <1>1 DEF PageInv, PageTypes, Labels
  <2> QED BY <2>1, <2>2, <2>4 DEF PageInv, PageTypes
<1>3. /\ \A u \in Threads \ {t} : ThreadSame(u)
      /\ call' = call /\ cand' = cand /\ read' = read
  BY DEF ThreadSame, PageInv, PageTypes
<1>4. /\ word'[p].state = word[p].state /\ word'[p].version = word[p].version
      /\ word'[p].dirty /\ frame'[p] # Released /\ word[p].version \in Nat
      /\ \A q \in Pages \ {p} : PageSame(q)
  BY <1>1 DEF PageInv, PageTypes, Word, PageSame, Released
<1>5. CallFits(t)' /\ CopyOK(t)'
  BY <1>1, <1>3 DEF PageInv, CallFits, CopyOK, InRemove
<1>6. \A q \in Pages \ {p} : RoleSame(t, q)
  BY <1>1, <1>3 DEF RoleSame, Pins, Drops
<1>7. /\ PageOK(p) /\ Pins(t, p) /\ Pins(t, p)' /\ ~Drops(t, p)'
      /\ \A u \in Threads \ {t} : RoleSame(u, p)
  <2>1. PageOK(p) /\ Pins(t, p) /\ Pins(t, p)' /\ ~Drops(t, p)'
    BY <1>1, <1>3 DEF PageInv, Pins, Drops
  <2> QED BY <2>1, <1>3, SameThreadSameRole
<1>8. OneHolder(p)' /\ word[p].state = "LOCKED"
  BY <1>4, <1>7 DEF PageOK, OneHolder, Holds, RoleSame
<1>9. ContentKept(p)'
  BY <1>1, <1>4, <1>7, <1>8 DEF OneHolder, ContentKept, RoleSame, Holds, InReserve
<1>10. ReadersSafe(p)
  BY <1>4, <1>7 DEF ReadersSafe
<1> QED BY <1>1, <1>2, <1>3, <1>4, <1>5, <1>6, <1>8, <1>9, <1>10, PageStep DEF PageOK

\* A call that returns leaves its thread idle.
LEMMA Returned ==
  ASSUME NEW t \in Threads, PageTypes, Return(t)
  PROVE  /\ pc' \in [Threads -> Labels] /\ call' \in [Threads -> CallTypes]
         /\ read' \in [Threads -> ReadTypes] /\ cand' = [u \in Threads |-> cand'[u]]
         /\ pc'[t] = "idle" /\ call'[t] = NoCall
         /\ \A u \in Threads \ {t} : ThreadSame(u)
<1> USE DEF Return, Goto, SetRead, SetCand, PageTypes
<1>1. pc' \in [Threads -> Labels] /\ cand' = [u \in Threads |-> cand'[u]]
  BY Zenon DEF Labels
<1>2. call' \in [Threads -> CallTypes]
  BY Zenon DEF CallTypes, NoCall
<1>3. read' \in [Threads -> ReadTypes]
  <2>1. EvictedWord \in Word
    BY DEF EvictedWord, Word
  <2>2. NoRead \in ReadTypes
    BY <2>1 DEF NoRead, ReadTypes
  <2> QED BY <2>2
<1> QED BY <1>1, <1>2, <1>3 DEF ThreadSame

\* unpin makes what the frame holds the content of the page, and increments
\* the version.
LEMMA UnpinStep ==
  ASSUME NEW t \in Threads, PageInv, Unpin(t)
  PROVE  PageInv'
<1>0. PICK p : p = call[t].page
  OBVIOUS
<1> USE <1>0 DEF Unpin, Unlocked, queueVars, memoryVars, groupVars
<1>1. /\ pc[t] \in {"unpin", "pinned"} /\ p \in Pages /\ call[t].op \in {"write", "read"}
      /\ \/ pc'[t] = "idle" /\ call'[t] = NoCall
         \/ pc'[t] = "load" /\ call'[t] = call[t] /\ call[t].op = "read"
  BY Returned DEF PageInv, PageTypes, CallFits, Goto
<1>2. \A u \in Threads \ {t} : ThreadSame(u)
  BY Returned DEF ThreadSame, PageInv, PageTypes, Goto
<1>3. PageOK(p) /\ Pins(t, p)
  BY <1>1 DEF PageInv, Pins
<1>4. frame[p] \in Nat /\ (InFrame(p) \/ word[p].dirty)
  BY <1>1, <1>3 DEF PageOK, ContentKept, InFrame, PageInv, PageTypes, Released
<1>5. PageTypes'
  <2>1. word' \in [Pages -> Word] /\ content' \in [Pages -> Nat]
    BY <1>1, <1>4 DEF PageInv, PageTypes, Word
  <2>2. /\ pc' \in [Threads -> Labels] /\ call' \in [Threads -> CallTypes]
        /\ read' \in [Threads -> ReadTypes] /\ cand' = [u \in Threads |-> cand'[u]]
    BY Returned DEF PageInv, PageTypes, Labels, Goto
  <2> QED BY <2>1, <2>2 DEF PageInv, PageTypes
<1>6. /\ word'[p].state = "UNLOCKED" /\ word'[p].version = word[p].version + 1
      /\ word'[p].dirty = word[p].dirty /\ word[p].version \in Nat
      /\ frame' = frame /\ disk' = disk /\ content'[p] = frame[p]
      /\ \A q \in Pages \ {p} : PageSame(q)
  BY <1>1 DEF PageInv, PageTypes, Word, PageSame
<1>7. CallFits(t)' /\ CopyOK(t)' /\ call'[t].op # "remove"
  BY <1>1, SMTT(60) DEF PageInv, CallFits, CopyOK, InRemove, NoCall
<1>8. \A q \in Pages \ {p} : RoleSame(t, q)
  BY <1>1 DEF RoleSame, Pins, Drops, NoCall
<1>9. \A u \in Threads : ~Holds(u, p)'
  <2>1. ~Holds(t, p)'
    BY <1>1 DEF Holds, Pins, Drops, NoCall
  <2>2. ASSUME NEW u \in Threads \ {t} PROVE ~Holds(u, p)'
    BY <1>2, <1>3, SameThreadSameRole DEF PageOK, OneHolder, Holds, RoleSame
  <2> QED BY <2>1, <2>2
<1>10. OneHolder(p)'
  BY <1>6, <1>9 DEF OneHolder, Holds
<1>11. ContentKept(p)'
  <2>1. InFrame(p)'
    BY <1>4, <1>6 DEF InFrame
  <2> QED BY <2>1, <1>6, <1>9 DEF ContentKept, Holds
<1>12. ReadersSafe(p)
  BY <1>6, SMTT(60) DEF ReadersSafe
<1> QED BY <1>1, <1>2, <1>5, <1>6, <1>7, <1>8, <1>10, <1>11, <1>12, PageStep DEF PageOK

\* An unlocked page is marked, or a marked page unlocked, with its version.
LEMMA SwappedMark ==
  ASSUME NEW q \in Pages, word[q] \in Word, word'[q] \in Word, PageOK(q),
         word[q].state \in {"UNLOCKED", "MARKED"}, word'[q].state \in {"UNLOCKED", "MARKED"},
         word'[q].version = word[q].version, word'[q].dirty = word[q].dirty,
         frame'[q] = frame[q], disk'[q] = disk[q], content'[q] = content[q],
         \A u \in Threads : RoleSame(u, q)
  PROVE  PageOK(q)' /\ ReadersSafe(q)
<1>1. \A u \in Threads : ~Holds(u, q) /\ ~Holds(u, q)'
  BY DEF PageOK, OneHolder, Holds, RoleSame
<1>2. OneHolder(q)'
  BY <1>1 DEF OneHolder, Holds
<1>3. InFrame(q)'
  BY DEF PageOK, ContentKept, InFrame
<1>4. ContentKept(q)'
  BY <1>1, <1>3 DEF ContentKept, Holds
<1>5. ReadersSafe(q)
  BY <1>1, SMTT(60) DEF ReadersSafe, Holds, Word
<1> QED BY <1>2, <1>4, <1>5 DEF PageOK

\* optimisticRead loads the word of the page: it starts to copy, takes the
\* mark away, or has to pin.
LEMMA LoadStep ==
  ASSUME NEW t \in Threads, PageInv, LoadWord(t)
  PROVE  PageInv'
<1> DEFINE p == call[t].page
<1> USE DEF LoadWord, Goto, SetRead, SetState, history, queueVars, memoryVars, groupVars
<1>1. /\ pc[t] = "load" /\ p \in Pages /\ call[t].op = "read" /\ pc'[t] \in {"load", "copy", "pin"}
      /\ word[p] \in Word /\ PageOK(p)
  BY DEF PageInv, PageTypes, CallFits
<1>2. /\ \A u \in Threads \ {t} : ThreadSame(u)
      /\ call' = call /\ cand' = cand /\ frame' = frame /\ disk' = disk /\ content' = content
  BY DEF ThreadSame, PageInv, PageTypes
<1>3. PageTypes'
  <2>1. word' \in [Pages -> Word]
    <3>1. CASE word' = word
      BY <3>1 DEF PageInv, PageTypes
    <3>2. CASE word' = [word EXCEPT ![p].state = "UNLOCKED"]
      BY <3>2, <1>1, Zenon DEF PageInv, PageTypes, Word
    <3> QED BY <3>1, <3>2
  <2>2. pc' \in [Threads -> Labels]
    <3>1. pc' = pc \/ pc' = [pc EXCEPT ![t] = "copy"] \/ pc' = [pc EXCEPT ![t] = "pin"]
      OBVIOUS
    <3> QED BY <3>1, ZenonT(60) DEF PageInv, PageTypes, Labels
  <2>3. [seen |-> word[p], copy |-> <<>>, evicted |-> FALSE] \in ReadTypes
    BY <1>1 DEF ReadTypes
  <2>4. read' \in [Threads -> ReadTypes]
    BY <2>3, Zenon DEF PageInv, PageTypes
  <2> QED BY <2>1, <2>2, <2>4, <1>2 DEF PageInv, PageTypes
<1>4. CallFits(t)'
  BY <1>1, <1>2 DEF CallFits, InRemove
<1>5. \A q \in Pages : RoleSame(t, q)
  BY <1>1, <1>2 DEF RoleSame, Pins, Drops
<1>6. CASE word' = word
  <2>1. CopyOK(t)'
    <3> SUFFICES ASSUME pc'[t] = "copy" PROVE CopyOK(t)'
      BY <1>1 DEF CopyOK
    <3>1. /\ word[p].state = "UNLOCKED"
          /\ read'[t] = [seen |-> word[p], copy |-> <<>>, evicted |-> FALSE]
      BY <1>1, Zenon DEF PageInv, PageTypes
    <3>2. frame[p] # Released
      BY <1>1, <3>1, SMTT(60) DEF PageOK, ContentKept, InFrame, PageInv, PageTypes, Released
    <3> QED BY <1>1, <1>2, <1>6, <3>1, <3>2 DEF CopyOK, Word
  <2>2. \A q \in Pages : PageSame(q)
    BY <1>2, <1>6 DEF PageSame
  <2> QED BY <1>1, <1>2, <1>3, <1>4, <1>5, <2>1, <2>2, QuietStep
<1>7. CASE word' # word
  <2>1. /\ pc'[t] = "load" /\ word[p].state = "MARKED" /\ word'[p].state = "UNLOCKED"
        /\ word'[p].version = word[p].version /\ word'[p].dirty = word[p].dirty
        /\ \A q \in Pages \ {p} : PageSame(q)
    <3>1. pc' = pc /\ word[p].state = "MARKED" /\ word' = [word EXCEPT ![p].state = "UNLOCKED"]
      BY <1>7
    <3> QED BY <1>1, <1>2, <3>1 DEF PageInv, PageTypes, Word, PageSame
  <2>2. word'[p] \in Word
    BY <1>1, <1>3 DEF PageTypes
  <2>3. PageOK(p)' /\ ReadersSafe(p)
    <3>1. \A u \in Threads : RoleSame(u, p)
      BY <1>1, <1>2, <1>5, SameThreadSameRole
    <3> QED BY <3>1, <2>1, <2>2, <1>1, <1>2, SwappedMark
  <2>4. CopyOK(t)'
    BY <2>1 DEF CopyOK
  <2> QED BY <1>1, <1>2, <1>3, <1>4, <1>5, <2>1, <2>3, <2>4, PageStep
<1> QED BY <1>6, <1>7

\* A page that is in its frame and that nobody pins has its content there.
LEMMA UnpinnedContent ==
  ASSUME NEW p \in Pages, PageTypes, PageOK(p), frame[p] # Released,
         \A u \in Threads : ~Pins(u, p)
  PROVE  frame[p] = content[p]
<1>1. word[p].state \in {"UNLOCKED", "LOCKED", "MARKED", "EVICTED"}
  BY DEF PageTypes, Word
<1>2. InFrame(p)
  BY <1>1 DEF PageOK, OneHolder, ContentKept, Holds, OnFile
<1> QED BY <1>2 DEF InFrame

\* What copying half of the page does to the locals of optimisticRead.
LEMMA CopiedHalf ==
  ASSUME NEW r \in ReadTypes, NEW x \in Int, NEW s, s = [r EXCEPT !.copy = Append(r.copy, x)]
  PROVE  /\ s.copy = Append(r.copy, x) /\ s.seen = r.seen /\ s.evicted = r.evicted
         /\ s \in ReadTypes /\ r.copy \in Seq(Int)
<1>1. r.copy \in Seq(Int) /\ Append(r.copy, x) \in Seq(Int)
  BY DEF ReadTypes
<1> QED BY <1>1, Zenon DEF ReadTypes

\* Half of the page is copied.
LEMMA CopyStep ==
  ASSUME NEW t \in Threads, PageInv, CopyHalf(t)
  PROVE  PageInv'
<1> DEFINE p == call[t].page
<1> USE DEF CopyHalf, Goto, SetRead, history, shared, pageVars
<1>1. /\ pc[t] = "copy" /\ p \in Pages /\ call[t].op = "read" /\ pc'[t] \in {"copy", "validate"}
      /\ PageOK(p) /\ CopyOK(t) /\ read[t] \in ReadTypes /\ frame[p] \in Int
  BY DEF PageInv, PageTypes, CallFits, Released
<1>2. /\ \A u \in Threads \ {t} : ThreadSame(u)
      /\ call' = call /\ cand' = cand /\ word' = word
      /\ frame' = frame /\ disk' = disk /\ content' = content
  BY DEF ThreadSame, PageInv, PageTypes
<1>3. /\ read'[t].copy = Append(read[t].copy, frame[p]) /\ read'[t].seen = read[t].seen
      /\ read'[t].evicted = read[t].evicted /\ read'[t] \in ReadTypes
      /\ read[t].copy \in Seq(Int)
  <2>1. read'[t] = [read[t] EXCEPT !.copy = Append(read[t].copy, frame[p])]
    BY DEF PageInv, PageTypes
  <2> QED BY <2>1, <1>1, CopiedHalf
<1>4. PageTypes'
  <2>1. pc' \in [Threads -> Labels]
    BY <1>1, ZenonT(60) DEF PageInv, PageTypes, Labels
  <2>2. read' \in [Threads -> ReadTypes]
    BY <1>3 DEF PageInv, PageTypes
  <2> QED BY <2>1, <2>2, <1>2 DEF PageInv, PageTypes
<1>5. CallFits(t)' /\ \A q \in Pages : PageSame(q) /\ RoleSame(t, q)
  BY <1>1, <1>2 DEF CallFits, InRemove, PageSame, RoleSame, Pins, Drops
<1>6. CopyOK(t)'
  <2>1. /\ Len(read'[t].copy) = Len(read[t].copy) + 1 /\ Len(read[t].copy) \in Nat
        /\ \A i \in 1 .. Len(read[t].copy) : read'[t].copy[i] = read[t].copy[i]
        /\ read'[t].copy[Len(read[t].copy) + 1] = frame[p]
    BY <1>1, <1>3
  <2>2. /\ pc'[t] = "copy" => Len(read'[t].copy) < 2
        /\ pc'[t] = "validate" => Len(read'[t].copy) = 2
        /\ read'[t].seen.state = "UNLOCKED"
    <3>1. pc'[t] = IF Len(read[t].copy) = 1 THEN "validate" ELSE "copy"
      BY <1>1 DEF PageInv, PageTypes
    <3>2. Len(read[t].copy) < 2 /\ read[t].seen.state = "UNLOCKED"
      BY <1>1 DEF CopyOK
    <3>3. Len(read'[t].copy) = IF Len(read[t].copy) = 1 THEN 2 ELSE 1
      <4>1. PICK n \in Nat : n = Len(read[t].copy)
        BY <2>1
      <4>2. n < 2 /\ Len(read'[t].copy) = n + 1
        BY <2>1, <3>2, <4>1
      <4>3. n = 0 \/ n = 1
        BY <4>2
      <4> QED BY <4>1, <4>2, <4>3
    <3> QED BY <3>1, <3>2, <3>3, <1>3
  <2>3. ASSUME ~read[t].evicted, read[t].seen.version = word[p].version,
               \A u \in Threads : ~Pins(u, p)
        PROVE  \A i \in 1 .. Len(read'[t].copy) : read'[t].copy[i] = content[p]
    <3>1. frame[p] = content[p] /\ \A i \in 1 .. Len(read[t].copy) : read[t].copy[i] = content[p]
      BY <1>1, <2>3, UnpinnedContent DEF CopyOK, PageInv
    <3> QED BY <3>1, <2>1
  <2>4. (\A u \in Threads : ~Pins(u, p)') => \A u \in Threads : ~Pins(u, p)
    BY <1>1, <1>2 DEF Pins, ThreadSame
  <2>5. ~read[t].evicted => frame[p] # Released /\ read[t].seen.version <= word[p].version
    BY <1>1 DEF CopyOK
  <2> QED BY <2>2, <2>3, <2>4, <2>5, <1>2, <1>3 DEF CopyOK
<1> QED BY <1>1, <1>2, <1>4, <1>5, <1>6, QuietStep

\* A step of reserve, evictPages or insert that touches no page and leaves
\* the thread in the call.
Inner(t, l) ==
    /\ pc[t] \in (InReserve \ {"check", "release"}) \union {"insert"}
    /\ pc[t] = "insert" => l \in {"pinned", "thrown"}
    /\ l = "pinned" => pc[t] = "insert"
    /\ l \in (InReserve \ {"check", "release"}) \union {"malloc", "thrown", "pinned"}
    /\ l = "cache" => call[t].op \in {"write", "read"}
    /\ l = "malloc" => call[t].op \notin {"write", "read"}
    /\ Goto(t, l)
    /\ cand' = cand \/ \E c : SetCand(t, c)
    /\ UNCHANGED <<pageVars, content, call, read>>

LEMMA InnerStep ==
  ASSUME NEW t \in Threads, NEW l, PageInv, Inner(t, l)
  PROVE  PageInv'
<1> USE DEF Inner, Goto, SetCand, pageVars
<1>1. /\ pc[t] # "idle" /\ pc'[t] = l /\ call' = call
      /\ l \in (InReserve \ {"check", "release"}) \union {"malloc", "thrown", "pinned"}
      /\ pc[t] \notin InRemove /\ l \notin InRemove
  BY DEF PageInv, PageTypes, InReserve, InRemove
<1>2. call[t].op # "remove" /\ CallFits(t) /\ (l = "pinned" => pc[t] = "insert")
  BY <1>1 DEF PageInv, CallFits
<1>3. PageTypes'
  <2>1. pc' \in [Threads -> Labels]
    BY <1>1 DEF PageInv, PageTypes, Labels, InReserve
  <2>2. cand' = [u \in Threads |-> cand'[u]]
    <3>1. CASE cand' = cand
      BY <3>1 DEF PageInv, PageTypes
    <3>2. ASSUME NEW c, SetCand(t, c) PROVE cand' = [u \in Threads |-> cand'[u]]
      BY <3>2 DEF PageInv, PageTypes
    <3> QED BY <3>1, <3>2
  <2> QED BY <2>1, <2>2 DEF PageInv, PageTypes
<1>4. \A u \in Threads \ {t} : ThreadSame(u)
  <2>1. \A u \in Threads \ {t} : cand'[u] = cand[u]
    BY DEF PageInv, PageTypes
  <2> QED BY <2>1 DEF ThreadSame, PageInv, PageTypes
<1>5. CallFits(t)' /\ CopyOK(t)'
  BY <1>1, <1>2 DEF CallFits, CopyOK, InReserve
<1>6. ASSUME NEW p \in Pages PROVE PageSame(p) /\ RoleSame(t, p)
  <2>1. ~Drops(t, p) /\ ~Drops(t, p)'
    BY <1>1 DEF Drops, InReserve
  <2>2. Pins(t, p)' <=> Pins(t, p)
    BY <1>1 DEF Pins, InReserve
  <2>3. PageSame(p)
    BY DEF PageSame
  <2>4. Pins(t, p) => \/ pc[t] \in InReserve /\ l \in InReserve
                      \/ pc[t] \in InReserve \union {"insert"} /\ l = "thrown"
                      \/ pc[t] = "insert" /\ l = "pinned"
    BY <1>1 DEF Pins
  <2> QED BY <2>1, <2>2, <2>3, <2>4, <1>1 DEF RoleSame
<1> QED BY <1>1, <1>2, <1>3, <1>4, <1>5, <1>6, QuietStep

LEMMA ReserveStep ==
  ASSUME NEW t \in Threads, PageInv,
         \/ InsertCandidate(t) \/ Reserve(t) \/ Reserved(t) \/ GiveClaimed(t) \/ GiveSpilled(t)
         \/ NeedMore(t) \/ LoadUsed(t) \/ ChooseEvict(t) \/ ChooseSpill(t)
         \/ SpillGroup(t) \/ SpillStray(t) \/ Tally(t) \/ GiveUp(t) \/ ReserveFails(t)
         \/ FailSpilled(t) \/ NextBatch(t) \/ ScanEnds(t) \/ TryEvictPage(t) \/ ClearSlot(t)
  PROVE  PageInv'
<1> USE DEF Inner, InReserve, history, shared, pageVars
<1>1. CASE InsertCandidate(t)
  <2>1. Inner(t, "pinned") \/ Inner(t, "thrown")
    BY <1>1 DEF InsertCandidate
  <2> QED BY <2>1, InnerStep
<1>2. CASE Reserve(t)
  <2>1. Inner(t, "need")
    BY <1>2 DEF Reserve
  <2> QED BY <2>1, InnerStep
<1>3. CASE Reserved(t)
  <2>1. Inner(t, "give") \/ Inner(t, "cache") \/ Inner(t, "malloc")
    BY <1>3 DEF Reserved, AfterReserve
  <2> QED BY <2>1, InnerStep
<1>4. CASE GiveClaimed(t)
  <2>1. Inner(t, "giveSpilled")
    BY <1>4 DEF GiveClaimed
  <2> QED BY <2>1, InnerStep
<1>5. CASE GiveSpilled(t)
  <2>1. Inner(t, "cache") \/ Inner(t, "malloc")
    BY <1>5 DEF GiveSpilled, AfterReserve
  <2> QED BY <2>1, InnerStep
<1>6. CASE NeedMore(t)
  <2>1. Inner(t, "loadUsed")
    BY <1>6 DEF NeedMore
  <2> QED BY <2>1, InnerStep
<1>7. CASE LoadUsed(t)
  <2>1. Inner(t, "choose")
    BY <1>7 DEF LoadUsed
  <2> QED BY <2>1, InnerStep
<1>8. CASE ChooseEvict(t)
  <2>1. Inner(t, "scan")
    BY <1>8 DEF ChooseEvict, StartScan
  <2> QED BY <2>1, InnerStep
<1>9. CASE ChooseSpill(t)
  <2>1. Inner(t, "spill")
    BY <1>9 DEF ChooseSpill
  <2> QED BY <2>1, InnerStep
<1>10. CASE SpillGroup(t)
  <2>1. Inner(t, "scan") \/ Inner(t, "tally")
    BY <1>10 DEF SpillGroup, StartScan
  <2> QED BY <2>1, InnerStep
<1>11. CASE SpillStray(t)
  <2>1. Inner(t, "scan") \/ Inner(t, "tally")
    BY <1>11 DEF SpillStray, StartScan
  <2> QED BY <2>1, InnerStep
<1>12. CASE Tally(t)
  <2>1. Inner(t, "need")
    BY <1>12 DEF Tally
  <2> QED BY <2>1, InnerStep
<1>13. CASE GiveUp(t)
  <2>1. Inner(t, "fail")
    BY <1>13 DEF GiveUp
  <2> QED BY <2>1, InnerStep
<1>14. CASE ReserveFails(t)
  <2>1. Inner(t, "failSpilled")
    BY <1>14 DEF ReserveFails
  <2> QED BY <2>1, InnerStep
<1>15. CASE FailSpilled(t)
  <2>1. Inner(t, "failed")
    BY <1>15 DEF FailSpilled
  <2> QED BY <2>1, InnerStep
<1>16. CASE NextBatch(t)
  <2>1. Inner(t, "slot")
    BY <1>16, Zenon DEF NextBatch
  <2> QED BY <2>1, InnerStep
<1>17. CASE ScanEnds(t)
  <2>1. Inner(t, "tally")
    BY <1>17 DEF ScanEnds
  <2> QED BY <2>1, InnerStep
<1>18. CASE TryEvictPage(t)
  <2>1. Inner(t, "evict") \/ Inner(t, "lock")
    BY <1>18 DEF TryEvictPage, NextTodo
  <2> QED BY <2>1, InnerStep
<1>19. CASE ClearSlot(t)
  <2>1. Inner(t, "evict") \/ Inner(t, "thrown")
    BY <1>19 DEF ClearSlot, NextTodo
  <2> QED BY <2>1, InnerStep
<1> QED BY <1>1, <1>2, <1>3, <1>4, <1>5, <1>6, <1>7, <1>8, <1>9, <1>10,
           <1>11, <1>12, <1>13, <1>14, <1>15, <1>16, <1>17, <1>18, <1>19

=============================================================================
