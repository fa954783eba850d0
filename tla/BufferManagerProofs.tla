------------------------ MODULE BufferManagerProofs ------------------------
(***************************************************************************)
(* The remaining steps of the page protocol, and its theorems: writes are  *)
(* kept, and optimistic reads are stable.                                  *)
(***************************************************************************)
EXTENDS BufferManagerSteps

\* A call of pin or reserve that ends, by returning or by giving up.
LEMMA ReturnStep ==
  ASSUME NEW t \in Threads, PageInv, Return(t), UNCHANGED <<pageVars, content>>,
         pc[t] \in {"validate", "malloc", "lockGroup", "freed"}, call[t].op # "remove",
         \A p \in Pages : ~Holds(t, p)
  PROVE  PageInv'
<1> USE DEF pageVars
<1>1. /\ pc'[t] = "idle" /\ call'[t] = NoCall /\ \A u \in Threads \ {t} : ThreadSame(u)
  BY Returned DEF PageInv
<1>2. PageTypes'
  BY Returned DEF PageInv, PageTypes
<1>3. CallFits(t)' /\ CopyOK(t)' /\ call'[t].op # "remove"
  BY <1>1 DEF CallFits, CopyOK, NoCall, InRemove
<1>4. ASSUME NEW p \in Pages PROVE PageSame(p) /\ RoleSame(t, p)
  <2>1. PageSame(p)
    BY DEF PageSame
  <2>2. ~Holds(t, p)' /\ ~Holds(t, p)
    BY <1>1 DEF Holds, Pins, Drops, NoCall
  <2> QED BY <2>1, <2>2 DEF RoleSame, Holds
<1> QED BY <1>1, <1>2, <1>3, <1>4, QuietStep

\* reserve fails: pin resets the page, whose content is in the file.
LEMMA CallFailsStep ==
  ASSUME NEW t \in Threads, PageInv, CallFails(t)
  PROVE  PageInv'
<1>0. PICK p : p = call[t].page
  OBVIOUS
<1> USE <1>0 DEF CallFails, ResetToEvicted, history
<1>1. /\ pc[t] = "failed" /\ CallFits(t) /\ call[t].op # "remove" /\ Return(t)
  BY DEF PageInv, CallFits, InRemove
<1>2. /\ pc'[t] = "idle" /\ call'[t] = NoCall /\ \A u \in Threads \ {t} : ThreadSame(u)
  BY <1>1, Returned DEF PageInv
<1>3. PageTypes'
  <2>1. word' \in [Pages -> Word]
    <3>1. EvictedWord \in Word
      BY DEF EvictedWord, Word
    <3> QED BY <3>1, Zenon DEF PageInv, PageTypes
  <2> QED BY <2>1, <1>1, Returned DEF PageInv, PageTypes
<1>4. CallFits(t)' /\ CopyOK(t)' /\ call'[t].op # "remove"
  BY <1>2 DEF CallFits, CopyOK, NoCall, InRemove
<1>5. ASSUME NEW q \in Pages, call[t].op \in {"write", "read"} => q # p
      PROVE  PageSame(q) /\ RoleSame(t, q)
  <2>1. PageSame(q)
    BY <1>5 DEF PageSame, PageInv, PageTypes
  <2>2. ~Holds(t, q)' /\ ~Holds(t, q)
    BY <1>1, <1>2, <1>5 DEF Holds, Pins, Drops, NoCall
  <2> QED BY <2>1, <2>2 DEF RoleSame, Holds
<1>6. CASE call[t].op \notin {"write", "read"}
  BY <1>1, <1>2, <1>3, <1>4, <1>5, <1>6, QuietStep
<1>7. CASE call[t].op \in {"write", "read"}
  <2>1. p \in Pages
    BY <1>1, <1>7 DEF CallFits
  <2>2. Pins(t, p) /\ PageOK(p) /\ OnFile(p)
    BY <1>1, <1>7, <2>1 DEF PageInv, PageOK, ContentKept, Pins, InReserve
  <2>3. /\ word'[p].state = "EVICTED" /\ OnFile(p)'
    BY <1>7, <2>1, <2>2 DEF PageInv, PageTypes, EvictedWord, OnFile
  <2>4. \A u \in Threads : ~Holds(u, p)'
    <3>1. ~Holds(t, p)'
      BY <1>2 DEF Holds, Pins, Drops, NoCall
    <3>2. ASSUME NEW u \in Threads \ {t} PROVE ~Holds(u, p)'
      BY <1>2, <2>2, SameThreadSameRole DEF PageOK, OneHolder, Holds, RoleSame
    <3> QED BY <3>1, <3>2
  <2>5. PageOK(p)' /\ ReadersSafe(p)
    BY <2>2, <2>3, <2>4 DEF PageOK, OneHolder, ContentKept, Holds, ReadersSafe, OnFile
  <2>6. \A q \in Pages \ {p} : PageSame(q) /\ RoleSame(t, q)
    BY <1>5
  <2> QED BY <1>1, <1>2, <1>3, <1>4, <2>5, <2>6, PageStep
<1> QED BY <1>6, <1>7

\* evictPages marks the unlocked page a slot names.
LEMMA ScanStep ==
  ASSUME NEW t \in Threads, PageInv, ScanSlot(t)
  PROVE  PageInv'
<1>0. PICK c : c = slots[loc[t].base + loc[t].at]
  OBVIOUS
<1> USE <1>0 DEF ScanSlot, SetState, Goto, history
<1>1. /\ pc[t] = "slot" /\ pc'[t] \in {"slot", "scan", "evict"} /\ call' = call
      /\ cand' = cand /\ read' = read /\ CallFits(t)
      /\ frame' = frame /\ disk' = disk /\ content' = content
      /\ pc' = [pc EXCEPT ![t] = pc'[t]]
  BY Zenon DEF PageInv, PageTypes
<1>2. word' = word \/ (word[c].state = "UNLOCKED" /\ word' = [word EXCEPT ![c].state = "MARKED"])
  BY Zenon
<1>3. call[t].op # "remove" /\ CallFits(t)' /\ CopyOK(t)'
  BY <1>1, Zenon DEF CallFits, CopyOK, InRemove
<1> HIDE DEF ScanSlot, SetState, Goto
<1>4. \A u \in Threads \ {t} : ThreadSame(u)
  BY <1>1 DEF ThreadSame, PageInv, PageTypes
<1>5. PageTypes'
  <2>1. word' \in [Pages -> Word]
    <3>1. CASE word' = word
      BY <3>1 DEF PageInv, PageTypes
    <3>2. CASE word' = [word EXCEPT ![c].state = "MARKED"]
      <4>1. word \in [Pages -> Word]
        BY DEF PageInv, PageTypes
      <4> QED BY <4>1, <3>2, StateSet, Zenon
    <3> QED BY <3>1, <3>2, <1>2
  <2>2. pc' \in [Threads -> Labels]
    BY <1>1 DEF PageInv, PageTypes, Labels
  <2> QED BY <2>1, <2>2, <1>1 DEF PageInv, PageTypes
<1>6. \A q \in Pages : RoleSame(t, q)
  BY <1>1 DEF RoleSame, Pins, Drops, InReserve
<1>7. \A q \in Pages \ {c} : PageSame(q)
  BY <1>1, <1>2 DEF PageSame, PageInv, PageTypes
<1>8. ASSUME c \in Pages PROVE PageOK(c)' /\ ReadersSafe(c)
  <2>1. word[c] \in Word /\ PageOK(c) /\ word'[c] \in Word
    BY <1>5, <1>8 DEF PageInv, PageTypes
  <2>2. \A u \in Threads : RoleSame(u, c)
    BY <1>4, <1>6, <1>8, SameThreadSameRole
  <2>3. CASE word' = word
    <3>1. PageSame(c)
      BY <2>3, <1>1 DEF PageSame
    <3> QED BY <3>1, <2>1, <2>2, <1>8, SamePage
  <2>4. CASE word[c].state = "UNLOCKED" /\ word' = [word EXCEPT ![c].state = "MARKED"]
    <3>1. /\ word'[c].state = "MARKED"
          /\ word'[c].version = word[c].version /\ word'[c].dirty = word[c].dirty
      BY <2>4, <1>8 DEF PageInv, PageTypes, Word
    <3> QED BY <3>1, <2>1, <2>2, <2>4, <1>1, <1>8, SwappedMark, Zenon
  <2> QED BY <2>3, <2>4, <1>2
<1> QED BY <1>1, <1>3, <1>4, <1>5, <1>6, <1>7, <1>8, PageStep

\* tryEvictPage locks the marked page, and unlocks it with its version when
\* the slot names another page by then.
LEMMA LockStep ==
  ASSUME NEW t \in Threads, PageInv, LockCandidate(t)
  PROVE  PageInv'
<1>0. PICK c : c = cand[t]
  OBVIOUS
<1> USE <1>0 DEF LockCandidate, SetState, Goto, history
<1>1. pc[t] = "lock" /\ CallFits(t) /\ call[t].op # "remove" /\ call' = call /\ read' = read
  BY DEF PageInv, CallFits, InRemove
<1>2. CASE word[c].state # "MARKED"
  <2>1. Inner(t, "evict")
    BY <1>1, <1>2 DEF Inner, InReserve, NextTodo, pageVars
  <2> QED BY <2>1, InnerStep
<1>3. CASE word[c].state = "MARKED"
  <2>1. /\ pc'[t] = "check" /\ cand' = cand /\ word' = [word EXCEPT ![c].state = "LOCKED"]
        /\ pc' = [pc EXCEPT ![t] = "check"]
        /\ frame' = frame /\ disk' = disk /\ content' = content
    BY <1>3, Zenon DEF PageInv, PageTypes
  <2> HIDE DEF LockCandidate, SetState, Goto
  <2>2. PageTypes'
    <3>1. word' \in [Pages -> Word]
      <4>1. word \in [Pages -> Word]
        BY DEF PageInv, PageTypes
      <4> QED BY <4>1, <2>1, StateSet, Zenon
    <3>2. pc' \in [Threads -> Labels]
      BY <2>1 DEF PageInv, PageTypes, Labels
    <3> QED BY <3>1, <3>2, <2>1, <1>1 DEF PageInv, PageTypes
  <2>3. \A u \in Threads \ {t} : ThreadSame(u)
    BY <1>1, <2>1 DEF ThreadSame, PageInv, PageTypes
  <2>4. CallFits(t)' /\ CopyOK(t)'
    BY <1>1, <2>1 DEF CallFits, CopyOK, InRemove
  <2>5. \A q \in Pages \ {c} : PageSame(q) /\ RoleSame(t, q)
    BY <1>1, <2>1 DEF PageSame, RoleSame, Pins, Drops, InReserve, PageInv, PageTypes
  <2>6. ASSUME c \in Pages PROVE PageOK(c)' /\ ReadersSafe(c)
    <3>1. /\ word'[c].state = "LOCKED" /\ word'[c].version = word[c].version
          /\ word'[c].dirty = word[c].dirty /\ word[c].version \in Nat
      BY <2>1, <2>6 DEF PageInv, PageTypes, Word
    <3>2. PageOK(c) /\ InFrame(c) /\ \A u \in Threads : ~Holds(u, c)
      BY <1>3, <2>6 DEF PageInv, PageOK, OneHolder, ContentKept
    <3>3. \A u \in Threads \ {t} : RoleSame(u, c)
      BY <2>3, SameThreadSameRole
    <3>4. Drops(t, c)' /\ ~Pins(t, c)'
      BY <1>1, <2>1, <3>2 DEF Drops, Pins, Holds
    <3>5. OneHolder(c)'
      BY <3>1, <3>2, <3>3, <3>4 DEF OneHolder, Holds, RoleSame
    <3>6. InFrame(c)'
      BY <2>1, <3>1, <3>2 DEF InFrame
    <3>7. ContentKept(c)'
      BY <3>1, <3>2, <3>3, <3>4, <3>6 DEF ContentKept, Holds, RoleSame
    <3>8. ReadersSafe(c)
      BY <2>1, <3>1, <3>2 DEF ReadersSafe, Holds
    <3> QED BY <3>5, <3>7, <3>8 DEF PageOK
  <2> QED BY <1>1, <2>1, <2>2, <2>3, <2>4, <2>5, <2>6, PageStep
<1> QED BY <1>2, <1>3

LEMMA CheckStep ==
  ASSUME NEW t \in Threads, PageInv, CheckCandidate(t)
  PROVE  PageInv'
<1>0. PICK c : c = cand[t]
  OBVIOUS
<1> USE <1>0 DEF CheckCandidate, SetState, Goto, history
<1>1. pc[t] = "check" /\ CallFits(t) /\ call[t].op # "remove" /\ call' = call /\ read' = read
  BY DEF PageInv, CallFits, InRemove
<1>2. CASE slots[Head(loc[t].todo)] = c
  <2>1. /\ pc'[t] = "release" /\ pc' = [pc EXCEPT ![t] = "release"] /\ cand' = cand
        /\ word' = word /\ frame' = frame /\ disk' = disk /\ content' = content
    BY <1>2, Zenon DEF PageInv, PageTypes
  <2>2. PageTypes'
    <3>1. pc' \in [Threads -> Labels]
      BY <2>1 DEF PageInv, PageTypes, Labels
    <3> QED BY <3>1, <2>1, <1>1 DEF PageInv, PageTypes
  <2>3. \A u \in Threads \ {t} : ThreadSame(u)
    BY <1>1, <2>1 DEF ThreadSame, PageInv, PageTypes
  <2>4. CallFits(t)' /\ CopyOK(t)'
    BY <1>1, <2>1 DEF CallFits, CopyOK, InRemove
  <2>5. \A q \in Pages : PageSame(q) /\ RoleSame(t, q)
    BY <1>1, <2>1 DEF PageSame, RoleSame, Pins, Drops, InReserve
  <2> QED BY <1>1, <2>2, <2>3, <2>4, <2>5, QuietStep
<1>3. CASE slots[Head(loc[t].todo)] # c
  <2>1. /\ pc'[t] = "evict" /\ pc' = [pc EXCEPT ![t] = "evict"]
        /\ cand' = [cand EXCEPT ![t] = EMPTY] /\ word' = [word EXCEPT ![c].state = "UNLOCKED"]
        /\ frame' = frame /\ disk' = disk /\ content' = content
    BY <1>3 DEF PageInv, PageTypes, NextTodo, SetCand
  <2> HIDE DEF CheckCandidate, SetState, Goto
  <2>2. PageTypes'
    <3>1. word' \in [Pages -> Word]
      <4>1. word \in [Pages -> Word]
        BY DEF PageInv, PageTypes
      <4> QED BY <4>1, <2>1, StateSet, Zenon
    <3>2. pc' \in [Threads -> Labels] /\ cand' = [u \in Threads |-> cand'[u]]
      BY <2>1, Zenon DEF PageInv, PageTypes, Labels
    <3> QED BY <3>1, <3>2, <2>1, <1>1 DEF PageInv, PageTypes
  <2>3. \A u \in Threads \ {t} : ThreadSame(u)
    BY <1>1, <2>1 DEF ThreadSame, PageInv, PageTypes
  <2>4. CallFits(t)' /\ CopyOK(t)'
    BY <1>1, <2>1 DEF CallFits, CopyOK, InRemove
  <2>5. \A q \in Pages \ {c} : PageSame(q) /\ RoleSame(t, q)
    BY <1>1, <2>1 DEF PageSame, RoleSame, Pins, Drops, InReserve, PageInv, PageTypes
  <2>6. ASSUME c \in Pages PROVE PageOK(c)' /\ ReadersSafe(c)
    <3>1. /\ word'[c].state = "UNLOCKED" /\ word'[c].version = word[c].version
          /\ word'[c].dirty = word[c].dirty /\ word[c].version \in Nat
      BY <2>1, <2>6 DEF PageInv, PageTypes, Word
    <3>2. PageOK(c) /\ Drops(t, c)
      BY <1>1, <2>6 DEF PageInv, Drops
    <3>3. InFrame(c) /\ ~Pins(t, c) /\ \A u \in Threads \ {t} : ~Holds(u, c)
      BY <3>2 DEF PageOK, OneHolder, ContentKept, Holds
    <3>4. \A u \in Threads : ~Holds(u, c)'
      <4>1. ~Holds(t, c)'
        BY <3>3, <1>1, <2>1 DEF Holds, Pins, Drops
      <4>2. ASSUME NEW u \in Threads \ {t} PROVE ~Holds(u, c)'
        BY <2>3, <3>3, SameThreadSameRole DEF Holds, RoleSame
      <4> QED BY <4>1, <4>2
    <3>5. InFrame(c)'
      BY <2>1, <3>1, <3>3 DEF InFrame
    <3>6. PageOK(c)'
      BY <3>1, <3>4, <3>5 DEF PageOK, OneHolder, ContentKept, Holds
    <3>7. ReadersSafe(c)
      BY <2>1, <3>1, <3>3 DEF ReadersSafe, Holds
    <3> QED BY <3>6, <3>7
  <2> QED BY <1>1, <2>1, <2>2, <2>3, <2>4, <2>5, <2>6, PageStep
<1> QED BY <1>2, <1>3

\* The frame of the locked page is released once the file has its content;
\* from then on its readers read a page that left its frame.
LEMMA ReleaseStep ==
  ASSUME NEW t \in Threads, PageInv, ReleaseFrame(t)
  PROVE  PageInv'
<1>0. PICK c : c = cand[t]
  OBVIOUS
<1> USE <1>0 DEF ReleaseFrame, Flushed, ResetToEvicted, Goto, history
<1>1. /\ pc[t] = "release" /\ CallFits(t) /\ call[t].op # "remove" /\ call' = call
      /\ pc'[t] = "clear" /\ cand' = cand /\ content' = content
  BY DEF PageInv, PageTypes, CallFits, InRemove
<1>2. ASSUME c \in Pages PROVE PageOK(c) /\ Drops(t, c) /\ InFrame(c)
  BY <1>1, <1>2 DEF PageInv, Drops, PageOK, ContentKept
<1>3. read' \in [Threads -> ReadTypes]
  BY Zenon DEF PageInv, PageTypes, Outdated, ReadTypes
<1>4. PageTypes'
  <2>1. word' \in [Pages -> Word]
    <3>1. EvictedWord \in Word
      BY DEF EvictedWord, Word
    <3> QED BY <3>1, Zenon DEF PageInv, PageTypes
  <2>2. frame' \in [Pages -> Nat \union {Released}]
    BY Zenon DEF PageInv, PageTypes
  <2>3. disk' \in [Pages -> Nat]
    <3>1. c \in Pages => frame[c] \in Nat
      BY <1>2 DEF InFrame, PageInv, PageTypes
    <3> QED BY <3>1, Zenon DEF PageInv, PageTypes
  <2>4. pc' \in [Threads -> Labels]
    BY DEF PageInv, PageTypes, Labels
  <2> QED BY <1>1, <1>3, <2>1, <2>2, <2>3, <2>4 DEF PageInv, PageTypes
<1>5. \A u \in Threads \ {t} : pc'[u] = pc[u] /\ call'[u] = call[u] /\ cand'[u] = cand[u]
  BY <1>1 DEF PageInv, PageTypes
<1>6. \A u \in Threads : CallFits(u)'
  <2>1. CallFits(t)'
    BY <1>1 DEF CallFits, InRemove
  <2>2. ASSUME NEW u \in Threads \ {t} PROVE CallFits(u)'
    BY <1>5 DEF CallFits, PageInv
  <2> QED BY <2>1, <2>2
<1>7. RemovesAlone'
  BY <1>1 DEF PageInv, RemovesAlone
<1>8. ASSUME NEW u \in Threads \ {t}, NEW p \in Pages PROVE RoleSame(u, p)
  BY <1>5 DEF RoleSame, Pins, Drops
<1>9. ASSUME NEW p \in Pages \ {c} PROVE PageOK(p)' /\ ReadersSafe(p)
  <2>1. PageSame(p)
    BY <1>1 DEF PageSame, PageInv, PageTypes
  <2>2. RoleSame(t, p)
    BY <1>1 DEF RoleSame, Pins, Drops, InReserve
  <2>3. word[p] \in Word /\ PageOK(p)
    BY DEF PageInv, PageTypes
  <2>4. \A u \in Threads : RoleSame(u, p)
    BY <1>8, <2>2
  <2> QED BY <2>1, <2>3, <2>4, SamePage
<1>10. ASSUME c \in Pages PROVE PageOK(c)'
  <2>1. word'[c].state = "EVICTED" /\ OnFile(c)'
    BY <1>1, <1>2, <1>10 DEF PageInv, PageTypes, EvictedWord, OnFile, InFrame
  <2>2. \A u \in Threads : ~Holds(u, c)'
    <3>1. ~Pins(t, c) /\ \A u \in Threads \ {t} : ~Holds(u, c)
      BY <1>2, <1>10 DEF PageOK, OneHolder, Holds
    <3>2. ~Holds(t, c)'
      BY <1>1, <3>1 DEF Holds, Pins, Drops
    <3>3. \A u \in Threads \ {t} : ~Holds(u, c)'
      BY <3>1, <1>8, <1>10 DEF Holds, RoleSame
    <3> QED BY <3>2, <3>3
  <2> QED BY <2>1, <2>2 DEF PageOK, OneHolder, ContentKept, Holds
<1>11. ASSUME NEW u \in Threads PROVE CopyOK(u)'
  <2>1. CASE pc[u] \notin {"copy", "validate"}
    BY <2>1, <1>1, <1>5 DEF CopyOK
  <2>2. CASE pc[u] \in {"copy", "validate"} /\ call[u].page # c
    <3>1. u # t /\ read'[u] = read[u]
      BY <1>1, <2>2 DEF Outdated
    <3>2. ThreadSame(u)
      BY <3>1, <1>5 DEF ThreadSame
    <3>3. call[u].page \in Pages => ReadersSafe(call[u].page)
      BY <1>9, <2>2
    <3> QED BY <3>2, <3>3, <1>4, SameReader
  <2>3. CASE pc[u] \in {"copy", "validate"} /\ call[u].page = c
    <3>1. u # t /\ read'[u] = [read[u] EXCEPT !.evicted = TRUE] /\ read[u] \in ReadTypes
      BY <1>1, <2>3 DEF Outdated, PageInv, PageTypes
    <3>2. read'[u].evicted /\ read'[u].seen = read[u].seen /\ read'[u].copy = read[u].copy
      BY <3>1 DEF ReadTypes
    <3>3. CopyOK(u)
      BY DEF PageInv
    <3> QED BY <3>1, <3>2, <3>3, <2>3, <1>5 DEF CopyOK
  <2> QED BY <2>1, <2>2, <2>3
<1> QED BY <1>4, <1>6, <1>7, <1>9, <1>10, <1>11 DEF PageInv

\* Where nothing about the pages and the threads changes.
LEMMA UnchangedStep ==
  ASSUME PageInv, UNCHANGED <<pageVars, content, pc, call, read, cand>>
  PROVE  PageInv'
<1> USE DEF pageVars
<1>1. PageTypes' /\ RemovesAlone' /\ \A u \in Threads : CallFits(u)'
  BY DEF PageInv, PageTypes, RemovesAlone, CallFits
<1>2. \A u \in Threads : ThreadSame(u)
  BY DEF ThreadSame
<1>3. ASSUME NEW p \in Pages PROVE PageOK(p)' /\ ReadersSafe(p)
  BY <1>2, SamePage, SameThreadSameRole DEF PageInv, PageTypes, PageSame
<1>4. \A u \in Threads : CopyOK(u)'
  BY <1>1, <1>2, <1>3, SameReader
<1> QED BY <1>1, <1>3, <1>4 DEF PageInv

\* A call starts with no page in its hands, and none starts while a
\* checkpoint removes pages.
Begins(t, c, first) ==
    /\ pc[t] = "idle" /\ ~Checkpointing
    /\ call' = [call EXCEPT ![t] = c]
    /\ Goto(t, first)
    /\ UNCHANGED <<pageVars, content, read, cand>>

LEMMA CallStep ==
  ASSUME NEW t \in Threads, NEW c \in CallTypes, NEW first \in Labels, PageInv,
         "rollback" \notin Races, Begins(t, c, first), c.op = "remove" => AllIdle,
         c.op \in {"write", "read", "remove"} => c.page \in Pages,
         \/ c.op = "write" /\ first = "pin"
         \/ c.op = "read" /\ first = "load"
         \/ c.op = "remove" /\ first = "remove"
         \/ c.op = "allocate" /\ first = "reserve"
         \/ c.op = "load" /\ first = "lockGroup"
         \/ c.op = "free" /\ first = "freed"
  PROVE  PageInv'
<1> USE DEF Begins, Goto, pageVars
<1>1. /\ pc[t] = "idle" /\ call[t].op = "none" /\ pc'[t] = first /\ call'[t] = c
      /\ word' = word /\ frame' = frame /\ disk' = disk /\ content' = content
      /\ cand' = cand /\ read' = read
      /\ \A u \in Threads : call[u].op # "remove"
  BY DEF PageInv, PageTypes, CallFits, Checkpointing
<1>2. \A u \in Threads \ {t} : ThreadSame(u)
  BY DEF ThreadSame, PageInv, PageTypes
<1>3. PageTypes'
  BY DEF PageInv, PageTypes
<1>4. \A u \in Threads : CallFits(u)'
  <2>1. CallFits(t)'
    BY <1>1 DEF CallFits, InRemove
  <2> QED BY <2>1, <1>2, SMTT(60) DEF CallFits, PageInv, ThreadSame
<1>5. ASSUME NEW p \in Pages PROVE PageOK(p)' /\ ReadersSafe(p)
  <2>1. RoleSame(t, p)
    BY <1>1 DEF RoleSame, Pins, Drops
  <2>2. \A u \in Threads : RoleSame(u, p)
    BY <2>1, <1>2, SameThreadSameRole
  <2> QED BY <2>2, <1>1, SamePage DEF PageInv, PageTypes, PageSame
<1>6. RemovesAlone'
  <2>1. ASSUME NEW u \in Threads, call'[u].op = "remove"
        PROVE  /\ \A v \in Threads \ {u} : pc'[v] = "idle"
               /\ pc'[u] \notin {"removeLoad", "removeLock"}
    <3>1. u = t /\ AllIdle
      BY <2>1, <1>1, <1>2 DEF ThreadSame
    <3> QED BY <3>1, <2>1, <1>1, <1>2 DEF AllIdle, ThreadSame
  <2> QED BY <2>1 DEF RemovesAlone
<1>7. \A u \in Threads : CopyOK(u)'
  <2>1. CopyOK(t)'
    BY <1>1 DEF CopyOK
  <2> QED BY <2>1, <1>2, <1>3, <1>5, SameReader
<1> QED BY <1>3, <1>4, <1>5, <1>6, <1>7 DEF PageInv

LEMMA StartStep ==
  ASSUME NEW t \in Threads, PageInv, "rollback" \notin Races,
         \/ \E p \in Pages : StartWrite(t, p) \/ StartRead(t, p) \/ StartRemove(t, p)
         \/ \E g \in Groups : StartAllocate(t, g) \/ StartLoad(t, g)
  PROVE  PageInv'
<1>0. ASSUME NEW c, NEW first, Call(t, c, first) PROVE Begins(t, c, first)
  BY <1>0, Zenon DEF Call, Begins, shared, history
<1>1. ASSUME NEW p \in Pages, StartWrite(t, p) PROVE PageInv'
  BY <1>0, <1>1, CallStep, Zenon DEF StartWrite, PageCall, NoCall, CallTypes, Labels
<1>2. ASSUME NEW p \in Pages, StartRead(t, p) PROVE PageInv'
  BY <1>0, <1>2, CallStep, Zenon DEF StartRead, PageCall, NoCall, CallTypes, Labels
<1>3. ASSUME NEW p \in Pages, StartRemove(t, p) PROVE PageInv'
  BY <1>0, <1>3, CallStep, Zenon DEF StartRemove, PageCall, NoCall, CallTypes, Labels
<1>4. ASSUME NEW g \in Groups, StartAllocate(t, g) PROVE PageInv'
  BY <1>0, <1>4, CallStep, Zenon DEF StartAllocate, GroupCall, NoCall, CallTypes, Labels
<1>5. ASSUME NEW g \in Groups, StartLoad(t, g) PROVE PageInv'
  BY <1>0, <1>5, CallStep, Zenon DEF StartLoad, GroupCall, NoCall, CallTypes, Labels
<1> QED BY <1>1, <1>2, <1>3, <1>4, <1>5

\* A checkpoint that removes a page has the pages to itself: no other thread
\* has a role or reads.
LEMMA RemoveStep ==
  ASSUME NEW t \in Threads, PageInv,
         \/ RemoveLoad(t) \/ RemoveReload(t) \/ RemoveLock(t) \/ RemoveDrop(t)
         \/ RemoveEvictedCandidates(t)
  PROVE  PageInv'
<1>0. PICK p : p = call[t].page
  OBVIOUS
<1> USE <1>0
<1>1. /\ pc[t] \in InRemove /\ call[t].op = "remove" /\ p \in Pages /\ PageOK(p)
      /\ \A u \in Threads \ {t} : pc[u] = "idle" /\ call[u].op = "none"
      /\ pc[t] \in {"removeLoad", "removeLock"} => word[p].state # "EVICTED"
  BY DEF PageInv, CallFits, RemovesAlone, InRemove, RemoveLoad, RemoveReload, RemoveLock,
         RemoveDrop, RemoveEvictedCandidates
<1>2. ASSUME NEW q \in Pages, pc[t] # "removeDrop" \/ q # p, NEW u \in Threads
      PROVE  ~Holds(u, q)
  BY <1>1, <1>2 DEF Holds, Pins, Drops, InRemove
<1>3. ASSUME PageTypes', \A u \in Threads \ {t} : ThreadSame(u), CallFits(t)',
             pc'[t] \notin {"copy", "validate"},
             \A q \in Pages : PageOK(q)',
             pc'[t] \in {"removeLoad", "removeLock"} => call'[t] = call[t] /\ word'[p].state # "EVICTED"
      PROVE  PageInv'
  <2>1. ASSUME NEW u \in Threads PROVE CallFits(u)' /\ CopyOK(u)'
    <3>1. pc'[u] \notin {"copy", "validate"}
      BY <1>1, <1>3 DEF ThreadSame
    <3>2. CASE u = t
      BY <1>3, <3>1, <3>2 DEF CopyOK
    <3>3. CASE u # t
      BY <1>3, <3>1, <3>3, ZenonT(60) DEF PageInv, CallFits, CopyOK, ThreadSame
    <3> QED BY <3>2, <3>3
  <2>2. RemovesAlone'
    BY <1>1, <1>3, Zenon DEF RemovesAlone, ThreadSame
  <2> QED BY <1>3, <2>1, <2>2 DEF PageInv
<1>4. ASSUME UNCHANGED <<pageVars, content>>, PageTypes', CallFits(t)',
             \A u \in Threads \ {t} : ThreadSame(u),
             pc[t] # "removeDrop", call'[t].op \in {"remove", "none"},
             pc'[t] \in {"idle", "removeLoad", "removeLock", "removeCandidates"},
             pc'[t] \in {"removeLoad", "removeLock"} => call'[t] = call[t] /\ word[p].state # "EVICTED"
      PROVE  PageInv'
  <2>1. ASSUME NEW q \in Pages PROVE PageOK(q)'
    <3>1. ~Holds(t, q)' /\ ~Holds(t, q)
      BY <1>2, <1>4, Zenon DEF Holds, Pins, Drops
    <3>2. \A u \in Threads : RoleSame(u, q)
      BY <3>1, <1>4, SameThreadSameRole, Zenon DEF RoleSame, Holds
    <3>3. PageSame(q)
      BY <1>4, Zenon DEF PageSame, pageVars
    <3> QED BY <3>2, <3>3, SamePage DEF PageInv, PageTypes
  <2> QED BY <2>1, <1>3, <1>4, Zenon DEF pageVars
<1>5. CASE RemoveLoad(t)
  <2>1. /\ pc' = [pc EXCEPT ![t] = pc'[t]] /\ pc[t] = "remove"
        /\ pc'[t] = IF word[p].state = "EVICTED" THEN "removeCandidates" ELSE "removeLoad"
        /\ UNCHANGED <<pageVars, content, call, read, cand>>
    BY <1>5 DEF RemoveLoad, Goto, shared, history, PageInv, PageTypes
  <2>2. PageTypes'
    BY <2>1 DEF PageInv, PageTypes, Labels, pageVars
  <2>3. CallFits(t)' /\ \A u \in Threads \ {t} : ThreadSame(u)
    BY <2>1, <1>1 DEF PageInv, PageTypes, CallFits, InRemove, ThreadSame
  <2> QED BY <1>1, <1>4, <2>1, <2>2, <2>3
<1>6. CASE RemoveReload(t)
  <2>1. /\ pc' = [pc EXCEPT ![t] = "removeLock"] /\ pc[t] = "removeLoad" /\ pc'[t] = "removeLock"
        /\ UNCHANGED <<pageVars, content, call, cand>>
        /\ read' = [read EXCEPT ![t] = [read[t] EXCEPT !.seen = word[p]]]
    BY <1>6 DEF RemoveReload, Goto, SetRead, shared, history, PageInv, PageTypes
  <2>2. PageTypes'
    <3>1. word[p] \in Word /\ read[t] \in ReadTypes
      BY <1>1 DEF PageInv, PageTypes
    <3>2. [read[t] EXCEPT !.seen = word[p]] \in ReadTypes
      BY <3>1 DEF ReadTypes
    <3>3. read' \in [Threads -> ReadTypes] /\ pc' \in [Threads -> Labels]
      BY <2>1, <3>2 DEF PageInv, PageTypes, Labels
    <3> QED BY <2>1, <3>3 DEF PageInv, PageTypes, pageVars
  <2>3. CallFits(t)' /\ \A u \in Threads \ {t} : ThreadSame(u)
    BY <2>1, <1>1 DEF PageInv, PageTypes, CallFits, InRemove, ThreadSame
  <2> QED BY <1>1, <1>4, <2>1, <2>2, <2>3
<1>7. CASE RemoveEvictedCandidates(t)
  <2>1. /\ pc[t] = "removeCandidates" /\ Return(t) /\ UNCHANGED <<pageVars, content>>
    BY <1>7 DEF RemoveEvictedCandidates, history
  <2>2. pc'[t] = "idle" /\ call'[t] = NoCall /\ \A u \in Threads \ {t} : ThreadSame(u)
    BY <2>1, Returned DEF PageInv
  <2>3. PageTypes'
    BY <2>1, Returned DEF PageInv, PageTypes, pageVars
  <2>4. CallFits(t)'
    BY <2>2 DEF CallFits, NoCall, InRemove
  <2>5. /\ pc[t] # "removeDrop" /\ call'[t].op \in {"remove", "none"}
        /\ pc'[t] \in {"idle", "removeLoad", "removeLock", "removeCandidates"}
        /\ pc'[t] \notin {"removeLoad", "removeLock"}
    BY <2>1, <2>2 DEF NoCall
  <2> QED BY <1>4, <2>1, <2>2, <2>3, <2>4, <2>5
<1>8. CASE RemoveLock(t)
  <2>1. /\ pc' = [pc EXCEPT ![t] = "removeDrop"] /\ pc[t] = "removeLock" /\ pc'[t] = "removeDrop"
        /\ UNCHANGED <<frame, disk, content, call, cand, read>>
        /\ word' = [word EXCEPT ![p].state = "LOCKED"]
    BY <1>8 DEF RemoveLock, Goto, SetState, history, PageInv, PageTypes
  <2>2. PageTypes'
    <3>1. word' \in [Pages -> Word]
      <4>1. word \in [Pages -> Word]
        BY DEF PageInv, PageTypes
      <4> QED BY <4>1, <2>1, StateSet, Zenon
    <3>2. pc' \in [Threads -> Labels]
      BY <2>1 DEF PageInv, PageTypes, Labels
    <3> QED BY <2>1, <3>1, <3>2 DEF PageInv, PageTypes
  <2>3. CallFits(t)' /\ \A u \in Threads \ {t} : ThreadSame(u)
    BY <2>1, <1>1 DEF PageInv, PageTypes, CallFits, InRemove, ThreadSame
  <2>4. InFrame(p)
    <3>1. word[p].state \in {"UNLOCKED", "LOCKED", "MARKED", "EVICTED"}
      BY <1>1 DEF PageInv, PageTypes, Word
    <3> QED BY <3>1, <1>1, <1>2, <2>1 DEF PageOK, OneHolder, ContentKept
  <2>5. PageOK(p)'
    <3>1. word'[p].state = "LOCKED" /\ InFrame(p)'
      BY <2>1, <2>4, <1>1 DEF InFrame, PageInv, PageTypes, Word
    <3>2. Drops(t, p)' /\ ~Pins(t, p)' /\ \A u \in Threads \ {t} : ~Holds(u, p)'
      BY <2>1, <2>3, <1>1 DEF Drops, Pins, Holds, ThreadSame
    <3> QED BY <3>1, <3>2, <1>1, Zenon DEF PageOK, OneHolder, ContentKept, Holds
  <2>6. ASSUME NEW q \in Pages \ {p} PROVE PageOK(q)'
    <3>1. \A u \in Threads : RoleSame(u, q)
      BY <2>1, <2>3, <1>1, SameThreadSameRole DEF RoleSame, Pins, Drops
    <3>2. PageSame(q)
      BY <2>1 DEF PageSame, PageInv, PageTypes
    <3> QED BY <3>1, <3>2, SamePage DEF PageInv, PageTypes
  <2> QED BY <1>3, <2>1, <2>2, <2>3, <2>5, <2>6
<1>9. CASE RemoveDrop(t)
  <2>1. /\ pc' = [pc EXCEPT ![t] = "removeCandidates"] /\ pc[t] = "removeDrop"
        /\ pc'[t] = "removeCandidates"
        /\ UNCHANGED <<disk, call, cand, read>>
        /\ word' = [word EXCEPT ![p] = EvictedWord] /\ frame' = [frame EXCEPT ![p] = Released]
        /\ content' = [content EXCEPT ![p] = disk[p]]
    BY <1>9 DEF RemoveDrop, Goto, ResetToEvicted, history, PageInv, PageTypes
  <2>2. PageTypes'
    <3>1. EvictedWord \in Word
      BY DEF EvictedWord, Word
    <3>2. word' \in [Pages -> Word] /\ frame' \in [Pages -> Nat \union {Released}]
      BY <2>1, <3>1, Zenon DEF PageInv, PageTypes
    <3>3. pc' \in [Threads -> Labels] /\ content' \in [Pages -> Nat]
      BY <2>1, <1>1 DEF PageInv, PageTypes, Labels
    <3> QED BY <2>1, <3>2, <3>3 DEF PageInv, PageTypes
  <2>3. CallFits(t)' /\ \A u \in Threads \ {t} : ThreadSame(u)
    BY <2>1, <1>1 DEF PageInv, PageTypes, CallFits, InRemove, ThreadSame
  <2>4. PageOK(p)'
    <3>1. word'[p].state = "EVICTED" /\ OnFile(p)'
      BY <2>1, <1>1 DEF OnFile, PageInv, PageTypes, EvictedWord
    <3>2. \A u \in Threads : ~Holds(u, p)'
      BY <2>1, <2>3, <1>1 DEF Drops, Pins, Holds, ThreadSame
    <3> QED BY <3>1, <3>2, <1>1, Zenon DEF PageOK, OneHolder, ContentKept, Holds
  <2>5. ASSUME NEW q \in Pages \ {p} PROVE PageOK(q)'
    <3>1. \A u \in Threads : RoleSame(u, q)
      BY <2>1, <2>3, <1>1, SameThreadSameRole, Zenon DEF RoleSame, Pins, Drops
    <3>2. PageSame(q)
      BY <2>1 DEF PageSame, PageInv, PageTypes
    <3> QED BY <3>1, <3>2, SamePage DEF PageInv, PageTypes
  <2> QED BY <1>3, <2>1, <2>2, <2>3, <2>4, <2>5, Zenon
<1> QED BY <1>5, <1>6, <1>7, <1>8, <1>9

\* The end of an optimistic read, and the steps on groups.
LEMMA LeaveStep ==
  ASSUME NEW t \in Threads, PageInv,
         Validate(t) \/ Malloc(t) \/ LockGroup(t) \/ FreeNonEvictable(t)
  PROVE  PageInv'
<1> USE DEF Validate, IsUnchanged, Malloc, LockGroup, FreeNonEvictable, Goto, shared, history
<1>1. /\ pc[t] \in {"validate", "malloc", "lockGroup", "freed"} /\ CallFits(t) /\ call[t].op # "remove"
      /\ UNCHANGED <<pageVars, content>>
      /\ \/ Return(t)
         \/ /\ pc' = [pc EXCEPT ![t] = pc'[t]] /\ UNCHANGED <<call, read, cand>>
            /\ \/ pc[t] = "validate" /\ pc'[t] = "load"
               \/ pc[t] = "lockGroup" /\ pc'[t] = "reserve"
  BY DEF PageInv, PageTypes, CallFits, InRemove
<1> HIDE DEF Validate, IsUnchanged, Malloc, LockGroup, FreeNonEvictable, Goto
<1>2. CASE Return(t)
  <2>1. \A p \in Pages : ~Holds(t, p)
    BY <1>1 DEF CallFits, Holds, Pins, Drops
  <2> QED BY <1>1, <1>2, <2>1, ReturnStep
<1>3. CASE pc' = [pc EXCEPT ![t] = pc'[t]] /\ UNCHANGED <<call, read, cand>>
           /\ \/ pc[t] = "validate" /\ pc'[t] = "load"
              \/ pc[t] = "lockGroup" /\ pc'[t] = "reserve"
  <2>1. PageTypes'
    BY <1>1, <1>3 DEF PageInv, PageTypes, Labels, pageVars
  <2>2. \A u \in Threads \ {t} : ThreadSame(u)
    BY <1>3 DEF PageInv, PageTypes, ThreadSame
  <2>3. CallFits(t)' /\ CopyOK(t)'
    BY <1>1, <1>3 DEF CallFits, CopyOK, InRemove
  <2>4. \A p \in Pages : PageSame(p) /\ RoleSame(t, p)
    BY <1>1, <1>3 DEF CallFits, PageSame, RoleSame, Pins, Drops, pageVars
  <2> QED BY <1>1, <1>3, <2>1, <2>2, <2>3, <2>4, QuietStep
<1> QED BY <1>1, <1>2, <1>3

\* A group is destroyed, and its memory with it unless it is spilled.
LEMMA FreeStep ==
  ASSUME NEW t \in Threads, NEW g \in Groups, PageInv, "rollback" \notin Races, FreeGroup(t, g)
  PROVE  PageInv'
<1>1. CASE group[g].buffer = "memory"
  <2>1. Begins(t, GroupCall("free", g), "freed")
    BY <1>1 DEF FreeGroup, Begins
  <2> QED BY <2>1, CallStep, Zenon DEF GroupCall, NoCall, CallTypes, Labels
<1>2. CASE group[g].buffer # "memory"
  <2>1. UNCHANGED <<pageVars, content, pc, call, read, cand>>
    BY <1>2 DEF FreeGroup
  <2> QED BY <2>1, UnchangedStep
<1> QED BY <1>1, <1>2

LEMMA NextStep ==
  ASSUME PageInv, "rollback" \notin Races, [Next]_vars
  PROVE  PageInv'
<1>1. ASSUME NEW t \in Threads, ThreadStep(t) PROVE PageInv'
  <2>1. ASSUME NEW g \in Groups, SetUnused(t, g) PROVE PageInv'
    <3>1. UNCHANGED <<pageVars, content, pc, call, read, cand>>
      BY <2>1 DEF SetUnused, history
    <3> QED BY <3>1, UnchangedStep
  <2> QED BY <1>1, <2>1, StartStep, PinStep, CacheStep, WriteStep, UnpinStep, LoadStep, CopyStep,
             LeaveStep, FreeStep, ReserveStep, CallFailsStep, ScanStep, LockStep, CheckStep,
             ReleaseStep, RemoveStep DEF ThreadStep
<1>2. CASE ClearFile \/ Finished \/ UNCHANGED vars
  <2>1. UNCHANGED <<pageVars, content, pc, call, read, cand>>
    BY <1>2 DEF ClearFile, Finished, vars, shared, history
  <2> QED BY <2>1, UnchangedStep
<1> QED BY <1>1, <1>2 DEF Next

LEMMA InitPageInv == Init => PageInv
<1> SUFFICES ASSUME Init PROVE PageInv
  OBVIOUS
<1> USE DEF Init
<1>1. PageTypes
  <2>1. EvictedWord \in Word
    BY DEF EvictedWord, Word
  <2>2. NoRead \in ReadTypes
    BY <2>1 DEF NoRead, ReadTypes
  <2>3. NoCall \in CallTypes
    BY DEF NoCall, CallTypes
  <2> QED BY <2>1, <2>2, <2>3 DEF PageTypes, Labels
<1>2. RemovesAlone /\ \A t \in Threads : CallFits(t) /\ CopyOK(t)
  BY DEF RemovesAlone, CallFits, CopyOK, NoCall, InRemove
<1>3. ASSUME NEW p \in Pages PROVE PageOK(p)
  <2>1. \A t \in Threads : ~Holds(t, p)
    BY DEF Holds, Pins, Drops, NoCall
  <2>2. word[p].state = "EVICTED" /\ OnFile(p)
    BY DEF OnFile, EvictedWord
  <2> QED BY <2>1, <2>2 DEF PageOK, OneHolder, ContentKept, Holds
<1> QED BY <1>1, <1>2, <1>3 DEF PageInv

----------------------------------------------------------------------------
\* Unless a rollback removes pages while other queries run, no write to a
\* page is lost, whatever pin, evictPages, optimisticRead and
\* removePageFromFrame do at the same time: before tryEvictPage releases a
\* frame the file has its content.
THEOREM WritesKept == "rollback" \notin Races => (Spec => []WritesAreKept)
<1> SUFFICES ASSUME "rollback" \notin Races PROVE Spec => []WritesAreKept
  OBVIOUS
<1>1. PageInv => WritesAreKept
  <2> SUFFICES ASSUME PageInv, NEW p \in Pages
      PROVE  /\ frame[p] = Released \/ ~word[p].dirty => disk[p] = content[p]
             /\ frame[p] # Released => \/ frame[p] = content[p]
                                       \/ \E t \in Threads : pc[t] = "unpin" /\ call[t].page = p
    BY DEF WritesAreKept
  <2>1. PageOK(p) /\ word[p].state \in {"UNLOCKED", "LOCKED", "MARKED", "EVICTED"}
    BY DEF PageInv, PageTypes, Word
  <2> DEFINE Written == \E t \in Threads : /\ Pins(t, p) /\ pc[t] = "unpin"
                                            /\ frame[p] # Released /\ word[p].dirty
  <2>2. OnFile(p) \/ InFrame(p) \/ Written
    <3>1. CASE word[p].state # "LOCKED"
      BY <2>1, <3>1 DEF PageOK, ContentKept
    <3>2. ASSUME NEW t \in Threads, Holds(t, p) PROVE OnFile(p) \/ InFrame(p) \/ Written
      <4>1. Pins(t, p) => pc[t] \in InReserve \union {"insert", "pinned", "unpin", "thrown"}
        BY DEF PageInv, PageTypes, CallFits, Pins, Labels, InReserve, InRemove
      <4> QED BY <4>1, <2>1, <3>2 DEF PageOK, ContentKept, Holds
    <3> QED BY <2>1, <3>1, <3>2 DEF PageOK, OneHolder
  <2> QED BY <2>1, <2>2 DEF OnFile, InFrame, Pins, PageInv, PageTypes, Released
<1>2. PageInv /\ [Next]_vars => PageInv'
  BY NextStep
<1> QED BY InitPageInv, <1>1, <1>2, PTL DEF Spec

\* Under the same condition an optimistic read that validates has copied what
\* the last unpin left in the page, whoever wrote to it in between, unless
\* the page left its frame and came back.
THEOREM StableReads == "rollback" \notin Races => (Spec => []ReadsAreStable)
<1> SUFFICES ASSUME "rollback" \notin Races PROVE Spec => []ReadsAreStable
  OBVIOUS
<1>1. PageInv => ReadsAreStable
  <2> SUFFICES ASSUME PageInv, NEW t \in Threads, pc[t] = "validate",
                      word[call[t].page] = read[t].seen, ~read[t].evicted
      PROVE  read[t].copy = <<content[call[t].page], content[call[t].page]>>
    BY DEF ReadsAreStable, IsUnchanged
  <2> DEFINE p == call[t].page
  <2>1. CopyOK(t) /\ p \in Pages /\ PageOK(p) /\ read[t].copy \in Seq(Int)
    BY Zenon DEF PageInv, CallFits, PageTypes, ReadTypes
  <2>2. word[p].state = "UNLOCKED" /\ Len(read[t].copy) = 2
    BY <2>1 DEF CopyOK
  <2>3. \A u \in Threads : ~Pins(u, p)
    BY <2>1, <2>2 DEF PageOK, OneHolder, Holds
  <2>4. \A i \in 1 .. 2 : read[t].copy[i] = content[p]
    BY <2>1, <2>2, <2>3 DEF CopyOK
  <2> QED BY SMTT(60), <2>1, <2>2, <2>4
<1>2. PageInv /\ [Next]_vars => PageInv'
  BY NextStep
<1> QED BY InitPageInv, <1>1, <1>2, PTL DEF Spec

=============================================================================
