------------------------ MODULE NodeGroupProofs -------------------------
(***************************************************************************)
(* Proofs about where the rows of a node table go, for any capacity, any   *)
(* workers and any number of rows: in a table whose statements fail only   *)
(* while nothing is committed, committed rows are where their offsets say. *)
(***************************************************************************)
EXTENDS NodeGroupCollection, TLAPS

----------------------------------------------------------------------------
(* Sequences of whatever they hold.                                         *)

IsSeq(s) == s \in Seq({s[i] : i \in DOMAIN s})

\* A function on 1 .. n is a sequence of length n.
LEMMA FunctionIsSeq ==
  ASSUME NEW n \in Nat, NEW s, s = [i \in 1 .. n |-> s[i]]
  PROVE  IsSeq(s) /\ Len(s) = n /\ DOMAIN s = 1 .. n
<1>1. s \in [1 .. n -> {s[i] : i \in DOMAIN s}]
  OBVIOUS
<1> QED BY <1>1 DEF IsSeq

LEMMA TypedIsSeq ==
  ASSUME NEW S, NEW s \in Seq(S)
  PROVE  IsSeq(s)
<1>1. Len(s) \in Nat /\ DOMAIN s = 1 .. Len(s)
  OBVIOUS
<1>2. \A i \in DOMAIN s : s[i] \in S
  BY <1>1
<1>3. s = [i \in DOMAIN s |-> s[i]]
  OBVIOUS
<1>4. s = [i \in 1 .. Len(s) |-> s[i]]
  BY <1>1, <1>3, Zenon
<1> QED BY <1>1, <1>4, FunctionIsSeq

\* What the operators on sequences return.
LEMMA SeqFacts ==
  ASSUME NEW s, IsSeq(s)
  PROVE  Len(s) \in Nat /\ DOMAIN s = 1 .. Len(s) /\ (s = <<>> <=> Len(s) = 0)
  BY DEF IsSeq

LEMMA SeqEmpty == IsSeq(<<>>) /\ Len(<<>>) = 0
  BY DEF IsSeq

LEMMA SeqAppend ==
  ASSUME NEW s, IsSeq(s), NEW x
  PROVE  /\ IsSeq(Append(s, x))
         /\ Len(Append(s, x)) = Len(s) + 1
         /\ \A i \in 1 .. Len(s) : Append(s, x)[i] = s[i]
         /\ Append(s, x)[Len(s) + 1] = x
<1> DEFINE S == {s[i] : i \in DOMAIN s} \cup {x}
<1>1. s \in Seq(S) /\ x \in S
  BY SeqFacts DEF IsSeq
<1> HIDE DEF S
<1>2. /\ Append(s, x) \in Seq(S)
      /\ Len(Append(s, x)) = Len(s) + 1
      /\ \A i \in 1 .. Len(s) : Append(s, x)[i] = s[i]
      /\ Append(s, x)[Len(s) + 1] = x
  BY <1>1
<1>3. IsSeq(Append(s, x))
  BY <1>2, TypedIsSeq, Zenon
<1> QED BY <1>2, <1>3

LEMMA SeqConcat ==
  ASSUME NEW s, IsSeq(s), NEW t, IsSeq(t)
  PROVE  /\ IsSeq(s \o t)
         /\ Len(s \o t) = Len(s) + Len(t)
         /\ \A i \in 1 .. Len(s) : (s \o t)[i] = s[i]
         /\ \A i \in 1 .. Len(t) : (s \o t)[Len(s) + i] = t[i]
<1> DEFINE S == {s[i] : i \in DOMAIN s} \cup {t[i] : i \in DOMAIN t}
<1>1. s \in Seq(S) /\ t \in Seq(S)
  BY SeqFacts DEF IsSeq
<1> HIDE DEF S
<1>2. /\ s \o t \in Seq(S)
      /\ Len(s \o t) = Len(s) + Len(t)
      /\ \A i \in 1 .. Len(s) : (s \o t)[i] = s[i]
      /\ \A i \in 1 .. Len(t) : (s \o t)[Len(s) + i] = t[i]
  BY <1>1
<1>3. IsSeq(s \o t)
  BY <1>2, TypedIsSeq, Zenon
<1> QED BY <1>2, <1>3

LEMMA SeqSub ==
  ASSUME NEW s, IsSeq(s), NEW m \in 1 .. Len(s) + 1, NEW n \in 0 .. Len(s), m <= n + 1
  PROVE  /\ IsSeq(SubSeq(s, m, n))
         /\ Len(SubSeq(s, m, n)) = n - m + 1
         /\ \A i \in 1 .. n - m + 1 : SubSeq(s, m, n)[i] = s[m + i - 1]
<1> DEFINE S == {s[i] : i \in DOMAIN s}
<1>1. s \in Seq(S) /\ Len(s) \in Nat
  BY SeqFacts DEF IsSeq
<1> HIDE DEF S
<1>2. /\ SubSeq(s, m, n) \in Seq(S)
      /\ Len(SubSeq(s, m, n)) = n - m + 1
      /\ \A i \in 1 .. n - m + 1 : SubSeq(s, m, n)[i] = s[m + i - 1]
  BY <1>1
<1>3. IsSeq(SubSeq(s, m, n))
  BY <1>2, TypedIsSeq, Zenon
<1> QED BY <1>2, <1>3

LEMMA SeqTake ==
  ASSUME NEW s, IsSeq(s), NEW k \in 0 .. Len(s)
  PROVE  IsSeq(Take(s, k)) /\ Len(Take(s, k)) = k /\ \A i \in 1 .. k : Take(s, k)[i] = s[i]
<1>1. Len(s) \in Nat
  BY SeqFacts
<1> QED BY <1>1, SeqSub DEF Take

LEMMA SeqDrop ==
  ASSUME NEW s, IsSeq(s), NEW k \in 0 .. Len(s)
  PROVE  IsSeq(Drop(s, k)) /\ Len(Drop(s, k)) = Len(s) - k
<1>1. Len(s) \in Nat
  BY SeqFacts
<1> QED BY <1>1, SeqSub DEF Drop

LEMMA SeqLike ==
  ASSUME NEW s, IsSeq(s), NEW t, t = [i \in DOMAIN s |-> t[i]]
  PROVE  IsSeq(t) /\ Len(t) = Len(s)
<1>1. Len(s) \in Nat /\ DOMAIN s = 1 .. Len(s)
  BY SeqFacts
<1>2. t = [i \in 1 .. Len(s) |-> t[i]]
  BY <1>1, Zenon
<1> QED BY <1>1, <1>2, FunctionIsSeq

----------------------------------------------------------------------------
(* The inductive invariant.                                                 *)

IsGroup(g) ==
    /\ g = [rows |-> g.rows, ends |-> g.ends, torn |-> g.torn, num |-> g.num, next |-> g.next]
    /\ IsSeq(g.rows)
    /\ g.ends \subseteq 0 .. Len(g.rows)
    /\ g.num \in Nat
    /\ g.next \in Nat

IsWork(x) ==
    /\ x = [left |-> x.left, flush |-> x.flush, ids |-> x.ids, off |-> x.off]
    /\ IsSeq(x.left)
    /\ IsSeq(x.ids)
    /\ x.flush \in Nat
    /\ x.off \in Nat

GroupTypes ==
    /\ IsSeq(groups)
    /\ \A g \in DOMAIN groups : IsGroup(groups[g])
    /\ IsSeq(undo)
    /\ \A i \in DOMAIN undo : undo[i] \in [group : Nat, start : Nat, n : Nat]
    /\ numTotalRows \in Nat
    /\ stmt \in {"idle", "copy", "create", "failed", "rollback"}

WorkTypes ==
    /\ work = [w \in Workers |-> work[w]]
    /\ \A w \in Workers : IsWork(work[w])

\* Rows of a group that are given away; a rollback goes by the stored ones.
Filled(g) == IF stmt = "rollback" THEN groups[g].num ELSE groups[g].next

\* Every group but the last is full, and numTotalRows is where the next row goes.
Packed ==
    /\ \A g \in DOMAIN groups :
          /\ Filled(g) \in 1 .. Capacity
          /\ g < Len(groups) => Filled(g) = Capacity
    /\ numTotalRows = IF groups = <<>> THEN 0 ELSE (Len(groups) - 1) * Capacity + Filled(Len(groups))

Flushed(g) == \E w \in Workers : work[w].flush = g

\* A group that a worker flushes is still empty; the others store what is given away.
StoredInv ==
    /\ stmt # "rollback" => \A g \in DOMAIN groups :
          IF Flushed(g)
          THEN groups[g].num = 0 /\ groups[g].rows = <<>> /\ groups[g].next = Capacity
          ELSE groups[g].num = groups[g].next /\ Len(groups[g].rows) = groups[g].next
    /\ stmt = "rollback" => \A g \in DOMAIN groups : Len(groups[g].rows) = groups[g].num

\* A worker flushes the rows of a whole group, which no other worker flushes.
FlushInv ==
    /\ \A w \in Workers : work[w].flush # 0 =>
          /\ work[w].flush \in DOMAIN groups
          /\ Len(work[w].ids) = Capacity
          /\ work[w].off = (work[w].flush - 1) * Capacity
    /\ \A v, w \in Workers : v # w /\ work[v].flush # 0 => work[v].flush # work[w].flush
    /\ stmt \in {"idle", "create", "rollback"} => \A w \in Workers : work[w].flush = 0

\* What a statement leaves to the next one; a rollback leaves nothing.
StmtInv ==
    /\ stmt \in {"idle", "rollback"} => work = [w \in Workers |-> NotWorking] /\ pending = {}
    /\ stmt = "idle" => undo = <<>>
    /\ stmt = "create" => work[Main].off = numTotalRows
    /\ stmt \in {"failed", "rollback"} => index = {}
    /\ stmt \in {"idle", "copy", "create"} /\ index = {} /\ groups # <<>> =>
          pending # {} \/ \E w \in Workers : work[w].flush # 0

\* The row of an entry of the index is stored where its offset says.
Holds(e) ==
    \E g \in DOMAIN groups : \E row \in 1 .. groups[g].num :
        e[2] = (g - 1) * Capacity + row - 1 /\ groups[g].rows[row] = e[1]

IndexInv == \A e \in index \cup pending : Holds(e)

\* While nothing is committed the undo records cover the groups from the first
\* row to the last, so that rolling them back empties the table.
Follows(r, q) ==
    \/ r.start # 0 /\ r.group = q.group /\ r.start = q.start + q.n
    \/ r.start = 0 /\ r.group = q.group + 1 /\ q.start + q.n = Capacity

Chain ==
    index = {} =>
      /\ \A i \in DOMAIN undo :
          /\ undo[i].n # 0 /\ undo[i].group # 0
          /\ i = 1 => undo[i].group = 1 /\ undo[i].start = 0
          /\ i > 1 => Follows(undo[i], undo[i - 1])
      /\ undo = <<>> <=> groups = <<>>
      /\ undo # <<>> =>
          /\ undo[Len(undo)].group = Len(groups)
          /\ undo[Len(undo)].start + undo[Len(undo)].n = Filled(Len(groups))

IInv ==
    /\ GroupTypes
    /\ WorkTypes
    /\ Packed
    /\ StoredInv
    /\ FlushInv
    /\ StmtInv
    /\ IndexInv
    /\ Chain

----------------------------------------------------------------------------
(* A statement reserves rows.                                               *)

\* The groups in which the next row is reserved.
Roomy(g) ==
    /\ IsSeq(g)
    /\ Len(g) \in Nat \ {0}
    /\ getLastGroup(g) = g[Len(g)]
    /\ IsGroup(g[Len(g)])
    /\ g[Len(g)].num = g[Len(g)].next
    /\ Len(g[Len(g)].rows) = g[Len(g)].next
    /\ g[Len(g)].next < Capacity
    /\ numTotalRows = (Len(g) - 1) * Capacity + g[Len(g)].next
    /\ ~Flushed(Len(g))
    /\ \/ groups # <<>> /\ g = groups
       \/ /\ Len(g) = Len(groups) + 1
          /\ g[Len(g)] = EmptyGroup
          /\ \A i \in 1 .. Len(groups) : g[i] = groups[i]
          /\ groups # <<>> => groups[Len(groups)].next = Capacity

LEMMA EmptyIsGroup == IsGroup(EmptyGroup) /\ EmptyGroup.num = 0 /\ EmptyGroup.next = 0 /\ Len(EmptyGroup.rows) = 0
<1>1. EmptyGroup.rows = <<>> /\ EmptyGroup.ends = {} /\ EmptyGroup.num = 0 /\ EmptyGroup.next = 0
  BY DEF EmptyGroup
<1>2. EmptyGroup = [rows |-> EmptyGroup.rows, ends |-> EmptyGroup.ends, torn |-> EmptyGroup.torn,
                    num |-> EmptyGroup.num, next |-> EmptyGroup.next]
  BY DEF EmptyGroup
<1> QED BY <1>1, <1>2, SeqEmpty DEF IsGroup

\* A new group, when there is none or the last one is given away.
LEMMA NewGroup ==
  ASSUME GroupTypes, Packed, FlushInv, stmt # "rollback",
         groups = <<>> \/ groups[Len(groups)].next = Capacity
  PROVE  Roomy(Append(groups, EmptyGroup))
<1> DEFINE g == Append(groups, EmptyGroup)
<1>1. IsSeq(groups) /\ Len(groups) \in Nat /\ DOMAIN groups = 1 .. Len(groups) /\ (groups = <<>> <=> Len(groups) = 0)
  BY SeqFacts DEF GroupTypes
<1>2. /\ IsSeq(g)
      /\ Len(g) = Len(groups) + 1
      /\ \A i \in 1 .. Len(groups) : g[i] = groups[i]
      /\ g[Len(g)] = EmptyGroup
  BY <1>1, SeqAppend
<1>3. getLastGroup(g) = g[Len(g)]
  BY DEF getLastGroup
<1> HIDE DEF g
<1>4. numTotalRows = (Len(g) - 1) * Capacity
  <2>1. CASE groups = <<>>
    BY <2>1, <1>1, <1>2, SizeAssumption DEF Packed
  <2>2. CASE groups # <<>>
    <3>1. numTotalRows = (Len(groups) - 1) * Capacity + Capacity
      BY <2>2 DEF Packed, Filled
    <3> QED BY <3>1, <1>1, <1>2, SizeAssumption
  <2> QED BY <2>1, <2>2
<1>5. ~Flushed(Len(g))
  BY <1>1, <1>2 DEF Flushed, FlushInv
<1>6. numTotalRows = (Len(g) - 1) * Capacity + g[Len(g)].next
  BY <1>4, <1>2, <1>1, EmptyIsGroup, SizeAssumption
<1> QED
  <2>1. IsGroup(g[Len(g)]) /\ g[Len(g)].num = 0 /\ g[Len(g)].next = 0 /\ Len(g[Len(g)].rows) = 0
    BY <1>2, EmptyIsGroup
  <2>2. Len(g) \in Nat \ {0} /\ 0 < Capacity
    BY <1>1, <1>2, SizeAssumption
  <2> QED BY <1>1, <1>2, <1>3, <1>5, <1>6, <2>1, <2>2, Zenon DEF Roomy, g

LEMMA LastGroup ==
  ASSUME GroupTypes, Packed, StoredInv, stmt # "rollback",
         groups # <<>>, groups[Len(groups)].next # Capacity
  PROVE  Roomy(groups)
<1>1. IsSeq(groups) /\ Len(groups) \in Nat \ {0} /\ DOMAIN groups = 1 .. Len(groups)
  BY SeqFacts DEF GroupTypes
<1>2. /\ IsGroup(groups[Len(groups)])
      /\ groups[Len(groups)].next \in 1 .. Capacity
      /\ numTotalRows = (Len(groups) - 1) * Capacity + groups[Len(groups)].next
  BY <1>1 DEF GroupTypes, Packed, Filled
<1>3. ~Flushed(Len(groups)) /\ groups[Len(groups)].num = groups[Len(groups)].next /\ Len(groups[Len(groups)].rows) = groups[Len(groups)].next
  BY <1>1 DEF StoredInv
<1>4. getLastGroup(groups) = groups[Len(groups)]
  BY DEF getLastGroup
<1>5. groups[Len(groups)].next < Capacity
  BY <1>2, SizeAssumption
<1> QED BY <1>1, <1>2, <1>3, <1>4, <1>5, Zenon DEF Roomy

LEMMA RoomForCopy ==
  ASSUME IInv, stmt \in {"copy", "failed"}
  PROVE  Roomy(GroupsForCopy)
<1>1. GroupTypes /\ Packed /\ FlushInv /\ StoredInv /\ stmt # "rollback"
  BY DEF IInv
<1>2. groups # <<>> => getLastGroup(groups) = groups[Len(groups)] /\ groups[Len(groups)].next \in Nat
  <2>1. groups # <<>> => Len(groups) \in DOMAIN groups
    BY <1>1, SeqFacts DEF GroupTypes
  <2> QED BY <1>1, <2>1 DEF getLastGroup, GroupTypes, IsGroup
<1>3. CASE groups = <<>> \/ groups[Len(groups)].next = Capacity
  BY <1>1, <1>2, <1>3, NewGroup, SizeAssumption DEF GroupsForCopy, getNumRowsLeftToAppend
<1>4. CASE ~(groups = <<>> \/ groups[Len(groups)].next = Capacity)
  BY <1>1, <1>2, <1>4, LastGroup, SizeAssumption DEF GroupsForCopy, getNumRowsLeftToAppend
<1> QED BY <1>3, <1>4

LEMMA RoomForLocal ==
  ASSUME IInv, stmt = "create"
  PROVE  Roomy(GroupsForLocal)
<1>1. GroupTypes /\ Packed /\ FlushInv /\ StoredInv /\ stmt # "rollback"
  BY DEF IInv
<1>2. groups # <<>> => getLastGroup(groups) = groups[Len(groups)] /\ groups[Len(groups)].num = groups[Len(groups)].next
  <2>1. groups # <<>> => Len(groups) \in DOMAIN groups /\ Len(groups) # 0
    BY <1>1, SeqFacts DEF GroupTypes
  <2>2. groups # <<>> => ~Flushed(Len(groups))
    BY <1>1, <2>1 DEF Flushed, FlushInv
  <2> QED BY <1>1, <2>1, <2>2 DEF getLastGroup, StoredInv
<1>3. CASE groups = <<>> \/ groups[Len(groups)].next = Capacity
  BY <1>1, <1>2, <1>3, NewGroup DEF GroupsForLocal, isFull
<1>4. CASE ~(groups = <<>> \/ groups[Len(groups)].next = Capacity)
  BY <1>1, <1>2, <1>4, LastGroup DEF GroupsForLocal, isFull
<1> QED BY <1>3, <1>4

\* What every reservation does to the groups: k more rows of the last one of g
\* are given away, and a record of them is pushed.
Grows(g, k) ==
    /\ Roomy(g)
    /\ k \in 1 .. Capacity - g[Len(g)].next
    /\ stmt \in {"copy", "create", "failed"}
    /\ stmt' = stmt
    /\ index' = index
    /\ undo' = undo \o <<[group |-> Len(g), start |-> g[Len(g)].num, n |-> k]>>
    /\ numTotalRows' = numTotalRows + k
    /\ IsSeq(groups')
    /\ Len(groups') = Len(g)
    /\ \A i \in 1 .. Len(g) - 1 : groups'[i] = g[i]
    /\ IsGroup(groups'[Len(g)])
    /\ groups'[Len(g)].next = g[Len(g)].next + k

\* The groups before the last one are as they were.
LEMMA GrowsOld ==
  ASSUME GroupTypes, NEW g, NEW k, Grows(g, k)
  PROVE  /\ Len(groups) \in Nat
         /\ DOMAIN groups = 1 .. Len(groups)
         /\ DOMAIN groups' = 1 .. Len(g)
         /\ Len(g) = Len(groups) \/ Len(g) = Len(groups) + 1
         /\ \A i \in 1 .. Len(g) - 1 : i \in DOMAIN groups /\ groups'[i] = groups[i]
<1>1. Len(groups) \in Nat /\ DOMAIN groups = 1 .. Len(groups) /\ (groups = <<>> <=> Len(groups) = 0)
  BY SeqFacts DEF GroupTypes
<1>2. DOMAIN groups' = 1 .. Len(g)
  BY SeqFacts DEF Grows
<1>3. Len(g) \in Nat /\ (g = groups \/ (Len(g) = Len(groups) + 1 /\ \A i \in 1 .. Len(groups) : g[i] = groups[i]))
  BY DEF Grows, Roomy
<1>4. \A i \in 1 .. Len(g) - 1 : groups'[i] = g[i]
  BY SMTT(20) DEF Grows
<1> QED BY <1>1, <1>2, <1>3, <1>4

LEMMA GrowsTypes ==
  ASSUME GroupTypes, NEW g, NEW k, Grows(g, k)
  PROVE  GroupTypes'
<1> DEFINE r == [group |-> Len(g), start |-> g[Len(g)].num, n |-> k]
<1>1. r \in [group : Nat, start : Nat, n : Nat]
  <2>1. Len(g) \in Nat /\ g[Len(g)].num \in Nat /\ g[Len(g)].next \in Nat
    BY DEF Grows, Roomy, IsGroup
  <2>2. k \in Nat
    BY <2>1, SizeAssumption DEF Grows
  <2> QED BY <2>1, <2>2
<1>2. \A i \in DOMAIN groups' : IsGroup(groups'[i])
  <2>1. \A i \in 1 .. Len(g) - 1 : IsGroup(groups'[i])
    BY GrowsOld DEF GroupTypes
  <2>2. IsGroup(groups'[Len(g)]) /\ Len(g) \in Nat
    BY DEF Grows, Roomy
  <2> QED BY <2>1, <2>2, GrowsOld
<1>3. IsSeq(undo') /\ \A i \in DOMAIN undo' : undo'[i] \in [group : Nat, start : Nat, n : Nat]
  <2> DEFINE R == [group : Nat, start : Nat, n : Nat]
  <2>1. undo \in Seq(R)
    <3>1. IsSeq(undo) /\ \A i \in DOMAIN undo : undo[i] \in R
      BY DEF GroupTypes
    <3> HIDE DEF R
    <3> QED BY <3>1, SeqFacts DEF IsSeq
  <2>2. <<r>> \in Seq(R)
    BY <1>1
  <2>3. undo' = undo \o <<r>>
    BY DEF Grows
  <2> HIDE DEF R, r
  <2>4. undo' \in Seq(R)
    BY <2>1, <2>2, <2>3
  <2>5. IsSeq(undo')
    BY <2>4, TypedIsSeq, Zenon
  <2>6. \A i \in DOMAIN undo' : undo'[i] \in R
    BY <2>4
  <2> QED BY <2>5, <2>6 DEF R
<1>4. numTotalRows' \in Nat
  <2>1. k \in Nat
    BY SizeAssumption DEF Grows, Roomy, IsGroup
  <2> QED BY <2>1 DEF Grows, GroupTypes
<1>5. IsSeq(groups') /\ stmt' \in {"idle", "copy", "create", "failed", "rollback"}
  BY DEF Grows, GroupTypes
<1> QED BY <1>2, <1>3, <1>4, <1>5 DEF GroupTypes

LEMMA GrowsPacked ==
  ASSUME GroupTypes, Packed, NEW g, NEW k, Grows(g, k)
  PROVE  Packed'
<1>1. stmt # "rollback" /\ stmt' # "rollback"
  BY DEF Grows
<1>2. /\ Len(g) \in Nat \ {0}
      /\ g[Len(g)].next \in Nat
      /\ g[Len(g)].next < Capacity
      /\ numTotalRows = (Len(g) - 1) * Capacity + g[Len(g)].next
      /\ k \in 1 .. Capacity - g[Len(g)].next
      /\ groups'[Len(g)].next = g[Len(g)].next + k
      /\ numTotalRows' = numTotalRows + k
      /\ Len(groups') = Len(g)
  BY DEF Grows, Roomy, IsGroup
<1>3. (Len(g) - 1) * Capacity \in Int
  BY <1>2, SizeAssumption
<1>4. numTotalRows' = (Len(groups') - 1) * Capacity + groups'[Len(groups')].next
  BY <1>2, <1>3, SizeAssumption
<1>5. groups'[Len(g)].next \in 1 .. Capacity
  BY <1>2, SizeAssumption, SMTT(20)
<1>6. \A i \in 1 .. Len(g) - 1 : groups[i].next = Capacity
  <2>1. \A i \in DOMAIN groups : i < Len(groups) => groups[i].next = Capacity
    BY <1>1 DEF Packed, Filled
  <2>2. Len(g) = Len(groups) + 1 => groups = <<>> \/ groups[Len(groups)].next = Capacity
    BY SeqFacts DEF Grows, Roomy, GroupTypes
  <2>3. Len(groups) \in Nat /\ DOMAIN groups = 1 .. Len(groups) /\ (groups = <<>> <=> Len(groups) = 0)
    BY SeqFacts DEF GroupTypes
  <2>4. Len(g) = Len(groups) \/ Len(g) = Len(groups) + 1
    BY GrowsOld
  <2>5. CASE Len(g) = Len(groups)
    BY <2>1, <2>3, <2>5
  <2>6. CASE Len(g) = Len(groups) + 1
    <3>1. ASSUME NEW i \in 1 .. Len(g) - 1 PROVE groups[i].next = Capacity
      <4>1. i \in 1 .. Len(groups)
        BY <2>3, <2>6
      <4> Len(groups) \in Nat
        BY <2>3
      <4>2. Len(groups) # 0 /\ (i < Len(groups) \/ i = Len(groups))
        BY <4>1
      <4>3. groups # <<>> /\ i \in DOMAIN groups
        BY <4>1, <4>2, <2>3, Zenon
      <4> QED BY <4>2, <4>3, <2>1, <2>2, <2>6
    <3> QED BY <3>1
  <2> QED BY <2>4, <2>5, <2>6
<1>7. \A i \in 1 .. Len(g) - 1 : groups'[i].next = Capacity
  BY <1>6, GrowsOld
<1>8. \A i \in DOMAIN groups' : groups'[i].next \in 1 .. Capacity /\ (i < Len(groups') => groups'[i].next = Capacity)
  <2>1. DOMAIN groups' = 1 .. Len(g)
    BY GrowsOld
  <2>2. ASSUME NEW i \in 1 .. Len(g)
        PROVE  groups'[i].next \in 1 .. Capacity /\ (i < Len(groups') => groups'[i].next = Capacity)
    <3>1. CASE i = Len(g)
      BY <3>1, <1>2, <1>5
    <3>2. CASE i # Len(g)
      <4>1. i \in 1 .. Len(g) - 1
        BY <3>2, <2>2, <1>2
      <4> QED BY <4>1, <1>7, SizeAssumption
    <3> QED BY <3>1, <3>2
  <2> QED BY <2>1, <2>2
<1>9. groups' # <<>>
  BY <1>2, SeqEmpty
<1> QED BY <1>1, <1>4, <1>8, <1>9 DEF Packed, Filled

LEMMA GrowsChain ==
  ASSUME GroupTypes, Packed, Chain, NEW g, NEW k, Grows(g, k)
  PROVE  Chain'
<1> SUFFICES ASSUME index = {}
             PROVE  Chain'
  BY Zenon DEF Chain, Grows
<1> DEFINE m == Len(undo)
           r == [group |-> Len(g), start |-> g[Len(g)].num, n |-> k]
<1>1. /\ \A i \in DOMAIN undo :
          /\ undo[i].n # 0 /\ undo[i].group # 0
          /\ i = 1 => undo[i].group = 1 /\ undo[i].start = 0
          /\ i > 1 => Follows(undo[i], undo[i - 1])
      /\ undo = <<>> <=> groups = <<>>
      /\ undo # <<>> =>
          /\ undo[m].group = Len(groups)
          /\ undo[m].start + undo[m].n = Filled(Len(groups))
  BY DEF Chain
<1>2. IsSeq(undo) /\ m \in Nat /\ DOMAIN undo = 1 .. m /\ (undo = <<>> <=> m = 0)
  BY SeqFacts DEF GroupTypes
<1>3. /\ Len(undo') = m + 1
      /\ DOMAIN undo' = 1 .. m + 1
      /\ \A i \in 1 .. m : undo'[i] = undo[i]
      /\ undo'[m + 1] = r
  <2>1. IsSeq(<<r>>) /\ Len(<<r>>) = 1 /\ <<r>>[1] = r
    <3>1. <<r>> \in Seq({r})
      OBVIOUS
    <3> QED BY <3>1, TypedIsSeq, Zenon
  <2>2. undo' = undo \o <<r>>
    BY DEF Grows
  <2> HIDE DEF r
  <2>3. /\ IsSeq(undo \o <<r>>)
        /\ Len(undo \o <<r>>) = Len(undo) + Len(<<r>>)
        /\ \A i \in 1 .. Len(undo) : (undo \o <<r>>)[i] = undo[i]
        /\ \A i \in 1 .. Len(<<r>>) : (undo \o <<r>>)[Len(undo) + i] = <<r>>[i]
    BY <1>2, <2>1, SeqConcat
  <2>4. DOMAIN undo' = 1 .. Len(undo')
    BY <2>2, <2>3, SeqFacts
  <2> QED BY <1>2, <2>1, <2>2, <2>3, <2>4
<1>4. r.group = Len(g) /\ r.start = g[Len(g)].next /\ r.n = k /\ k # 0 /\ k \in Nat
  BY SizeAssumption DEF Grows, Roomy, IsGroup
<1>5. r.start + r.n = groups'[Len(g)].next
  BY <1>4 DEF Grows
<1>6. /\ Len(g) \in Nat \ {0}
      /\ g[Len(g)].next \in Nat
      /\ Len(groups') = Len(g)
      /\ stmt # "rollback" /\ stmt' # "rollback"
  BY DEF Grows, Roomy, IsGroup
<1>7. Len(groups) \in Nat /\ (groups = <<>> <=> Len(groups) = 0) /\ DOMAIN groups = 1 .. Len(groups)
  BY SeqFacts DEF GroupTypes
<1>8. m = 0 => r.group = 1 /\ r.start = 0
  <2> SUFFICES ASSUME m = 0 PROVE r.group = 1 /\ r.start = 0
    OBVIOUS
  <2>1. groups = <<>>
    BY <1>1, <1>2
  <2>2. Len(g) = 1 /\ g[Len(g)] = EmptyGroup
    BY <2>1, <1>7 DEF Grows, Roomy
  <2> QED BY <2>2, <1>4 DEF EmptyGroup
<1>9. m # 0 => Follows(r, undo[m])
  <2> SUFFICES ASSUME m # 0 PROVE Follows(r, undo[m])
    OBVIOUS
  <2>1. /\ groups # <<>>
        /\ undo[m].group = Len(groups)
        /\ undo[m].start + undo[m].n = groups[Len(groups)].next
    BY <1>1, <1>2, <1>6 DEF Filled
  <2>2. CASE g = groups
    <3>1. r.start # 0
      BY <2>1, <2>2, <1>4, <1>6, <1>7 DEF Packed, Filled
    <3> QED BY <3>1, <2>1, <2>2, <1>4, Zenon DEF Follows
  <2>3. CASE g # groups
    <3>1. Len(g) = Len(groups) + 1 /\ g[Len(g)].next = 0 /\ groups[Len(groups)].next = Capacity
      BY <2>1, <2>3, EmptyIsGroup DEF Grows, Roomy
    <3> QED BY <3>1, <2>1, <1>4 DEF Follows
  <2> QED BY <2>2, <2>3
<1> HIDE DEF r, m
<1>10. ASSUME NEW i \in DOMAIN undo'
       PROVE  /\ undo'[i].n # 0 /\ undo'[i].group # 0
              /\ i = 1 => undo'[i].group = 1 /\ undo'[i].start = 0
              /\ i > 1 => Follows(undo'[i], undo'[i - 1])
  <2>1. CASE i = m + 1
    BY <2>1, <1>2, <1>3, <1>4, <1>6, <1>8, <1>9
  <2>2. CASE i # m + 1
    <3>1. i \in DOMAIN undo /\ undo'[i] = undo[i] /\ (i > 1 => undo'[i - 1] = undo[i - 1])
      BY <2>2, <1>2, <1>3, <1>10
    <3> QED BY <3>1, <1>1
  <2> QED BY <2>1, <2>2
<1>11. undo' # <<>> /\ groups' # <<>>
  BY <1>2, <1>3, <1>6, SeqEmpty
<1>12. /\ undo'[Len(undo')].group = Len(groups')
       /\ undo'[Len(undo')].start + undo'[Len(undo')].n = groups'[Len(groups')].next
  BY <1>3, <1>4, <1>5, <1>6
<1> QED BY <1>6, <1>10, <1>11, <1>12 DEF Chain, Filled

----------------------------------------------------------------------------
(* Rows that are stored stay where they are.                                *)

\* Groups only grow, behind the rows they store.
Keeps ==
    /\ DOMAIN groups \subseteq DOMAIN groups'
    /\ \A g \in DOMAIN groups :
          /\ groups[g].num \in Nat
          /\ groups'[g].num \in Nat
          /\ groups[g].num <= groups'[g].num
          /\ \A row \in 1 .. groups[g].num : groups'[g].rows[row] = groups[g].rows[row]

LEMMA HoldsKept ==
  ASSUME Keeps, NEW e, Holds(e)
  PROVE  Holds(e)'
<1>1. PICK g \in DOMAIN groups : \E row \in 1 .. groups[g].num :
          e[2] = (g - 1) * Capacity + row - 1 /\ groups[g].rows[row] = e[1]
  BY DEF Holds
<1>2. PICK row \in 1 .. groups[g].num :
          e[2] = (g - 1) * Capacity + row - 1 /\ groups[g].rows[row] = e[1]
  BY <1>1
<1>3. /\ g \in DOMAIN groups'
      /\ row \in 1 .. groups'[g].num
      /\ groups'[g].rows[row] = e[1]
  BY <1>2 DEF Keeps
<1> QED BY <1>2, <1>3 DEF Holds

\* The entries for rows ids that are stored behind the old rows of group n.
LEMMA EntriesHold ==
  ASSUME NEW ids, IsSeq(ids), NEW n \in DOMAIN groups', NEW old \in Nat,
         groups'[n].num = old + Len(ids),
         \A i \in 1 .. Len(ids) : groups'[n].rows[old + i] = ids[i],
         n \in Nat, NEW off, off = (n - 1) * Capacity + old,
         NEW e \in Entries(ids, off)
  PROVE  Holds(e)'
<1>1. Len(ids) \in Nat /\ DOMAIN ids = 1 .. Len(ids)
  BY SeqFacts
<1>2. PICK i \in 1 .. Len(ids) : e = <<ids[i], off + i - 1>>
  BY <1>1 DEF Entries
<1>3. (n - 1) * Capacity \in Int
  BY SizeAssumption
<1>4. /\ old + i \in 1 .. groups'[n].num
      /\ e[2] = (n - 1) * Capacity + (old + i) - 1
      /\ groups'[n].rows[old + i] = e[1]
  BY <1>1, <1>2, <1>3
<1> QED BY <1>4 DEF Holds

LEMMA IndexKept ==
  ASSUME IndexInv, Keeps, index' = index,
         \A e \in pending' : e \in pending \/ Holds(e)'
  PROVE  IndexInv'
<1>1. ASSUME NEW e \in index' \cup pending' PROVE Holds(e)'
  <2>1. CASE e \in index \cup pending
    BY <2>1, HoldsKept DEF IndexInv
  <2>2. CASE e \notin index \cup pending
    BY <1>1, <2>2
  <2> QED BY <2>1, <2>2
<1> QED BY <1>1 DEF IndexInv

\* Rows appended to a group.
LEMMA LongerGroup ==
  ASSUME NEW g, IsGroup(g), NEW ids, IsSeq(ids), Len(g.rows) = g.num,
         NEW h, h = [rows |-> h.rows, ends |-> h.ends, torn |-> h.torn, num |-> h.num, next |-> h.next],
         h.rows = g.rows \o ids, h.num = g.num + Len(ids), h.next = g.next,
         h.ends \subseteq 0 .. Len(g.rows) + Len(ids)
  PROVE  /\ IsGroup(h)
         /\ h.rows = g.rows \o ids
         /\ h.num = g.num + Len(ids)
         /\ h.next = g.next
         /\ Len(h.rows) = g.num + Len(ids)
         /\ \A i \in 1 .. g.num : h.rows[i] = g.rows[i]
         /\ \A i \in 1 .. Len(ids) : h.rows[g.num + i] = ids[i]
<1>2. h.rows = g.rows \o ids /\ h.num = g.num + Len(ids) /\ h.next = g.next
  OBVIOUS
<1>3. h = [rows |-> h.rows, ends |-> h.ends, torn |-> h.torn, num |-> h.num, next |-> h.next]
  OBVIOUS
<1>4. IsSeq(g.rows) /\ g.num \in Nat /\ g.next \in Nat /\ Len(ids) \in Nat
  BY SeqFacts DEF IsGroup
<1>5. /\ IsSeq(h.rows)
      /\ Len(h.rows) = g.num + Len(ids)
      /\ \A i \in 1 .. g.num : h.rows[i] = g.rows[i]
      /\ \A i \in 1 .. Len(ids) : h.rows[g.num + i] = ids[i]
  <2>1. /\ IsSeq(g.rows \o ids)
        /\ Len(g.rows \o ids) = Len(g.rows) + Len(ids)
        /\ \A i \in 1 .. Len(g.rows) : (g.rows \o ids)[i] = g.rows[i]
        /\ \A i \in 1 .. Len(ids) : (g.rows \o ids)[Len(g.rows) + i] = ids[i]
    <3>1. PICK s : s = g.rows
      OBVIOUS
    <3>2. IsSeq(s)
      BY <3>1, <1>4
    <3>3. /\ IsSeq(s \o ids)
          /\ Len(s \o ids) = Len(s) + Len(ids)
          /\ \A i \in 1 .. Len(s) : (s \o ids)[i] = s[i]
          /\ \A i \in 1 .. Len(ids) : (s \o ids)[Len(s) + i] = ids[i]
      BY <3>2, SeqConcat
    <3> QED BY <3>1, <3>3, Zenon
  <2> QED BY <1>2, <2>1, Zenon
<1>6. IsGroup(h)
  BY <1>2, <1>3, <1>4, <1>5 DEF IsGroup
<1> QED BY <1>2, <1>5, <1>6, Zenon

\* Rows appended under the lock.
LEMMA AppendGroup ==
  ASSUME NEW g, IsGroup(g), NEW ids, IsSeq(ids), Len(g.rows) = g.num
  PROVE  /\ IsGroup(append(g, ids))
         /\ append(g, ids).rows = g.rows \o ids
         /\ append(g, ids).num = g.num + Len(ids)
         /\ append(g, ids).next = g.next
         /\ Len(append(g, ids).rows) = g.num + Len(ids)
         /\ \A i \in 1 .. g.num : append(g, ids).rows[i] = g.rows[i]
         /\ \A i \in 1 .. Len(ids) : append(g, ids).rows[g.num + i] = ids[i]
<1>1. PICK x, y, z : x = g.rows \o ids /\ y = endsBehind(g, Len(ids)) /\ z = g.num + Len(ids)
  BY Zenon
<1>2. append(g, ids) = [[g EXCEPT !.rows = x, !.ends = y] EXCEPT !.num = z]
  BY <1>1, Zenon DEF append, store
<1>3. PICK a, b, c, d, e : g = [rows |-> a, ends |-> b, torn |-> c, num |-> d, next |-> e]
  BY Zenon DEF IsGroup
<1>4. append(g, ids) = [rows |-> x, ends |-> y, torn |-> c, num |-> z, next |-> e] /\ e = g.next
  BY <1>2, <1>3, Zenon
<1>5. y \subseteq 0 .. Len(g.rows) + Len(ids)
  <2>1. PICK m, k, o : m = Len(g.rows) /\ k = Len(ids) /\ o = openChunk(g)
    BY Zenon
  <2>2. m \in Nat /\ k \in Nat /\ g.ends \subseteq 0 .. m
    BY <2>1, SeqFacts DEF IsGroup
  <2>3. fills(g, k) \subseteq m + 1 .. m + k
    BY <2>1 DEF fills
  <2>4. y = {n \in g.ends : n <= o} \cup fills(g, k) \cup {m + k}
    BY <1>1, <2>1, Zenon DEF endsBehind
  <2>5. y \subseteq 0 .. m + k
    BY ONLY <2>2, <2>3, <2>4
  <2> QED BY <2>1, <2>5, Zenon
<1>6. PICK h : h = append(g, ids)
  OBVIOUS
<1>7. /\ h = [rows |-> h.rows, ends |-> h.ends, torn |-> h.torn, num |-> h.num, next |-> h.next]
      /\ h.rows = g.rows \o ids /\ h.num = g.num + Len(ids) /\ h.next = g.next
      /\ h.ends \subseteq 0 .. Len(g.rows) + Len(ids)
  <2>1. h = [rows |-> x, ends |-> y, torn |-> c, num |-> z, next |-> e]
    BY <1>4, <1>6, Zenon
  <2>2. h = [rows |-> h.rows, ends |-> h.ends, torn |-> h.torn, num |-> h.num, next |-> h.next]
        /\ h.rows = x /\ h.ends = y /\ h.num = z /\ h.next = e
    BY ONLY <2>1
  <2> QED BY <2>2, <1>1, <1>4, <1>5, Zenon
<1>8. /\ IsGroup(h)
      /\ h.rows = g.rows \o ids
      /\ h.num = g.num + Len(ids)
      /\ h.next = g.next
      /\ Len(h.rows) = g.num + Len(ids)
      /\ \A i \in 1 .. g.num : h.rows[i] = g.rows[i]
      /\ \A i \in 1 .. Len(ids) : h.rows[g.num + i] = ids[i]
  BY ONLY IsGroup(g), IsSeq(ids), Len(g.rows) = g.num, <1>7, LongerGroup, SMTT(30)
<1> QED BY <1>6, <1>8, Zenon

\* A flushed chunked group.
LEMMA MergeGroup ==
  ASSUME NEW g, IsGroup(g), NEW ids, IsSeq(ids), Len(g.rows) = g.num
  PROVE  /\ IsGroup(merge(g, ids))
         /\ merge(g, ids).num = g.num + Len(ids)
         /\ merge(g, ids).next = g.next
         /\ Len(merge(g, ids).rows) = g.num + Len(ids)
         /\ \A i \in 1 .. Len(ids) : merge(g, ids).rows[g.num + i] = ids[i]
<1>1. PICK x, y, z : x = g.rows \o ids /\ y = g.ends \cup {Len(g.rows) + Len(ids)} /\ z = g.num + Len(ids)
  BY Zenon
<1>2. merge(g, ids) = [g EXCEPT !.rows = x, !.ends = y, !.num = z]
  BY <1>1, Zenon DEF merge
<1>3. PICK a, b, c, d, e : g = [rows |-> a, ends |-> b, torn |-> c, num |-> d, next |-> e]
  BY Zenon DEF IsGroup
<1>4. merge(g, ids) = [rows |-> x, ends |-> y, torn |-> c, num |-> z, next |-> e] /\ e = g.next
  BY <1>2, <1>3, Zenon
<1>5. y \subseteq 0 .. Len(g.rows) + Len(ids)
  <2>1. PICK m, k : m = Len(g.rows) /\ k = Len(ids)
    BY Zenon
  <2>2. m \in Nat /\ k \in Nat /\ g.ends \subseteq 0 .. m
    BY <2>1, SeqFacts DEF IsGroup
  <2>3. y = g.ends \cup {m + k}
    BY <1>1, <2>1, Zenon
  <2>4. y \subseteq 0 .. m + k
    BY ONLY <2>2, <2>3
  <2> QED BY <2>1, <2>4, Zenon
<1>6. PICK h : h = merge(g, ids)
  OBVIOUS
<1>7. /\ h = [rows |-> h.rows, ends |-> h.ends, torn |-> h.torn, num |-> h.num, next |-> h.next]
      /\ h.rows = g.rows \o ids /\ h.num = g.num + Len(ids) /\ h.next = g.next
      /\ h.ends \subseteq 0 .. Len(g.rows) + Len(ids)
  <2>1. h = [rows |-> x, ends |-> y, torn |-> c, num |-> z, next |-> e]
    BY <1>4, <1>6, Zenon
  <2>2. h = [rows |-> h.rows, ends |-> h.ends, torn |-> h.torn, num |-> h.num, next |-> h.next]
        /\ h.rows = x /\ h.ends = y /\ h.num = z /\ h.next = e
    BY ONLY <2>1
  <2> QED BY <2>2, <1>1, <1>4, <1>5, Zenon
<1>8. /\ IsGroup(h)
      /\ h.rows = g.rows \o ids
      /\ h.num = g.num + Len(ids)
      /\ h.next = g.next
      /\ Len(h.rows) = g.num + Len(ids)
      /\ \A i \in 1 .. g.num : h.rows[i] = g.rows[i]
      /\ \A i \in 1 .. Len(ids) : h.rows[g.num + i] = ids[i]
  BY ONLY IsGroup(g), IsSeq(ids), Len(g.rows) = g.num, <1>7, LongerGroup, SMTT(30)
<1> QED BY <1>6, <1>8, Zenon

\* The cursor moves.
LEMMA MovedGroup ==
  ASSUME NEW g, IsGroup(g), NEW k \in Nat
  PROVE  /\ IsGroup(moveNextRowToAppend(g, k))
         /\ moveNextRowToAppend(g, k).rows = g.rows
         /\ moveNextRowToAppend(g, k).num = g.num
         /\ moveNextRowToAppend(g, k).next = g.next + k
<1>1. PICK a, b, c, d, e : g = [rows |-> a, ends |-> b, torn |-> c, num |-> d, next |-> e]
  BY Zenon DEF IsGroup
<1>2. moveNextRowToAppend(g, k) = [rows |-> a, ends |-> b, torn |-> c, num |-> d, next |-> e + k]
  BY <1>1 DEF moveNextRowToAppend
<1>3. PICK m : m = moveNextRowToAppend(g, k)
  OBVIOUS
<1>4. m.rows = g.rows /\ m.ends = g.ends /\ m.num = g.num /\ m.next = g.next + k
      /\ m = [rows |-> m.rows, ends |-> m.ends, torn |-> m.torn, num |-> m.num, next |-> m.next]
  BY <1>1, <1>2, <1>3
<1>5. IsGroup(m)
  BY <1>4 DEF IsGroup
<1> QED BY <1>3, <1>4, <1>5, Zenon

----------------------------------------------------------------------------
(* The steps that append rows.                                              *)

LEMMA GrowsKeeps ==
  ASSUME GroupTypes, NEW g, NEW k, Grows(g, k),
         g[Len(g)].num <= groups'[Len(g)].num,
         \A row \in 1 .. g[Len(g)].num : groups'[Len(g)].rows[row] = g[Len(g)].rows[row]
  PROVE  Keeps
<1>1. /\ Len(groups) \in Nat
      /\ DOMAIN groups = 1 .. Len(groups)
      /\ DOMAIN groups' = 1 .. Len(g)
      /\ Len(g) = Len(groups) \/ Len(g) = Len(groups) + 1
      /\ \A i \in 1 .. Len(g) - 1 : i \in DOMAIN groups /\ groups'[i] = groups[i]
  BY GrowsOld
<1>2. \A i \in DOMAIN groups : IsGroup(groups[i])
  BY DEF GroupTypes
<1>3. IsGroup(groups'[Len(g)])
  BY DEF Grows
<1>4. DOMAIN groups \subseteq DOMAIN groups'
  BY <1>1
<1>5. ASSUME NEW i \in DOMAIN groups
      PROVE  /\ groups[i].num \in Nat
             /\ groups'[i].num \in Nat
             /\ groups[i].num <= groups'[i].num
             /\ \A row \in 1 .. groups[i].num : groups'[i].rows[row] = groups[i].rows[row]
  <2>1. groups[i].num \in Nat
    BY <1>2 DEF IsGroup
  <2>2. CASE i < Len(g)
    <3>1. groups'[i] = groups[i]
      BY <1>1, <2>2
    <3> QED BY <2>1, <3>1
  <2>3. CASE ~(i < Len(g))
    <3>1. i = Len(g) /\ Len(g) = Len(groups)
      BY <1>1, <2>3
    <3>2. g = groups
      <4>1. g = groups \/ Len(g) = Len(groups) + 1
        BY DEF Grows, Roomy
      <4>2. Len(groups) \in Nat
        BY <1>1
      <4> QED BY <4>1, <4>2, <3>1
    <3> QED BY <2>1, <3>1, <3>2, <1>3 DEF IsGroup
  <2> QED BY <2>2, <2>3
<1> QED BY <1>4, <1>5 DEF Keeps

\* How many rows a round reserves.
LEMMA Round ==
  ASSUME NEW g, Roomy(g), NEW left, IsSeq(left), left # <<>>, NEW k,
         k = Fewer(Len(left), getNumRowsLeftToAppend(getLastGroup(g)))
  PROVE  /\ k \in 1 .. Capacity - g[Len(g)].next
         /\ k \in 0 .. Len(left)
         /\ IsSeq(Take(left, k)) /\ Len(Take(left, k)) = k
         /\ IsSeq(Drop(left, k))
<1>1. Len(left) \in Nat \ {0}
  BY SeqFacts
<1>2. getLastGroup(g) = g[Len(g)] /\ g[Len(g)].next \in Nat /\ g[Len(g)].next < Capacity
  BY DEF Roomy, IsGroup
<1>3. k \in 1 .. Capacity - g[Len(g)].next /\ k \in 0 .. Len(left)
  BY <1>1, <1>2, SizeAssumption DEF Fewer, getNumRowsLeftToAppend
<1> QED BY <1>3, SeqTake, SeqDrop

\* The record that Reserve pushes.
LEMMA Reserved ==
  ASSUME NEW g, NEW k, Roomy(g), Reserve(g, k)
  PROVE  /\ undo' = undo \o <<[group |-> Len(g), start |-> g[Len(g)].num, n |-> k]>>
         /\ numTotalRows' = numTotalRows + k
<1>1. getLastGroup(g) = g[Len(g)]
  BY Zenon DEF Roomy
<1> QED BY <1>1, Zenon DEF Reserve, Record

\* A whole group is reserved, and flushed later.
LEMMA DirectGrows ==
  ASSUME GroupTypes, NEW g, NEW k, Roomy(g), stmt \in {"copy", "failed"}, k \in 1 .. Capacity - g[Len(g)].next,
         directFlushWhenAppend(g, k), Reserve(g, k), UNCHANGED <<stmt, index>>,
         groups' = [g EXCEPT ![Len(g)] = moveNextRowToAppend(@, k)]
  PROVE  /\ Grows(g, k)
         /\ k = Capacity
         /\ g[Len(g)].num = 0
         /\ numTotalRows = (Len(g) - 1) * Capacity
         /\ groups'[Len(g)].num = 0 /\ groups'[Len(g)].rows = <<>> /\ groups'[Len(g)].next = Capacity
<1> DEFINE n == Len(g)
<1>1. /\ IsSeq(g) /\ n \in Nat \ {0} /\ getLastGroup(g) = g[n] /\ IsGroup(g[n]) /\ g[n].num = g[n].next
      /\ Len(g[n].rows) = g[n].next
      /\ numTotalRows = (n - 1) * Capacity + g[n].next
  BY DEF Roomy
<1>2. g[n].num = 0 /\ g[n].next = 0 /\ k = Capacity
  BY <1>1, SizeAssumption DEF directFlushWhenAppend, getNumRowsLeftToAppend
<1>3. PICK x : x = moveNextRowToAppend(g[n], k)
  OBVIOUS
<1>4. groups' = [g EXCEPT ![n] = x]
  BY <1>3
<1>5. IsSeq(groups') /\ Len(groups') = n /\ groups'[n] = x /\ \A i \in 1 .. n - 1 : groups'[i] = g[i]
  <2> HIDE DEF n
  <2>1. n \in 1 .. Len(g)
    BY <1>1 DEF n
  <2>2. PICK t : t = [g EXCEPT ![n] = x]
    BY Zenon
  <2>3. IsSeq(t) /\ Len(t) = Len(g) /\ t[n] = x /\ \A i \in 1 .. Len(g) : i # n => t[i] = g[i]
    <3>1. IsSeq(g) /\ n \in 1 .. Len(g)
      BY <1>1, <2>1
    <3>2. DOMAIN g = 1 .. Len(g)
      BY <3>1, SeqFacts
    <3>3. t = [i \in DOMAIN g |-> t[i]] /\ t[n] = x /\ \A i \in 1 .. Len(g) : i # n => t[i] = g[i]
      BY <3>1, <3>2, <2>2, Zenon
    <3> QED BY <3>1, <3>3, SeqLike, Zenon
  <2>4. groups' = t
    BY <1>4, <2>2, Zenon
  <2>5. \A i \in 1 .. n - 1 : i \in 1 .. Len(g) /\ i # n
    BY <1>1 DEF n
  <2> QED BY <2>3, <2>4, <2>5, Zenon DEF n
<1>6. IsGroup(x) /\ x.rows = g[n].rows /\ x.num = g[n].num /\ x.next = g[n].next + k
  <2>1. PICK old : old = g[n]
    OBVIOUS
  <2>2. IsGroup(old) /\ k \in Nat
    BY <2>1, <1>1, <1>2, SizeAssumption
  <2>3. IsGroup(moveNextRowToAppend(old, k)) /\ moveNextRowToAppend(old, k).rows = old.rows
        /\ moveNextRowToAppend(old, k).num = old.num /\ moveNextRowToAppend(old, k).next = old.next + k
    BY ONLY <2>2, MovedGroup
  <2> QED BY <2>1, <2>3, <1>3, Zenon
<1>7. g[n].rows = <<>>
  BY <1>1, <1>2, SeqFacts DEF IsGroup
<1>8. IsGroup(x) /\ x.next = Capacity /\ x.num = 0
  BY <1>1, <1>2, <1>6, SizeAssumption
<1> HIDE DEF n
<1>9. Grows(g, k)
  <2>1. /\ undo' = undo \o <<[group |-> Len(g), start |-> g[Len(g)].num, n |-> k]>>
        /\ numTotalRows' = numTotalRows + k
    BY Reserved
  <2> QED BY <2>1, <1>5, <1>6, <1>8, Zenon DEF Grows, n
<1>10. numTotalRows = (n - 1) * Capacity
  BY <1>1, <1>2, SizeAssumption
<1> QED BY <1>2, <1>5, <1>6, <1>7, <1>8, <1>9, <1>10, Zenon DEF n

\* The last group of g becomes x.
Replaces(g, x) ==
    /\ IsSeq(groups')
    /\ Len(groups') = Len(g)
    /\ groups'[Len(g)] = x
    /\ \A i \in 1 .. Len(g) - 1 : groups'[i] = g[i]

\* Rows are reserved and stored in one step, under the lock.
LEMMA StoreGrows ==
  ASSUME GroupTypes, NEW g, NEW k, Roomy(g), stmt \in {"copy", "create", "failed"},
         k \in 1 .. Capacity - g[Len(g)].next, Reserve(g, k), UNCHANGED <<stmt, index>>,
         NEW ids, IsSeq(ids), Len(ids) = k, NEW x, IsGroup(x), Replaces(g, x),
         x.rows = append(g[Len(g)], ids).rows, x.num = g[Len(g)].num + k, x.next = g[Len(g)].next + k
  PROVE  /\ Grows(g, k)
         /\ groups'[Len(g)] = x
         /\ x.num = x.next
         /\ Len(x.rows) = x.next
         /\ \A i \in 1 .. g[Len(g)].num : x.rows[i] = g[Len(g)].rows[i]
         /\ \A i \in 1 .. k : x.rows[g[Len(g)].num + i] = ids[i]
<1> DEFINE n == Len(g)
<1>1. /\ IsSeq(g) /\ n \in Nat \ {0} /\ getLastGroup(g) = g[n] /\ IsGroup(g[n]) /\ g[n].num = g[n].next
      /\ Len(g[n].rows) = g[n].next
  BY DEF Roomy
<1>2. IsSeq(groups') /\ Len(groups') = n /\ groups'[n] = x /\ \A i \in 1 .. n - 1 : groups'[i] = g[i]
  BY DEF Replaces
<1>3. PICK old : old = g[n]
  OBVIOUS
<1>4. /\ Len(append(old, ids).rows) = old.num + Len(ids)
      /\ \A i \in 1 .. old.num : append(old, ids).rows[i] = old.rows[i]
      /\ \A i \in 1 .. Len(ids) : append(old, ids).rows[old.num + i] = ids[i]
  <2>1. IsGroup(old) /\ Len(old.rows) = old.num
    BY <1>1, <1>3
  <2> QED BY ONLY <2>1, IsSeq(ids), AppendGroup
<1>5. /\ Len(x.rows) = g[n].num + k
      /\ \A i \in 1 .. g[n].num : x.rows[i] = g[n].rows[i]
      /\ \A i \in 1 .. k : x.rows[g[n].num + i] = ids[i]
  BY <1>3, <1>4, Zenon
<1> HIDE DEF n
<1>6. Grows(g, k)
  <2>1. /\ undo' = undo \o <<[group |-> Len(g), start |-> g[Len(g)].num, n |-> k]>>
        /\ numTotalRows' = numTotalRows + k
    BY Reserved
  <2>2. g[n].next + k = x.next
    BY DEF n
  <2> QED BY <2>1, <2>2, <1>2 DEF Grows, n
<1> QED BY <1>1, <1>2, <1>5, <1>6 DEF n

\* The numbers of the groups that workers flush are those of other groups.
LEMMA NotFlushed ==
  ASSUME NEW n, ~Flushed(n), NEW w \in Workers
  PROVE  work[w].flush # n
  BY DEF Flushed

\* A worker reserves a whole group.
LEMMA CopyDirect ==
  ASSUME IInv, NEW w \in Workers, NEW g, NEW k, Roomy(g), stmt \in {"copy", "failed"}, work[w].flush = 0,
         k \in 1 .. Capacity - g[Len(g)].next, k \in 0 .. Len(work[w].left),
         directFlushWhenAppend(g, k), Reserve(g, k), UNCHANGED <<stmt, index, pending>>,
         groups' = [g EXCEPT ![Len(g)] = moveNextRowToAppend(@, k)],
         work' = [work EXCEPT ![w] = [left |-> Drop(work[w].left, k), flush |-> Len(g),
                                      ids |-> Take(work[w].left, k), off |-> numTotalRows]]
  PROVE  IInv'
<1>1. GroupTypes /\ WorkTypes /\ Packed /\ StoredInv /\ FlushInv /\ StmtInv /\ IndexInv /\ Chain
  BY DEF IInv
<1>2. /\ Grows(g, k)
      /\ k = Capacity
      /\ g[Len(g)].num = 0
      /\ numTotalRows = (Len(g) - 1) * Capacity
      /\ groups'[Len(g)].num = 0 /\ groups'[Len(g)].rows = <<>> /\ groups'[Len(g)].next = Capacity
  BY <1>1, DirectGrows, Zenon
<1>3. GroupTypes' /\ Packed' /\ Chain'
  BY <1>1, <1>2, GrowsTypes, GrowsPacked, GrowsChain
<1>4. PICK n : n = Len(g)
  OBVIOUS
<1>5. n \in Nat \ {0} /\ ~Flushed(n) /\ numTotalRows \in Nat
  BY <1>1, <1>4 DEF Roomy, GroupTypes
<1>6. PICK y : y = [left |-> Drop(work[w].left, k), flush |-> n,
                    ids |-> Take(work[w].left, k), off |-> numTotalRows]
  BY Zenon
<1>7. /\ work' = [work EXCEPT ![w] = y]
      /\ y.flush = n /\ y.ids = Take(work[w].left, k) /\ y.off = numTotalRows /\ y.left = Drop(work[w].left, k)
      /\ y = [left |-> y.left, flush |-> y.flush, ids |-> y.ids, off |-> y.off]
  BY <1>4, <1>6
<1>8. IsSeq(y.left) /\ IsSeq(y.ids) /\ Len(y.ids) = Capacity
  <2>1. PICK left : left = work[w].left
    OBVIOUS
  <2>2. IsSeq(left) /\ k \in 0 .. Len(left)
    BY <2>1, <1>1 DEF WorkTypes, IsWork
  <2>3. IsSeq(Take(left, k)) /\ Len(Take(left, k)) = k /\ IsSeq(Drop(left, k))
    BY <2>2, SeqTake, SeqDrop
  <2> QED BY <2>1, <2>3, <1>2, <1>7, Zenon
<1>9. work'[w] = y /\ \A v \in Workers : v # w => work'[v] = work[v]
  BY <1>7, <1>1 DEF WorkTypes
<1>10. WorkTypes'
  <2>1. work' = [v \in Workers |-> work'[v]]
    BY <1>7, <1>1 DEF WorkTypes
  <2>2. IsWork(y)
    BY <1>5, <1>7, <1>8 DEF IsWork
  <2> QED BY <2>1, <2>2, <1>9, <1>1 DEF WorkTypes
<1>11. /\ Len(groups) \in Nat
       /\ DOMAIN groups = 1 .. Len(groups)
       /\ DOMAIN groups' = 1 .. n
       /\ n = Len(groups) \/ n = Len(groups) + 1
       /\ \A i \in 1 .. n - 1 : i \in DOMAIN groups /\ groups'[i] = groups[i]
  BY <1>1, <1>2, <1>4, GrowsOld
<1>12. FlushInv'
  <2>1. ASSUME NEW v \in Workers, work'[v].flush # 0
        PROVE  /\ work'[v].flush \in DOMAIN groups'
               /\ Len(work'[v].ids) = Capacity
               /\ work'[v].off = (work'[v].flush - 1) * Capacity
    <3>1. CASE v = w
      BY <3>1, <1>2, <1>4, <1>5, <1>7, <1>8, <1>9, <1>11
    <3>2. CASE v # w
      <4>1. work'[v] = work[v] /\ work[v].flush \in DOMAIN groups
        BY <3>2, <2>1, <1>1, <1>9 DEF FlushInv
      <4>2. DOMAIN groups \subseteq DOMAIN groups'
        <5>1. n \in Nat /\ Len(groups) \in Nat /\ (n = Len(groups) \/ n = Len(groups) + 1)
          BY <1>5, <1>11, Zenon
        <5>2. 1 .. Len(groups) \subseteq 1 .. n
          BY ONLY <5>1
        <5> QED BY <5>2, <1>11, Zenon
      <4> QED BY <4>1, <4>2, <2>1, <1>1 DEF FlushInv
    <3> QED BY <3>1, <3>2
  <2>2. \A v \in Workers : v # w => work'[v].flush # n
    BY <1>5, <1>9, NotFlushed
  <2>3. ASSUME NEW u \in Workers, NEW v \in Workers, u # v, work'[u].flush # 0
        PROVE  work'[u].flush # work'[v].flush
    BY <2>2, <2>3, <1>1, <1>7, <1>9 DEF FlushInv
  <2> QED BY <2>1, <2>3 DEF FlushInv
<1>13. StoredInv'
  <2>1. ASSUME NEW i \in 1 .. n - 1 PROVE Flushed(i)' <=> Flushed(i)
    <3>1. i # n /\ i # 0
      BY <1>5, <2>1
    <3> QED BY <3>1, <1>7, <1>9 DEF Flushed
  <2>2. Flushed(n)'
    BY <1>7, <1>9 DEF Flushed
  <2>3. ASSUME NEW i \in DOMAIN groups'
        PROVE  IF Flushed(i)'
               THEN groups'[i].num = 0 /\ groups'[i].rows = <<>> /\ groups'[i].next = Capacity
               ELSE groups'[i].num = groups'[i].next /\ Len(groups'[i].rows) = groups'[i].next
    <3>1. CASE i = n
      BY <3>1, <2>2, <1>2, <1>4
    <3>2. CASE i # n
      <4>1. i \in 1 .. n - 1
        BY <3>2, <2>3, <1>5, <1>11
      <4>2. groups'[i] = groups[i] /\ i \in DOMAIN groups
        BY <4>1, <1>11
      <4> QED BY <4>1, <4>2, <2>1, <1>1 DEF StoredInv
    <3> QED BY <3>1, <3>2
  <2> QED BY <2>3 DEF StoredInv
<1>14. StmtInv'
  <2>1. work'[w].flush # 0
    BY <1>5, <1>7, <1>9
  <2> QED BY <2>1, <1>1 DEF StmtInv
<1>15. IndexInv'
  <2>1. Keeps
    BY <1>1, <1>2, GrowsKeeps, SMTT(30)
  <2> QED BY <2>1, <1>1, IndexKept
<1> QED BY <1>3, <1>10, <1>12, <1>13, <1>14, <1>15 DEF IInv

\* Rows are reserved and stored under the lock, by a worker of a COPY or by the
\* committing thread; off is the offset that their entries start from.
LEMMA StoreKeeps ==
  ASSUME IInv, NEW w \in Workers, NEW g, NEW k, Roomy(g), stmt \in {"copy", "create", "failed"}, work[w].flush = 0,
         k \in 1 .. Capacity - g[Len(g)].next, k \in 0 .. Len(work[w].left),
         Reserve(g, k), UNCHANGED <<stmt, index>>,
         NEW x, IsGroup(x), Replaces(g, x),
         x.rows = append(g[Len(g)], Take(work[w].left, k)).rows,
         x.num = g[Len(g)].num + k, x.next = g[Len(g)].next + k,
         pending' = pending \cup Entries(Take(work[w].left, k), numTotalRows),
         NEW y, work' = [work EXCEPT ![w] = y], y.left = Drop(work[w].left, k), y.flush = 0,
         y.ids = work[w].ids, y.off \in Nat, stmt = "create" => y.off = work[w].off + k /\ w = Main,
         y = [left |-> y.left, flush |-> y.flush, ids |-> y.ids, off |-> y.off]
  PROVE  IInv'
<1>1. GroupTypes /\ WorkTypes /\ Packed /\ StoredInv /\ FlushInv /\ StmtInv /\ IndexInv /\ Chain
  BY DEF IInv
<1>2. PICK left : left = work[w].left
  OBVIOUS
<1>3. PICK ids : ids = Take(left, k)
  OBVIOUS
<1>4. IsSeq(left) /\ IsSeq(ids) /\ Len(ids) = k /\ IsSeq(Drop(left, k))
  <2>1. IsSeq(left) /\ k \in 0 .. Len(left)
    BY <1>1, <1>2 DEF WorkTypes, IsWork
  <2> QED BY <2>1, <1>3, SeqTake, SeqDrop
<1>5. /\ Grows(g, k)
      /\ groups'[Len(g)] = x
      /\ x.num = x.next
      /\ Len(x.rows) = x.next
      /\ \A i \in 1 .. g[Len(g)].num : x.rows[i] = g[Len(g)].rows[i]
      /\ \A i \in 1 .. k : x.rows[g[Len(g)].num + i] = ids[i]
  <2>1. x.rows = append(g[Len(g)], ids).rows
    BY <1>2, <1>3, Zenon
  <2> QED BY <2>1, <1>1, <1>4, StoreGrows
<1>6. GroupTypes' /\ Packed' /\ Chain'
  BY <1>1, <1>5, GrowsTypes, GrowsPacked, GrowsChain
<1>7. PICK n : n = Len(g)
  OBVIOUS
<1>8. n \in Nat \ {0} /\ ~Flushed(n) /\ numTotalRows \in Nat
  BY <1>1, <1>7 DEF Roomy, GroupTypes
<1>9. work'[w] = y /\ \A v \in Workers : v # w => work'[v] = work[v]
  BY <1>1 DEF WorkTypes
<1>10. WorkTypes'
  <2>1. work' = [v \in Workers |-> work'[v]]
    BY <1>1 DEF WorkTypes
  <2>2. IsWork(y)
    <3>1. IsSeq(y.left)
      BY <1>2, <1>4, Zenon
    <3>2. IsSeq(y.ids)
      BY <1>1 DEF WorkTypes, IsWork
    <3> QED BY <3>1, <3>2 DEF IsWork
  <2> QED BY <2>1, <2>2, <1>9, <1>1 DEF WorkTypes
<1>11. /\ Len(groups) \in Nat
       /\ DOMAIN groups = 1 .. Len(groups)
       /\ DOMAIN groups' = 1 .. n
       /\ n = Len(groups) \/ n = Len(groups) + 1
       /\ \A i \in 1 .. n - 1 : i \in DOMAIN groups /\ groups'[i] = groups[i]
  BY <1>1, <1>5, <1>7, GrowsOld
<1>12. \A v \in Workers : work'[v].flush = work[v].flush /\ work'[v].flush # n
  BY <1>8, <1>9, NotFlushed
<1>13. FlushInv'
  <2>1. ASSUME NEW v \in Workers, work'[v].flush # 0
        PROVE  /\ work'[v].flush \in DOMAIN groups'
               /\ Len(work'[v].ids) = Capacity
               /\ work'[v].off = (work'[v].flush - 1) * Capacity
    <3>1. v # w
      BY <2>1, <1>12
    <3>2. work'[v] = work[v] /\ work[v].flush \in DOMAIN groups
      BY <3>1, <2>1, <1>1, <1>9 DEF FlushInv
    <3>3. DOMAIN groups \subseteq DOMAIN groups'
      <4>1. n \in Nat /\ Len(groups) \in Nat /\ (n = Len(groups) \/ n = Len(groups) + 1)
        BY <1>8, <1>11
      <4>2. 1 .. Len(groups) \subseteq 1 .. n
        BY ONLY <4>1
      <4> QED BY <4>2, <1>11, Zenon
    <3> QED BY <3>2, <3>3, <2>1, <1>1 DEF FlushInv
  <2>2. ASSUME NEW u \in Workers, NEW v \in Workers, u # v, work'[u].flush # 0
        PROVE  work'[u].flush # work'[v].flush
    BY <2>2, <1>1, <1>12 DEF FlushInv
  <2>3. stmt' \in {"idle", "create", "rollback"} => \A v \in Workers : work'[v].flush = 0
    BY <1>1, <1>12 DEF FlushInv
  <2> QED BY <2>1, <2>2, <2>3 DEF FlushInv
<1>14. StoredInv'
  <2>1. \A i : Flushed(i)' <=> Flushed(i)
    BY <1>12 DEF Flushed
  <2>2. ASSUME NEW i \in DOMAIN groups'
        PROVE  IF Flushed(i)'
               THEN groups'[i].num = 0 /\ groups'[i].rows = <<>> /\ groups'[i].next = Capacity
               ELSE groups'[i].num = groups'[i].next /\ Len(groups'[i].rows) = groups'[i].next
    <3>1. CASE i = n
      BY <3>1, <2>1, <1>5, <1>7, <1>8
    <3>2. CASE i # n
      <4>1. i \in 1 .. n - 1
        BY <3>2, <2>2, <1>8, <1>11
      <4>2. groups'[i] = groups[i] /\ i \in DOMAIN groups
        BY <4>1, <1>11
      <4> QED BY <4>1, <4>2, <2>1, <1>1 DEF StoredInv
    <3> QED BY <3>1, <3>2
  <2> QED BY <2>2 DEF StoredInv
<1>15. pending' = pending \cup Entries(ids, numTotalRows)
  BY <1>2, <1>3, Zenon
<1>16. StmtInv'
  <2>1. pending' # {}
    <3>1. 1 \in DOMAIN ids
      BY <1>4, SeqFacts, SizeAssumption DEF Roomy, IsGroup
    <3> QED BY <3>1, <1>15, Zenon DEF Entries
  <2>2. stmt' = "create" => work'[Main].off = numTotalRows'
    <3> SUFFICES ASSUME stmt' = "create" PROVE work'[Main].off = numTotalRows'
      OBVIOUS
    <3>1. stmt = "create" /\ w = Main /\ y.off = work[w].off + k
      BY SMTT(30)
    <3>2. numTotalRows' = numTotalRows + k /\ work[Main].off = numTotalRows
      BY <3>1, <1>1, <1>5 DEF Grows, StmtInv
    <3> QED BY <3>1, <3>2, <1>9
  <2> QED BY <2>1, <2>2, <1>1 DEF StmtInv
<1>17. IndexInv'
  <2>1. g[n].num \in Nat /\ k \in Nat /\ IsGroup(g[n]) /\ g[n].num = g[n].next
    BY <1>7, SizeAssumption, SMTT(30) DEF Roomy, IsGroup
  <2>2. Keeps
    <3>1. g[n].num <= groups'[n].num
      BY <2>1, <1>5, <1>7
    <3> QED BY <3>1, <1>1, <1>5, <1>7, GrowsKeeps
  <2>3. ASSUME NEW e \in Entries(ids, numTotalRows) PROVE Holds(e)'
    <3>1. numTotalRows = (n - 1) * Capacity + g[n].num
      BY <1>7, <2>1 DEF Roomy
    <3>2. n \in DOMAIN groups' /\ n \in Nat
      BY <1>8, <1>11
    <3>3. PICK old \in Nat : old = g[n].num
      BY <2>1, SMTT(30)
    <3>4. groups'[n].num = old + Len(ids) /\ \A i \in 1 .. Len(ids) : groups'[n].rows[old + i] = ids[i]
      BY <3>3, <1>4, <1>5, <1>7, SMTT(30)
    <3>5. numTotalRows = (n - 1) * Capacity + old
      BY <3>1, <3>3
    <3> QED BY <3>2, <3>4, <3>5, <1>4, <2>3, EntriesHold, Zenon
  <2> QED BY <2>2, <2>3, <1>1, <1>15, IndexKept, SMTT(30)
<1> QED BY <1>6, <1>10, <1>13, <1>14, <1>16, <1>17 DEF IInv

\* The last group of g is replaced.
LEMMA ReplaceLast ==
  ASSUME NEW g, Roomy(g), NEW x, groups' = [g EXCEPT ![Len(g)] = x]
  PROVE  Replaces(g, x)
<1>1. PICK n, t : n = Len(g) /\ t = [g EXCEPT ![n] = x]
  BY Zenon
<1>2. IsSeq(g) /\ n \in Nat \ {0} /\ DOMAIN g = 1 .. n
  BY <1>1, SeqFacts DEF Roomy
<1>3. t = [i \in DOMAIN g |-> t[i]] /\ t[n] = x /\ \A i \in 1 .. n : i # n => t[i] = g[i]
  <2>1. t = [g EXCEPT ![n] = x] /\ n \in DOMAIN g
    BY <1>1, <1>2
  <2>2. t = [i \in DOMAIN g |-> t[i]] /\ t[n] = x /\ \A i \in DOMAIN g : i # n => t[i] = g[i]
    BY ONLY <2>1, Zenon
  <2> QED BY ONLY <2>2, <1>2
<1>4. IsSeq(t) /\ Len(t) = n
  BY <1>1, <1>2, <1>3, SeqLike, Zenon
<1>5. \A i \in 1 .. n - 1 : t[i] = g[i]
  BY <1>2, <1>3
<1>6. groups' = t
  BY <1>1, Zenon
<1> QED BY <1>1, <1>3, <1>4, <1>5, <1>6 DEF Replaces

\* One round of a worker.
LEMMA KeepAppendToLast ==
  ASSUME IInv, NEW w \in Workers, AppendToLast(w)
  PROVE  IInv'
<1>1. PICK g : g = GroupsForCopy
  OBVIOUS
<1>2. PICK left : left = work[w].left
  OBVIOUS
<1>3. PICK k : k = Fewer(Len(left), getNumRowsLeftToAppend(getLastGroup(g)))
  OBVIOUS
<1>4. stmt \in {"copy", "failed"} /\ work[w].flush = 0 /\ left # <<>> /\ Reserve(g, k) /\ UNCHANGED <<stmt, index, nextRow>>
  BY <1>1, <1>2, <1>3, Zenon DEF AppendToLast
<1>5. Roomy(g)
  BY <1>1, <1>4, RoomForCopy
<1>6. IsWork(work[w]) /\ work = [v \in Workers |-> work[v]]
  BY DEF IInv, WorkTypes
<1>7. IsSeq(left)
  BY <1>2, <1>6 DEF IsWork
<1>8. /\ k \in 1 .. Capacity - g[Len(g)].next
      /\ k \in 0 .. Len(left)
      /\ IsSeq(Take(left, k)) /\ Len(Take(left, k)) = k
      /\ IsSeq(Drop(left, k))
  BY <1>3, <1>4, <1>5, <1>7, Round
<1>9. CASE directFlushWhenAppend(g, k)
  <2>1. /\ groups' = [g EXCEPT ![Len(g)] = moveNextRowToAppend(@, k)]
        /\ work' = [work EXCEPT ![w] = [left |-> Drop(left, k), flush |-> Len(g),
                                        ids |-> Take(left, k), off |-> numTotalRows]]
        /\ UNCHANGED pending
    BY <1>1, <1>2, <1>3, <1>9, Zenon DEF AppendToLast
  <2> QED BY <2>1, <1>2, <1>4, <1>5, <1>8, <1>9, CopyDirect, Zenon
<1>10. CASE ~directFlushWhenAppend(g, k)
  <2>1. PICK moved : moved = [g EXCEPT ![Len(g)] = moveNextRowToAppend(@, k)]
    BY Zenon
  <2>2. /\ groups' = [moved EXCEPT ![Len(g)] = append(@, Take(left, k))]
        /\ work' = [work EXCEPT ![w].left = Drop(left, k)]
        /\ pending' = pending \union Entries(Take(left, k), numTotalRows)
    BY <1>1, <1>2, <1>3, <1>10, <2>1, Zenon DEF AppendToLast
  <2>3. PICK n : n = Len(g)
    BY Zenon
  <2>4. IsSeq(g) /\ n \in Nat \ {0} /\ n \in DOMAIN g /\ IsGroup(g[n]) /\ g[n].num = g[n].next /\ Len(g[n].rows) = g[n].num
    BY <1>5, <2>3, SeqFacts DEF Roomy
  <2>5. PICK m : m = moveNextRowToAppend(g[n], k)
    OBVIOUS
  <2>6. moved = [g EXCEPT ![n] = m]
    BY <2>1, <2>3, <2>5
  <2>7. moved[n] = m
    BY <2>4, <2>6
  <2>8. PICK x : x = append(m, Take(left, k))
    OBVIOUS
  <2>9. groups' = [g EXCEPT ![n] = x]
    <3>1. groups' = [moved EXCEPT ![n] = x]
      BY <2>2, <2>3, <2>7, <2>8, Zenon
    <3> QED BY <3>1, <2>4, <2>6, Zenon
  <2>10. m.rows = g[n].rows /\ m.num = g[n].num /\ m.next = g[n].next + k /\ IsGroup(m)
    <3>1. PICK old : old = g[n]
      OBVIOUS
    <3>2. g[n].next \in Nat /\ k \in Nat
      BY <2>3, <2>4, <1>8, SizeAssumption DEF IsGroup
    <3>3. IsGroup(old) /\ k \in Nat
      BY <3>1, <3>2, <2>4
    <3>4. IsGroup(moveNextRowToAppend(old, k)) /\ moveNextRowToAppend(old, k).rows = old.rows
          /\ moveNextRowToAppend(old, k).num = old.num /\ moveNextRowToAppend(old, k).next = old.next + k
      BY ONLY <3>3, MovedGroup
    <3> QED BY <3>1, <3>4, <2>5, Zenon
  <2>11. /\ IsGroup(x)
         /\ x.num = g[n].num + k
         /\ x.next = g[n].next + k
    <3>1. PICK ids : ids = Take(left, k)
      OBVIOUS
    <3>2. IsGroup(m) /\ IsSeq(ids) /\ Len(m.rows) = m.num /\ Len(ids) = k
      BY <3>1, <2>4, <2>10, <1>8
    <3>3. IsGroup(append(m, ids)) /\ append(m, ids).num = m.num + Len(ids) /\ append(m, ids).next = m.next
      BY ONLY <3>2, AppendGroup
    <3> QED BY <3>1, <3>2, <3>3, <2>8, <2>10, Zenon
  <2>12. x.rows = append(g[n], Take(left, k)).rows
    <3>1. PICK ids, old : ids = Take(left, k) /\ old = g[n]
      OBVIOUS
    <3>2. IsSeq(ids) /\ IsGroup(old) /\ Len(old.rows) = old.num /\ IsGroup(m) /\ Len(m.rows) = m.num
      BY <3>1, <2>4, <2>10, <1>8
    <3>3. append(old, ids).rows = old.rows \o ids /\ append(m, ids).rows = m.rows \o ids
      BY ONLY <3>2, AppendGroup, SMTT(30)
    <3> QED BY <3>1, <3>3, <2>8, <2>10, Zenon
  <2>13. Replaces(g, x)
    BY <2>3, <2>9, <1>5, ReplaceLast, Zenon
  <2>14. PICK y : y = [work[w] EXCEPT !.left = Drop(left, k)]
    BY Zenon
  <2>15. work' = [work EXCEPT ![w] = y]
    BY <2>2, <2>14
  <2>16. /\ y.left = Drop(left, k) /\ y.flush = 0 /\ y.ids = work[w].ids /\ y.off = work[w].off
         /\ y = [left |-> y.left, flush |-> y.flush, ids |-> y.ids, off |-> y.off]
    <3>1. PICK a, b, c, d : work[w] = [left |-> a, flush |-> b, ids |-> c, off |-> d]
      BY <1>6, Zenon DEF IsWork
    <3>2. y = [left |-> Drop(left, k), flush |-> b, ids |-> c, off |-> d]
      BY <2>14, <3>1
    <3> QED BY <3>1, <3>2, <1>4
  <2>17. y.off \in Nat
    BY <2>16, <1>6 DEF IsWork
  <2>18. pending' = pending \cup Entries(Take(work[w].left, k), numTotalRows)
    BY <2>2, <1>2, Zenon
  <2> QED BY <2>3, <2>11, <2>12, <2>13, <2>15, <2>16, <2>17, <2>18, <1>2, <1>4, <1>5, <1>8, StoreKeeps, ZenonT(30)
<1> QED BY <1>9, <1>10

\* One round of the committing thread.
LEMMA KeepAppendLocal ==
  ASSUME IInv, AppendLocal
  PROVE  IInv'
<1>1. PICK w \in Workers : w = Main
  BY WorkerAssumption DEF Main
<1>2. PICK g, left : g = GroupsForLocal /\ left = work[w].left
  OBVIOUS
<1>3. PICK k : k = Fewer(Len(left), getNumRowsLeftToAppend(getLastGroup(g)))
  OBVIOUS
<1>4. stmt = "create" /\ left # <<>> /\ UNCHANGED <<stmt, index, nextRow>>
  BY <1>1, <1>2, Zenon DEF AppendLocal
<1>5. Roomy(g)
  BY <1>2, <1>4, RoomForLocal
<1>6. IsWork(work[w]) /\ work = [v \in Workers |-> work[v]]
  BY DEF IInv, WorkTypes
<1>7. IsSeq(left)
  BY <1>2, <1>6 DEF IsWork
<1>8. /\ k \in 1 .. Capacity - g[Len(g)].next
      /\ k \in 0 .. Len(left)
      /\ IsSeq(Take(left, k)) /\ Len(Take(left, k)) = k
      /\ IsSeq(Drop(left, k))
  BY <1>3, <1>4, <1>5, <1>7, Round
<1>9. k # 0
  <2>1. g[Len(g)].next \in Nat
    BY <1>5 DEF Roomy, IsGroup
  <2> QED BY <1>8, <2>1, SizeAssumption
<1>10. /\ Reserve(g, k)
       /\ groups' = [g EXCEPT ![Len(g)] = moveNextRowToAppend(append(@, Take(left, k)), k)]
       /\ pending' = pending \union Entries(Take(left, k), work[w].off)
       /\ work' = [work EXCEPT ![w].left = Drop(left, k), ![w].off = @ + k]
  BY <1>1, <1>2, <1>3, <1>9, Zenon DEF AppendLocal
<1>11. work[w].flush = 0 /\ work[w].off = numTotalRows
  BY <1>1, <1>4 DEF IInv, FlushInv, StmtInv
<1>12. PICK n : n = Len(g)
  BY Zenon
<1>13. IsGroup(g[n]) /\ Len(g[n].rows) = g[n].num
  BY <1>5, <1>12 DEF Roomy
<1>14. PICK ids, m : ids = Take(left, k) /\ m = append(g[n], ids)
  OBVIOUS
<1>15. IsGroup(m) /\ m.num = g[n].num + k /\ m.next = g[n].next
  <2>1. PICK old : old = g[n]
    OBVIOUS
  <2>2. IsGroup(old) /\ IsSeq(ids) /\ Len(old.rows) = old.num /\ Len(ids) = k
    BY <2>1, <1>8, <1>13, <1>14
  <2>3. IsGroup(append(old, ids)) /\ append(old, ids).num = old.num + Len(ids) /\ append(old, ids).next = old.next
    BY ONLY <2>2, AppendGroup
  <2> QED BY <2>1, <2>2, <2>3, <1>14, Zenon
<1>16. PICK x : x = moveNextRowToAppend(m, k)
  OBVIOUS
<1>17. groups' = [g EXCEPT ![n] = x]
  <2>1. x = moveNextRowToAppend(append(g[Len(g)], Take(left, k)), k)
    BY <1>12, <1>14, <1>16, Zenon
  <2>2. groups' = [g EXCEPT ![Len(g)] = x]
    BY <2>1, <1>10, Zenon
  <2> QED BY <2>2, <1>12
<1>18. x.rows = m.rows /\ x.num = m.num /\ x.next = m.next + k /\ IsGroup(x)
  <2>1. g[n].next \in Nat /\ k \in Nat
    BY <1>8, <1>12, <1>13, SizeAssumption DEF IsGroup
  <2>2. IsGroup(m) /\ k \in Nat
    BY <2>1, <1>15
  <2>3. IsGroup(moveNextRowToAppend(m, k)) /\ moveNextRowToAppend(m, k).rows = m.rows
        /\ moveNextRowToAppend(m, k).num = m.num /\ moveNextRowToAppend(m, k).next = m.next + k
    BY ONLY <2>2, MovedGroup
  <2> QED BY <2>3, <1>16, Zenon
<1>19. Replaces(g, x)
  BY <1>5, <1>12, <1>17, ReplaceLast, Zenon
<1>20. PICK y : y = [work[w] EXCEPT !.left = Drop(left, k), !.off = @ + k]
  OBVIOUS
<1>21. work' = [work EXCEPT ![w] = y]
  BY <1>10, <1>20, <1>6, Zenon
<1>22. /\ y.left = Drop(left, k) /\ y.flush = 0 /\ y.ids = work[w].ids /\ y.off = work[w].off + k
       /\ y = [left |-> y.left, flush |-> y.flush, ids |-> y.ids, off |-> y.off]
  <2>1. PICK a, b, c, d : work[w] = [left |-> a, flush |-> b, ids |-> c, off |-> d]
    BY <1>6, Zenon DEF IsWork
  <2>2. PICK z : z = [work[w] EXCEPT !.left = Drop(left, k)]
    BY Zenon
  <2>3. z = [left |-> Drop(left, k), flush |-> b, ids |-> c, off |-> d]
    BY <2>1, <2>2
  <2>4. y = [z EXCEPT !.off = @ + k]
    BY <2>2, <1>20, Zenon
  <2>5. y = [left |-> Drop(left, k), flush |-> b, ids |-> c, off |-> d + k]
    BY <2>3, <2>4
  <2> QED BY <2>1, <2>5, <1>11
<1>23. y.off \in Nat
  <2>1. k \in Nat
    BY <1>7, <1>8, SeqFacts
  <2> QED BY <2>1, <1>6, <1>22 DEF IsWork
<1>24. pending' = pending \cup Entries(Take(work[w].left, k), numTotalRows)
  BY <1>2, <1>10, <1>11, Zenon
<1>25. x.rows = append(g[Len(g)], Take(work[w].left, k)).rows
  BY <1>2, <1>12, <1>14, <1>18, Zenon
<1>26. x.num = g[Len(g)].num + k /\ x.next = g[Len(g)].next + k
  BY <1>12, <1>15, <1>18
<1>27. k \in 0 .. Len(work[w].left) /\ y.left = Drop(work[w].left, k)
  BY <1>2, <1>8, <1>22, Zenon
<1>28. Reserve(g, k) /\ stmt \in {"copy", "create", "failed"} /\ UNCHANGED <<stmt, index>> /\ w = Main
  BY <1>1, <1>4, <1>10
<1> QED BY <1>5, <1>8, <1>11, <1>18, <1>19, <1>21, <1>22, <1>23, <1>24, <1>25, <1>26, <1>27, <1>28, StoreKeeps, ZenonT(30)

\* A reserved group gets its rows.
LEMMA KeepFlushGroup ==
  ASSUME IInv, NEW w \in Workers, FlushGroup(w)
  PROVE  IInv'
<1>1. GroupTypes /\ WorkTypes /\ Packed /\ StoredInv /\ FlushInv /\ StmtInv /\ IndexInv /\ Chain
  BY DEF IInv
<1>2. PICK n, ids : n = work[w].flush /\ ids = work[w].ids
  OBVIOUS
<1>3. PICK old : old = groups[n]
  OBVIOUS
<1>4. PICK x : x = merge(old, ids)
  OBVIOUS
<1>5. /\ stmt \in {"copy", "failed"}
      /\ n # 0
      /\ groups' = [groups EXCEPT ![n] = x]
      /\ pending' = pending \cup Entries(ids, work[w].off)
      /\ work' = [work EXCEPT ![w] = [NotWorking EXCEPT !.left = work[w].left]]
      /\ UNCHANGED <<numTotalRows, undo, stmt, index, nextRow>>
  BY <1>2, <1>3, <1>4, Zenon DEF FlushGroup
<1>6. /\ n \in DOMAIN groups
      /\ n \in Nat
      /\ Len(ids) = Capacity
      /\ work[w].off = (n - 1) * Capacity
      /\ IsSeq(ids)
      /\ IsGroup(old)
  BY <1>1, <1>2, <1>3, <1>5 DEF FlushInv, WorkTypes, IsWork, GroupTypes
<1>7. old.num = 0 /\ old.rows = <<>> /\ old.next = Capacity /\ Len(old.rows) = old.num
  BY <1>1, <1>2, <1>3, <1>5, <1>6, SeqEmpty DEF StoredInv, Flushed
<1>8. /\ IsGroup(x)
      /\ x.num = old.num + Len(ids)
      /\ x.next = old.next
      /\ Len(x.rows) = old.num + Len(ids)
      /\ \A i \in 1 .. Len(ids) : x.rows[old.num + i] = ids[i]
  <2>1. IsGroup(old) /\ IsSeq(ids) /\ Len(old.rows) = old.num
    BY <1>6, <1>7, Zenon
  <2>2. /\ IsGroup(merge(old, ids))
        /\ merge(old, ids).num = old.num + Len(ids)
        /\ merge(old, ids).next = old.next
        /\ Len(merge(old, ids).rows) = old.num + Len(ids)
        /\ \A i \in 1 .. Len(ids) : merge(old, ids).rows[old.num + i] = ids[i]
    BY ONLY <2>1, MergeGroup
  <2> QED BY <2>2, <1>4, Zenon
<1>9. x.num = Capacity /\ x.next = Capacity /\ Len(x.rows) = Capacity
  BY <1>6, <1>7, <1>8, SizeAssumption
<1>10. IsSeq(groups) /\ Len(groups) \in Nat /\ DOMAIN groups = 1 .. Len(groups)
  BY <1>1, SeqFacts DEF GroupTypes
<1>11. /\ groups' = [i \in DOMAIN groups |-> groups'[i]]
       /\ groups'[n] = x
       /\ \A i \in DOMAIN groups : i # n => groups'[i] = groups[i]
  BY ONLY <1>5, <1>6, Zenon
<1>12. IsSeq(groups') /\ Len(groups') = Len(groups) /\ DOMAIN groups' = DOMAIN groups
  BY <1>10, <1>11, SeqLike, SeqFacts
<1>13. \A i \in DOMAIN groups : groups'[i].next = groups[i].next
  BY <1>3, <1>7, <1>9, <1>11
<1>14. GroupTypes'
  BY <1>1, <1>5, <1>8, <1>11, <1>12 DEF GroupTypes
<1>15. stmt' = stmt /\ stmt # "rollback" /\ Len(groups) # 0 /\ groups # <<>> /\ groups' # <<>>
  BY <1>5, <1>6, <1>10, <1>12, SeqEmpty
<1>16. Packed'
  BY <1>1, <1>5, <1>10, <1>12, <1>13, <1>15 DEF Packed, Filled
<1>17. Chain'
  BY <1>1, <1>5, <1>10, <1>12, <1>13, <1>15 DEF Chain, Filled
<1>18. PICK y : y = [NotWorking EXCEPT !.left = work[w].left]
  BY Zenon
<1>19. y = [left |-> work[w].left, flush |-> 0, ids |-> <<>>, off |-> 0]
  BY <1>18 DEF NotWorking
<1>20. IsWork(y) /\ y.flush = 0
  <2>1. y.left = work[w].left /\ y.flush = 0 /\ y.ids = <<>> /\ y.off = 0
    BY <1>19
  <2>2. y = [left |-> y.left, flush |-> y.flush, ids |-> y.ids, off |-> y.off]
    BY <1>19, <2>1
  <2>3. IsSeq(y.left)
    BY <2>1, <1>1 DEF WorkTypes, IsWork
  <2> QED BY <2>1, <2>2, <2>3, SeqEmpty DEF IsWork
<1>21. /\ work' = [v \in Workers |-> work'[v]]
       /\ work'[w] = y
       /\ \A v \in Workers : v # w => work'[v] = work[v]
  <2>1. work' = [work EXCEPT ![w] = y] /\ work = [v \in Workers |-> work[v]]
    BY <1>1, <1>5, <1>18, Zenon DEF WorkTypes
  <2> QED BY ONLY <2>1, w \in Workers
<1>22. WorkTypes'
  BY <1>1, <1>20, <1>21 DEF WorkTypes
<1>23. FlushInv'
  <2>1. ASSUME NEW v \in Workers, work'[v].flush # 0
        PROVE  v # w /\ work'[v] = work[v]
    BY <2>1, <1>20, <1>21
  <2>2. \A v \in Workers : work'[v].flush # 0 =>
          /\ work'[v].flush \in DOMAIN groups'
          /\ Len(work'[v].ids) = Capacity
          /\ work'[v].off = (work'[v].flush - 1) * Capacity
    BY <2>1, <1>1, <1>12 DEF FlushInv
  <2>3. \A u, v \in Workers : u # v /\ work'[u].flush # 0 => work'[u].flush # work'[v].flush
    BY <2>1, <1>1 DEF FlushInv
  <2> QED BY <2>2, <2>3, <1>5 DEF FlushInv
<1>24. StoredInv'
  <2>1. ~Flushed(n)'
    BY <1>1, <1>2, <1>5, <1>20, <1>21, Zenon DEF Flushed, FlushInv
  <2>2. ASSUME NEW i \in DOMAIN groups, i # n PROVE Flushed(i)' <=> Flushed(i)
    <3>1. i # 0
      BY <1>10
    <3> QED BY <3>1, <2>2, <1>2, <1>20, <1>21 DEF Flushed
  <2>3. ASSUME NEW i \in DOMAIN groups'
        PROVE  IF Flushed(i)'
               THEN groups'[i].num = 0 /\ groups'[i].rows = <<>> /\ groups'[i].next = Capacity
               ELSE groups'[i].num = groups'[i].next /\ Len(groups'[i].rows) = groups'[i].next
    <3>1. CASE i = n
      BY <3>1, <2>1, <1>9, <1>11
    <3>2. CASE i # n
      BY <3>2, <2>2, <2>3, <1>1, <1>11, <1>12, <1>15 DEF StoredInv
    <3> QED BY <3>1, <3>2
  <2> QED BY <2>3 DEF StoredInv
<1>25. StmtInv'
  <2>1. pending' # {}
    <3>1. 1 \in DOMAIN ids
      BY <1>6, SeqFacts, SizeAssumption
    <3> QED BY <3>1, <1>5, Zenon DEF Entries
  <2> QED BY <2>1, <1>1, <1>5 DEF StmtInv
<1>26. IndexInv'
  <2>1. Keeps
    <3>1. ASSUME NEW i \in DOMAIN groups
          PROVE  /\ groups[i].num \in Nat
                 /\ groups'[i].num \in Nat
                 /\ groups[i].num <= groups'[i].num
                 /\ \A row \in 1 .. groups[i].num : groups'[i].rows[row] = groups[i].rows[row]
      <4>1. groups[i].num \in Nat /\ groups'[i].num \in Nat
        BY <1>1, <1>12, <1>14 DEF GroupTypes, IsGroup
      <4>2. CASE i = n
        BY <4>1, <4>2, <1>3, <1>7, <1>9, <1>11, SizeAssumption
      <4>3. CASE i # n
        BY <4>1, <4>3, <1>11
      <4> QED BY <4>2, <4>3
    <3> QED BY <3>1, <1>12 DEF Keeps
  <2>2. ASSUME NEW e \in Entries(ids, work[w].off) PROVE Holds(e)'
    <3>1. PICK none \in Nat : none = old.num
      BY <1>6 DEF IsGroup
    <3>2. groups'[n].num = none + Len(ids) /\ \A i \in 1 .. Len(ids) : groups'[n].rows[none + i] = ids[i]
      BY <3>1, <1>8, <1>11
    <3>3. PICK off : off = work[w].off
      OBVIOUS
    <3>4. off = (n - 1) * Capacity + none
      BY <3>1, <3>3, <1>6, <1>7, SizeAssumption
    <3>5. n \in DOMAIN groups' /\ e \in Entries(ids, off)
      BY <2>2, <3>3, <1>6, <1>12
    <3> QED BY <3>2, <3>4, <3>5, <1>6, EntriesHold, Zenon
  <2> QED BY <2>1, <2>2, <1>1, <1>5, IndexKept
<1> QED BY <1>14, <1>16, <1>17, <1>22, <1>23, <1>24, <1>25, <1>26 DEF IInv

----------------------------------------------------------------------------
(* The steps that append nothing.                                           *)

\* Work that is nothing to do.
LEMMA IdleWork == IsWork(NotWorking) /\ NotWorking.flush = 0 /\ NotWorking.off = 0
<1>1. NotWorking.left = <<>> /\ NotWorking.flush = 0 /\ NotWorking.ids = <<>> /\ NotWorking.off = 0
  BY DEF NotWorking
<1>2. NotWorking = [left |-> NotWorking.left, flush |-> NotWorking.flush,
                    ids |-> NotWorking.ids, off |-> NotWorking.off]
  BY DEF NotWorking
<1> QED BY <1>1, <1>2, SeqEmpty DEF IsWork

\* The groups, the records and the index are as they were, and no worker
\* begins or ends a flush.
LEMMA SameGroups ==
  ASSUME IInv, UNCHANGED <<groups, numTotalRows, undo, index, pending>>,
         stmt # "rollback", stmt' \in {"idle", "copy", "create", "failed"},
         stmt' \in {"idle", "create"} => stmt \in {"idle", "create"},
         WorkTypes', \A w \in Workers : work'[w].flush = work[w].flush,
         \A w \in Workers : work[w].flush # 0 => work'[w] = work[w]
  PROVE  /\ GroupTypes' /\ Packed' /\ StoredInv' /\ FlushInv' /\ IndexInv' /\ Chain'
<1>1. GroupTypes /\ WorkTypes /\ Packed /\ StoredInv /\ FlushInv /\ StmtInv /\ IndexInv /\ Chain
  BY DEF IInv
<1>2. GroupTypes'
  BY <1>1 DEF GroupTypes
<1>3. Packed'
  BY <1>1 DEF Packed, Filled
<1>4. StoredInv'
  <2>1. \A i : Flushed(i)' <=> Flushed(i)
    BY DEF Flushed
  <2> QED BY <2>1, <1>1 DEF StoredInv
<1>5. FlushInv'
  <2>1. \A w \in Workers : work'[w].flush # 0 =>
          /\ work'[w].flush \in DOMAIN groups'
          /\ Len(work'[w].ids) = Capacity
          /\ work'[w].off = (work'[w].flush - 1) * Capacity
    BY <1>1 DEF FlushInv
  <2>2. \A v, w \in Workers : v # w /\ work'[v].flush # 0 => work'[v].flush # work'[w].flush
    BY <1>1 DEF FlushInv
  <2>3. stmt' \in {"idle", "create", "rollback"} => \A w \in Workers : work'[w].flush = 0
    BY <1>1 DEF FlushInv
  <2> QED BY <2>1, <2>2, <2>3 DEF FlushInv
<1>6. IndexInv'
  BY <1>1 DEF IndexInv, Holds
<1>7. Chain'
  BY <1>1 DEF Chain, Filled
<1> QED BY <1>2, <1>3, <1>4, <1>5, <1>6, <1>7

LEMMA KeepStartCopy ==
  ASSUME IInv, NEW sizes \in [Workers -> 0 .. Capacity], StartCopy(sizes)
  PROVE  IInv'
<1>1. stmt = "idle" /\ stmt' = "copy" /\ UNCHANGED <<groups, numTotalRows, undo, index, pending>>
  BY Zenon DEF StartCopy
<1>2. PICK from : work' = [w \in Workers |-> [NotWorking EXCEPT !.left = Fresh(sizes[w], from[w])]]
  <2> DEFINE order == CHOOSE f \in [1 .. Cardinality(Workers) -> Workers] : IsInjective(f)
             before(i) == MapThenSumSet(LAMBDA j : sizes[order[j]], 1 .. i - 1)
             first == [w \in Workers |-> before(CHOOSE i \in DOMAIN order : order[i] = w)]
  <2>1. work' = [w \in Workers |-> [NotWorking EXCEPT !.left = Fresh(sizes[w], before(CHOOSE i \in DOMAIN order : order[i] = w))]]
    BY Zenon DEF StartCopy
  <2> HIDE DEF before, order
  <2>2. \A w \in Workers : first[w] = before(CHOOSE i \in DOMAIN order : order[i] = w)
    OBVIOUS
  <2> HIDE DEF first
  <2>3. work' = [w \in Workers |-> [NotWorking EXCEPT !.left = Fresh(sizes[w], first[w])]]
    BY <2>1, <2>2, SMTT(30)
  <2> QED BY <2>3, Zenon
<1>3. ASSUME NEW w \in Workers PROVE IsWork(work'[w]) /\ work'[w].flush = 0
  <2>1. PICK left : left = Fresh(sizes[w], from[w])
    OBVIOUS
  <2>2. IsSeq(left)
    <3>1. sizes[w] \in Nat
      BY SizeAssumption
    <3>2. left = [i \in 1 .. sizes[w] |-> left[i]]
      BY <2>1 DEF Fresh
    <3> QED BY <3>1, <3>2, FunctionIsSeq
  <2>3. work'[w] = [left |-> left, flush |-> 0, ids |-> <<>>, off |-> 0]
    <3>1. work'[w] = [NotWorking EXCEPT !.left = left]
      BY <1>2, <2>1
    <3> QED BY <3>1 DEF NotWorking
  <2>4. PICK y : y = work'[w]
    OBVIOUS
  <2>5. y.left = left /\ y.flush = 0 /\ y.ids = <<>> /\ y.off = 0
        /\ y = [left |-> y.left, flush |-> y.flush, ids |-> y.ids, off |-> y.off]
    BY <2>3, <2>4
  <2> QED BY <2>2, <2>4, <2>5, SeqEmpty DEF IsWork
<1>4. WorkTypes'
  <2>1. work' = [w \in Workers |-> work'[w]]
    BY <1>2
  <2> QED BY <2>1, <1>3 DEF WorkTypes
<1>5. \A w \in Workers : work[w].flush = 0
  BY <1>1 DEF IInv, FlushInv
<1>6. GroupTypes' /\ Packed' /\ StoredInv' /\ FlushInv' /\ IndexInv' /\ Chain'
  BY <1>1, <1>3, <1>4, <1>5, SameGroups
<1>7. StmtInv'
  BY <1>1, <1>5 DEF IInv, StmtInv
<1> QED BY <1>4, <1>6, <1>7 DEF IInv

LEMMA KeepStartCreate ==
  ASSUME IInv, NEW n \in 1 .. MaxRows, StartCreate(n)
  PROVE  IInv'
<1>1. /\ stmt = "idle" /\ stmt' = "create"
      /\ UNCHANGED <<groups, numTotalRows, undo, index, pending>>
      /\ work' = [work EXCEPT ![Main].left = Fresh(n, 0), ![Main].off = numTotalRows]
  BY DEF StartCreate
<1>2. PICK w \in Workers : w = Main
  BY WorkerAssumption DEF Main
<1>3. PICK left : left = Fresh(n, 0)
  OBVIOUS
<1>4. IsSeq(left)
  <2>1. n \in Nat
    BY SizeAssumption
  <2>2. left = [i \in 1 .. n |-> left[i]]
    BY <1>3 DEF Fresh
  <2> QED BY <2>1, <2>2, FunctionIsSeq
<1>5. PICK z : z = [work EXCEPT ![w].left = left]
  BY Zenon
<1>6. work' = [z EXCEPT ![w].off = numTotalRows]
  BY <1>1, <1>2, <1>3, <1>5, Zenon
<1>7. work = [v \in Workers |-> NotWorking]
  BY <1>1 DEF IInv, StmtInv
<1>8. PICK y : y = [left |-> left, flush |-> 0, ids |-> <<>>, off |-> numTotalRows]
  BY Zenon
<1>9. work' = [work EXCEPT ![w] = y]
  <2>1. z = [work EXCEPT ![w] = [NotWorking EXCEPT !.left = left]]
    BY <1>5, <1>7
  <2>2. z[w] = [left |-> left, flush |-> 0, ids |-> <<>>, off |-> 0]
    BY <2>1, <1>7 DEF NotWorking
  <2>3. work' = [z EXCEPT ![w] = [z[w] EXCEPT !.off = numTotalRows]]
    BY <1>6
  <2>4. [z[w] EXCEPT !.off = numTotalRows] = y
    BY <2>2, <1>8
  <2>5. work' = [z EXCEPT ![w] = y]
    BY <2>3, <2>4, Zenon
  <2> QED BY <2>1, <2>5, <1>7, Zenon
<1>10. work' = [v \in Workers |-> work'[v]] /\ work'[w] = y /\ \A v \in Workers : v # w => work'[v] = NotWorking
  BY <1>7, <1>9
<1>11. IsWork(y) /\ y.flush = 0 /\ y.off = numTotalRows
  <2>1. y.left = left /\ y.flush = 0 /\ y.ids = <<>> /\ y.off = numTotalRows
        /\ y = [left |-> y.left, flush |-> y.flush, ids |-> y.ids, off |-> y.off]
    BY <1>8
  <2>2. numTotalRows \in Nat
    BY DEF IInv, GroupTypes
  <2> QED BY <2>1, <2>2, <1>4, SeqEmpty DEF IsWork
<1>12. WorkTypes'
  BY <1>10, <1>11, IdleWork DEF WorkTypes
<1>13. \A v \in Workers : work[v].flush = 0 /\ work'[v].flush = 0
  BY <1>7, <1>10, <1>11, IdleWork
<1>14. GroupTypes' /\ Packed' /\ StoredInv' /\ FlushInv' /\ IndexInv' /\ Chain'
  BY <1>1, <1>12, <1>13, SameGroups, Zenon
<1>15. StmtInv'
  BY <1>1, <1>2, <1>10, <1>11, <1>13 DEF IInv, StmtInv
<1> QED BY <1>12, <1>14, <1>15 DEF IInv

LEMMA KeepCommit ==
  ASSUME IInv, Commit
  PROVE  IInv'
<1>1. GroupTypes /\ WorkTypes /\ Packed /\ StoredInv /\ FlushInv /\ StmtInv /\ IndexInv /\ Chain
  BY DEF IInv
<1>2. /\ stmt \in {"copy", "create"} /\ stmt' = "idle"
      /\ \A w \in Workers : work[w].flush = 0
      /\ index' = index \cup pending /\ pending' = {}
      /\ undo' = <<>>
      /\ work' = [w \in Workers |-> NotWorking]
      /\ UNCHANGED <<groups, numTotalRows, nextRow>>
  BY DEF Commit, NothingLeft
<1>3. \A w \in Workers : work'[w] = NotWorking /\ work'[w].flush = 0
  BY <1>2, IdleWork
<1>4. GroupTypes'
  BY <1>1, <1>2, SeqEmpty DEF GroupTypes
<1>5. WorkTypes'
  BY <1>2, <1>3, IdleWork DEF WorkTypes
<1>6. Packed'
  BY <1>1, <1>2 DEF Packed, Filled
<1>7. StoredInv'
  <2>1. \A i : Flushed(i)' <=> Flushed(i)
    BY <1>2, <1>3 DEF Flushed
  <2> QED BY <2>1, <1>1, <1>2 DEF StoredInv
<1>8. FlushInv'
  BY <1>3 DEF FlushInv
<1>9. index' = {} => groups' = <<>>
  BY <1>1, <1>2 DEF StmtInv
<1>10. StmtInv'
  BY <1>2, <1>9 DEF StmtInv
<1>11. IndexInv'
  BY <1>1, <1>2 DEF IndexInv, Holds
<1>12. Chain'
  BY <1>2, <1>9 DEF Chain
<1> QED BY <1>4, <1>5, <1>6, <1>7, <1>8, <1>10, <1>11, <1>12 DEF IInv

LEMMA KeepStatementFails ==
  ASSUME IInv, RollbacksEmptyTheTable, StatementFails
  PROVE  IInv'
<1>1. /\ stmt \in {"copy", "create"} /\ stmt' = "failed"
      /\ UNCHANGED <<groups, numTotalRows, undo, work, index, pending, nextRow>>
      /\ index = {}
  BY DEF StatementFails, MayFail, RollbacksEmptyTheTable
<1>2. WorkTypes'
  BY <1>1 DEF IInv, WorkTypes
<1>3. GroupTypes' /\ Packed' /\ StoredInv' /\ FlushInv' /\ IndexInv' /\ Chain'
  BY <1>1, <1>2, SameGroups
<1>4. StmtInv'
  BY <1>1 DEF StmtInv
<1> QED BY <1>2, <1>3, <1>4 DEF IInv

\* When no group is flushed any more, what is stored is what was given away.
LEMMA KeepStartRollback ==
  ASSUME IInv, StartRollback
  PROVE  IInv'
<1>1. GroupTypes /\ WorkTypes /\ Packed /\ StoredInv /\ FlushInv /\ StmtInv /\ IndexInv /\ Chain
  BY DEF IInv
<1>2. /\ stmt = "failed" /\ stmt' = "rollback"
      /\ \A w \in Workers : work[w].flush = 0
      /\ work' = [w \in Workers |-> NotWorking]
      /\ pending' = {}
      /\ UNCHANGED <<groups, numTotalRows, undo, index, nextRow>>
  BY DEF StartRollback
<1>3. \A w \in Workers : work'[w] = NotWorking /\ work'[w].flush = 0
  BY <1>2, IdleWork
<1>4. DOMAIN groups = 1 .. Len(groups) /\ Len(groups) \in Nat /\ (groups = <<>> <=> Len(groups) = 0)
  BY <1>1, SeqFacts DEF GroupTypes
<1>5. \A i \in DOMAIN groups : groups[i].num = groups[i].next /\ Len(groups[i].rows) = groups[i].num
  <2>1. \A i \in DOMAIN groups : ~Flushed(i)
    BY <1>2, <1>4 DEF Flushed
  <2> QED BY <2>1, <1>1, <1>2 DEF StoredInv
<1>6. \A i \in DOMAIN groups : Filled(i)' = Filled(i)
  BY <1>2, <1>5 DEF Filled
<1>7. groups # <<>> => Len(groups) \in DOMAIN groups
  BY <1>4
<1>8. index = {}
  BY <1>1, <1>2 DEF StmtInv
<1>9. GroupTypes'
  BY <1>1, <1>2 DEF GroupTypes
<1>10. WorkTypes'
  BY <1>2, <1>3, IdleWork DEF WorkTypes
<1>11. Packed'
  <2>1. \A i \in DOMAIN groups' : Filled(i)' \in 1 .. Capacity /\ (i < Len(groups') => Filled(i)' = Capacity)
    BY <1>1, <1>2, <1>6 DEF Packed
  <2>2. numTotalRows' = IF groups' = <<>> THEN 0 ELSE (Len(groups') - 1) * Capacity + Filled(Len(groups))'
    BY <1>1, <1>2, <1>6, <1>7 DEF Packed
  <2> QED BY <2>1, <2>2, <1>2 DEF Packed, Filled
<1>12. Chain'
  <2>1. undo # <<>> => undo[Len(undo)].start + undo[Len(undo)].n = groups[Len(groups)].num
    <3>1. undo # <<>> => undo[Len(undo)].start + undo[Len(undo)].n = groups[Len(groups)].next /\ groups # <<>>
      BY <1>1, <1>2, <1>8 DEF Chain, Filled
    <3> QED BY <3>1, <1>5, <1>7
  <2> QED BY <2>1, <1>1, <1>2, <1>8 DEF Chain, Filled
<1>13. StoredInv' /\ FlushInv' /\ StmtInv' /\ IndexInv'
  BY <1>2, <1>3, <1>5, <1>8 DEF StoredInv, FlushInv, StmtInv, IndexInv
<1> QED BY <1>9, <1>10, <1>11, <1>12, <1>13 DEF IInv

LEMMA KeepRolledBack ==
  ASSUME IInv, RolledBack
  PROVE  IInv'
<1>1. GroupTypes /\ WorkTypes /\ Packed /\ StoredInv /\ FlushInv /\ StmtInv /\ IndexInv /\ Chain
  BY DEF IInv
<1>2. /\ stmt = "rollback" /\ stmt' = "idle" /\ undo = <<>>
      /\ UNCHANGED <<groups, numTotalRows, undo, work, index, pending, nextRow>>
  BY DEF RolledBack
<1>3. index = {} /\ groups = <<>> /\ numTotalRows = 0
  BY <1>1, <1>2 DEF StmtInv, Chain, Packed
<1>4. DOMAIN groups = {}
  BY <1>3
<1>5. GroupTypes' /\ WorkTypes'
  BY <1>1, <1>2 DEF GroupTypes, WorkTypes
<1>6. Packed' /\ StoredInv'
  BY <1>2, <1>3, <1>4 DEF Packed, StoredInv
<1>7. FlushInv'
  BY <1>1, <1>2 DEF FlushInv
<1>8. StmtInv' /\ IndexInv'
  BY <1>1, <1>2, <1>3 DEF StmtInv, IndexInv, Holds
<1>9. Chain'
  BY <1>1, <1>2, <1>3 DEF Chain
<1> QED BY <1>5, <1>6, <1>7, <1>8, <1>9 DEF IInv

\* The newest rows of a group are cut off.
LEMMA CutGroup ==
  ASSUME NEW g, IsGroup(g), NEW start \in Nat, NEW n \in Nat, start + n = Len(g.rows)
  PROVE  /\ IsGroup(truncate(g, start, n))
         /\ truncate(g, start, n).num = start
         /\ Len(truncate(g, start, n).rows) = start
<1>1. PICK m, s : m = Len(g.rows) /\ s = g.rows
  BY Zenon
<1>2. IsSeq(s) /\ m = Len(s) /\ m \in Nat /\ g.ends \subseteq 0 .. m /\ start \in 0 .. m
  BY <1>1, SeqFacts DEF IsGroup
<1>3. chunkEnd(g, start + n) = m
  <2>1. {m} \cup {e \in g.ends : e >= m} = {m}
    BY ONLY <1>2
  <2>2. chunkEnd(g, start + n) = Min({m} \cup {e \in g.ends : e >= m})
    BY <1>1, Zenon DEF chunkEnd
  <2>3. chunkEnd(g, start + n) = Min({m})
    BY <2>1, <2>2, Zenon
  <2>4. Min({m}) = m
    BY <1>2 DEF Min
  <2> QED BY <2>3, <2>4, Zenon
<1>4. PICK x, y, z : x = Take(s, start) \o Drop(s, m) /\ y = endsWithout(g, start, m)
                     /\ z = (start # 0 /\ (g.torn \/ leavesValues(g, start)))
  BY Zenon
<1>5. truncate(g, start, n) = [g EXCEPT !.rows = x, !.ends = y, !.torn = z, !.num = start]
  BY <1>1, <1>3, <1>4, Zenon DEF truncate, cut
<1>6. PICK a, b, c, d, e : g = [rows |-> a, ends |-> b, torn |-> c, num |-> d, next |-> e]
  BY Zenon DEF IsGroup
<1>7. truncate(g, start, n) = [rows |-> x, ends |-> y, torn |-> z, num |-> start, next |-> e] /\ e = g.next
  BY <1>5, <1>6, Zenon
<1>8. IsSeq(x) /\ Len(x) = start
  <2>1. IsSeq(Take(s, start)) /\ Len(Take(s, start)) = start
    BY ONLY <1>2, SeqTake
  <2>2. m \in 0 .. Len(s)
    BY <1>2
  <2>3. IsSeq(Drop(s, m)) /\ Len(Drop(s, m)) = Len(s) - m
    BY ONLY <1>2, <2>2, SeqDrop
  <2>4. PICK t, u : t = Take(s, start) /\ u = Drop(s, m)
    BY Zenon
  <2>5. IsSeq(t) /\ IsSeq(u) /\ Len(t) = start /\ Len(u) = 0
    BY <2>1, <2>3, <2>4, <1>2
  <2>6. IsSeq(t \o u) /\ Len(t \o u) = Len(t) + Len(u)
    BY ONLY <2>5, SeqConcat
  <2> QED BY <2>4, <2>5, <2>6, <1>4
<1>9. y \subseteq 0 .. start
  <2>1. y = {e0 \in g.ends : e0 < start} \cup ({start} \ {0}) \cup {e0 - (m - start) : e0 \in {e1 \in g.ends : e1 > m}}
    BY <1>4, Zenon DEF endsWithout
  <2>2. {e1 \in g.ends : e1 > m} = {}
    BY ONLY <1>2
  <2>3. {e0 - (m - start) : e0 \in {e1 \in g.ends : e1 > m}} = {}
    BY <2>2, Zenon
  <2>4. y = {e0 \in g.ends : e0 < start} \cup ({start} \ {0})
    BY <2>1, <2>3, Zenon
  <2> QED BY ONLY <1>2, <2>4
<1>10. PICK h : h = truncate(g, start, n)
  OBVIOUS
<1>11. h.rows = x /\ h.ends = y /\ h.num = start /\ h.next = g.next
       /\ h = [rows |-> h.rows, ends |-> h.ends, torn |-> h.torn, num |-> h.num, next |-> h.next]
  BY <1>7, <1>10
<1>12. IsGroup(h)
  BY <1>8, <1>9, <1>11 DEF IsGroup
<1> QED BY <1>8, <1>10, <1>11, <1>12, Zenon

\* Cutting the last group to its first rows, or away.
LEMMA Cut ==
  ASSUME NEW h, IsSeq(h), NEW n \in Nat \ {0}, Len(h) = n, NEW x, h[n] = x,
         \A i \in 1 .. n - 1 : h[i].num # 0
  PROVE  /\ x.num = 0 => WithoutEmptyTail(h) = Take(h, n - 1)
         /\ x.num # 0 => WithoutEmptyTail(h) = Take(h, n)
<1>4. DOMAIN h = 1 .. n
  BY SeqFacts
<1> DEFINE last == {i \in DOMAIN h : h[i].num # 0}
           top == CHOOSE i \in last : \A j \in last : j <= i
<1>6. x.num = 0 => last = 1 .. n - 1
  BY <1>4
<1>7. x.num # 0 => last = 1 .. n
  BY <1>4
<1>8. WithoutEmptyTail(h) = Take(h, IF last = {} THEN 0 ELSE top)
  BY Zenon DEF WithoutEmptyTail
<1> HIDE DEF last
<1>9. ASSUME NEW m \in Nat, last = 1 .. m PROVE (IF last = {} THEN 0 ELSE top) = m
  <2>1. CASE m = 0
    BY <1>9, <2>1
  <2>2. CASE m # 0
    <3>1. m \in last /\ (\A j \in last : j <= m) /\ last # {}
      BY <1>9, <2>2
    <3>2. \A i \in last : (\A j \in last : j <= i) => i = m
      BY <1>9, <3>1
    <3>3. top = m
      BY <3>1, <3>2, Zenon
    <3> QED BY <3>1, <3>3
  <2> QED BY <2>1, <2>2
<1> HIDE DEF top
<1>10. x.num = 0 => WithoutEmptyTail(h) = Take(h, n - 1)
  <2> SUFFICES ASSUME x.num = 0 PROVE WithoutEmptyTail(h) = Take(h, n - 1)
    OBVIOUS
  <2>1. n - 1 \in Nat /\ last = 1 .. n - 1
    BY <1>6
  <2>2. (IF last = {} THEN 0 ELSE top) = n - 1
    BY <2>1, <1>9, Zenon
  <2> QED BY <2>2, <1>8, Zenon
<1>11. x.num # 0 => WithoutEmptyTail(h) = Take(h, n)
  <2> SUFFICES ASSUME x.num # 0 PROVE WithoutEmptyTail(h) = Take(h, n)
    OBVIOUS
  <2>1. (IF last = {} THEN 0 ELSE top) = n
    BY <1>7, <1>9
  <2> QED BY <2>1, <1>8, Zenon
<1> QED BY <1>10, <1>11

\* The newest record is about the end of the last group: the rollback cuts that
\* group, and drops it with its first record.
LEMMA KeepRollbackInsert ==
  ASSUME IInv, rollbackInsert
  PROVE  IInv'
<1>1. GroupTypes /\ WorkTypes /\ Packed /\ StoredInv /\ FlushInv /\ StmtInv /\ IndexInv /\ Chain
  BY DEF IInv
<1>2. /\ stmt = "rollback" /\ stmt' = "rollback" /\ undo # <<>> /\ undo' = Take(undo, Len(undo) - 1)
      /\ UNCHANGED <<stmt, work, index, pending, nextRow>>
  BY DEF rollbackInsert
<1>3. index = {} /\ pending = {} /\ work = [w \in Workers |-> NotWorking]
  BY <1>1, <1>2 DEF StmtInv
<1>4. PICK m, n : m = Len(undo) /\ n = Len(groups)
  BY Zenon
<1>5. /\ IsSeq(undo) /\ m \in Nat \ {0} /\ DOMAIN undo = 1 .. m
      /\ IsSeq(groups) /\ n \in Nat /\ DOMAIN groups = 1 .. n /\ (groups = <<>> <=> n = 0)
  BY <1>1, <1>2, <1>4, SeqFacts DEF GroupTypes
<1>6. PICK r : r = undo[m]
  OBVIOUS
<1>7. /\ r.n # 0
      /\ m = 1 => r.group = 1 /\ r.start = 0
      /\ m > 1 => Follows(r, undo[m - 1])
      /\ groups # <<>>
      /\ r.group = n
      /\ r.start + r.n = groups[n].num
      /\ r.start \in Nat /\ r.n \in Nat
  <2>1. m \in DOMAIN undo
    BY <1>5
  <2>2. r \in [group : Nat, start : Nat, n : Nat]
    BY <1>1, <1>6, <2>1 DEF GroupTypes
  <2> QED BY <1>1, <1>2, <1>3, <1>4, <1>6, <2>1, <2>2, Zenon DEF Chain, Filled
<1>8. n # 0 /\ n \in DOMAIN groups
  BY <1>5, <1>7
<1>9. /\ \A i \in DOMAIN groups : groups[i].num \in 1 .. Capacity /\ (i < n => groups[i].num = Capacity)
      /\ numTotalRows = (n - 1) * Capacity + groups[n].num
  BY <1>1, <1>2, <1>4, <1>7 DEF Packed, Filled
<1>10. PICK old : old = groups[n]
  OBVIOUS
<1>11. PICK x, h : x = truncate(old, r.start, r.n) /\ h = [groups EXCEPT ![n] = x]
  BY Zenon
<1>12. undo[Len(undo)] = r
  BY <1>4, <1>6
<1>13. groups' = WithoutEmptyTail(h) /\ numTotalRows' = numTotalRows - numRowsToRollback(r)
  <2>1. r.group \in DOMAIN groups
    BY <1>7, <1>8
  <2>2. groups' = WithoutEmptyTail([groups EXCEPT ![r.group] = truncate(@, r.start, r.n)])
        /\ numTotalRows' = numTotalRows - numRowsToRollback(r)
    BY <2>1, <1>12, Zenon DEF rollbackInsert
  <2>3. h = [groups EXCEPT ![r.group] = truncate(@, r.start, r.n)]
    BY <1>7, <1>10, <1>11, Zenon
  <2> QED BY <2>2, <2>3, Zenon
<1>14. IsGroup(old) /\ old.num \in Nat
  BY <1>1, <1>8, <1>10 DEF GroupTypes, IsGroup
<1>15. IsGroup(x) /\ x.num = r.start /\ Len(x.rows) = x.num
  <2>1. Len(old.rows) = old.num /\ r.start + r.n = old.num
    BY <1>1, <1>2, <1>7, <1>8, <1>10 DEF StoredInv
  <2>2. PICK start, n0 : start = r.start /\ n0 = r.n
    OBVIOUS
  <2>3. IsGroup(old) /\ start \in Nat /\ n0 \in Nat /\ start + n0 = Len(old.rows)
    BY <2>1, <2>2, <1>7, <1>14
  <2>4. IsGroup(truncate(old, start, n0)) /\ truncate(old, start, n0).num = start
        /\ Len(truncate(old, start, n0).rows) = start
    BY ONLY <2>3, CutGroup
  <2> QED BY <2>2, <2>4, <1>11, Zenon
<1>16. numRowsToRollback(r) = r.n
  BY <1>7, <1>10, <1>14 DEF numRowsToRollback, Fewer
<1>17. /\ x.num = 0 => WithoutEmptyTail(h) = Take(h, n - 1)
       /\ x.num # 0 => WithoutEmptyTail(h) = Take(h, n)
       /\ IsSeq(h) /\ Len(h) = n /\ h[n] = x /\ \A i \in 1 .. n - 1 : h[i] = groups[i]
  <2>1. h = [groups EXCEPT ![n] = x] /\ n \in DOMAIN groups
    BY <1>8, <1>11
  <2>2. h = [i \in DOMAIN groups |-> h[i]] /\ h[n] = x /\ \A i \in DOMAIN groups : i # n => h[i] = groups[i]
    BY ONLY <2>1, Zenon
  <2>3. IsSeq(h) /\ Len(h) = n
    BY <2>2, <1>4, <1>5, SeqLike
  <2>4. \A i \in 1 .. n - 1 : h[i] = groups[i] /\ h[i].num # 0
    BY <2>2, <1>5, <1>9, SizeAssumption
  <2> QED BY <2>2, <2>3, <2>4, <1>5, <1>8, Cut, Zenon
<1>18. IsSeq(undo') /\ Len(undo') = m - 1 /\ DOMAIN undo' = 1 .. m - 1 /\ \A i \in 1 .. m - 1 : undo'[i] = undo[i]
  <2>1. undo' = SubSeq(undo, 1, m - 1)
    BY <1>2, <1>4 DEF Take
  <2>2. 1 \in 1 .. Len(undo) + 1 /\ m - 1 \in 0 .. Len(undo) /\ 1 <= m - 1 + 1
    BY <1>4, <1>5
  <2>3. /\ IsSeq(undo')
        /\ Len(undo') = m - 1 - 1 + 1
        /\ \A i \in 1 .. m - 1 - 1 + 1 : undo'[i] = undo[1 + i - 1]
    BY <2>1, <2>2, <1>5, SeqSub
  <2>4. IsSeq(undo') /\ Len(undo') = m - 1 /\ \A i \in 1 .. m - 1 : undo'[i] = undo[i]
    BY <2>3, <1>5
  <2> QED BY <2>4, SeqFacts
<1>19. \A i \in DOMAIN undo' :
          /\ undo'[i] \in [group : Nat, start : Nat, n : Nat]
          /\ undo'[i].n # 0 /\ undo'[i].group # 0
          /\ i = 1 => undo'[i].group = 1 /\ undo'[i].start = 0
          /\ i > 1 => Follows(undo'[i], undo'[i - 1])
  <2>1. ASSUME NEW i \in 1 .. m - 1
        PROVE  /\ undo'[i] \in [group : Nat, start : Nat, n : Nat]
               /\ undo'[i].n # 0 /\ undo'[i].group # 0
               /\ i = 1 => undo'[i].group = 1 /\ undo'[i].start = 0
               /\ i > 1 => Follows(undo'[i], undo'[i - 1])
    <3>1. i \in DOMAIN undo /\ undo'[i] = undo[i] /\ (i > 1 => undo'[i - 1] = undo[i - 1])
      BY <1>5, <1>18
    <3> QED BY <3>1, <1>1, <1>3 DEF GroupTypes, Chain
  <2> QED BY <2>1, <1>18
<1>20. numTotalRows' = (n - 1) * Capacity + r.start
  <2>1. (n - 1) * Capacity \in Int
    BY <1>5, SizeAssumption
  <2> QED BY <2>1, <1>7, <1>9, <1>13, <1>16, SMTT(30)
<1>21. m - 1 = 0 \/ (m - 1 \in DOMAIN undo' /\ Follows(r, undo'[m - 1]))
  BY <1>5, <1>7, <1>18
<1>22. ASSUME r.start = 0
       PROVE  /\ IsSeq(groups') /\ \A i \in DOMAIN groups' : IsGroup(groups'[i]) /\ Len(groups'[i].rows) = groups'[i].num
              /\ numTotalRows' \in Nat
              /\ Packed' /\ Chain'
  <2>1. groups' = Take(h, n - 1)
    BY <1>13, <1>15, <1>17, <1>22
  <2>2. IsSeq(groups') /\ Len(groups') = n - 1 /\ DOMAIN groups' = 1 .. n - 1 /\ \A i \in 1 .. n - 1 : groups'[i] = groups[i]
    <3>1. n - 1 \in 0 .. Len(h)
      BY <1>5, <1>8, <1>17
    <3>2. IsSeq(groups') /\ Len(groups') = n - 1 /\ \A i \in 1 .. n - 1 : groups'[i] = h[i]
      BY <2>1, <3>1, <1>17, SeqTake
    <3> QED BY <3>2, <1>17, SeqFacts
  <2>3. \A i \in 1 .. n - 1 : i \in DOMAIN groups /\ groups'[i].num = Capacity
    BY <2>2, <1>5, <1>9
  <2>4. (groups' = <<>> <=> n - 1 = 0) /\ (undo' = <<>> <=> m - 1 = 0)
    BY <2>2, <1>18, SeqFacts, Zenon
  <2>5. m - 1 = 0 <=> n - 1 = 0
    <3>1. CASE m = 1
      BY <3>1, <1>7
    <3>2. CASE m # 1
      <4>1. m - 1 \in DOMAIN undo /\ r.group = undo[m - 1].group + 1
        BY <3>2, <1>5, <1>7, <1>22 DEF Follows
      <4>2. undo[m - 1].group # 0
        <5>1. undo[m - 1].group \in Nat
          BY <4>1, <1>1 DEF GroupTypes
        <5> QED BY <5>1, <4>1, <1>1, <1>3, <1>5 DEF Chain
      <4> QED BY <3>2, <4>1, <4>2, <1>1, <1>5, <1>7 DEF GroupTypes
    <3> QED BY <3>1, <3>2
  <2>6. m - 1 # 0 => undo'[m - 1].group = n - 1 /\ undo'[m - 1].start + undo'[m - 1].n = Capacity
    <3> SUFFICES ASSUME m - 1 # 0
                 PROVE  undo'[m - 1].group = n - 1 /\ undo'[m - 1].start + undo'[m - 1].n = Capacity
      OBVIOUS
    <3>1. r.group = undo'[m - 1].group + 1 /\ undo'[m - 1].start + undo'[m - 1].n = Capacity
      BY <1>21, <1>22 DEF Follows
    <3>2. undo'[m - 1].group \in Nat
      BY <1>19, <1>21
    <3> QED BY <3>1, <3>2, <1>5, <1>7, SMTT(20)
  <2>7. Packed'
    <3>1. \A i \in DOMAIN groups' : groups'[i].num \in 1 .. Capacity /\ (i < Len(groups') => groups'[i].num = Capacity)
      BY <2>2, <2>3, SizeAssumption
    <3>2. numTotalRows' = IF groups' = <<>> THEN 0 ELSE (Len(groups') - 1) * Capacity + groups'[Len(groups')].num
      <4>1. CASE n = 1
        BY <4>1, <2>4, <1>20, <1>22, SizeAssumption
      <4>2. CASE n # 1
        <5>1. groups' # <<>> /\ Len(groups') = n - 1 /\ n - 1 \in 1 .. n - 1
          BY <4>2, <2>2, <2>4, <1>5, <1>8
        <5>2. groups'[n - 1].num = Capacity
          BY <5>1, <2>3
        <5>3. (n - 1) * Capacity = (n - 1 - 1) * Capacity + Capacity
          BY <1>5, SizeAssumption
        <5>4. numTotalRows' = (n - 1) * Capacity
          BY <1>5, <1>20, <1>22, SizeAssumption
        <5> QED BY <5>1, <5>2, <5>3, <5>4
      <4> QED BY <4>1, <4>2
    <3> QED BY <3>1, <3>2, <1>2 DEF Packed, Filled
  <2>8. Chain'
    <3>1. undo' = <<>> <=> groups' = <<>>
      BY <2>4, <2>5
    <3>2. undo' # <<>> => /\ undo'[Len(undo')].group = Len(groups')
                          /\ undo'[Len(undo')].start + undo'[Len(undo')].n = groups'[Len(groups')].num
      <4> SUFFICES ASSUME undo' # <<>>
                   PROVE  /\ undo'[Len(undo')].group = Len(groups')
                          /\ undo'[Len(undo')].start + undo'[Len(undo')].n = groups'[Len(groups')].num
        OBVIOUS
      <4>1. m - 1 # 0 /\ n - 1 # 0
        BY <2>4, <2>5
      <4>2. groups'[n - 1].num = Capacity
        BY <4>1, <2>3, <1>5, <1>8
      <4> QED BY <4>1, <4>2, <2>2, <2>6, <1>18
    <3> QED BY <3>1, <3>2, <1>2, <1>19 DEF Chain, Filled
  <2>9. \A i \in DOMAIN groups' : IsGroup(groups'[i]) /\ Len(groups'[i].rows) = groups'[i].num
    BY <2>2, <2>3, <1>1, <1>2 DEF GroupTypes, StoredInv
  <2>10. numTotalRows' \in Nat
    <3>1. (n - 1) * Capacity \in Nat
      BY <1>5, <1>8, SizeAssumption
    <3> QED BY <3>1, <1>7, <1>20
  <2> QED BY <2>2, <2>7, <2>8, <2>9, <2>10
<1>23. ASSUME r.start # 0
       PROVE  /\ IsSeq(groups') /\ \A i \in DOMAIN groups' : IsGroup(groups'[i]) /\ Len(groups'[i].rows) = groups'[i].num
              /\ numTotalRows' \in Nat
              /\ Packed' /\ Chain'
  <2>1. groups' = Take(h, n)
    BY <1>13, <1>15, <1>17, <1>23
  <2>2. /\ IsSeq(groups') /\ Len(groups') = n /\ DOMAIN groups' = 1 .. n
        /\ groups'[n] = x /\ \A i \in 1 .. n - 1 : groups'[i] = groups[i]
    <3>1. n \in 0 .. Len(h)
      BY <1>5, <1>17
    <3>2. IsSeq(groups') /\ Len(groups') = n /\ \A i \in 1 .. n : groups'[i] = h[i]
      BY <2>1, <3>1, <1>17, SeqTake, SMTT(20)
    <3> QED BY <3>2, <1>5, <1>8, <1>17, SeqFacts
  <2>3. groups'[n].num = r.start /\ r.start \in 1 .. Capacity
    <3>1. groups[n].num \in 1 .. Capacity
      BY <1>8, <1>9
    <3> QED BY <3>1, <2>2, <1>7, <1>15, <1>23, SizeAssumption
  <2>4. \A i \in DOMAIN groups' : groups'[i].num \in 1 .. Capacity /\ (i < n => groups'[i].num = Capacity)
    <3>1. ASSUME NEW i \in 1 .. n
          PROVE  groups'[i].num \in 1 .. Capacity /\ (i < n => groups'[i].num = Capacity)
      <4>1. CASE i = n
        BY <4>1, <2>3
      <4>2. CASE i # n
        BY <4>2, <2>2, <3>1, <1>5, <1>9
      <4> QED BY <4>1, <4>2
    <3> QED BY <3>1, <2>2
  <2>5. m - 1 # 0 /\ Follows(r, undo'[m - 1])
    BY <1>5, <1>7, <1>21, <1>23
  <2>6. groups' # <<>> /\ undo' # <<>>
    BY <2>2, <2>5, <1>8, <1>18, SeqFacts, Zenon
  <2>7. Packed'
    BY <2>2, <2>3, <2>4, <2>6, <1>2, <1>20 DEF Packed, Filled
  <2>8. undo'[m - 1].group = n /\ undo'[m - 1].start + undo'[m - 1].n = r.start
    BY <2>5, <1>7, <1>23 DEF Follows
  <2>9. Chain'
    <3>1. /\ undo'[Len(undo')].group = Len(groups')
          /\ undo'[Len(undo')].start + undo'[Len(undo')].n = groups'[Len(groups')].num
      BY <2>2, <2>3, <2>8, <1>18
    <3> QED BY <3>1, <2>6, <1>2, <1>19 DEF Chain, Filled
  <2>10. \A i \in DOMAIN groups' : IsGroup(groups'[i]) /\ Len(groups'[i].rows) = groups'[i].num
    <3>1. ASSUME NEW i \in 1 .. n PROVE IsGroup(groups'[i]) /\ Len(groups'[i].rows) = groups'[i].num
      <4>1. CASE i = n
        BY <4>1, <2>2, <1>15
      <4>2. CASE i # n
        BY <4>2, <2>2, <3>1, <1>1, <1>2, <1>5, SMTT(30) DEF GroupTypes, StoredInv
      <4> QED BY <4>1, <4>2
    <3> QED BY <3>1, <2>2
  <2>11. numTotalRows' \in Nat
    <3>1. (n - 1) * Capacity \in Nat
      BY <1>5, <1>8, SizeAssumption
    <3> QED BY <3>1, <1>7, <1>20
  <2> QED BY <2>2, <2>7, <2>9, <2>10, <2>11
<1>24. IsSeq(groups') /\ (\A i \in DOMAIN groups' : IsGroup(groups'[i]) /\ Len(groups'[i].rows) = groups'[i].num) /\ numTotalRows' \in Nat /\ Packed' /\ Chain'
  BY <1>22, <1>23
<1>25. GroupTypes'
  BY <1>2, <1>18, <1>19, <1>24 DEF GroupTypes
<1>26. WorkTypes' /\ StoredInv' /\ StmtInv' /\ IndexInv'
  BY <1>1, <1>2, <1>3, <1>24 DEF WorkTypes, StoredInv, StmtInv, IndexInv
<1>27. FlushInv'
  <2>1. \A w \in Workers : work'[w].flush = 0
    BY <1>2, <1>3, IdleWork
  <2> QED BY <2>1 DEF FlushInv
<1> QED BY <1>24, <1>25, <1>26, <1>27 DEF IInv

----------------------------------------------------------------------------
(* The theorem.                                                             *)

LEMMA InitInv ==
  ASSUME Init
  PROVE  IInv
<1>1. /\ groups = <<>> /\ numTotalRows = 0 /\ undo = <<>> /\ stmt = "idle"
      /\ work = [w \in Workers |-> NotWorking] /\ index = {} /\ pending = {}
  BY DEF Init
<1>2. \A w \in Workers : work[w] = NotWorking /\ work[w].flush = 0
  BY <1>1, IdleWork
<1>3. GroupTypes
  BY <1>1, SeqEmpty DEF GroupTypes
<1>4. WorkTypes
  BY <1>1, <1>2, IdleWork DEF WorkTypes
<1>5. Packed /\ StoredInv /\ Chain
  BY <1>1 DEF Packed, StoredInv, Chain
<1>6. FlushInv
  BY <1>2 DEF FlushInv
<1>7. StmtInv /\ IndexInv
  BY <1>1 DEF StmtInv, IndexInv
<1> QED BY <1>3, <1>4, <1>5, <1>6, <1>7 DEF IInv

LEMMA NextInv ==
  ASSUME IInv, RollbacksEmptyTheTable, [Next]_vars
  PROVE  IInv'
<1>1. CASE UNCHANGED vars
  <2>1. UNCHANGED <<groups, numTotalRows, undo, stmt, work, index, pending>>
    BY <1>1 DEF vars
  <2>2. GroupTypes' /\ WorkTypes'
    BY <2>1 DEF IInv, GroupTypes, WorkTypes
  <2>3. Packed'
    BY <2>1 DEF IInv, Packed, Filled
  <2>7. StoredInv'
    BY <2>1 DEF IInv, StoredInv, Flushed
  <2>4. FlushInv'
    BY <2>1 DEF IInv, FlushInv
  <2>5. StmtInv' /\ IndexInv'
    BY <2>1 DEF IInv, StmtInv, IndexInv, Holds
  <2>6. Chain'
    BY <2>1 DEF IInv, Chain, Filled
  <2> QED BY <2>2, <2>3, <2>4, <2>5, <2>6, <2>7 DEF IInv
<1>2. CASE Start
  BY <1>2, KeepStartCopy, KeepStartCreate DEF Start
<1>3. CASE Step
  BY <1>3, KeepAppendToLast, KeepFlushGroup, KeepAppendLocal, KeepCommit, KeepStartRollback,
     KeepRollbackInsert, KeepRolledBack DEF Step
<1>4. CASE Fault
  <2>1. ~MayFail("append")
    BY SMTT(30) DEF MayFail, RollbacksEmptyTheTable
  <2>2. StatementFails
    BY <1>4, <2>1 DEF Fault, AppendToLastFails, FlushFails, AppendLocalFails
  <2> QED BY <2>2, KeepStatementFails
<1>5. CASE Exhausted
  BY <1>1, <1>5 DEF Exhausted
<1> QED BY <1>1, <1>2, <1>3, <1>4, <1>5 DEF Next

\* An offset leads to its group and its row.
LEMMA OffsetOfRow ==
  ASSUME NEW g \in Nat \ {0}, NEW row \in 1 .. Capacity, NEW off, off = (g - 1) * Capacity + row - 1
  PROVE  off \div Capacity + 1 = g /\ (off % Capacity) + 1 = row
<1>1. PICK q \in Nat, r \in Nat : q = g - 1 /\ r = row - 1 /\ r < Capacity
  BY SizeAssumption
<1>2. off = q * Capacity + r
  BY <1>1, SizeAssumption
<1>3. off \div Capacity = q /\ off % Capacity = r
  BY <1>1, <1>2, SizeAssumption
<1> QED BY <1>1, <1>3

LEMMA HeldMatches ==
  ASSUME IInv
  PROVE  OffsetsMatch
<1> SUFFICES ASSUME NEW e \in index
             PROVE  LET g == e[2] \div Capacity + 1
                        row == (e[2] % Capacity) + 1
                    IN  /\ g \in DOMAIN groups
                        /\ row \in DOMAIN Stored(g)
                        /\ Stored(g)[row] = e[1]
  BY DEF OffsetsMatch
<1>1. GroupTypes /\ Packed /\ StoredInv /\ Holds(e) /\ stmt # "rollback"
  BY DEF IInv, IndexInv, StmtInv
<1>2. PICK g \in DOMAIN groups : \E row \in 1 .. groups[g].num :
          e[2] = (g - 1) * Capacity + row - 1 /\ groups[g].rows[row] = e[1]
  BY <1>1 DEF Holds
<1>3. PICK row \in 1 .. groups[g].num :
          e[2] = (g - 1) * Capacity + row - 1 /\ groups[g].rows[row] = e[1]
  BY <1>2
<1>4. g \in Nat \ {0}
  BY <1>1, SeqFacts DEF GroupTypes
<1>5. groups[g].num \in Nat /\ IsSeq(groups[g].rows)
  BY <1>1 DEF GroupTypes, IsGroup
<1>6. groups[g].num <= Capacity /\ groups[g].num = Len(groups[g].rows)
  <2>1. groups[g].next \in 1 .. Capacity
    BY <1>1 DEF Packed, Filled
  <2>2. ~Flushed(g)
    BY <1>1, <1>3, <1>5 DEF StoredInv
  <2> QED BY <2>1, <2>2, <1>1, SizeAssumption DEF StoredInv
<1>7. e[2] \div Capacity + 1 = g /\ (e[2] % Capacity) + 1 = row
  <2>1. row \in 1 .. Capacity
    BY <1>3, <1>5, <1>6, SizeAssumption
  <2>2. PICK off : off = e[2]
    OBVIOUS
  <2>3. off \div Capacity + 1 = g /\ (off % Capacity) + 1 = row
    BY <2>1, <2>2, <1>3, <1>4, OffsetOfRow
  <2> QED BY <2>2, <2>3
<1>8. row \in DOMAIN Stored(g) /\ Stored(g)[row] = e[1]
  <2>1. PICK s, k : s = groups[g].rows /\ k = groups[g].num
    OBVIOUS
  <2>2. IsSeq(s) /\ k \in 0 .. Len(s) /\ row \in 1 .. k /\ s[row] = e[1]
    BY <2>1, <1>3, <1>5, <1>6
  <2>3. IsSeq(Take(s, k)) /\ Len(Take(s, k)) = k /\ \A i \in 1 .. k : Take(s, k)[i] = s[i]
    BY <2>2, SeqTake
  <2>4. DOMAIN Take(s, k) = 1 .. k
    BY <2>3, SeqFacts
  <2> QED BY <2>1, <2>2, <2>3, <2>4, Zenon DEF Stored
<1> QED BY <1>7, <1>8

\* NodeGroupCollection: committed rows are where the primary-key index says, for
\* any capacity, workers, chunk sizes and interleaving of the workers' appends and
\* flushes, in a table whose statements fail only while nothing is committed.
THEOREM RowsStayAtTheirOffsets == Spec => []OffsetsMatch
<1> DEFINE Inv == RollbacksEmptyTheTable => IInv
<1>1. Init => Inv
  BY InitInv
<1>2. Inv /\ [Next]_vars => Inv'
  <2>1. [Next]_vars => mode' = mode
    BY DEF Next, Start, Step, Fault, Exhausted, vars
  <2>2. mode' = mode => (RollbacksEmptyTheTable' <=> RollbacksEmptyTheTable)
    BY DEF RollbacksEmptyTheTable
  <2> QED BY <2>1, <2>2, NextInv
<1>3. Inv => OffsetsMatch
  BY HeldMatches DEF OffsetsMatch
<1> QED BY <1>1, <1>2, <1>3, PTL DEF Spec

=============================================================================
