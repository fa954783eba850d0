----------------------- MODULE CheckpointRecoverySteps ------------------------
(***************************************************************************)
(* Whatever faults of the tolerated kinds happen, in whatever order, the   *)
(* files of the database always hold a good state: the acknowledged        *)
(* commits, in commit order.  The invariant says at each label of the      *)
(* program which files hold it: the data file followed by the WAL, or,     *)
(* once the WAL ends with a CHECKPOINT record, the shadow file.  From it   *)
(* follow the invariants of CheckpointRecovery and the refinement of       *)
(* DurableDatabase, for every number of commits.                           *)
(***************************************************************************)
EXTENDS CheckpointRecovery, SequenceTheorems, TLAPS

(***************************************************************************)
(* The labels at which a process is running: while the WAL has no          *)
(* CHECKPOINT record, while it ends with one, and once it is emptied.      *)
(***************************************************************************)
Quiet ==
    {"open", "commit", "commitSync", "storage", "header", "flush", "flushing", "log", "logFlush"}
Logged == {"logSync", "applyBody", "applyHeader", "syncData", "clearWAL"}
Cleared == {"clearShadow", "removeWAL", "removeShadow"}
Running == Quiet \union Logged \union Cleared

(***************************************************************************)
(* States of the database.                                                 *)
(***************************************************************************)
Includes(s, T) == \A t \in T : \E i \in 1..Len(s) : s[i] = t

\* Transactions up to n, in commit order, those of T among them.
Good(s, n, T) ==
    s \in States /\ Ordered(s) /\ (\A i \in 1..Len(s) : s[i] \in 1..n) /\ Includes(s, T)

\* s is a prefix of t.
Begins(s, t) == Len(s) <= Len(t) /\ \A i \in 1..Len(s) : t[i] = s[i]

\* The last transaction whose records may be in the WAL.
LastTxn == IF pc = "commitSync" THEN nextTxn ELSE nextTxn - 1

\* The pages of d belong together, and the pages its header refers to are in f.
Whole(d, f) == d.body = d.header /\ d.header \in f

(***************************************************************************)
(* The inductive invariant, by the variables it is about.                  *)
(***************************************************************************)
ClientInv ==
    /\ pc \in CommitLabels => nextTxn <= MaxTxns
    /\ acked \subseteq 1..(nextTxn - 1) /\ refused \subseteq 1..(nextTxn - 1)
    /\ pc \notin CheckpointLabels => forcing = 0
    /\ forcing < nextTxn

\* A WAL starts with its header, unless it is empty or torn in the header.
LogForm(w) ==
    /\ ~w.more /\ (~w.commits => w.txns = <<>>)
    /\ ~w.header => ~w.commits /\ (w = EmptyLog \/ w.stop = "torn")

\* How the WAL ends, label by label.
WALInv ==
    /\ LogForm(wal) /\ LogForm(walDisk)
    /\ walDisk.stop # "end" => walDisk = wal
    /\ ~walExists => wal = EmptyLog /\ walDisk = EmptyLog
    /\ pc \in Quiet \union Cleared => wal.stop = "end"
    /\ pc \in Logged \union {"replayBody", "replayHeader", "dropShadow", "dropWAL"} =>
          wal.stop = "checkpoint"
    /\ pc \in Logged \ {"logSync"} => walDisk = wal
    /\ pc = "replayWAL" => wal.stop # "checkpoint" /\ walExists
    /\ pc \in Cleared \union {"removeEmptyWAL", "readCheckpoint"} => wal = EmptyLog
    /\ pc \in Cleared => walDisk = EmptyLog

\* p is one record to follow w, after the header if w is empty.
IsRecord(p, w, txns, stop) ==
    /\ (p.header <=> w = EmptyLog) /\ p.txns = txns
    /\ (p.commits <=> stop = "end") /\ p.stop = stop /\ ~p.more

\* The writer holds records only between the logging of them and the flush, so nothing
\* is left in it that a later flush would write a second time.
WriterInv ==
    /\ pc = "commit" => IsRecord(pending, wal, Redone(nextTxn), "end")
    /\ pc = "logFlush" => IsRecord(pending, wal, <<>>, "checkpoint")
    /\ pc \notin {"commit", "logFlush"} => pending = EmptyLog
    /\ pc \in {"commit", "logFlush"} => walExists
    /\ pc \notin Running \/ pc = "removeShadow" => ~walOpen
    /\ walOpen /\ pc \in Quiet \ {"commit", "logFlush"} => wal.header

\* Without a CHECKPOINT record: the data file followed by the WAL.
QuietFiles ==
    /\ Whole(data, fresh)
    /\ Good(data.header \o wal.txns, LastTxn, acked)
    /\ PowerLossAt # {} => /\ dataDisk = data /\ data.header \in freshDisk
                           /\ Good(data.header \o walDisk.txns, LastTxn, acked)
                           /\ Begins(walDisk.txns, wal.txns)

\* With one: the shadow file, whatever has been applied of it.
CheckpointFiles ==
    /\ shadow.state = "complete" /\ Whole(shadow, fresh)
    /\ Good(shadow.header, nextTxn - 1, acked)
    /\ PowerLossAt # {} /\ pc \notin Applying =>
          /\ data = [body |-> shadow.header, header |-> shadow.header] /\ dataDisk = data
          /\ shadow.header \in freshDisk /\ shadowDisk = shadow /\ walDisk = wal

\* With one whose shadow file recovery has removed: the data file.
DroppedFiles ==
    /\ Whole(data, fresh) /\ Good(data.header, nextTxn - 1, acked)
    /\ PowerLossAt # {} => dataDisk = data /\ data.header \in freshDisk

FileInv ==
    /\ wal.stop # "checkpoint" => QuietFiles
    /\ wal.stop = "checkpoint" /\ pc # "dropWAL" => CheckpointFiles
    /\ pc = "dropWAL" => DroppedFiles
    /\ pc \in {"applyHeader", "replayHeader"} => data.body = shadow.body
    /\ pc \in {"syncData", "clearWAL", "dropShadow"} =>
          data = [body |-> shadow.header, header |-> shadow.header]
    /\ pc \in Applying => shadowDisk = shadow
    /\ pc = "commitSync" /\ nextTxn \notin Copies => Includes(data.header \o wal.txns, {nextTxn})

\* What memory holds, and what a checkpoint has copied of it.
MemInv ==
    /\ pc \in Running => Good(mem, nextTxn - 1, acked)
    /\ pc \in CheckpointLabels /\ forcing # 0 => Includes(mem, {forcing})
    /\ pc \in {"header", "flush", "flushing", "log", "logFlush"} =>
          mem \in fresh /\ shadowPages.body = mem
    /\ pc \in {"flush", "flushing"} => shadowPages.header = mem
    /\ pc \in {"log", "logFlush"} =>
          shadow = [state |-> "complete", body |-> mem, header |-> mem] /\ shadowDisk = shadow
    /\ pc \in Logged => shadow.header = mem
    /\ pc \in Cleared => data.header = mem
    /\ pc = "failed" => throwOnWalReplayFailure

\* The transactions of m are in s, but for COPYs that are not in T.
Saved(s, m, T) ==
    Elements(s) \subseteq Elements(m) /\ Elements(m) \ Elements(s) \subseteq Copies \ T

\* Memory agrees with the files, as long as no sync of a commit fails: such a commit is
\* refused, but its records are in the WAL.
SyncInv ==
    /\ pc \in Quiet \ {"commitSync"} => Saved(data.header \o wal.txns, mem, acked)
    /\ pc = "commitSync" => Saved(data.header \o wal.txns, Append(mem, nextTxn), acked)
    /\ refused = {}

IInv ==
    /\ TypeOK /\ ClientInv /\ WALInv /\ WriterInv /\ FileInv /\ MemInv
    /\ ("commitSync" \notin IOFaults => SyncInv)

(***************************************************************************)
(* Good states, and sequences of transactions.                             *)
(***************************************************************************)

\* A commit extends a good state.
LEMMA GoodAppend ==
    ASSUME NEW s, NEW n \in 1..MaxTxns, NEW T, Good(s, n - 1, T)
    PROVE  Good(Append(s, n), n, T)
<1> USE BoundAssumption
<1>1. s \in States /\ n \in 0..MaxTxns
  BY DEF Good
<1>2. Append(s, n) \in States
  BY <1>1, AppendProperties DEF States
<1>3. Len(Append(s, n)) = Len(s) + 1 /\ Len(s) \in Nat
  BY <1>1, AppendProperties, LenProperties DEF States
<1>4. \A i \in 1..Len(s) : Append(s, n)[i] = s[i]
  BY <1>1, AppendProperties DEF States
<1>5. Append(s, n)[Len(s) + 1] = n
  BY <1>1, AppendProperties DEF States
<1>6. \A i \in 1..Len(s) : s[i] \in 1..(n - 1)
  BY DEF Good
<1>7. Ordered(Append(s, n))
  <2>1. SUFFICES ASSUME NEW i \in 1..(Len(s) + 1), NEW j \in 1..(Len(s) + 1), i < j
                 PROVE  Append(s, n)[i] < Append(s, n)[j]
    BY <1>3 DEF Ordered
  <2>2. CASE j = Len(s) + 1
    BY <1>3, <1>4, <1>5, <1>6, <2>1, <2>2
  <2>3. CASE j # Len(s) + 1
    <3>1. i \in 1..Len(s) /\ j \in 1..Len(s)
      BY <1>3, <2>1, <2>3
    <3>2. s[i] < s[j]
      BY <2>1, <3>1 DEF Good, Ordered
    <3> QED
      BY <1>4, <3>1, <3>2
  <2> QED
    BY <2>2, <2>3
<1>8. \A i \in 1..Len(Append(s, n)) : Append(s, n)[i] \in 1..n
  BY <1>3, <1>4, <1>5, <1>6
<1>9. Includes(Append(s, n), T)
  BY <1>3, <1>4 DEF Good, Includes
<1> QED
  BY <1>2, <1>7, <1>8, <1>9 DEF Good

LEMMA GoodWeaken ==
    ASSUME NEW s, NEW n \in Nat, NEW m \in Nat, NEW T, Good(s, n, T), n <= m
    PROVE  Good(s, m, T)
<1>1. Len(s) \in Nat /\ \A i \in 1..Len(s) : s[i] \in 1..n
  BY LenProperties DEF Good, States
<1> QED
  BY <1>1 DEF Good

\* Commits that are in the state may be acknowledged.
LEMMA GoodAcknowledge ==
    ASSUME NEW s, NEW n, NEW T, NEW U, Good(s, n, T), Includes(s, U)
    PROVE  Good(s, n, T \union U)
BY DEF Good, Includes

LEMMA AppendElements ==
    ASSUME NEW s \in States, NEW t \in 0..MaxTxns
    PROVE  Elements(Append(s, t)) = Elements(s) \union {t} /\ Includes(Append(s, t), {t})
<1>1. /\ Len(Append(s, t)) = Len(s) + 1 /\ Len(s) \in Nat /\ Append(s, t)[Len(s) + 1] = t
      /\ \A i \in 1..Len(s) : Append(s, t)[i] = s[i]
  BY AppendProperties, LenProperties DEF States
<1>2. Includes(Append(s, t), {t})
  BY <1>1 DEF Includes
<1>3. ASSUME NEW e \in Elements(Append(s, t)) PROVE e \in Elements(s) \union {t}
  <2>1. PICK i \in 1..(Len(s) + 1) : e = Append(s, t)[i]
    BY <1>1, <1>3 DEF Elements
  <2> QED
    BY <1>1, <2>1 DEF Elements
<1>4. ASSUME NEW e \in Elements(s) PROVE e \in Elements(Append(s, t))
  <2>1. PICK i \in 1..Len(s) : e = s[i]
    BY <1>4 DEF Elements
  <2>2. i \in 1..(Len(s) + 1)
    BY <1>1
  <2> QED
    BY <1>1, <2>1, <2>2 DEF Elements
<1>5. t \in Elements(Append(s, t))
  BY <1>1 DEF Elements
<1> QED
  BY <1>2, <1>3, <1>4, <1>5

\* What is between two good states with the same beginning is good.
LEMMA GoodBetween ==
    ASSUME NEW s \in States, NEW d \in States, NEW w \in States, NEW q \in States, NEW n, NEW T,
           Good(s \o d, n, T), Good(s \o w, n, {}), Begins(d, q), Begins(q, w)
    PROVE  Good(s \o q, n, T)
<1>1. /\ Len(s) \in Nat /\ Len(d) \in Nat /\ Len(w) \in Nat /\ Len(q) \in Nat
      /\ Len(d) <= Len(q) /\ Len(q) <= Len(w)
  BY LenProperties DEF States, Begins
<1>2. /\ Len(s \o d) = Len(s) + Len(d) /\ Len(s \o w) = Len(s) + Len(w)
      /\ Len(s \o q) = Len(s) + Len(q) /\ s \o q \in States
  BY ConcatProperties DEF States
<1>3. ASSUME NEW i \in 1..(Len(s) + Len(q)) PROVE (s \o q)[i] = (s \o w)[i]
  <2>1. (s \o q)[i] = IF i <= Len(s) THEN s[i] ELSE q[i - Len(s)]
    BY <1>1, ConcatProperties DEF States
  <2>2. i \in 1..(Len(s) + Len(w))
    BY <1>1
  <2>3. (s \o w)[i] = IF i <= Len(s) THEN s[i] ELSE w[i - Len(s)]
    BY <1>1, <2>2, ConcatProperties DEF States
  <2>4. i > Len(s) => i - Len(s) \in 1..Len(q)
    BY <1>1
  <2> QED
    BY <2>1, <2>3, <2>4 DEF Begins
<1>4. ASSUME NEW i \in 1..(Len(s) + Len(d)) PROVE (s \o q)[i] = (s \o d)[i]
  <2>1. (s \o d)[i] = IF i <= Len(s) THEN s[i] ELSE d[i - Len(s)]
    BY <1>1, ConcatProperties DEF States
  <2>2. i \in 1..(Len(s) + Len(q))
    BY <1>1
  <2>3. (s \o q)[i] = IF i <= Len(s) THEN s[i] ELSE q[i - Len(s)]
    BY <1>1, <2>2, ConcatProperties DEF States
  <2>4. i > Len(s) => i - Len(s) \in 1..Len(d)
    BY <1>1
  <2> QED
    BY <2>1, <2>3, <2>4 DEF Begins
<1>5. \A i \in 1..(Len(s) + Len(q)) : i \in 1..(Len(s) + Len(w))
  BY <1>1
<1>6. Ordered(s \o q) /\ \A i \in 1..Len(s \o q) : (s \o q)[i] \in 1..n
  BY <1>2, <1>3, <1>5 DEF Good, Ordered
<1>7. Includes(s \o q, T)
  <2>1. \A i \in 1..(Len(s) + Len(d)) : i \in 1..(Len(s) + Len(q))
    BY <1>1
  <2> QED
    BY <1>2, <1>4, <2>1 DEF Good, Includes
<1> QED
  BY <1>2, <1>6, <1>7 DEF Good

LEMMA BeginsSelf ==
    ASSUME NEW s \in States
    PROVE  Begins(s, s)
BY LenProperties DEF States, Begins

LEMMA BeginsConcat ==
    ASSUME NEW d \in States, NEW w \in States, NEW r \in States, Begins(d, w)
    PROVE  Begins(d, w) /\ Begins(w, w) /\ Begins(d, w \o r)
<1>1. Len(d) \in Nat /\ Len(w) \in Nat /\ Len(r) \in Nat
  BY LenProperties DEF States
<1>2. Len(w \o r) = Len(w) + Len(r) /\ \A i \in 1..Len(w) : (w \o r)[i] = w[i]
  <2>1. \A i \in 1..Len(w) : i \in 1..(Len(w) + Len(r)) /\ i <= Len(w)
    BY <1>1
  <2> QED
    BY <2>1, ConcatProperties DEF States
<1>3. \A i \in 1..Len(d) : i \in 1..Len(w)
  BY <1>1 DEF Begins
<1> QED
  BY <1>1, <1>2, <1>3 DEF Begins

(***************************************************************************)
(* Pieces of WAL.                                                          *)
(***************************************************************************)

LEMMA ConcatEmpty ==
    ASSUME NEW w
    PROVE  Concat(EmptyLog, w) = w /\ Concat(w, EmptyLog) = w
BY DEF Concat

\* Records written after a WAL without a torn tail or a CHECKPOINT record.
LEMMA ConcatLog ==
    ASSUME NEW w \in Logs, LogForm(w), w.stop = "end", NEW p \in Logs, p # EmptyLog,
           p.header => w = EmptyLog
    PROVE  /\ Concat(w, p) \in Logs
           /\ Concat(w, p).txns = w.txns \o p.txns
           /\ Concat(w, p).stop = p.stop /\ Concat(w, p).more = p.more
           /\ (Concat(w, p).header <=> w.header \/ p.header)
           /\ (Concat(w, p).commits <=> w.commits \/ p.commits)
<1>1. CASE w = EmptyLog
  <2>1. w.txns = <<>> /\ w.header = FALSE /\ w.commits = FALSE
    BY <1>1 DEF EmptyLog
  <2>2. <<>> \o p.txns = p.txns
    BY ConcatEmptySeq DEF Logs, States
  <2> QED
    BY <1>1, <2>1, <2>2, ConcatEmpty DEF Logs
<1>2. CASE w # EmptyLog
  <2>1. Concat(w, p) =
        [header |-> w.header, txns |-> w.txns \o p.txns, commits |-> w.commits \/ p.commits,
         stop |-> p.stop, more |-> p.more]
    BY <1>2 DEF Concat
  <2>2. w.txns \o p.txns \in States
    BY ConcatProperties DEF Logs, States
  <2>3. (w.commits \/ p.commits) \in BOOLEAN
    OBVIOUS
  <2> QED
    BY <1>2, <2>1, <2>2, <2>3 DEF Logs
<1> QED
  BY <1>1, <1>2, Zenon

LEMMA EmptyValues ==
    <<>> \in States /\ Garbage \in States /\ EmptyLog \in Logs /\ NoShadow \in Shadows
<1>1. <<>> \in States /\ Garbage \in States
  BY BoundAssumption DEF States, Garbage
<1> QED
  BY <1>1 DEF EmptyLog, Logs, NoShadow, Shadows

LEMMA StateConcat ==
    ASSUME NEW s \in States, NEW t \in States
    PROVE  s \o t \in States
BY ConcatProperties DEF States

LEMMA StateConcatEmpty ==
    ASSUME NEW s \in States
    PROVE  s \o <<>> = s
BY ConcatEmptySeq DEF States

LEMMA StateAppend ==
    ASSUME NEW s \in States, NEW e \in 0..MaxTxns
    PROVE  <<e>> \in States /\ Append(s, e) \in States
BY AppendProperties DEF States

\* The state that a WAL with the records of one more transaction stands for.
Extended(s, t) == IF t \in Copies THEN s ELSE Append(s, t)

LEMMA ConcatRedone ==
    ASSUME NEW s \in States, NEW t \in States, NEW e \in 0..MaxTxns
    PROVE  Redone(e) \in States /\ s \o (t \o Redone(e)) = Extended(s \o t, e)
<1>1. <<e>> \in States /\ t \o <<>> = t
  BY StateAppend, StateConcatEmpty
<1>2. Append(s \o t, e) = (s \o t) \o <<e>>
  BY StateConcat, AppendIsConcat DEF States
<1>3. (s \o t) \o <<e>> = s \o (t \o <<e>>)
  BY <1>1, ConcatAssociative DEF States
<1> QED
  BY <1>1, <1>2, <1>3, EmptyValues DEF Redone, Extended

\* A piece of p holds a prefix of its transactions.
LEMMA PieceValues ==
    ASSUME NEW p \in Logs, NEW q \in Prefixes(p)
    PROVE  /\ q \in Logs /\ q.stop \in {"end", "torn"} /\ ~q.more
           /\ (~q.commits => q.txns = <<>>) /\ (q.commits => p.commits /\ q.header = p.header)
           /\ (q.header => p.header) /\ Begins(q.txns, p.txns)
           /\ (Len(p.txns) <= 1 => q.txns = <<>> \/ q.txns = p.txns)
<1>1. /\ q \in [header : {FALSE, p.header}, txns : {SubSeq(p.txns, 1, n) : n \in 0..Len(p.txns)},
               commits : {FALSE, p.commits}, stop : {"end", "torn"}, more : {FALSE}]
      /\ (q.txns # <<>> => q.commits) /\ (q.commits => q.header = p.header)
  BY Zenon DEF Prefixes
<1>2. PICK n \in 0..Len(p.txns) : q.txns = SubSeq(p.txns, 1, n)
  BY <1>1
<1>3. p.txns \in Seq(0..MaxTxns) /\ Len(p.txns) \in Nat /\ n \in Int /\ 1 \in Int
  BY <1>2, LenProperties DEF Logs, States
<1>4. \A i \in 1..n : p.txns[i] \in 0..MaxTxns
  <2>1. \A i \in 1..n : i \in 1..Len(p.txns)
    BY <1>2, <1>3
  <2> QED
    BY <1>3, <2>1, ElementOfSeq, Zenon
<1>5. /\ SubSeq(p.txns, 1, n) \in Seq(0..MaxTxns)
      /\ Len(SubSeq(p.txns, 1, n)) = IF 1 <= n THEN n - 1 + 1 ELSE 0
      /\ \A i \in 1..(n - 1 + 1) : SubSeq(p.txns, 1, n)[i] = p.txns[1 + i - 1]
  BY <1>3, <1>4, SubSeqProperties
<1>6. q.txns \in States /\ Len(q.txns) = n
  BY <1>2, <1>3, <1>5 DEF States
<1>7. Begins(q.txns, p.txns)
  BY <1>2, <1>3, <1>5, <1>6 DEF Begins
<1>8. ASSUME Len(p.txns) <= 1 PROVE q.txns = <<>> \/ q.txns = p.txns
  <2>1. CASE n = 0
    BY <1>6, <2>1, EmptySeq DEF States
  <2>2. CASE n = Len(p.txns)
    BY <1>2, <1>3, <2>2, SubSeqFull
  <2> QED
    BY <1>2, <1>3, <1>8, <2>1, <2>2
<1>9. q \in Logs
  BY <1>1, <1>6, Zenon DEF Logs
<1> QED
  BY <1>1, <1>7, <1>8, <1>9, Zenon

\* A write that stops half way leaves the WAL as it was, or with the transaction written.
LEMMA ConcatPiece ==
    ASSUME NEW w \in Logs, LogForm(w), w.stop = "end", NEW p \in Logs, NEW txns, NEW stop,
           IsRecord(p, w, txns, stop), Len(p.txns) <= 1, NEW q \in Prefixes(p)
    PROVE  /\ Concat(w, q) \in Logs /\ LogForm(Concat(w, q))
           /\ Concat(w, q).stop \in {"end", "torn"}
           /\ Concat(w, q).txns = w.txns \/ Concat(w, q).txns = w.txns \o p.txns
<1>1. /\ q \in Logs /\ q.stop \in {"end", "torn"} /\ ~q.more
      /\ (~q.commits => q.txns = <<>>) /\ (q.commits => p.commits /\ q.header = p.header)
      /\ (q.header => p.header) /\ (q.txns = <<>> \/ q.txns = p.txns)
  BY PieceValues
<1>2. (p.header <=> w = EmptyLog) /\ w.txns \in States
  BY DEF IsRecord, Logs
<1>3. CASE q = EmptyLog
  <2>1. Concat(w, q) = w
    BY <1>3, ConcatEmpty
  <2> QED
    BY <2>1
<1>4. CASE q # EmptyLog
  <2>1. /\ Concat(w, q) \in Logs /\ Concat(w, q).txns = w.txns \o q.txns
        /\ Concat(w, q).stop = q.stop /\ Concat(w, q).more = q.more
        /\ (Concat(w, q).header <=> w.header \/ q.header)
        /\ (Concat(w, q).commits <=> w.commits \/ q.commits)
    BY <1>1, <1>2, <1>4, ConcatLog, Zenon
  <2>2. w.txns \o <<>> = w.txns
    BY <1>2, StateConcatEmpty
  <2>3. Concat(w, q).txns = w.txns \/ Concat(w, q).txns = w.txns \o p.txns
    BY <1>1, <2>1, <2>2, Zenon
  <2>4. ~Concat(w, q).commits => Concat(w, q).txns = <<>>
    BY <1>1, <2>1, <2>2 DEF LogForm
  <2>5. ASSUME ~Concat(w, q).header
        PROVE  ~Concat(w, q).commits /\ Concat(w, q).stop = "torn"
    <3>1. ~w.header /\ ~q.header
      BY <2>1, <2>5
    <3>2. w = EmptyLog /\ ~w.commits
      BY <3>1 DEF LogForm
    <3>3. ~q.commits
      BY <1>1, <1>2, <3>1, <3>2
    <3>4. q.stop = "torn"
      BY <1>1, <1>4, <3>1, <3>3 DEF EmptyLog, Logs
    <3> QED
      BY <2>1, <3>2, <3>3, <3>4
  <2> QED
    BY <1>1, <2>1, <2>3, <2>4, <2>5, Zenon DEF LogForm
<1> QED
  BY <1>3, <1>4, Zenon

LEMMA RecordValues ==
    /\ HeaderRecord \in Logs /\ HeaderRecord.header /\ HeaderRecord.txns = <<>>
    /\ HeaderRecord.stop = "end" /\ ~HeaderRecord.more /\ ~HeaderRecord.commits
    /\ CheckpointRecord \in Logs /\ ~CheckpointRecord.header /\ CheckpointRecord.txns = <<>>
    /\ CheckpointRecord.stop = "checkpoint" /\ ~CheckpointRecord.more /\ ~CheckpointRecord.commits
    /\ \A t \in Txns : /\ TxnRecords(t) \in Logs /\ ~TxnRecords(t).header
                       /\ TxnRecords(t).txns = Redone(t) /\ TxnRecords(t).commits
                       /\ TxnRecords(t).stop = "end" /\ ~TxnRecords(t).more
<1>1. /\ EmptyLog.header = FALSE /\ EmptyLog.txns = <<>> /\ EmptyLog.stop = "end"
      /\ EmptyLog.more = FALSE /\ EmptyLog.commits = FALSE
  BY DEF EmptyLog
<1>2. EmptyLog \in Logs
  BY EmptyValues
<1>3. /\ HeaderRecord \in Logs /\ HeaderRecord.header /\ HeaderRecord.txns = <<>>
      /\ HeaderRecord.stop = "end" /\ ~HeaderRecord.more /\ ~HeaderRecord.commits
  BY <1>1, <1>2, Zenon DEF HeaderRecord, Logs
<1>4. /\ CheckpointRecord \in Logs /\ ~CheckpointRecord.header /\ CheckpointRecord.txns = <<>>
      /\ CheckpointRecord.stop = "checkpoint" /\ ~CheckpointRecord.more
      /\ ~CheckpointRecord.commits
  BY <1>1, <1>2 DEF CheckpointRecord, Logs
<1>5. ASSUME NEW t \in Txns
      PROVE  /\ TxnRecords(t) \in Logs /\ ~TxnRecords(t).header /\ TxnRecords(t).txns = Redone(t)
             /\ TxnRecords(t).commits /\ TxnRecords(t).stop = "end" /\ ~TxnRecords(t).more
  <2>1. <<t>> \in States
    BY BoundAssumption DEF Txns, States
  <2>3. Redone(t) \in States
    BY <2>1, EmptyValues, Zenon DEF Redone
  <2> QED
    BY <1>1, <1>2, <2>3, Zenon DEF TxnRecords, Logs
<1> QED
  BY <1>3, <1>4, <1>5

\* What the writer of the WAL holds after records r are handed to it.
LEMMA BufferedRecords ==
    ASSUME NEW r \in Logs, r # EmptyLog, ~r.header, ~r.more, r.commits <=> r.stop = "end",
           pending = EmptyLog,
           walOpen => wal.header, NEW b, b = Concat(Concat(pending, InitWriter), r)
    PROVE  b \in Logs /\ IsRecord(b, wal, r.txns, r.stop)
<1>0. b = Concat(InitWriter, r)
  BY ConcatEmpty
<1>1. CASE wal = EmptyLog
  <2>1. InitWriter = HeaderRecord
    BY <1>1 DEF InitWriter, EmptyLog
  <2>2. /\ HeaderRecord.header /\ HeaderRecord.txns = <<>> /\ HeaderRecord.stop = "end"
        /\ ~HeaderRecord.commits
    BY RecordValues
  <2>3. HeaderRecord # EmptyLog
    BY <2>2 DEF EmptyLog
  <2>4. b = Concat(HeaderRecord, r)
    BY <1>0, <2>1
  <2>5. <<>> \o r.txns = r.txns
    BY ConcatEmptySeq DEF Logs, States
  <2>6. (HeaderRecord.commits \/ r.commits) = r.commits
    BY <2>2, Zenon DEF Logs
  <2>7. Concat(HeaderRecord, r)
        = [header |-> HeaderRecord.header, txns |-> r.txns, commits |-> r.commits,
           stop |-> r.stop, more |-> r.more]
    BY <2>2, <2>3, <2>5, <2>6, Zenon DEF Concat
  <2> QED
    BY <1>1, <2>2, <2>4, <2>7, RecordValues DEF IsRecord, Logs
<1>2. CASE wal # EmptyLog
  <2>1. b = r
    BY <1>0, <1>2, ConcatEmpty DEF InitWriter
  <2> QED
    BY <1>2, <2>1 DEF IsRecord, Logs
<1> QED
  BY <1>1, <1>2

\* A state that starts with Garbage is no good one.
LEMMA GoodReadable ==
    ASSUME NEW s \in States, NEW t \in States, NEW n, NEW T, Good(s \o t, n, T)
    PROVE  s # Garbage
<1>1. SUFFICES ASSUME s = Garbage PROVE FALSE
  OBVIOUS
<1>2. Len(s) = 1 /\ s[1] = 0 /\ Len(t) \in Nat
  BY <1>1, LenProperties DEF Garbage, States
<1>3. 1 \in 1..Len(s \o t) /\ (s \o t)[1] = 0
  BY <1>2, ConcatProperties DEF States
<1>4. (s \o t)[1] \in 1..n
  BY <1>3 DEF Good
<1> QED
  BY <1>3, <1>4

(***************************************************************************)
(* Every action keeps the invariant: one lemma for each, with one step for *)
(* each conjunct.                                                          *)
(***************************************************************************)

USE BoundAssumption DEF At, clientVars, dataVars, walVars, shadowVars, Labels, CommitLabels,
    CheckpointLabels, RecoveryLabels, Quiet, Logged, Cleared, Running, Applying, WALUntouched

LEMMA BufferCommitStep == ASSUME ToleratedFaults, IInv, BufferCommit PROVE IInv'
<1>a. /\ pending = EmptyLog /\ (walOpen => wal.header) /\ nextTxn \in Txns
      /\ pending' = Concat(Concat(pending, InitWriter), TxnRecords(nextTxn))
  BY DEF IInv, TypeOK, WriterInv, BufferCommit, BufferRecords, Txns
<1>b. TxnRecords(nextTxn) # EmptyLog
  <2>1. ~EmptyLog.commits
    BY DEF EmptyLog
  <2>2. TxnRecords(nextTxn).commits
    BY <1>a, RecordValues
  <2> QED
    BY <2>1, <2>2
<1>c. pending' \in Logs /\ IsRecord(pending', wal, Redone(nextTxn), "end")
  BY <1>a, <1>b, RecordValues, BufferedRecords
<1>1. TypeOK'
  BY <1>c, EmptyValues DEF IInv, BufferCommit, BufferRecords, TypeOK
<1>2. ClientInv'
  BY DEF IInv, BufferCommit, BufferRecords, ClientInv
<1>3. WALInv'
  BY DEF IInv, BufferCommit, BufferRecords, WALInv
<1>4. WriterInv'
  BY <1>c DEF IInv, BufferCommit, BufferRecords, WriterInv
<1>5. FileInv'
  BY DEF IInv, BufferCommit, BufferRecords, FileInv, WALInv, QuietFiles, LastTxn
<1>6. MemInv'
  BY DEF IInv, BufferCommit, BufferRecords, MemInv
<1>7. ("commitSync" \notin IOFaults => SyncInv)'
  BY Zenon DEF IInv, BufferCommit, BufferRecords, SyncInv
<1> QED
  BY <1>1, <1>2, <1>3, <1>4, <1>5, <1>6, <1>7 DEF IInv

\* The commit's records in the WAL: its transaction follows those already there.
LEMMA FlushedCommit ==
    ASSUME IInv, FlushCommit
    PROVE  /\ wal' \in Logs /\ wal'.txns = wal.txns \o Redone(nextTxn) /\ wal'.stop = "end"
           /\ ~wal'.more /\ wal'.header /\ wal'.commits /\ wal.stop = "end"
           /\ data.header \in States /\ wal.txns \in States /\ nextTxn \in 1..MaxTxns
           /\ data.header \o wal'.txns = Extended(data.header \o wal.txns, nextTxn)
<1>a. /\ wal \in Logs /\ LogForm(wal) /\ wal.stop = "end"
      /\ pending \in Logs /\ IsRecord(pending, wal, Redone(nextTxn), "end")
      /\ wal' = Concat(wal, pending)
  BY DEF IInv, TypeOK, WALInv, WriterInv, FlushCommit, FlushWAL
<1>b. pending # EmptyLog
  BY <1>a DEF EmptyLog, IsRecord
<1>c. /\ wal' \in Logs /\ wal'.txns = wal.txns \o Redone(nextTxn) /\ wal'.stop = "end"
      /\ ~wal'.more /\ wal'.header /\ wal'.commits
  <2>1. /\ (pending.header <=> wal = EmptyLog) /\ pending.txns = Redone(nextTxn)
        /\ pending.stop = "end" /\ ~pending.more /\ pending.commits
    BY <1>a DEF IsRecord
  <2>2. wal = EmptyLog \/ wal.header \/ wal.stop = "torn"
    BY <1>a DEF LogForm
  <2>3. /\ wal' \in Logs /\ wal'.txns = wal.txns \o pending.txns /\ wal'.stop = pending.stop
        /\ wal'.more = pending.more /\ (wal'.header <=> wal.header \/ pending.header)
        /\ (wal'.commits <=> wal.commits \/ pending.commits)
    BY <1>a, <1>b, <2>1, ConcatLog, Zenon
  <2> QED
    BY <1>a, <2>1, <2>2, <2>3
<1>d. /\ data.header \in States /\ wal.txns \in States /\ nextTxn \in 1..MaxTxns
      /\ data.header \o wal'.txns = Extended(data.header \o wal.txns, nextTxn)
  <2>1. data.header \in States /\ wal.txns \in States /\ nextTxn \in 1..MaxTxns
    BY <1>a DEF IInv, TypeOK, ClientInv, FlushCommit, Logs
  <2>2. nextTxn \in 0..MaxTxns
    BY <2>1
  <2>3. data.header \o (wal.txns \o Redone(nextTxn)) = Extended(data.header \o wal.txns, nextTxn)
    BY <2>1, <2>2, ConcatRedone, Zenon
  <2> QED
    BY <1>c, <2>1, <2>3, Zenon
<1> QED
  BY <1>a, <1>c, <1>d

\* What the transaction being committed adds to the files.
LEMMA GoodCommit ==
    ASSUME IInv, pc = "commit",
           NEW s, s = Extended(data.header \o wal.txns, nextTxn)
    PROVE  Good(s, nextTxn, acked) /\ (nextTxn \notin Copies => Includes(s, {nextTxn}))
<1>1. Good(data.header \o wal.txns, nextTxn - 1, acked)
  BY DEF IInv, WALInv, FileInv, QuietFiles, LastTxn
<1>2. nextTxn \in 1..MaxTxns /\ nextTxn \in 0..MaxTxns
  BY DEF IInv, TypeOK, ClientInv
<1>3. CASE nextTxn \in Copies
  BY <1>1, <1>2, <1>3, GoodWeaken DEF Extended
<1>4. CASE nextTxn \notin Copies
  <2>1. data.header \o wal.txns \in States
    BY <1>1 DEF Good
  <2> QED
    BY <1>1, <1>2, <1>4, <2>1, GoodAppend, AppendElements DEF Extended
<1> QED
  BY <1>3, <1>4

LEMMA FlushCommitStep == ASSUME ToleratedFaults, IInv, FlushCommit PROVE IInv'
<1>c. /\ wal' \in Logs /\ wal'.txns = wal.txns \o Redone(nextTxn) /\ wal'.stop = "end"
      /\ ~wal'.more /\ wal'.header /\ wal'.commits /\ wal.stop = "end"
  BY FlushedCommit, Zenon
<1>d. /\ data.header \in States /\ wal.txns \in States /\ nextTxn \in 1..MaxTxns
      /\ data.header \o wal'.txns = Extended(data.header \o wal.txns, nextTxn)
  BY FlushedCommit, Zenon
<1>e. /\ Good(data.header \o wal'.txns, nextTxn, acked)
      /\ (nextTxn \notin Copies => Includes(data.header \o wal'.txns, {nextTxn}))
  BY <1>d, GoodCommit, Zenon DEF FlushCommit
<1>1. TypeOK'
  BY <1>c, EmptyValues DEF IInv, FlushCommit, FlushWAL, TypeOK
<1>2. ClientInv'
  BY DEF IInv, FlushCommit, FlushWAL, ClientInv
<1>3. WALInv'
  BY <1>c DEF IInv, FlushCommit, FlushWAL, WALInv, LogForm, EmptyLog, WriterInv
<1>4. WriterInv'
  BY <1>c DEF IInv, FlushCommit, FlushWAL, WriterInv
<1>5. FileInv'
  <2>1. QuietFiles'
    <3>1. PowerLossAt # {} => /\ Good(data.header \o walDisk.txns, nextTxn - 1, acked)
                              /\ Begins(walDisk.txns, wal.txns)
      BY <1>c DEF IInv, FileInv, QuietFiles, LastTxn, FlushCommit
    <3>2. PowerLossAt # {} => Good(data.header \o walDisk.txns, nextTxn, acked)
      BY <1>d, <3>1, GoodWeaken
    <3>3. walDisk.txns \in States /\ nextTxn \in 0..MaxTxns
      BY <1>d DEF IInv, TypeOK, Logs
    <3>4. Redone(nextTxn) \in States
      BY <1>d, <3>3, ConcatRedone, Zenon
    <3>5. PowerLossAt # {} => Begins(walDisk.txns, wal'.txns)
      BY <1>c, <1>d, <3>1, <3>3, <3>4, BeginsConcat, Zenon
    <3> QED
      BY <1>c, <1>e, <3>2, <3>5 DEF IInv, FileInv, QuietFiles, LastTxn, FlushCommit, FlushWAL
  <2> QED
    BY <1>c, <1>e, <2>1 DEF FileInv, FlushCommit
<1>6. MemInv'
  BY DEF IInv, FlushCommit, FlushWAL, MemInv
<1>7. ("commitSync" \notin IOFaults => SyncInv)'
  <2>1. SUFFICES ASSUME "commitSync" \notin IOFaults PROVE SyncInv'
    OBVIOUS
  <2>2. Saved(data.header \o wal.txns, mem, acked) /\ refused = {}
    BY <2>1, Zenon DEF IInv, SyncInv, FlushCommit
  <2>3. /\ mem \in States /\ data.header \o wal.txns \in States /\ nextTxn \in 0..MaxTxns
        /\ nextTxn \notin acked
    BY <1>d, StateConcat DEF IInv, TypeOK, ClientInv
  <2>4. /\ Elements(Append(mem, nextTxn)) = Elements(mem) \union {nextTxn}
        /\ Elements(Append(data.header \o wal.txns, nextTxn))
           = Elements(data.header \o wal.txns) \union {nextTxn}
    BY <2>3, AppendElements, Zenon
  <2>5. Saved(data.header \o wal'.txns, Append(mem, nextTxn), acked)
    BY <1>d, <2>2, <2>3, <2>4 DEF Saved, Extended
  <2> QED
    BY <2>2, <2>5, Zenon DEF SyncInv, Saved, FlushCommit, FlushWAL
<1> QED
  BY <1>1, <1>2, <1>3, <1>4, <1>5, <1>6, <1>7 DEF IInv

LEMMA SyncCommitStep == ASSUME ToleratedFaults, IInv, SyncCommit PROVE IInv'
<1>a. /\ nextTxn \in 1..MaxTxns /\ nextTxn \in 0..MaxTxns /\ mem \in States /\ wal.stop = "end"
      /\ acked' = acked \union {nextTxn} /\ nextTxn' = nextTxn + 1
  BY DEF IInv, TypeOK, ClientInv, WALInv, SyncCommit, CommitTxn
<1>b. Good(data.header \o wal.txns, nextTxn, acked')
  <2>1. /\ Good(data.header \o wal.txns, nextTxn, acked)
        /\ Includes(data.header \o wal.txns, {nextTxn})
    BY <1>a DEF IInv, FileInv, QuietFiles, LastTxn, SyncCommit
  <2> QED
    BY <1>a, <2>1, GoodAcknowledge
<1>c. Good(Append(mem, nextTxn), nextTxn, acked')
  <2>1. Good(mem, nextTxn - 1, acked)
    BY DEF IInv, MemInv, SyncCommit
  <2>2. Good(Append(mem, nextTxn), nextTxn, acked)
    BY <1>a, <2>1, GoodAppend
  <2> QED
    BY <1>a, <2>2, AppendElements, GoodAcknowledge, Zenon
<1>1. TypeOK'
  <2>1. Append(mem, nextTxn) \in States /\ nextTxn \in Txns
    BY <1>a, StateAppend, Zenon DEF Txns
  <2> QED
    BY <2>1 DEF IInv, TypeOK, ClientInv, SyncCommit, CommitTxn
<1>2. ClientInv'
  BY DEF IInv, SyncCommit, CommitTxn, ClientInv, TypeOK
<1>3. WALInv'
  BY DEF IInv, SyncCommit, CommitTxn, WALInv
<1>4. WriterInv'
  BY DEF IInv, SyncCommit, CommitTxn, WriterInv
<1>5. FileInv'
  <2>1. LastTxn' = nextTxn
    BY <1>a DEF SyncCommit, CommitTxn, LastTxn
  <2>2. wal.txns \in States /\ Begins(wal.txns, wal.txns)
    BY BeginsSelf DEF IInv, TypeOK, Logs
  <2>3. QuietFiles'
    BY <1>a, <1>b, <2>1, <2>2 DEF IInv, FileInv, QuietFiles, SyncCommit, CommitTxn
  <2> QED
    BY <1>a, <2>3 DEF IInv, FileInv, SyncCommit, CommitTxn
<1>6. MemInv'
  BY <1>a, <1>c DEF IInv, SyncCommit, CommitTxn, MemInv
<1>7. ("commitSync" \notin IOFaults => SyncInv)'
  BY DEF IInv, SyncCommit, CommitTxn, SyncInv, Saved
<1> QED
  BY <1>1, <1>2, <1>3, <1>4, <1>5, <1>6, <1>7 DEF IInv

LEMMA SyncCopyStep == ASSUME ToleratedFaults, IInv, SyncCopy PROVE IInv'
<1>a. /\ nextTxn \in 1..MaxTxns /\ nextTxn \in 0..MaxTxns /\ mem \in States /\ wal.stop = "end"
      /\ acked' = acked /\ nextTxn' = nextTxn + 1 /\ forcing' = nextTxn
  BY DEF IInv, TypeOK, ClientInv, WALInv, SyncCopy, CommitTxn
<1>b. Good(data.header \o wal.txns, nextTxn, acked)
  BY <1>a DEF IInv, FileInv, QuietFiles, LastTxn, SyncCopy
<1>c. Good(Append(mem, nextTxn), nextTxn, acked) /\ Includes(Append(mem, nextTxn), {nextTxn})
  <2>1. Good(mem, nextTxn - 1, acked)
    BY DEF IInv, MemInv, SyncCopy
  <2> QED
    BY <1>a, <2>1, GoodAppend, AppendElements
<1>1. TypeOK'
  <2>1. Append(mem, nextTxn) \in States /\ nextTxn \in Copies \union {0}
    BY <1>a, StateAppend, Zenon DEF SyncCopy
  <2> QED
    BY <2>1 DEF IInv, TypeOK, ClientInv, SyncCopy, CommitTxn
<1>2. ClientInv'
  BY DEF IInv, SyncCopy, CommitTxn, ClientInv, TypeOK
<1>3. WALInv'
  BY DEF IInv, SyncCopy, CommitTxn, WALInv
<1>4. WriterInv'
  BY DEF IInv, SyncCopy, CommitTxn, WriterInv
<1>5. FileInv'
  <2>1. LastTxn' = nextTxn
    BY <1>a DEF SyncCopy, CommitTxn, LastTxn
  <2>2. wal.txns \in States /\ Begins(wal.txns, wal.txns)
    BY BeginsSelf DEF IInv, TypeOK, Logs
  <2>3. QuietFiles'
    BY <1>a, <1>b, <2>1, <2>2 DEF IInv, FileInv, QuietFiles, SyncCopy, CommitTxn
  <2> QED
    BY <1>a, <2>3 DEF IInv, FileInv, SyncCopy, CommitTxn
<1>6. MemInv'
  BY <1>a, <1>c DEF IInv, SyncCopy, CommitTxn, MemInv
<1>7. ("commitSync" \notin IOFaults => SyncInv)'
  BY Zenon DEF IInv, SyncCopy, CommitTxn, SyncInv, Saved
<1> QED
  BY <1>1, <1>2, <1>3, <1>4, <1>5, <1>6, <1>7 DEF IInv

LEMMA CommitFailsStep == ASSUME ToleratedFaults, IInv, CommitFails PROVE IInv'
<1>1. TypeOK'
  <2>1. nextTxn \in Txns /\ pending' = pending
    BY DEF IInv, TypeOK, ClientInv, CommitFails, ToleratedFaults, Txns
  <2> QED
    BY <2>1 DEF IInv, TypeOK, ClientInv, CommitFails, ToleratedFaults
<1>2. ClientInv'
  BY DEF IInv, CommitFails, ToleratedFaults, WALUntouched, ClientInv, TypeOK
<1>3. WALInv'
  BY DEF IInv, CommitFails, ToleratedFaults, WALUntouched, WALInv
<1>4. WriterInv'
  BY DEF IInv, CommitFails, ToleratedFaults, WALUntouched, WriterInv
<1>5. FileInv'
  <2>1. pc = "commitSync" /\ pc' = "open" /\ wal' = wal /\ wal.stop = "end"
    BY DEF IInv, CommitFails, ToleratedFaults, WALInv
  <2>2. LastTxn' = LastTxn
    BY <2>1, SMTT(60) DEF IInv, TypeOK, CommitFails, LastTxn
  <2>3. QuietFiles
    BY <2>1 DEF IInv, FileInv
  <2>4. QuietFiles'
    BY <2>1, <2>2, <2>3 DEF CommitFails, QuietFiles
  <2> QED
    BY <2>1, <2>4 DEF FileInv
<1>6. MemInv'
  <2>1. Good(mem, nextTxn - 1, acked) /\ nextTxn \in 1..MaxTxns
    BY DEF IInv, MemInv, TypeOK, ClientInv, CommitFails, ToleratedFaults
  <2>2. Good(mem, nextTxn, acked)
    BY <2>1, GoodWeaken
  <2> QED
    BY <2>1, <2>2 DEF MemInv, CommitFails, ToleratedFaults
<1>7. ("commitSync" \notin IOFaults => SyncInv)'
  BY DEF IInv, CommitFails, ToleratedFaults, WALUntouched, SyncInv
<1> QED
  BY <1>1, <1>2, <1>3, <1>4, <1>5, <1>6, <1>7 DEF IInv

LEMMA StartCheckpointStep == ASSUME ToleratedFaults, IInv, StartCheckpoint PROVE IInv'
<1>1. TypeOK'
  BY EmptyValues DEF IInv, StartCheckpoint, TypeOK
<1>2. ClientInv'
  BY DEF IInv, StartCheckpoint, ClientInv
<1>3. WALInv'
  BY DEF IInv, StartCheckpoint, WALInv
<1>4. WriterInv'
  BY DEF IInv, StartCheckpoint, WriterInv
<1>5. FileInv'
  BY DEF IInv, StartCheckpoint, FileInv, WALInv, QuietFiles, LastTxn
<1>6. MemInv'
  BY DEF IInv, StartCheckpoint, MemInv, ClientInv
<1>7. ("commitSync" \notin IOFaults => SyncInv)'
  BY Zenon DEF IInv, StartCheckpoint, SyncInv
<1> QED
  BY <1>1, <1>2, <1>3, <1>4, <1>5, <1>6, <1>7 DEF IInv

LEMMA CheckpointStorageStep == ASSUME ToleratedFaults, IInv, CheckpointStorage PROVE IInv'
<1>1. TypeOK'
  BY EmptyValues DEF IInv, CheckpointStorage, TypeOK, Shadows
<1>2. ClientInv'
  BY DEF IInv, CheckpointStorage, ClientInv
<1>3. WALInv'
  BY DEF IInv, CheckpointStorage, WALInv
<1>4. WriterInv'
  BY DEF IInv, CheckpointStorage, WriterInv
<1>5. FileInv'
  BY DEF IInv, CheckpointStorage, FileInv, WALInv, QuietFiles, CheckpointFiles, LastTxn, EmptyLog,
         Whole
<1>6. MemInv'
  BY DEF IInv, CheckpointStorage, MemInv
<1>7. ("commitSync" \notin IOFaults => SyncInv)'
  BY Zenon DEF IInv, CheckpointStorage, SyncInv
<1> QED
  BY <1>1, <1>2, <1>3, <1>4, <1>5, <1>6, <1>7 DEF IInv

LEMMA WriteDatabaseHeaderStep == ASSUME ToleratedFaults, IInv, WriteDatabaseHeader PROVE IInv'
<1>1. TypeOK'
  BY EmptyValues DEF IInv, WriteDatabaseHeader, TypeOK
<1>2. ClientInv'
  BY DEF IInv, WriteDatabaseHeader, ClientInv
<1>3. WALInv'
  BY DEF IInv, WriteDatabaseHeader, WALInv
<1>4. WriterInv'
  BY DEF IInv, WriteDatabaseHeader, WriterInv
<1>5. FileInv'
  BY DEF IInv, WriteDatabaseHeader, FileInv, WALInv, QuietFiles, LastTxn
<1>6. MemInv'
  BY DEF IInv, WriteDatabaseHeader, MemInv
<1>7. ("commitSync" \notin IOFaults => SyncInv)'
  BY Zenon DEF IInv, WriteDatabaseHeader, SyncInv
<1> QED
  BY <1>1, <1>2, <1>3, <1>4, <1>5, <1>6, <1>7 DEF IInv

LEMMA FlushShadowStep == ASSUME ToleratedFaults, IInv, FlushShadow PROVE IInv'
<1>1. TypeOK'
  BY EmptyValues DEF IInv, FlushShadow, TypeOK, Shadows
<1>2. ClientInv'
  BY DEF IInv, FlushShadow, ClientInv
<1>3. WALInv'
  BY DEF IInv, FlushShadow, WALInv
<1>4. WriterInv'
  BY DEF IInv, FlushShadow, WriterInv
<1>5. FileInv'
  BY DEF IInv, FlushShadow, FileInv, WALInv, QuietFiles, LastTxn
<1>6. MemInv'
  BY DEF IInv, FlushShadow, MemInv
<1>7. ("commitSync" \notin IOFaults => SyncInv)'
  BY Zenon DEF IInv, FlushShadow, SyncInv
<1> QED
  BY <1>1, <1>2, <1>3, <1>4, <1>5, <1>6, <1>7 DEF IInv

LEMMA FlushShadowEndsStep == ASSUME ToleratedFaults, IInv, FlushShadowEnds PROVE IInv'
<1>1. TypeOK'
  BY EmptyValues DEF IInv, FlushShadowEnds, TypeOK, Shadows
<1>2. ClientInv'
  BY DEF IInv, FlushShadowEnds, ClientInv
<1>3. WALInv'
  BY DEF IInv, FlushShadowEnds, WALInv
<1>4. WriterInv'
  BY DEF IInv, FlushShadowEnds, WriterInv
<1>5. FileInv'
  BY DEF IInv, FlushShadowEnds, FileInv, WALInv, QuietFiles, LastTxn
<1>6. MemInv'
  BY Zenon DEF IInv, FlushShadowEnds, MemInv
<1>7. ("commitSync" \notin IOFaults => SyncInv)'
  BY Zenon DEF IInv, FlushShadowEnds, SyncInv
<1> QED
  BY <1>1, <1>2, <1>3, <1>4, <1>5, <1>6, <1>7 DEF IInv

LEMMA BufferCheckpointRecordStep == ASSUME ToleratedFaults, IInv, BufferCheckpointRecord PROVE IInv'
<1>a. /\ pending = EmptyLog /\ (walOpen => wal.header)
      /\ pending' = Concat(Concat(pending, InitWriter), CheckpointRecord)
  BY DEF IInv, WriterInv, BufferCheckpointRecord, BufferRecords
<1>b. CheckpointRecord # EmptyLog
  BY RecordValues DEF EmptyLog
<1>c. pending' \in Logs /\ IsRecord(pending', wal, <<>>, "checkpoint")
  BY <1>a, <1>b, RecordValues, BufferedRecords
<1>1. TypeOK'
  BY <1>c, EmptyValues DEF IInv, BufferCheckpointRecord, BufferRecords, TypeOK
<1>2. ClientInv'
  BY DEF IInv, BufferCheckpointRecord, BufferRecords, ClientInv
<1>3. WALInv'
  BY DEF IInv, BufferCheckpointRecord, BufferRecords, WALInv
<1>4. WriterInv'
  BY <1>c DEF IInv, BufferCheckpointRecord, BufferRecords, WriterInv
<1>5. FileInv'
  BY DEF IInv, BufferCheckpointRecord, BufferRecords, FileInv, WALInv, QuietFiles, LastTxn
<1>6. MemInv'
  BY DEF IInv, BufferCheckpointRecord, BufferRecords, MemInv
<1>7. ("commitSync" \notin IOFaults => SyncInv)'
  BY Zenon DEF IInv, BufferCheckpointRecord, BufferRecords, SyncInv
<1> QED
  BY <1>1, <1>2, <1>3, <1>4, <1>5, <1>6, <1>7 DEF IInv

LEMMA FlushCheckpointRecordStep == ASSUME ToleratedFaults, IInv, FlushCheckpointRecord PROVE IInv'
<1>a. /\ wal \in Logs /\ LogForm(wal) /\ wal.stop = "end"
      /\ pending \in Logs /\ IsRecord(pending, wal, <<>>, "checkpoint")
      /\ wal' = Concat(wal, pending)
  BY DEF IInv, TypeOK, WALInv, WriterInv, FlushCheckpointRecord, FlushWAL
<1>b. pending # EmptyLog
  BY <1>a DEF EmptyLog, IsRecord
<1>c. /\ wal' \in Logs /\ wal'.stop = "checkpoint" /\ ~wal'.more /\ wal'.header
      /\ (~wal'.commits => wal'.txns = <<>>)
  <2>1. /\ (pending.header <=> wal = EmptyLog) /\ pending.stop = "checkpoint" /\ ~pending.more
        /\ pending.txns = <<>> /\ ~pending.commits
    BY <1>a DEF IsRecord
  <2>2. wal = EmptyLog \/ wal.header
    BY <1>a DEF LogForm
  <2>3. /\ wal' \in Logs /\ wal'.stop = pending.stop /\ wal'.more = pending.more
        /\ (wal'.header <=> wal.header \/ pending.header)
        /\ wal'.txns = wal.txns \o pending.txns /\ (wal'.commits <=> wal.commits \/ pending.commits)
    BY <1>a, <1>b, <2>1, ConcatLog, Zenon
  <2>4. wal.txns \o <<>> = wal.txns
    BY <1>a, StateConcatEmpty DEF Logs
  <2> QED
    BY <1>a, <2>1, <2>2, <2>3, <2>4 DEF LogForm
<1>1. TypeOK'
  BY <1>c, EmptyValues DEF IInv, FlushCheckpointRecord, FlushWAL, TypeOK
<1>2. ClientInv'
  BY DEF IInv, FlushCheckpointRecord, FlushWAL, ClientInv
<1>3. WALInv'
  BY <1>c DEF IInv, FlushCheckpointRecord, FlushWAL, WALInv, LogForm, EmptyLog, WriterInv
<1>4. WriterInv'
  BY DEF IInv, FlushCheckpointRecord, FlushWAL, WriterInv
<1>d. /\ shadow.state = "complete" /\ shadow.body = mem /\ shadow.header = mem
      /\ shadowDisk = shadow /\ mem \in fresh /\ Good(mem, nextTxn - 1, acked)
  <2>1. MemInv /\ pc = "logFlush"
    BY DEF IInv, FlushCheckpointRecord
  <2>2. shadow = [state |-> "complete", body |-> mem, header |-> mem]
    BY <2>1 DEF MemInv
  <2>3. shadowDisk = shadow /\ mem \in fresh /\ Good(mem, nextTxn - 1, acked)
    BY <2>1 DEF MemInv
  <2> QED
    BY <2>2, <2>3
<1>5. FileInv'
  <2>1. CheckpointFiles'
    <3>1. pc' \in Applying
      BY DEF FlushCheckpointRecord
    <3> QED
      BY <1>d, <3>1 DEF FlushCheckpointRecord, CheckpointFiles, Whole
  <2> QED
    BY <1>c, <1>d, <2>1 DEF FlushCheckpointRecord, FileInv
<1>6. MemInv'
  BY <1>d DEF IInv, FlushCheckpointRecord, MemInv
<1>7. ("commitSync" \notin IOFaults => SyncInv)'
  BY DEF IInv, FlushCheckpointRecord, FlushWAL, SyncInv
<1> QED
  BY <1>1, <1>2, <1>3, <1>4, <1>5, <1>6, <1>7 DEF IInv

LEMMA SyncCheckpointRecordStep == ASSUME ToleratedFaults, IInv, SyncCheckpointRecord PROVE IInv'
<1>1. TypeOK'
  BY EmptyValues DEF IInv, SyncCheckpointRecord, TypeOK
<1>2. ClientInv'
  BY DEF IInv, SyncCheckpointRecord, ClientInv
<1>3. WALInv'
  BY DEF IInv, SyncCheckpointRecord, WALInv
<1>4. WriterInv'
  BY DEF IInv, SyncCheckpointRecord, WriterInv
<1>5. FileInv'
  BY DEF IInv, SyncCheckpointRecord, FileInv, WALInv, CheckpointFiles
<1>6. MemInv'
  BY Zenon DEF IInv, SyncCheckpointRecord, MemInv
<1>7. ("commitSync" \notin IOFaults => SyncInv)'
  BY DEF IInv, SyncCheckpointRecord, SyncInv
<1> QED
  BY <1>1, <1>2, <1>3, <1>4, <1>5, <1>6, <1>7 DEF IInv

LEMMA ApplyBodyStep == ASSUME ToleratedFaults, IInv, ApplyBody PROVE IInv'
<1>1. TypeOK'
  BY EmptyValues DEF IInv, ApplyBody, TypeOK, Shadows
<1>2. ClientInv'
  BY DEF IInv, ApplyBody, ClientInv
<1>3. WALInv'
  BY DEF IInv, ApplyBody, WALInv
<1>4. WriterInv'
  BY DEF IInv, ApplyBody, WriterInv
<1>5. FileInv'
  BY DEF IInv, ApplyBody, FileInv, WALInv, CheckpointFiles
<1>6. MemInv'
  BY DEF IInv, ApplyBody, MemInv
<1>7. ("commitSync" \notin IOFaults => SyncInv)'
  BY DEF IInv, ApplyBody, SyncInv
<1> QED
  BY <1>1, <1>2, <1>3, <1>4, <1>5, <1>6, <1>7 DEF IInv

LEMMA ApplyHeaderStep == ASSUME ToleratedFaults, IInv, ApplyHeader PROVE IInv'
<1>1. TypeOK'
  BY EmptyValues DEF IInv, ApplyHeader, TypeOK, Shadows
<1>2. ClientInv'
  BY DEF IInv, ApplyHeader, ClientInv
<1>3. WALInv'
  BY DEF IInv, ApplyHeader, WALInv
<1>4. WriterInv'
  BY DEF IInv, ApplyHeader, WriterInv
<1>5. FileInv'
  BY DEF IInv, ApplyHeader, FileInv, WALInv, ClientInv, MemInv, WriterInv, QuietFiles,
         CheckpointFiles, DroppedFiles, Whole, LastTxn, EmptyLog, TypeOK, SyncInv, NoShadow,
         Shadows
<1>6. MemInv'
  BY DEF IInv, ApplyHeader, MemInv
<1>7. ("commitSync" \notin IOFaults => SyncInv)'
  BY DEF IInv, ApplyHeader, SyncInv
<1> QED
  BY <1>1, <1>2, <1>3, <1>4, <1>5, <1>6, <1>7 DEF IInv

LEMMA SyncDataStep == ASSUME ToleratedFaults, IInv, SyncData PROVE IInv'
<1>1. TypeOK'
  BY EmptyValues DEF IInv, SyncData, TypeOK
<1>2. ClientInv'
  BY DEF IInv, SyncData, ClientInv
<1>3. WALInv'
  BY DEF IInv, SyncData, WALInv
<1>4. WriterInv'
  BY DEF IInv, SyncData, WriterInv
<1>5. FileInv'
  BY DEF IInv, SyncData, FileInv, WALInv, CheckpointFiles, Whole
<1>6. MemInv'
  BY Zenon DEF IInv, SyncData, MemInv
<1>7. ("commitSync" \notin IOFaults => SyncInv)'
  BY DEF IInv, SyncData, SyncInv
<1> QED
  BY <1>1, <1>2, <1>3, <1>4, <1>5, <1>6, <1>7 DEF IInv

LEMMA ClearWALStep == ASSUME ToleratedFaults, IInv, ClearWAL PROVE IInv'
<1>1. TypeOK'
  BY EmptyValues DEF IInv, ClearWAL, TypeOK
<1>2. ClientInv'
  BY DEF IInv, ClearWAL, ClientInv
<1>3. WALInv'
  BY DEF IInv, ClearWAL, WALInv, LogForm, EmptyLog
<1>4. WriterInv'
  BY DEF IInv, ClearWAL, WriterInv
<1>a. pc = "clearWAL" /\ wal.stop = "checkpoint" /\ pc' = "clearShadow" /\ wal' = EmptyLog
      /\ walDisk' = EmptyLog /\ EmptyLog.txns = <<>> /\ EmptyLog.stop = "end"
  BY DEF IInv, ClearWAL, WALInv, EmptyLog
<1>b. CheckpointFiles /\ data = [body |-> shadow.header, header |-> shadow.header]
  BY <1>a DEF IInv, FileInv
<1>c. /\ data.body = shadow.header /\ data.header = shadow.header
      /\ data.header \o <<>> = shadow.header
  <2>1. shadow \in Shadows
    BY DEF IInv, TypeOK
  <2>2. shadow.header \in States
    BY <2>1 DEF Shadows
  <2> QED
    BY <1>b, <2>2, StateConcatEmpty
<1>5. FileInv'
  <2>1. QuietFiles'
    <3>1. LastTxn' = nextTxn - 1
      BY <1>a DEF ClearWAL, LastTxn
    <3>2. Whole(data, fresh) /\ Good(data.header \o <<>>, nextTxn - 1, acked)
      BY <1>b, <1>c DEF CheckpointFiles, Whole
    <3>3. PowerLossAt # {} => dataDisk = data /\ data.header \in freshDisk
      BY <1>a, <1>b, <1>c DEF CheckpointFiles
    <3>4. Begins(<<>>, <<>>)
      BY EmptyValues, BeginsSelf
    <3> QED
      BY <1>a, <3>1, <3>2, <3>3, <3>4 DEF ClearWAL, QuietFiles
  <2> QED
    BY <1>a, <2>1 DEF FileInv
<1>6. MemInv'
  <2>1. Good(mem, nextTxn - 1, acked) /\ shadow.header = mem
    BY <1>a DEF IInv, MemInv
  <2> QED
    BY <1>a, <1>c, <2>1 DEF IInv, ClearWAL, MemInv
<1>7. ("commitSync" \notin IOFaults => SyncInv)'
  BY DEF IInv, ClearWAL, SyncInv
<1> QED
  BY <1>1, <1>2, <1>3, <1>4, <1>5, <1>6, <1>7 DEF IInv

LEMMA ClearShadowStep == ASSUME ToleratedFaults, IInv, ClearShadow PROVE IInv'
<1>1. TypeOK'
  BY EmptyValues DEF IInv, ClearShadow, TypeOK, Shadows
<1>2. ClientInv'
  BY DEF IInv, ClearShadow, ClientInv
<1>3. WALInv'
  BY DEF IInv, ClearShadow, WALInv
<1>4. WriterInv'
  BY DEF IInv, ClearShadow, WriterInv
<1>5. FileInv'
  BY DEF IInv, ClearShadow, FileInv, WALInv, QuietFiles, LastTxn
<1>6. MemInv'
  BY DEF IInv, ClearShadow, MemInv
<1>7. ("commitSync" \notin IOFaults => SyncInv)'
  BY DEF IInv, ClearShadow, SyncInv
<1> QED
  BY <1>1, <1>2, <1>3, <1>4, <1>5, <1>6, <1>7 DEF IInv

LEMMA RemoveWALStep == ASSUME ToleratedFaults, IInv, RemoveWAL PROVE IInv'
<1>1. TypeOK'
  BY EmptyValues, Zenon DEF IInv, RemoveWAL, TypeOK
<1>2. ClientInv'
  BY DEF IInv, RemoveWAL, ClientInv
<1>3. WALInv'
  BY DEF IInv, RemoveWAL, WALInv
<1>4. WriterInv'
  BY DEF IInv, RemoveWAL, WriterInv
<1>5. FileInv'
  BY DEF IInv, RemoveWAL, FileInv, WALInv, QuietFiles, LastTxn
<1>6. MemInv'
  BY DEF IInv, RemoveWAL, MemInv
<1>7. ("commitSync" \notin IOFaults => SyncInv)'
  BY DEF IInv, RemoveWAL, SyncInv
<1> QED
  BY <1>1, <1>2, <1>3, <1>4, <1>5, <1>6, <1>7 DEF IInv

LEMMA RemoveShadowStep == ASSUME ToleratedFaults, IInv, RemoveShadow PROVE IInv'
<1>a. /\ EmptyLog.txns = <<>> /\ EmptyLog.stop = "end" /\ data.header \o <<>> = data.header
      /\ wal = EmptyLog /\ walDisk = EmptyLog /\ data.header = mem
  BY StateConcatEmpty, Zenon DEF IInv, TypeOK, EmptyLog, WALInv, MemInv, RemoveShadow
<1>b. Good(mem, nextTxn - 1, acked')
  <2>1. Good(mem, nextTxn - 1, acked) /\ (forcing # 0 => Includes(mem, {forcing}))
    BY DEF IInv, MemInv, RemoveShadow
  <2>2. Includes(mem, {forcing} \ {0})
    BY <2>1 DEF Includes
  <2> QED
    BY <2>1, <2>2, GoodAcknowledge, Zenon DEF RemoveShadow
<1>c. {forcing} \ {0} \subseteq Txns /\ {forcing} \ {0} \subseteq 1..(nextTxn - 1)
  <2>1. forcing \in Copies \union {0} /\ forcing < nextTxn /\ nextTxn \in 1..(MaxTxns + 1)
    BY DEF IInv, TypeOK, ClientInv
  <2> QED
    BY <2>1, CopyAssumption DEF Txns
<1>1. TypeOK'
  BY <1>c, EmptyValues, Zenon DEF IInv, RemoveShadow, TypeOK
<1>2. ClientInv'
  <2>1. acked' \subseteq 1..(nextTxn - 1)
    BY <1>c, Zenon DEF IInv, RemoveShadow, ClientInv
  <2> QED
    BY <2>1 DEF IInv, RemoveShadow, ClientInv, TypeOK
<1>3. WALInv'
  BY DEF IInv, RemoveShadow, WALInv
<1>4. WriterInv'
  BY DEF IInv, RemoveShadow, WriterInv
<1>5. FileInv'
  <2>1. LastTxn' = nextTxn - 1
    BY DEF RemoveShadow, LastTxn
  <2>2. QuietFiles
    BY <1>a DEF IInv, FileInv
  <2>3. QuietFiles'
    BY <1>a, <1>b, <2>1, <2>2, Zenon DEF RemoveShadow, QuietFiles
  <2> QED
    BY <1>a, <2>3 DEF FileInv, RemoveShadow
<1>6. MemInv'
  BY <1>b, Zenon DEF RemoveShadow, MemInv
<1>7. ("commitSync" \notin IOFaults => SyncInv)'
  <2>1. data.header \o wal.txns = mem
    BY <1>a, Zenon
  <2> QED
    BY <2>1 DEF IInv, SyncInv, Saved, RemoveShadow
<1> QED
  BY <1>1, <1>2, <1>3, <1>4, <1>5, <1>6, <1>7 DEF IInv

LEMMA CheckpointFailsStep == ASSUME ToleratedFaults, IInv, CheckpointFails PROVE IInv'
<1>a. EmptyLog.txns = <<>> /\ data.header \o <<>> = data.header
  BY StateConcatEmpty DEF IInv, TypeOK, EmptyLog
<1>1. TypeOK'
  BY EmptyValues DEF IInv, CheckpointFails, ToleratedFaults, WALUntouched, TypeOK
<1>2. ClientInv'
  BY DEF IInv, CheckpointFails, ToleratedFaults, WALUntouched, ClientInv, TypeOK
<1>3. WALInv'
  BY DEF IInv, CheckpointFails, ToleratedFaults, WALUntouched, WALInv
<1>4. WriterInv'
  BY DEF IInv, CheckpointFails, ToleratedFaults, WALUntouched, WriterInv
<1>5. FileInv'
  BY DEF IInv, CheckpointFails, ToleratedFaults, WALUntouched, FileInv, WALInv, QuietFiles, LastTxn
<1>6. MemInv'
  BY Zenon DEF IInv, CheckpointFails, ToleratedFaults, WALUntouched, MemInv
<1>7. ("commitSync" \notin IOFaults => SyncInv)'
  <2>1. SUFFICES ASSUME "commitSync" \notin IOFaults PROVE SyncInv'
    OBVIOUS
  <2>2. CASE pc = "removeShadow"
    <3>1. data.header \o wal.txns = mem /\ refused = {}
      BY <1>a, <2>1, <2>2, Zenon DEF IInv, WALInv, MemInv, SyncInv
    <3> QED
      BY <3>1 DEF SyncInv, Saved, CheckpointFails
  <2>3. CASE pc # "removeShadow"
    <3>1. pc \in Quiet \ {"commitSync"}
      BY <2>3 DEF CheckpointFails, ToleratedFaults
    <3> QED
      BY <2>1, <3>1, Zenon DEF IInv, SyncInv, Saved, CheckpointFails
  <2> QED
    BY <2>2, <2>3
<1> QED
  BY <1>1, <1>2, <1>3, <1>4, <1>5, <1>6, <1>7 DEF IInv

LEMMA CloseStep == ASSUME ToleratedFaults, IInv, Close PROVE IInv'
<1>a. pending = EmptyLog /\ wal' = wal
  BY ConcatEmpty DEF IInv, WriterInv, Close
<1>1. TypeOK'
  <2>a. nextTxn' \in 1..(MaxTxns + 1) /\ pc' \in Labels /\ mem' \in States
        /\ shadowPages' \in [body : States, header : States]
    BY EmptyValues DEF IInv, TypeOK, ClientInv, Close, Abandon
  <2> QED
    BY <1>a, <2>a, EmptyValues, Zenon DEF IInv, TypeOK, Close, Abandon
<1>2. ClientInv'
  BY DEF IInv, Close, Abandon, ClientInv
<1>3. WALInv'
  BY <1>a DEF IInv, Close, Abandon, WALInv
<1>4. WriterInv'
  BY DEF IInv, Close, Abandon, WriterInv
<1>5. FileInv'
  BY <1>a DEF IInv, Close, Abandon, FileInv, WALInv, QuietFiles, LastTxn
<1>6. MemInv'
  BY DEF IInv, Close, Abandon, MemInv
<1>7. ("commitSync" \notin IOFaults => SyncInv)'
  BY DEF IInv, Close, Abandon, SyncInv
<1> QED
  BY <1>1, <1>2, <1>3, <1>4, <1>5, <1>6, <1>7 DEF IInv

\* A kill leaves the WAL as it is or with the records being written, or a part of them.
LEMMA CrashedWAL ==
    ASSUME IInv, Crash
    PROVE  \/ wal' = wal
           \/ /\ pc \in {"commit", "logFlush"} /\ wal' \in Logs /\ LogForm(wal')
              /\ wal.stop = "end" /\ wal'.stop \in {"end", "torn"}
              /\ \/ wal'.txns = wal.txns
                 \/ pc = "commit" /\ wal'.txns = wal.txns \o Redone(nextTxn)
<1>1. SUFFICES ASSUME wal' # wal
               PROVE  /\ pc \in {"commit", "logFlush"} /\ wal' \in Logs /\ LogForm(wal')
                      /\ wal.stop = "end" /\ wal'.stop \in {"end", "torn"}
                      /\ \/ wal'.txns = wal.txns
                         \/ pc = "commit" /\ wal'.txns = wal.txns \o Redone(nextTxn)
  OBVIOUS
<1>2. /\ pc \in {"commit", "logFlush"}
      /\ \E q \in Prefixes(pending) : wal' = Concat(wal, q)
  BY <1>1 DEF Crash
<1>3. /\ wal \in Logs /\ pending \in Logs /\ LogForm(wal) /\ wal.stop = "end"
  BY <1>2 DEF IInv, TypeOK, WALInv
<1>4. PICK q \in Prefixes(pending) : wal' = Concat(wal, q)
  BY <1>2
<1>5. CASE pc = "commit"
  <2>1. IsRecord(pending, wal, Redone(nextTxn), "end") /\ pending.txns = Redone(nextTxn)
    BY <1>5 DEF IInv, WriterInv, IsRecord
  <2>2. Len(pending.txns) <= 1
    BY <2>1 DEF Redone
  <2> QED
    BY <1>3, <1>4, <1>5, <2>1, <2>2, ConcatPiece, ZenonT(30)
<1>6. CASE pc = "logFlush"
  <2>1. IsRecord(pending, wal, <<>>, "checkpoint") /\ pending.txns = <<>>
    BY <1>6 DEF IInv, WriterInv, IsRecord
  <2>2. Len(pending.txns) <= 1 /\ wal.txns \o <<>> = wal.txns
    BY <1>3, <2>1, StateConcatEmpty DEF Logs
  <2> QED
    BY <1>3, <1>4, <1>6, <2>1, <2>2, ConcatPiece, ZenonT(40)
<1> QED
  BY <1>2, <1>5, <1>6

LEMMA CrashStep == ASSUME ToleratedFaults, IInv, Crash PROVE IInv'
<1>a. /\ wal \in Logs /\ pending \in Logs /\ LogForm(wal) /\ nextTxn \in Nat \ {0}
      /\ (pc \in {"commit", "commitSync", "logFlush"} => wal.stop = "end")
      /\ (pc \in {"commit", "logFlush"} => walExists)
  BY SMTT(60) DEF IInv, TypeOK, WALInv, WriterInv
<1>c. \/ wal' = wal
      \/ /\ pc \in {"commit", "logFlush"} /\ wal' \in Logs /\ LogForm(wal')
         /\ wal'.stop \in {"end", "torn"}
         /\ \/ wal'.txns = wal.txns
            \/ pc = "commit" /\ wal'.txns = wal.txns \o Redone(nextTxn)
  BY CrashedWAL
<1>d. /\ LastTxn' = nextTxn' - 1 /\ LastTxn' \in Nat /\ nextTxn' \in Nat \ {0}
      /\ LastTxn \in Nat /\ LastTxn <= LastTxn'
  BY <1>a DEF Crash, Abandon, LastTxn
<1>1. TypeOK'
  <2>a. nextTxn' \in 1..(MaxTxns + 1) /\ pc' \in Labels /\ mem' \in States
        /\ shadowPages' \in [body : States, header : States]
    BY EmptyValues, SMTT(60) DEF IInv, TypeOK, ClientInv, Crash, ToleratedFaults, Abandon
  <2> QED
    BY <1>a, <1>c, <2>a, EmptyValues, ZenonT(60) DEF IInv, TypeOK, Crash, ToleratedFaults, Abandon
<1>2. ClientInv'
  BY SMTT(60) DEF IInv, Crash, Abandon, ToleratedFaults, WALUntouched, ClientInv, TypeOK
<1>3. WALInv'
  BY <1>a, <1>c DEF IInv, WALInv, Crash, ToleratedFaults, Abandon
<1>4. WriterInv'
  BY DEF IInv, Crash, Abandon, ToleratedFaults, WALUntouched, WriterInv
<1>5. FileInv'
  <2>1. CASE wal.stop # "checkpoint"
    <3>a. /\ Good(data.header \o wal.txns, LastTxn, acked)
          /\ PowerLossAt # {} => Good(data.header \o walDisk.txns, LastTxn, acked)
      BY <2>1 DEF IInv, FileInv, QuietFiles
    <3>1. Good(data.header \o wal.txns, LastTxn', acked)
      BY <1>d, <3>a, GoodWeaken, Zenon
    <3>2. PowerLossAt # {} => Good(data.header \o walDisk.txns, LastTxn', acked)
      BY <1>d, <3>a, GoodWeaken, Zenon
    <3>3. Good(data.header \o wal'.txns, LastTxn', acked)
      <4>1. CASE wal'.txns = wal.txns
        BY <3>1, <4>1
      <4>2. CASE pc = "commit" /\ wal'.txns = wal.txns \o Redone(nextTxn)
        <5>1. data.header \in States /\ wal.txns \in States /\ nextTxn \in 0..MaxTxns
          BY <4>2 DEF IInv, TypeOK, ClientInv, Logs
        <5>2. data.header \o (wal.txns \o Redone(nextTxn))
              = Extended(data.header \o wal.txns, nextTxn)
          BY <5>1, ConcatRedone, Zenon
        <5>3. data.header \o wal'.txns = Extended(data.header \o wal.txns, nextTxn)
          BY <4>2, <5>2, Zenon
        <5>4. LastTxn' = nextTxn
          BY <1>a, <4>2 DEF Crash, Abandon, LastTxn
        <5> QED
          BY <4>2, <5>3, <5>4, GoodCommit, Zenon
      <4> QED
        BY <1>c, <4>1, <4>2
    <3>4. PowerLossAt # {} => Begins(walDisk.txns, wal'.txns)
      <4>1. walDisk.txns \in States /\ wal.txns \in States
        BY DEF IInv, TypeOK, Logs
      <4>2. PowerLossAt # {} => Begins(walDisk.txns, wal.txns)
        BY <2>1 DEF IInv, FileInv, QuietFiles
      <4>3. pc = "commit" => nextTxn \in 0..MaxTxns
        BY DEF IInv, TypeOK, ClientInv
      <4>4. pc = "commit" => Redone(nextTxn) \in States
        BY <4>1, <4>3, ConcatRedone, Zenon
      <4> QED
        BY <1>c, <4>1, <4>2, <4>4, BeginsConcat, Zenon
    <3>5. QuietFiles'
      BY <2>1, <3>2, <3>3, <3>4 DEF IInv, FileInv, QuietFiles, Crash, ToleratedFaults, Abandon
    <3> QED
      BY <1>c, <2>1, <3>5, SMTT(60) DEF FileInv, Crash, ToleratedFaults, Abandon
  <2>2. CASE wal.stop = "checkpoint"
    <3>1. wal' = wal /\ nextTxn' = nextTxn /\ CheckpointFiles
      BY <1>a, <1>c, <2>2 DEF IInv, FileInv, Crash, ToleratedFaults, Abandon
    <3>2. CheckpointFiles'
      BY <3>1 DEF CheckpointFiles, Crash, ToleratedFaults, Abandon
    <3> QED
      BY <2>2, <3>1, <3>2 DEF FileInv, Crash, ToleratedFaults, Abandon
  <2> QED
    BY <2>1, <2>2
<1>6. MemInv'
  BY DEF IInv, Crash, Abandon, ToleratedFaults, WALUntouched, MemInv
<1>7. ("commitSync" \notin IOFaults => SyncInv)'
  BY DEF IInv, Crash, Abandon, ToleratedFaults, WALUntouched, SyncInv
<1> QED
  BY <1>1, <1>2, <1>3, <1>4, <1>5, <1>6, <1>7 DEF IInv

LEMMA LosePowerStep == ASSUME ToleratedFaults, IInv, LosePower PROVE IInv'
<1>a. /\ wal \in Logs /\ walDisk \in Logs /\ LogForm(wal) /\ LogForm(walDisk)
      /\ nextTxn \in Nat \ {0}
      /\ (walDisk.stop # "end" => walDisk = wal)
  BY DEF IInv, TypeOK, WALInv
<1>b. \/ wal' = walDisk \/ wal' = wal
      \/ wal' \in Prefixes(wal) /\ Extends(wal', walDisk)
  BY DEF LosePower
<1>c. \/ wal' = walDisk \/ wal' = wal
      \/ /\ wal' \in Logs /\ LogForm(wal') /\ wal'.stop # "checkpoint" /\ walDisk.stop = "end"
         /\ Begins(wal'.txns, wal.txns) /\ Len(walDisk.txns) <= Len(wal'.txns)
  <2>1. SUFFICES ASSUME wal' \in Prefixes(wal), Extends(wal', walDisk), wal' # walDisk
                 PROVE  /\ wal' \in Logs /\ LogForm(wal') /\ wal'.stop # "checkpoint"
                        /\ walDisk.stop = "end"
                        /\ Begins(wal'.txns, wal.txns) /\ Len(walDisk.txns) <= Len(wal'.txns)
    BY <1>b
  <2>2. /\ wal' \in Logs /\ wal'.stop \in {"end", "torn"} /\ ~wal'.more
        /\ (~wal'.commits => wal'.txns = <<>>)
        /\ (wal'.commits => wal.commits /\ wal'.header = wal.header)
        /\ Begins(wal'.txns, wal.txns)
    BY <1>a, <2>1, PieceValues
  <2>3. ~wal'.header => ~wal'.commits
    BY <1>a, <2>2 DEF LogForm
  <2>4. ~wal'.header /\ wal'.stop = "end" => wal' = EmptyLog
    BY <2>2, <2>3 DEF Logs, EmptyLog
  <2> QED
    BY <2>1, <2>2, <2>3, <2>4 DEF LogForm, Extends
<1>d. /\ LastTxn' = nextTxn' - 1 /\ LastTxn' \in Nat /\ nextTxn' \in Nat \ {0}
      /\ LastTxn \in Nat /\ LastTxn <= LastTxn'
  BY <1>a DEF LosePower, Abandon, LastTxn
<1>e. freshDisk \subseteq fresh' /\ fresh' \subseteq fresh /\ freshDisk' = fresh'
  BY DEF IInv, TypeOK, LosePower
<1>f. PowerLossAt # {} /\ pc \notin Applying /\ pc # "dropWAL"
  BY DEF LosePower, ToleratedFaults
<1>g. dataDisk = data => data' = data /\ dataDisk' = data
  BY DEF IInv, TypeOK, LosePower
<1>h. shadow' \in Shadows
  BY DEF IInv, TypeOK, LosePower, Shadows
<1>1. TypeOK'
  <2>a. nextTxn' \in 1..(MaxTxns + 1) /\ pc' \in Labels /\ mem' \in States
        /\ shadowPages' \in [body : States, header : States]
    BY EmptyValues DEF IInv, TypeOK, ClientInv, LosePower, Abandon
  <2>1. wal' \in Logs /\ walDisk' \in Logs
    BY <1>a, <1>c DEF LosePower
  <2>2. data' \in [body : States, header : States] /\ dataDisk' = data'
    BY DEF IInv, TypeOK, LosePower
  <2> QED
    BY <1>e, <1>h, <2>a, <2>1, <2>2, EmptyValues, Zenon DEF IInv, TypeOK, LosePower, Abandon
<1>2. ClientInv'
  BY DEF IInv, LosePower, Abandon, ClientInv, TypeOK
<1>3. WALInv'
  BY <1>a, <1>c DEF IInv, WALInv, LosePower, Abandon
<1>4. WriterInv'
  BY DEF IInv, LosePower, Abandon, WriterInv
<1>5. FileInv'
  <2>1. CASE wal.stop # "checkpoint"
    <3>1. QuietFiles
      BY <2>1 DEF IInv, FileInv
    <3>a. /\ Good(data.header \o wal.txns, LastTxn, acked)
          /\ Good(data.header \o walDisk.txns, LastTxn, acked)
      BY <1>f, <3>1 DEF QuietFiles
    <3>2. /\ Good(data.header \o wal.txns, LastTxn', acked)
          /\ Good(data.header \o walDisk.txns, LastTxn', acked)
      BY <1>d, <3>a, GoodWeaken, Zenon
    <3>3. wal'.stop # "checkpoint" /\ walDisk' = wal' /\ acked' = acked
      BY <1>a, <1>c, <2>1 DEF LosePower, Abandon
    <3>b. /\ data.header \in States /\ wal.txns \in States /\ walDisk.txns \in States
          /\ wal'.txns \in States /\ Begins(wal'.txns, wal'.txns)
      <4>1. wal' \in Logs /\ data.header \in States
        BY <1>a, <1>c DEF IInv, TypeOK
      <4> QED
        BY <1>a, <4>1, BeginsSelf DEF Logs
    <3>4. Good(data.header \o wal'.txns, LastTxn', acked)
      <4>1. CASE wal' = walDisk \/ wal' = wal
        BY <3>2, <4>1
      <4>2. CASE Begins(wal'.txns, wal.txns) /\ Len(walDisk.txns) <= Len(wal'.txns)
        <5>1. Begins(walDisk.txns, wal.txns)
          BY <1>f, <3>1 DEF QuietFiles
        <5>2. Len(walDisk.txns) \in Nat /\ Len(wal'.txns) \in Nat
          BY <3>b, LenProperties DEF States
        <5>3. Begins(walDisk.txns, wal'.txns)
          BY <4>2, <5>1, <5>2 DEF Begins
        <5>4. Good(data.header \o wal.txns, LastTxn', {})
          BY <3>2, Zenon DEF Good, Includes
        <5> QED
          BY <3>2, <3>b, <4>2, <5>3, <5>4, GoodBetween, Zenon
      <4> QED
        BY <1>c, <4>1, <4>2
    <3>5. QuietFiles'
      BY <1>e, <1>f, <1>g, <3>1, <3>3, <3>4, <3>b DEF QuietFiles, Whole
    <3> QED
      BY <3>3, <3>5 DEF FileInv, LosePower, Abandon
  <2>2. CASE wal.stop = "checkpoint"
    <3>1. CheckpointFiles /\ nextTxn' = nextTxn /\ acked' = acked
      BY <1>f, <2>2 DEF IInv, FileInv, WALInv, LosePower, Abandon
    <3>2. walDisk = wal /\ shadowDisk = shadow /\ dataDisk = data
      BY <1>f, <3>1 DEF CheckpointFiles
    <3>3. wal' = wal /\ walDisk' = wal /\ shadow' = shadow /\ shadowDisk' = shadow
      BY <1>c, <3>2 DEF LosePower
    <3>4. CheckpointFiles'
      BY <1>e, <1>f, <1>g, <3>1, <3>2, <3>3 DEF CheckpointFiles, Whole
    <3> QED
      BY <2>2, <3>3, <3>4 DEF FileInv, LosePower, Abandon
  <2> QED
    BY <2>1, <2>2
<1>6. MemInv'
  BY DEF IInv, LosePower, Abandon, MemInv
<1>7. ("commitSync" \notin IOFaults => SyncInv)'
  BY DEF IInv, LosePower, Abandon, SyncInv
<1> QED
  BY <1>1, <1>2, <1>3, <1>4, <1>5, <1>6, <1>7 DEF IInv

LEMMA OpenStep == ASSUME ToleratedFaults, IInv, Open PROVE IInv'
<1>1. TypeOK'
  BY EmptyValues DEF IInv, Open, TypeOK
<1>2. ClientInv'
  BY DEF IInv, Open, ClientInv
<1>3. WALInv'
  BY DEF IInv, Open, WALInv
<1>4. WriterInv'
  BY DEF IInv, Open, WriterInv
<1>5. FileInv'
  BY DEF IInv, Open, FileInv, WALInv, QuietFiles, CheckpointFiles, LastTxn
<1>6. MemInv'
  BY Zenon DEF IInv, Open, MemInv
<1>7. ("commitSync" \notin IOFaults => SyncInv)'
  BY DEF IInv, Open, SyncInv
<1> QED
  BY <1>1, <1>2, <1>3, <1>4, <1>5, <1>6, <1>7 DEF IInv

LEMMA RecoverWithoutWALStep == ASSUME ToleratedFaults, IInv, RecoverWithoutWAL PROVE IInv'
<1>1. TypeOK'
  BY EmptyValues DEF IInv, RecoverWithoutWAL, TypeOK
<1>2. ClientInv'
  BY DEF IInv, RecoverWithoutWAL, ClientInv
<1>3. WALInv'
  BY DEF IInv, RecoverWithoutWAL, WALInv
<1>4. WriterInv'
  BY DEF IInv, RecoverWithoutWAL, WriterInv
<1>5. FileInv'
  <2>1. wal = EmptyLog /\ wal.stop = "end" /\ wal' = wal /\ pc' = "readCheckpoint" /\ pc = "recover"
    BY SMTT(60) DEF IInv, RecoverWithoutWAL, WALInv, EmptyLog
  <2>2. QuietFiles
    BY <2>1 DEF IInv, FileInv
  <2>3. QuietFiles'
    BY <2>1, <2>2 DEF RecoverWithoutWAL, QuietFiles, LastTxn
  <2> QED
    BY <2>1, <2>3 DEF FileInv
<1>6. MemInv'
  BY DEF IInv, RecoverWithoutWAL, MemInv
<1>7. ("commitSync" \notin IOFaults => SyncInv)'
  BY DEF IInv, RecoverWithoutWAL, SyncInv
<1> QED
  BY <1>1, <1>2, <1>3, <1>4, <1>5, <1>6, <1>7 DEF IInv

LEMMA RecoverWithEmptyWALStep == ASSUME ToleratedFaults, IInv, RecoverWithEmptyWAL PROVE IInv'
<1>1. TypeOK'
  BY EmptyValues DEF IInv, RecoverWithEmptyWAL, TypeOK
<1>2. ClientInv'
  BY DEF IInv, RecoverWithEmptyWAL, ClientInv
<1>3. WALInv'
  BY DEF IInv, RecoverWithEmptyWAL, WALInv
<1>4. WriterInv'
  BY DEF IInv, RecoverWithEmptyWAL, WriterInv
<1>5. FileInv'
  BY DEF IInv, RecoverWithEmptyWAL, FileInv, WALInv, QuietFiles, CheckpointFiles, LastTxn,
         EmptyLog, Whole
<1>6. MemInv'
  BY Zenon DEF IInv, RecoverWithEmptyWAL, MemInv
<1>7. ("commitSync" \notin IOFaults => SyncInv)'
  BY DEF IInv, RecoverWithEmptyWAL, SyncInv
<1> QED
  BY <1>1, <1>2, <1>3, <1>4, <1>5, <1>6, <1>7 DEF IInv

LEMMA DryReplayFailsStep == ASSUME ToleratedFaults, IInv, DryReplayFails PROVE IInv'
<1>1. TypeOK'
  BY EmptyValues DEF IInv, DryReplayFails, DryReplay, DryReplayThrows, TypeOK
<1>2. ClientInv'
  BY DEF IInv, DryReplayFails, DryReplay, DryReplayThrows, ClientInv
<1>3. WALInv'
  BY DEF IInv, DryReplayFails, DryReplay, DryReplayThrows, WALInv
<1>4. WriterInv'
  BY DEF IInv, DryReplayFails, DryReplay, DryReplayThrows, WriterInv
<1>5. FileInv'
  <2>1. Begins(wal.txns, wal.txns)
    BY BeginsSelf DEF IInv, TypeOK, Logs
  <2> QED
    BY <2>1 DEF IInv, DryReplayFails, DryReplay, DryReplayThrows, FileInv, WALInv, QuietFiles,
                CheckpointFiles, LastTxn
<1>6. MemInv'
  BY Zenon DEF IInv, DryReplayFails, DryReplay, DryReplayThrows, MemInv
<1>7. ("commitSync" \notin IOFaults => SyncInv)'
  BY DEF IInv, DryReplayFails, DryReplay, DryReplayThrows, SyncInv
<1> QED
  BY <1>1, <1>2, <1>3, <1>4, <1>5, <1>6, <1>7 DEF IInv

LEMMA ResumeCheckpointStep == ASSUME ToleratedFaults, IInv, ResumeCheckpoint PROVE IInv'
<1>1. TypeOK'
  BY EmptyValues DEF IInv, ResumeCheckpoint, DryReplay, DryReplayThrows, IsLastRecordCheckpoint,
                     TypeOK
<1>2. ClientInv'
  BY DEF IInv, ResumeCheckpoint, DryReplay, DryReplayThrows, IsLastRecordCheckpoint, ClientInv
<1>3. WALInv'
  BY DEF IInv, ResumeCheckpoint, DryReplay, DryReplayThrows, IsLastRecordCheckpoint, WALInv
<1>4. WriterInv'
  BY DEF IInv, ResumeCheckpoint, DryReplay, DryReplayThrows, IsLastRecordCheckpoint, WriterInv
<1>5. FileInv'
  BY Zenon DEF IInv, ResumeCheckpoint, DryReplay, DryReplayThrows, IsLastRecordCheckpoint,
               FileInv, WALInv, CheckpointFiles
<1>6. MemInv'
  BY DEF IInv, ResumeCheckpoint, DryReplay, DryReplayThrows, IsLastRecordCheckpoint, MemInv,
         FileInv, WALInv, CheckpointFiles
<1>7. ("commitSync" \notin IOFaults => SyncInv)'
  BY DEF IInv, ResumeCheckpoint, DryReplay, DryReplayThrows, IsLastRecordCheckpoint, SyncInv
<1> QED
  BY <1>1, <1>2, <1>3, <1>4, <1>5, <1>6, <1>7 DEF IInv

LEMMA ResumeFromWALStep == ASSUME ToleratedFaults, IInv, ResumeFromWAL PROVE IInv'
<1>1. TypeOK'
  BY EmptyValues DEF IInv, ResumeFromWAL, DryReplay, DryReplayThrows, IsLastRecordCheckpoint, TypeOK
<1>2. ClientInv'
  BY DEF IInv, ResumeFromWAL, DryReplay, DryReplayThrows, IsLastRecordCheckpoint, ClientInv
<1>3. WALInv'
  BY DEF IInv, ResumeFromWAL, DryReplay, DryReplayThrows, IsLastRecordCheckpoint, WALInv, LogForm,
         EmptyLog
<1>4. WriterInv'
  BY DEF IInv, ResumeFromWAL, DryReplay, DryReplayThrows, IsLastRecordCheckpoint, WriterInv
<1>5. FileInv'
  <2>1. /\ wal.stop # "checkpoint" /\ wal' = wal /\ walDisk' = wal /\ pc = "recover"
        /\ pc' = "replayWAL"
    BY DEF IInv, WALInv, LogForm, ResumeFromWAL, DryReplay, IsLastRecordCheckpoint
  <2>2. Begins(wal.txns, wal.txns)
    BY BeginsSelf DEF IInv, TypeOK, Logs
  <2>3. QuietFiles'
    BY <2>1, <2>2, ZenonT(30) DEF IInv, FileInv, QuietFiles, LastTxn, ResumeFromWAL, DryReplay
  <2> QED
    BY <2>1, <2>3 DEF FileInv
<1>6. MemInv'
  BY DEF IInv, ResumeFromWAL, DryReplay, DryReplayThrows, IsLastRecordCheckpoint, MemInv
<1>7. ("commitSync" \notin IOFaults => SyncInv)'
  BY DEF IInv, ResumeFromWAL, DryReplay, DryReplayThrows, IsLastRecordCheckpoint, SyncInv
<1> QED
  BY <1>1, <1>2, <1>3, <1>4, <1>5, <1>6, <1>7 DEF IInv

LEMMA ReplayBodyStep == ASSUME ToleratedFaults, IInv, ReplayBody PROVE IInv'
<1>1. TypeOK'
  BY EmptyValues DEF IInv, ReplayBody, ShadowContent, TypeOK, Shadows
<1>2. ClientInv'
  BY DEF IInv, ReplayBody, ShadowContent, ClientInv
<1>3. WALInv'
  BY DEF IInv, ReplayBody, ShadowContent, WALInv
<1>4. WriterInv'
  BY DEF IInv, ReplayBody, ShadowContent, WriterInv
<1>5. FileInv'
  BY DEF IInv, ReplayBody, ShadowContent, FileInv, WALInv, CheckpointFiles, Whole
<1>6. MemInv'
  BY DEF IInv, ReplayBody, ShadowContent, MemInv
<1>7. ("commitSync" \notin IOFaults => SyncInv)'
  BY DEF IInv, ReplayBody, ShadowContent, SyncInv
<1> QED
  BY <1>1, <1>2, <1>3, <1>4, <1>5, <1>6, <1>7 DEF IInv

LEMMA ReplayHeaderStep == ASSUME ToleratedFaults, IInv, ReplayHeader PROVE IInv'
<1>1. TypeOK'
  BY EmptyValues DEF IInv, ReplayHeader, ShadowContent, TypeOK, Shadows
<1>2. ClientInv'
  BY DEF IInv, ReplayHeader, ShadowContent, ClientInv
<1>3. WALInv'
  BY DEF IInv, ReplayHeader, ShadowContent, WALInv
<1>4. WriterInv'
  BY DEF IInv, ReplayHeader, ShadowContent, WriterInv
<1>5. FileInv'
  BY DEF IInv, ReplayHeader, ShadowContent, FileInv, WALInv, ClientInv, MemInv, WriterInv,
         QuietFiles, CheckpointFiles, DroppedFiles, Whole, LastTxn, EmptyLog, TypeOK, SyncInv,
         NoShadow, Shadows
<1>6. MemInv'
  BY DEF IInv, ReplayHeader, ShadowContent, MemInv
<1>7. ("commitSync" \notin IOFaults => SyncInv)'
  BY DEF IInv, ReplayHeader, ShadowContent, SyncInv
<1> QED
  BY <1>1, <1>2, <1>3, <1>4, <1>5, <1>6, <1>7 DEF IInv

LEMMA DropShadowStep == ASSUME ToleratedFaults, IInv, DropShadow PROVE IInv'
<1>1. TypeOK'
  BY EmptyValues DEF IInv, DropShadow, TypeOK
<1>2. ClientInv'
  BY DEF IInv, DropShadow, ClientInv
<1>3. WALInv'
  BY DEF IInv, DropShadow, WALInv
<1>4. WriterInv'
  BY DEF IInv, DropShadow, WriterInv
<1>5. FileInv'
  <2>1. pc = "dropShadow" /\ pc' = "dropWAL" /\ wal' = wal /\ wal.stop = "checkpoint"
    BY DEF IInv, DropShadow, WALInv
  <2>2. CheckpointFiles /\ data = [body |-> shadow.header, header |-> shadow.header]
    BY <2>1 DEF IInv, FileInv
  <2>3. data.body = shadow.header /\ data.header = shadow.header
    BY <2>2
  <2>4. DroppedFiles
    BY <2>1, <2>2, <2>3 DEF CheckpointFiles, DroppedFiles, Whole
  <2>5. DroppedFiles'
    BY <2>4 DEF DropShadow, DroppedFiles
  <2> QED
    BY <2>1, <2>5 DEF FileInv
<1>6. MemInv'
  BY DEF IInv, DropShadow, MemInv
<1>7. ("commitSync" \notin IOFaults => SyncInv)'
  BY DEF IInv, DropShadow, SyncInv
<1> QED
  BY <1>1, <1>2, <1>3, <1>4, <1>5, <1>6, <1>7 DEF IInv

LEMMA DropWALStep == ASSUME ToleratedFaults, IInv, DropWAL PROVE IInv'
<1>a. /\ wal' = EmptyLog /\ EmptyLog.txns = <<>> /\ EmptyLog.stop = "end"
      /\ data.header \o <<>> = data.header
  BY StateConcatEmpty DEF IInv, TypeOK, EmptyLog, DropWAL
<1>1. TypeOK'
  BY EmptyValues, Zenon DEF IInv, DropWAL, TypeOK
<1>2. ClientInv'
  BY DEF IInv, DropWAL, ClientInv
<1>3. WALInv'
  BY DEF IInv, DropWAL, WALInv, LogForm, EmptyLog
<1>4. WriterInv'
  BY DEF IInv, DropWAL, WriterInv
<1>5. FileInv'
  <2>1. Whole(data, fresh) /\ Good(data.header, nextTxn - 1, acked)
        /\ (PowerLossAt # {} => dataDisk = data /\ data.header \in freshDisk)
    BY <1>a, Zenon DEF IInv, FileInv, WALInv, QuietFiles, DroppedFiles, LastTxn, DropWAL
  <2>2. Begins(<<>>, <<>>) /\ walDisk' = EmptyLog
    BY EmptyValues, BeginsSelf DEF DropWAL
  <2>3. QuietFiles'
    BY <1>a, <2>1, <2>2, Zenon DEF QuietFiles, LastTxn, DropWAL
  <2> QED
    BY <1>a, <2>3 DEF FileInv, DropWAL
<1>6. MemInv'
  BY DEF IInv, DropWAL, MemInv
<1>7. ("commitSync" \notin IOFaults => SyncInv)'
  BY DEF IInv, DropWAL, SyncInv
<1> QED
  BY <1>1, <1>2, <1>3, <1>4, <1>5, <1>6, <1>7 DEF IInv

LEMMA ReadCheckpointStep == ASSUME ToleratedFaults, IInv, ReadCheckpoint PROVE IInv'
<1>a. /\ wal = EmptyLog /\ EmptyLog.txns = <<>> /\ EmptyLog.stop = "end"
      /\ data.header \in States /\ data.header \o <<>> = data.header
  BY StateConcatEmpty DEF IInv, TypeOK, WALInv, EmptyLog, ReadCheckpoint
<1>b. Whole(data, fresh) /\ Good(data.header \o <<>>, nextTxn - 1, acked)
  BY <1>a DEF IInv, FileInv, QuietFiles, LastTxn, ReadCheckpoint
<1>c. ReadableHeader
  BY <1>a, <1>b, EmptyValues, GoodReadable, Zenon DEF ReadableHeader
<1>d. pc' = "open" /\ mem' = data.header
  BY <1>b, <1>c DEF ReadCheckpoint, Contents, Whole
<1>1. TypeOK'
  BY <1>a, <1>b, <1>d, EmptyValues DEF IInv, ReadCheckpoint, ReadableHeader, Contents, TypeOK
<1>2. ClientInv'
  BY DEF IInv, ReadCheckpoint, ReadableHeader, Contents, ClientInv
<1>3. WALInv'
  <2>1. WALInv /\ pc = "readCheckpoint" /\ wal = EmptyLog /\ EmptyLog.stop = "end"
    BY DEF IInv, WALInv, ReadCheckpoint, EmptyLog
  <2> QED
    BY <1>d, <2>1 DEF ReadCheckpoint, WALInv
<1>4. WriterInv'
  BY DEF IInv, ReadCheckpoint, ReadableHeader, Contents, WriterInv
<1>5. FileInv'
  BY DEF IInv, ReadCheckpoint, ReadableHeader, Contents, FileInv, WALInv, QuietFiles,
         CheckpointFiles, LastTxn
<1>6. MemInv'
  BY <1>a, <1>b, <1>d, Zenon DEF IInv, ReadCheckpoint, ReadableHeader, Contents, MemInv
<1>7. ("commitSync" \notin IOFaults => SyncInv)'
  <2>1. data'.header \o wal'.txns = mem'
    BY <1>a, <1>d DEF ReadCheckpoint
  <2> QED
    BY <1>d, <2>1 DEF IInv, SyncInv, Saved, ReadCheckpoint
<1> QED
  BY <1>1, <1>2, <1>3, <1>4, <1>5, <1>6, <1>7 DEF IInv

\* Replaying the WAL opens the checkpoint with the committed transactions after it,
\* and truncates the WAL to just those.
LEMMA ReplayedWAL ==
    ASSUME IInv, ReplayWAL
    PROVE  /\ data.header \in States /\ wal.txns \in States /\ wal.stop # "checkpoint" /\ walExists
           /\ Whole(data, fresh) /\ Good(data.header \o wal.txns, nextTxn - 1, acked)
           /\ pc' = "open" /\ mem' = data.header \o wal.txns /\ mem' \in States
           /\ wal' \in Logs /\ walDisk' = wal' /\ LogForm(wal')
           /\ wal'.txns = wal.txns /\ wal'.stop = "end" /\ ~wal'.more
<1>a. /\ data.header \in States /\ wal \in Logs /\ wal.txns \in States /\ LogForm(wal)
      /\ wal.stop # "checkpoint" /\ walExists
  BY DEF IInv, TypeOK, WALInv, Logs, ReplayWAL
<1>b. Whole(data, fresh) /\ Good(data.header \o wal.txns, nextTxn - 1, acked)
  BY <1>a DEF IInv, FileInv, QuietFiles, LastTxn, ReplayWAL
<1>c. ReadableHeader /\ CommittedPart(wal) = wal.txns
  BY <1>a, <1>b, GoodReadable DEF ReadableHeader, CommittedPart, HasCommit, LogForm
<1>d. pc' = "open" /\ mem' = data.header \o wal.txns /\ mem' \in States
  BY <1>a, <1>b, <1>c, StateConcat, Zenon DEF ReplayWAL, Redo, Contents, Whole
<1>e. /\ wal' \in Logs /\ walDisk' = wal' /\ LogForm(wal')
      /\ wal'.txns = wal.txns /\ wal'.stop = "end" /\ ~wal'.more
  <2>1. CASE ~HasCommit(wal)
    <3>1. wal' = EmptyLog /\ walDisk' = wal'
      BY <1>c, <2>1 DEF ReplayWAL
    <3>2. wal.txns = <<>>
      BY <1>a, <2>1 DEF HasCommit, LogForm
    <3> QED
      BY <3>1, <3>2, EmptyValues DEF LogForm, EmptyLog
  <2>2. CASE HasCommit(wal)
    <3>1. wal' = [wal EXCEPT !.stop = "end", !.more = FALSE] /\ walDisk' = wal'
      BY <1>c, <2>2 DEF ReplayWAL
    <3> QED
      BY <1>a, <2>2, <3>1, Zenon DEF LogForm, Logs, HasCommit
  <2> QED
    BY <2>1, <2>2
<1> QED
  BY <1>a, <1>b, <1>d, <1>e

LEMMA ReplayWALStep == ASSUME ToleratedFaults, IInv, ReplayWAL PROVE IInv'
<1>a. /\ data.header \in States /\ wal.txns \in States /\ wal.stop # "checkpoint" /\ walExists
      /\ Whole(data, fresh) /\ Good(data.header \o wal.txns, nextTxn - 1, acked)
  BY ReplayedWAL, Zenon
<1>d. pc' = "open" /\ mem' = data.header \o wal.txns /\ mem' \in States
  BY ReplayedWAL, Zenon
<1>e. /\ wal' \in Logs /\ walDisk' = wal' /\ LogForm(wal')
      /\ wal'.txns = wal.txns /\ wal'.stop = "end" /\ ~wal'.more
  BY ReplayedWAL, Zenon
<1>1. TypeOK'
  BY <1>d, <1>e DEF IInv, TypeOK, ReplayWAL
<1>2. ClientInv'
  BY DEF IInv, ReplayWAL, ClientInv
<1>3. WALInv'
  BY <1>a, <1>d, <1>e DEF WALInv, ReplayWAL
<1>4. WriterInv'
  BY <1>d DEF IInv, WriterInv, ReplayWAL
<1>5. FileInv'
  <2>1. Begins(wal.txns, wal.txns)
    BY <1>a, BeginsSelf
  <2>2. QuietFiles'
    BY <1>a, <1>d, <1>e, <2>1 DEF IInv, FileInv, QuietFiles, LastTxn, ReplayWAL
  <2> QED
    BY <1>d, <1>e, <2>2 DEF FileInv
<1>6. MemInv'
  BY <1>a, <1>d, Zenon DEF MemInv, ReplayWAL
<1>7. ("commitSync" \notin IOFaults => SyncInv)'
  <2>1. data'.header \o wal'.txns = mem'
    BY <1>d, <1>e, Zenon DEF ReplayWAL
  <2> QED
    BY <1>d, <2>1, Zenon DEF IInv, SyncInv, Saved, ReplayWAL
<1> QED
  BY <1>1, <1>2, <1>3, <1>4, <1>5, <1>6, <1>7 DEF IInv
===============================================================================
