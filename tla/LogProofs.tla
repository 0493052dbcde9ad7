----------------------------- MODULE LogProofs -----------------------------
(***************************************************************************)
(* The memory of the log buffer, for every capacity, batch size and        *)
(* compaction threshold.                                                   *)
(***************************************************************************)
EXTENDS MCLogs, AllocationProofs, SequenceTheorems

\* An array of logs of which the head has been consumed.
Buffers == {b \in [array : Seq(Nat), head : Nat] : b.head <= Len(b.array)}

\* Not half of the array has been consumed, or nothing of it.
Compacted(b) == b.head = 0 \/ 2 * b.head < Len(b.array)

\* Why the array stays small: less than half of it is consumed, and the rest
\* is within the capacity.
BufferInv ==
  /\ buf \in Buffers /\ Compacted(buf) /\ Size(buf) <= Capacity
  /\ arrived \in Nat

\* Logs are numbered as they arrive, so the array ends with the latest n.
Numbered(b, n) ==
  /\ b \in Buffers /\ n \in Nat /\ Len(b.array) <= n
  /\ \A i \in 1..Len(b.array) : b.array[i] = n - Len(b.array) + i

\* Logs that have left the buffer.
Taken == 1..(arrived - Size(buf))

\* A batch is a run of logs that were taken and not yet given up.
IsBatch(s) ==
  /\ s \in Seq(1..MaxLogs) /\ Len(s) > 0
  /\ \E n \in Nat : /\ n + Len(s) <= arrived - Size(buf)
                    /\ \A i \in 1..Len(s) : s[i] = n + i /\ n + i \notin lost

Loops == [at : {"writing", "warning", "ended"}, batch : Seq(1..MaxLogs)]

\* One flush at a time, which is the one that is thought to be under way.
LoopOK ==
  /\ loops \subseteq Loops
  /\ inFlight = (loops # {})
  /\ \A l, m \in loops : l = m
  /\ \A l \in loops : IF l.at = "writing" THEN IsBatch(l.batch) ELSE l.batch = <<>>

Warnings == [drops : Nat \ {0}, waiter : {"nobody", "flush", "onClose"}]

\* One flush and one onClose at most wait for a warning, and each where it does.
WaitersOK ==
  /\ audits \in Seq(Warnings)
  /\ \A i, j \in 1..Len(audits) :
       audits[i].waiter = audits[j].waiter /\ audits[i].waiter # "nobody" => i = j
  /\ \A i \in 1..Len(audits) :
       /\ audits[i].waiter = "flush" => \E l \in loops : l.at = "warning"
       /\ audits[i].waiter = "onClose" => phase = "reporting"

\* Every log that was taken is written or given up, or being written.
TakenOK ==
  /\ lost \subseteq Taken
  /\ stored \in Seq(Taken)
  /\ Taken \subseteq ToSet(stored) \cup lost \cup ToSet(InHand)

CountsOK ==
  /\ since \in Nat /\ recent \in BOOLEAN /\ reported \in Nat /\ unreported \in Nat
  /\ DropsCounted

\* When onClose has begun, the flush that ends leaves an empty buffer.
PhaseOK ==
  /\ phase \in {"open", "flushing", "reporting", "closed"}
  /\ phase # "open" /\ (\A l \in loops : l.at = "ended") => Size(buf) = 0
  /\ phase \in {"reporting", "closed"} => loops = {} /\ since = 0

LogIInv ==
  /\ BufferInv /\ Numbered(buf, arrived) /\ arrived <= MaxLogs
  /\ LoopOK /\ WaitersOK /\ TakenOK /\ CountsOK /\ PhaseOK

-----------------------------------------------------------------------------

\* Compacting keeps what is live and leaves less than half consumed.
LEMMA CompactOK ==
  ASSUME NEW b \in Buffers
  PROVE  Compact(b) \in Buffers /\ Compacted(Compact(b)) /\ Size(Compact(b)) = Size(b)
<1> USE RequestLogAssumption DEF Buffers, Compacted
<1>1. /\ Len(b.array) \in Nat /\ b.head \in Nat /\ b.head <= Len(b.array)
      /\ CompactAt \in Nat /\ b.array \in Seq(Nat)
  OBVIOUS
<1>2. CASE b.head # 0 /\ (b.head >= CompactAt \/ 2 * b.head >= Len(b.array))
  <2>1. Compact(b) = [array |-> Live(b), head |-> 0]
    BY <1>2 DEF Compact
  <2>2. Live(b) \in Seq(Nat) /\ Len(Live(b)) = Len(b.array) - b.head
    BY <1>1, SMTT(30) DEF Live
  <2> QED
    BY <1>1, <2>1, <2>2 DEF Size
<1>3. CASE ~(b.head # 0 /\ (b.head >= CompactAt \/ 2 * b.head >= Len(b.array)))
  BY <1>1, <1>3 DEF Compact
<1> QED
  BY <1>2, <1>3

\* Dropping logs, or taking them, makes the buffer smaller by that many.
LEMMA SkipOK ==
  ASSUME NEW b \in Buffers, NEW n \in Nat, n <= Size(b)
  PROVE  Skip(b, n) \in Buffers /\ Compacted(Skip(b, n)) /\ Size(Skip(b, n)) = Size(b) - n
<1> DEFINE c == [b EXCEPT !.head = @ + n]
<1>1. c \in Buffers /\ Size(c) = Size(b) - n
  BY DEF Buffers, Size
<1> QED
  BY <1>1, CompactOK DEF Skip

\* A batch is part of what is live.
LEMMA BatchSmall ==
  ASSUME NEW b \in Buffers, Size(b) > 0
  PROVE  Len(Batch(b)) \in Nat /\ Len(Batch(b)) <= Size(b)
<1> DEFINE n == IF Size(b) < BatchSize THEN Size(b) ELSE BatchSize
<1>1. Live(b) \in Seq(Nat) /\ Len(Live(b)) = Size(b) /\ Size(b) \in Nat
  BY SMTT(30) DEF Buffers, Live, Size
<1>2. n \in Nat /\ n <= Len(Live(b)) /\ n <= Size(b)
  BY <1>1, RequestLogAssumption
<1>3. Len(SubSeq(Live(b), 1, n)) = n
  BY <1>1, <1>2
<1> QED
  BY <1>2, <1>3 DEF Batch

\* A log more in the array.
LEMMA PushOK ==
  ASSUME NEW b \in Buffers, NEW n \in Nat, Compacted(b), Size(b) < Capacity
  PROVE  LET c == [b EXCEPT !.array = Append(@, n)]
         IN c \in Buffers /\ Compacted(c) /\ Size(c) <= Capacity
<1> DEFINE c == [b EXCEPT !.array = Append(@, n)]
<1>1. /\ b \in [array : Seq(Nat), head : Nat] /\ b.array \in Seq(Nat) /\ b.head \in Nat
      /\ b.head <= Len(b.array) /\ Len(b.array) \in Nat
  BY DEF Buffers
<1>2. Append(b.array, n) \in Seq(Nat) /\ Len(Append(b.array, n)) = Len(b.array) + 1
  BY <1>1
<1>3. c \in [array : Seq(Nat), head : Nat] /\ c.array = Append(b.array, n) /\ c.head = b.head
  BY <1>1, <1>2
<1> HIDE DEF c
<1>4. c \in Buffers
  BY <1>1, <1>2, <1>3 DEF Buffers
<1>5. Compacted(c) /\ Size(c) <= Capacity
  BY <1>1, <1>2, <1>3, RequestLogAssumption, SMTT(30) DEF Compacted, Size
<1> QED
  BY <1>4, <1>5 DEF c

\* A turn of the loop does not make the buffer bigger.
LEMMA ContinueKeeps ==
  ASSUME NEW b \in Buffers, Compacted(b), Size(b) <= Capacity, NEW others, Continue(b, others)
  PROVE  buf' \in Buffers /\ Compacted(buf') /\ Size(buf') <= Capacity
<1>0. Size(b) \in Nat /\ Capacity \in Nat
  BY RequestLogAssumption DEF Buffers, Size
<1>1. CASE Size(b) > 0
  <2>1. buf' = Skip(b, Len(Batch(b)))
    BY <1>1 DEF Continue
  <2> QED
    BY <1>0, <1>1, <2>1, BatchSmall, SkipOK
<1>2. CASE ~(Size(b) > 0)
  BY <1>2 DEF Continue
<1> QED
  BY <1>1, <1>2

\* Neither does a flush.
LEMMA FlushKeeps ==
  ASSUME NEW b \in Buffers, Compacted(b), Size(b) <= Capacity, Flush(b)
  PROVE  buf' \in Buffers /\ Compacted(buf') /\ Size(buf') <= Capacity
BY ContinueKeeps DEF Flush

\* The empty buffer.
LEMMA InitBufferInv == Init => BufferInv
BY RequestLogAssumption DEF Init, BufferInv, Buffers, Compacted, Size

\* Appending drops the oldest first when the buffer is full.
LEMMA AppendKeeps ==
  ASSUME BufferInv, AppendLog
  PROVE  BufferInv'
<1> DEFINE full == Size(buf) >= Capacity
           a == IF full THEN Skip(buf, 1) ELSE buf
           b == [a EXCEPT !.array = Append(@, arrived')]
<1>0. /\ Size(buf) \in Nat /\ Size(buf) <= Capacity /\ Capacity \in Nat \ {0}
      /\ buf \in Buffers /\ Compacted(buf)
  BY RequestLogAssumption DEF BufferInv, Buffers, Size
<1>1. a \in Buffers /\ Compacted(a) /\ Size(a) < Capacity
  <2>1. CASE full
    BY <1>0, <2>1, SkipOK
  <2>2. CASE ~full
    BY <1>0, <2>2
  <2> QED
    BY <2>1, <2>2
<1>2. arrived' \in Nat
  BY DEF AppendLog, BufferInv
<1> HIDE DEF a
<1>3. b \in Buffers /\ Compacted(b) /\ Size(b) <= Capacity
  BY <1>0, <1>1, <1>2, PushOK
<1>4. IF Size(b) >= BatchSize THEN Flush(b) ELSE buf' = b
  BY DEF AppendLog, a
<1> HIDE DEF b
<1> QED
  BY <1>2, <1>3, <1>4, FlushKeeps DEF BufferInv

\* Every step of requests, answers, timers and onClose keeps the buffer small.
LEMMA NextBufferInv == BufferInv /\ [Next]_vars => BufferInv'
<1> SUFFICES ASSUME BufferInv, [Next]_vars PROVE BufferInv'
  OBVIOUS
<1>0. buf \in Buffers /\ Compacted(buf) /\ Size(buf) <= Capacity /\ arrived \in Nat
  BY DEF BufferInv
<1>1. CASE AppendLog
  BY <1>1, AppendKeeps
<1>2. CASE Timer
  BY <1>0, <1>2, FlushKeeps DEF Timer, fates, BufferInv
<1>3. ASSUME NEW l \in loops, Written(l) PROVE BufferInv'
  BY <1>0, <1>3, ContinueKeeps DEF Written, BufferInv
<1>4. ASSUME NEW l \in loops, WriteFails(l) PROVE BufferInv'
  <2>1. arrived' = arrived /\ (buf' = buf \/ Continue(buf, loops \ {l}))
    BY <1>4 DEF WriteFails
  <2> QED
    BY <1>0, <2>1, ContinueKeeps DEF BufferInv
<1>5. ASSUME NEW l \in loops, EndFlush(l) PROVE BufferInv'
  BY <1>0, <1>5 DEF EndFlush, fates, BufferInv, Buffers, Compacted, Size
<1>6. ASSUME NEW i \in DOMAIN audits, NEW written \in BOOLEAN, Audited(i, written)
      PROVE  BufferInv'
  <2>1. /\ arrived' = arrived
        /\ buf' = buf \/ Continue(buf, {l \in loops : l.at # "warning"})
    BY <1>6 DEF Audited, fates
  <2> QED
    BY <1>0, <2>1, ContinueKeeps DEF BufferInv
<1>7. CASE IntervalPasses
  BY <1>0, <1>7 DEF IntervalPasses, fates, BufferInv
<1>8. CASE Close
  BY <1>0, <1>8, FlushKeeps DEF Close, fates, BufferInv
<1>9. CASE LastWarning
  BY <1>0, <1>9 DEF LastWarning, fates, BufferInv
<1>10. CASE UNCHANGED vars
  BY <1>0, <1>10 DEF vars, fates, BufferInv
<1> QED
  BY <1>1, <1>2, <1>3, <1>4, <1>5, <1>6, <1>7, <1>8, <1>9, <1>10
  DEF Next, Answers, Audit

\* The buffer never holds more than its capacity, and its array less than
\* twice that, for every capacity and however batches and drops alternate.
THEOREM MemoryStaysBounded == Spec => []MemoryBounded
<1>1. Spec => []BufferInv
  BY InitBufferInv, NextBufferInv, PTL DEF Spec
<1>2. BufferInv => MemoryBounded
  BY RequestLogAssumption DEF BufferInv, MemoryBounded, Buffers, Compacted, Size
<1> QED
  BY <1>1, <1>2, PTL

-----------------------------------------------------------------------------
(* The queue in the array.                                                 *)

LEMMA LiveOf ==
  ASSUME NEW b \in Buffers
  PROVE  /\ Size(b) \in Nat /\ Live(b) \in Seq(Nat) /\ Len(Live(b)) = Size(b)
         /\ \A i \in 1..Size(b) : Live(b)[i] = b.array[b.head + i]
<1> DEFINE a == b.array
           h == b.head
<1>1. a \in Seq(Nat) /\ h \in Nat /\ h <= Len(a) /\ Len(a) \in Nat
  BY DEF Buffers
<1>2. Live(b) = SubSeq(a, h + 1, Len(a)) /\ Size(b) = Len(a) - h
  BY DEF Live, Size
<1> HIDE DEF a, h
<1>3. \A i \in (h + 1)..Len(a) : a[i] \in Nat
  BY <1>1
<1>4. /\ SubSeq(a, h + 1, Len(a)) \in Seq(Nat)
      /\ Len(SubSeq(a, h + 1, Len(a))) = IF h + 1 <= Len(a) THEN Len(a) - (h + 1) + 1 ELSE 0
      /\ \A i \in 1..(Len(a) - (h + 1) + 1) : SubSeq(a, h + 1, Len(a))[i] = a[h + 1 + i - 1]
  BY <1>1, <1>3, SubSeqProperties
<1>5. \A i \in 1..Size(b) : i \in 1..(Len(a) - (h + 1) + 1) /\ h + 1 + i - 1 = h + i
  BY <1>1, <1>2
<1>6. Size(b) \in Nat /\ Len(Live(b)) = Size(b)
  BY <1>1, <1>2, <1>4
<1> QED BY <1>2, <1>4, <1>5, <1>6 DEF a, h

\* The numbers of the logs that wait.
LEMMA LiveNumbers ==
  ASSUME NEW b, NEW n, Numbered(b, n)
  PROVE  /\ Size(b) <= n
         /\ \A i \in 1..Size(b) : Live(b)[i] = n - Size(b) + i
<1>1. /\ b \in Buffers /\ n \in Nat /\ Len(b.array) \in Nat /\ b.head \in Nat
      /\ b.head <= Len(b.array) /\ Len(b.array) <= n
      /\ \A i \in 1..Len(b.array) : b.array[i] = n - Len(b.array) + i
  BY DEF Numbered, Buffers
<1>2. Size(b) = Len(b.array) - b.head
  BY DEF Size
<1>3. ASSUME NEW i \in 1..Size(b) PROVE Live(b)[i] = n - Size(b) + i
  <2>1. Live(b)[i] = b.array[b.head + i]
    BY <1>1, LiveOf
  <2>2. b.head + i \in 1..Len(b.array)
    BY <1>1, <1>2
  <2>3. b.array[b.head + i] = n - Len(b.array) + (b.head + i)
    BY <1>1, <2>2
  <2> QED BY <1>1, <1>2, <2>1, <2>3
<1> QED BY <1>1, <1>2, <1>3

LEMMA CompactLive ==
  ASSUME NEW b \in Buffers
  PROVE  /\ Live(Compact(b)) = Live(b)
         /\ \A n : Numbered(b, n) => Numbered(Compact(b), n)
<1> DEFINE c == [array |-> Live(b), head |-> 0]
<1>1. Live(b) \in Seq(Nat) /\ Len(Live(b)) = Size(b) /\ Size(b) \in Nat
  BY LiveOf
<1>2. Live(c) = Live(b)
  <2>1. c.array = Live(b) /\ c.head = 0 /\ 0 + 1 = 1
    OBVIOUS
  <2> HIDE DEF c
  <2>2. Live(c) = SubSeq(c.array, c.head + 1, Len(c.array))
    BY DEF Live
  <2>3. Live(c) = SubSeq(Live(b), 1, Len(Live(b)))
    BY <2>1, <2>2
  <2> QED BY <1>1, <2>3, SubSeqFull
<1>3. ASSUME NEW n, Numbered(b, n) PROVE Numbered(c, n)
  <2>1. /\ Size(b) <= n /\ n \in Nat
        /\ \A i \in 1..Size(b) : Live(b)[i] = n - Size(b) + i
    BY <1>3, LiveNumbers DEF Numbered
  <2>2. c \in Buffers
    BY <1>1 DEF Buffers
  <2> QED BY <1>1, <2>1, <2>2 DEF Numbered
<1>4. Compact(b) \in {b, c}
  BY DEF Compact
<1> HIDE DEF c
<1> QED BY <1>2, <1>3, <1>4

LEMMA SkipLive ==
  ASSUME NEW b, NEW n, Numbered(b, n), NEW k \in Nat, k <= Size(b)
  PROVE  /\ Live(Skip(b, k)) = SubSeq(Live(b), k + 1, Size(b))
         /\ Numbered(Skip(b, k), n)
         /\ Size(Skip(b, k)) = Size(b) - k
<1> DEFINE c == [b EXCEPT !.head = @ + k]
<1>1. /\ b \in Buffers /\ b.array \in Seq(Nat) /\ b.head \in Nat /\ Len(b.array) \in Nat
      /\ Size(b) = Len(b.array) - b.head
  BY DEF Numbered, Buffers, Size
<1>2. /\ c \in Buffers /\ c.array = b.array /\ c.head = b.head + k
      /\ Size(c) = Size(b) - k
  BY <1>1 DEF Buffers, Size
<1> HIDE DEF c
<1>3. Numbered(c, n)
  BY <1>2 DEF Numbered
<1>4. Live(c) = SubSeq(Live(b), k + 1, Size(b))
  <2> DEFINE s == SubSeq(Live(b), k + 1, Size(b))
  <2>1. /\ Live(b) \in Seq(Nat) /\ Len(Live(b)) = Size(b) /\ Size(b) \in Nat
        /\ \A i \in 1..Size(b) : Live(b)[i] = b.array[b.head + i]
    BY <1>1, LiveOf
  <2>2. s \in Seq(Nat) /\ Len(s) = Size(b) - k /\ \A i \in 1..(Size(b) - k) : s[i] = Live(b)[k + i]
    BY <2>1
  <2>3. /\ Live(c) \in Seq(Nat) /\ Len(Live(c)) = Size(b) - k
        /\ \A i \in 1..(Size(b) - k) : Live(c)[i] = b.array[b.head + k + i]
    BY <1>2, LiveOf
  <2> HIDE DEF s
  <2>4. ASSUME NEW i \in 1..(Size(b) - k) PROVE s[i] = Live(c)[i]
    <3>0. b.head \in Nat /\ Size(b) \in Nat /\ k \in Nat /\ i \in 1..(Size(b) - k)
      BY <1>1, <2>1
    <3>1. k + i \in 1..Size(b) /\ b.head + (k + i) = b.head + k + i
      BY ONLY <3>0
    <3> QED BY <2>1, <2>2, <2>3, <3>1
  <2>5. s = Live(c)
    BY <2>2, <2>3, <2>4, SeqEqual
  <2> QED BY <2>5 DEF s
<1>5. Skip(b, k) = Compact(c)
  BY DEF Skip, c
<1>6. Size(Compact(c)) = Size(c)
  BY <1>2, CompactOK
<1> QED BY <1>2, <1>3, <1>4, <1>5, <1>6, CompactLive

LEMMA PushLive ==
  ASSUME NEW b, NEW n, Numbered(b, n)
  PROVE  LET c == [b EXCEPT !.array = Append(@, n + 1)]
         IN /\ Live(c) = Append(Live(b), n + 1)
            /\ Numbered(c, n + 1)
            /\ Size(c) = Size(b) + 1
<1> DEFINE c == [b EXCEPT !.array = Append(@, n + 1)]
<1>1. /\ b \in Buffers /\ b.array \in Seq(Nat) /\ b.head \in Nat /\ Len(b.array) \in Nat
      /\ Size(b) = Len(b.array) - b.head /\ n \in Nat /\ Len(b.array) <= n
      /\ b.head <= Len(b.array)
      /\ \A i \in 1..Len(b.array) : b.array[i] = n - Len(b.array) + i
  BY DEF Numbered, Buffers, Size
<1> DEFINE a == b.array
<1>a. /\ Append(a, n + 1) \in Seq(Nat) /\ Len(Append(a, n + 1)) = Len(a) + 1
      /\ \A i \in 1..Len(a) : Append(a, n + 1)[i] = a[i]
      /\ Append(a, n + 1)[Len(a) + 1] = n + 1
  <2> HIDE DEF a
  <2>1. a \in Seq(Nat) /\ n + 1 \in Nat
    BY <1>1 DEF a
  <2> QED BY <2>1
<1>2. /\ c \in [array : Seq(Nat), head : Nat] /\ c.head = b.head
      /\ c.array = Append(b.array, n + 1) /\ Len(c.array) = Len(b.array) + 1
      /\ \A i \in 1..Len(b.array) : c.array[i] = b.array[i]
      /\ c.array[Len(b.array) + 1] = n + 1
  BY <1>1, <1>a DEF Buffers
<1> HIDE DEF c, a
<1>3. c \in Buffers /\ Size(c) = Size(b) + 1
  BY <1>1, <1>2 DEF Buffers, Size
<1>b. Len(b.array) \in Nat /\ n \in Nat /\ Len(c.array) = Len(b.array) + 1
  BY <1>1, <1>2
<1>4. ASSUME NEW i \in 1..Len(c.array) PROVE c.array[i] = (n + 1) - Len(c.array) + i
  <2>1. CASE i = Len(b.array) + 1
    <3>1. n + 1 = (n + 1) - Len(c.array) + i
      <4> DEFINE L == Len(b.array)
      <4>1. L \in Nat /\ n \in Nat /\ Len(c.array) = L + 1 /\ i = L + 1
        BY <1>b, <2>1
      <4> HIDE DEF L
      <4>2. n + 1 = (n + 1) - (L + 1) + (L + 1)
        BY <4>1
      <4> QED BY <4>1, <4>2
    <3> QED BY <1>2, <2>1, <3>1
  <2>2. CASE i # Len(b.array) + 1
    <3>1. i \in 1..Len(b.array) /\ (n + 1) - Len(c.array) + i = n - Len(b.array) + i
      BY <1>b, <2>2
    <3> QED BY <1>1, <1>2, <3>1
  <2> QED BY <2>1, <2>2
<1>5. Numbered(c, n + 1)
  <2> DEFINE m == n + 1
  <2>1. m \in Nat /\ Len(c.array) <= m
    BY <1>b, <1>1
  <2>2. \A i \in 1..Len(c.array) : c.array[i] = m - Len(c.array) + i
    BY <1>4
  <2> HIDE DEF m
  <2>3. Numbered(c, m)
    BY <1>3, <2>1, <2>2 DEF Numbered
  <2> QED BY <2>3 DEF m
<1>6. Live(c) = Append(Live(b), n + 1)
  <2> DEFINE s == Append(Live(b), n + 1)
  <2>1. /\ Live(b) \in Seq(Nat) /\ Len(Live(b)) = Size(b) /\ Size(b) \in Nat
        /\ \A i \in 1..Size(b) : Live(b)[i] = b.array[b.head + i]
    BY <1>1, LiveOf
  <2>2. s \in Seq(Nat) /\ Len(s) = Size(b) + 1 /\ s[Size(b) + 1] = n + 1
        /\ \A i \in 1..Size(b) : s[i] = Live(b)[i]
    BY <1>1, <2>1
  <2>3. /\ Live(c) \in Seq(Nat) /\ Len(Live(c)) = Size(b) + 1
        /\ \A i \in 1..(Size(b) + 1) : Live(c)[i] = c.array[b.head + i]
    BY <1>2, <1>3, LiveOf
  <2> HIDE DEF s
  <2>4. ASSUME NEW i \in 1..(Size(b) + 1) PROVE s[i] = Live(c)[i]
    <3>0. /\ b.head \in Nat /\ Size(b) \in Nat /\ Len(b.array) \in Nat
          /\ Size(b) = Len(b.array) - b.head /\ i \in 1..(Size(b) + 1)
      BY <1>1, <2>1
    <3>1. CASE i = Size(b) + 1
      <4>1. b.head + i = Len(b.array) + 1
        BY <3>0, <3>1
      <4>2. Live(c)[i] = c.array[b.head + i]
        BY <2>3
      <4> QED BY <1>2, <2>2, <3>1, <4>1, <4>2
    <3>2. CASE i # Size(b) + 1
      <4>1. i \in 1..Size(b) /\ b.head + i \in 1..Len(b.array)
        BY <3>0, <3>2
      <4>2. Live(c)[i] = c.array[b.head + i]
        BY <2>3
      <4>3. c.array[b.head + i] = b.array[b.head + i]
        BY <1>2, <4>1
      <4> QED BY <2>1, <2>2, <4>1, <4>2, <4>3
    <3> QED BY <3>1, <3>2
  <2>5. s = Live(c)
    BY <2>2, <2>3, <2>4, SeqEqual
  <2> QED BY <2>5 DEF s
<1> QED BY <1>3, <1>5, <1>6 DEF c


-----------------------------------------------------------------------------
(* The drops in warnings that are under way.                               *)

\* A sum does not depend on how its terms are numbered.
LEMMA SumRenumbered ==
  ASSUME NEW S, IsFiniteSet(S), NEW v, NEW w, NEW g,
         \A x \in S : v[x] \in Int /\ w[g[x]] = v[x],
         \A x, y \in S : g[x] = g[y] => x = y
  PROVE  SumOver(w, {g[x] : x \in S}) = SumOver(v, S)
<1> DEFINE Img(T) == {g[x] : x \in T}
           P == {T \in SUBSET S : SumOver(w, Img(T)) # SumOver(v, T)}
<1>1. ASSUME P # {} PROVE FALSE
  <2>0. P \in SUBSET (SUBSET S)
    OBVIOUS
  <2>1. PICK T \in P : \A U \in P : U \subseteq T => U = T
    <3> HIDE DEF P
    <3> QED
      BY <1>1, <2>0, SmallestSubset
  <2>2. T \in SUBSET S /\ IsFiniteSet(T) /\ SumOver(w, Img(T)) # SumOver(v, T)
    BY <2>1, FS_Subset
  <2>3. T # {}
    BY <2>2, SumEmpty
  <2> DEFINE p == Pick(T)
             U == T \ {p}
  <2>4. p \in T /\ U \in SUBSET S /\ U \subseteq T /\ U # T
    BY <2>2, <2>3, PickIn
  <2>5. SumOver(w, Img(U)) = SumOver(v, U)
    BY <2>1, <2>4
  <2>6. SumOver(v, T) = v[p] + SumOver(v, U)
    BY <2>2, <2>3, SumStep
  <2>7. SumOver(w, Img(T)) = w[g[p]] + SumOver(w, Img(T) \ {g[p]})
    <3>1. IsFiniteSet(Img(T))
      <4> DEFINE f == [x \in T |-> g[x]]
      <4>1. f \in Surjection(T, Img(T))
        BY DEF Surjection
      <4> HIDE DEF f, Img
      <4> QED BY <2>2, <4>1, FS_Surjection
    <3>2. (\A x \in Img(T) : w[x] \in Int) /\ g[p] \in Img(T)
      BY <2>2, <2>4
    <3> DEFINE I == Img(T)
    <3> HIDE DEF Img, I
    <3> QED BY <3>1, <3>2, SumWithout
  <2>8. Img(T) \ {g[p]} = Img(U)
    BY <2>2, <2>4
  <2>9. w[g[p]] = v[p]
    BY <2>2, <2>4
  <2> QED
    BY <2>2, <2>5, <2>6, <2>7, <2>8, <2>9
<1> QED
  BY <1>1

\* The drops that these warnings tell of.
Told(s) == SumFunction([i \in DOMAIN s |-> s[i].drops])

LEMMA ToldIs ==
  ASSUME NEW s \in Seq(Warnings)
  PROVE  /\ Told(s) = SumOver([i \in DOMAIN s |-> s[i].drops], 1..Len(s))
         /\ IsFiniteSet(1..Len(s)) /\ Len(s) \in Nat /\ DOMAIN s = 1..Len(s)
         /\ \A i \in 1..Len(s) : s[i] \in Warnings /\ s[i].drops \in Nat
         /\ Told(s) \in Nat
<1> DEFINE v == [i \in DOMAIN s |-> s[i].drops]
<1>1. Len(s) \in Nat /\ DOMAIN s = 1..Len(s) /\ \A i \in 1..Len(s) : s[i] \in Warnings
  OBVIOUS
<1>2. \A i \in 1..Len(s) : s[i].drops \in Nat
  BY <1>1 DEF Warnings
<1>3. IsFiniteSet(1..Len(s))
  BY <1>1, FS_Interval
<1>4. Told(s) = SumOver(v, DOMAIN v)
  BY DEF Told, SumFunction, SumFunctionOnSet, FoldFunctionOnSet, SumOver, MapThenSumSet
<1>5. DOMAIN v = 1..Len(s) /\ \A i \in 1..Len(s) : v[i] \in Nat
  BY <1>1, <1>2
<1> HIDE DEF v
<1>6. \A i \in 1..Len(s) : v[i] \in Int /\ v[i] >= 0
  BY <1>5
<1>7. SumOver(v, 1..Len(s)) \in Int /\ SumOver(v, 1..Len(s)) >= 0
  BY <1>3, <1>6, SumTyped
<1>8. Told(s) \in Nat
  BY <1>4, <1>5, <1>7
<1> QED BY <1>1, <1>2, <1>3, <1>4, <1>5, <1>8 DEF v


\* A warning more.
LEMMA ToldAppend ==
  ASSUME NEW s \in Seq(Warnings), NEW a \in Warnings
  PROVE  Append(s, a) \in Seq(Warnings) /\ Told(Append(s, a)) = Told(s) + a.drops
<1> DEFINE t == Append(s, a)
           n == Len(s)
           v == [i \in DOMAIN s |-> s[i].drops]
           w == [i \in DOMAIN t |-> t[i].drops]
<1>1. /\ t \in Seq(Warnings) /\ Len(t) = n + 1 /\ n \in Nat
      /\ \A i \in 1..n : t[i] = s[i]
      /\ t[n + 1] = a
  OBVIOUS
<1> HIDE DEF t
<1>2. /\ Told(s) = SumOver(v, 1..n) /\ DOMAIN s = 1..n
      /\ \A i \in 1..n : s[i].drops \in Nat
  BY ToldIs
<1>3. /\ Told(t) = SumOver(w, 1..(n + 1)) /\ DOMAIN t = 1..(n + 1) /\ IsFiniteSet(1..(n + 1))
      /\ \A i \in 1..(n + 1) : t[i].drops \in Nat
  BY <1>1, ToldIs
<1>4. /\ \A i \in 1..n : v[i] = w[i]
      /\ \A i \in 1..(n + 1) : w[i] \in Int
      /\ w[n + 1] = a.drops
  BY <1>1, <1>2, <1>3
<1>5. (1..(n + 1)) \ {n + 1} = 1..n /\ n + 1 \in 1..(n + 1)
  BY <1>1
<1> HIDE DEF v, w, n
<1>6. SumOver(w, 1..(n + 1)) = w[n + 1] + SumOver(w, 1..n)
  <2> DEFINE I == 1..(n + 1)
  <2>1. IsFiniteSet(I) /\ n + 1 \in I /\ I \ {n + 1} = 1..n /\ \A i \in I : w[i] \in Int
    BY <1>3, <1>4, <1>5
  <2> HIDE DEF I
  <2>2. SumOver(w, I) = w[n + 1] + SumOver(w, I \ {n + 1})
    BY <2>1, SumWithout
  <2> QED BY <2>1, <2>2 DEF I
<1>7. IsFiniteSet(1..n)
  BY <1>3, <1>5, FS_Subset
<1>8. SumOver(v, 1..n) = SumOver(w, 1..n)
  BY <1>4, <1>7, SumSame
<1>9. SumOver(v, 1..n) \in Nat /\ a.drops \in Nat
  BY <1>2, ToldIs DEF Warnings
<1> QED BY <1>1, <1>2, <1>3, <1>4, <1>6, <1>8, <1>9 DEF t

\* What is left when one is removed: the others, in their order.
LEMMA Removed ==
  ASSUME NEW S, NEW s \in Seq(S), NEW k \in 1..Len(s)
  PROVE  /\ RemoveAt(s, k) \in Seq(S) /\ Len(RemoveAt(s, k)) = Len(s) - 1
         /\ Len(s) \in Nat
         /\ \A i \in 1..(Len(s) - 1) : RemoveAt(s, k)[i] = IF i < k THEN s[i] ELSE s[i + 1]
<1>0. Len(s) \in Nat /\ k \in Nat /\ k <= Len(s) /\ k >= 1
  OBVIOUS
<1> DEFINE n == Len(s)
           a == SubSeq(s, 1, k - 1)
           b == SubSeq(s, k + 1, n)
<1>1. a \in Seq(S) /\ Len(a) = k - 1 /\ \A i \in 1..(k - 1) : a[i] = s[i]
  OBVIOUS
<1>2. b \in Seq(S) /\ Len(b) = n - k /\ \A i \in 1..(n - k) : b[i] = s[k + i]
  OBVIOUS
<1>3. RemoveAt(s, k) = a \o b
  BY DEF RemoveAt
<1> HIDE DEF a, b
<1>4. /\ a \o b \in Seq(S) /\ Len(a \o b) = Len(a) + Len(b)
      /\ \A i \in 1..(Len(a) + Len(b)) : (a \o b)[i] = IF i <= Len(a) THEN a[i] ELSE b[i - Len(a)]
  BY <1>1, <1>2, ConcatProperties
<1>5. Len(a) + Len(b) = n - 1
  BY <1>0, <1>1, <1>2
<1>6. ASSUME NEW i \in 1..(n - 1) PROVE (a \o b)[i] = IF i < k THEN s[i] ELSE s[i + 1]
  <2>1. CASE i < k
    <3>1. i <= Len(a) /\ i \in 1..(k - 1)
      BY <1>0, <1>1, <2>1
    <3> QED BY <1>1, <1>4, <1>5, <2>1, <3>1
  <2>2. CASE ~(i < k)
    <3>1. ~(i <= Len(a)) /\ i - Len(a) \in 1..(n - k) /\ k + (i - Len(a)) = i + 1
      BY <1>0, <1>1, <2>2
    <3> QED BY <1>2, <1>4, <1>5, <2>2, <3>1
  <2> QED BY <2>1, <2>2
<1> QED BY <1>0, <1>3, <1>4, <1>5, <1>6

\* A warning less.
LEMMA ToldRemoved ==
  ASSUME NEW s \in Seq(Warnings), NEW k \in 1..Len(s)
  PROVE  Told(s) = s[k].drops + Told(RemoveAt(s, k)) /\ Told(RemoveAt(s, k)) \in Nat
<1> DEFINE t == RemoveAt(s, k)
           n == Len(s)
           v == [i \in DOMAIN s |-> s[i].drops]
           w == [i \in DOMAIN t |-> t[i].drops]
           g == [i \in 1..(n - 1) |-> IF i < k THEN i ELSE i + 1]
<1>1. /\ t \in Seq(Warnings) /\ Len(t) = n - 1 /\ n \in Nat /\ k \in Nat /\ k >= 1 /\ k <= n
      /\ \A i \in 1..(n - 1) : t[i] = IF i < k THEN s[i] ELSE s[i + 1]
  <2>1. /\ t \in Seq(Warnings) /\ Len(t) = n - 1 /\ n \in Nat
        /\ \A i \in 1..(n - 1) : t[i] = IF i < k THEN s[i] ELSE s[i + 1]
    BY Removed
  <2>2. k \in 1..n
    OBVIOUS
  <2> HIDE DEF t, n
  <2>3. k \in Nat /\ k >= 1 /\ k <= n
    BY <2>1, <2>2
  <2> QED BY <2>1, <2>3
<1> HIDE DEF t
<1>2. /\ Told(s) = SumOver(v, 1..n) /\ DOMAIN s = 1..n /\ IsFiniteSet(1..n)
      /\ \A i \in 1..n : s[i].drops \in Nat
  BY ToldIs
<1>3. /\ Told(t) = SumOver(w, 1..(n - 1)) /\ DOMAIN t = 1..(n - 1) /\ IsFiniteSet(1..(n - 1))
      /\ \A i \in 1..(n - 1) : t[i].drops \in Nat
      /\ Told(t) \in Nat
  BY <1>1, ToldIs
<1> HIDE DEF n
<1>4. ASSUME NEW i \in 1..(n - 1) PROVE g[i] \in 1..n /\ w[i] \in Int /\ v[g[i]] = w[i]
  <2>1. g[i] \in 1..n /\ g[i] = IF i < k THEN i ELSE i + 1
    BY <1>1
  <2>2. w[i] = t[i].drops /\ v[g[i]] = s[g[i]].drops
    BY <1>2, <1>3, <2>1
  <2> QED BY <1>1, <1>3, <2>1, <2>2
<1>5. \A i, j \in 1..(n - 1) : g[i] = g[j] => i = j
  BY <1>1
<1>6. {g[i] : i \in 1..(n - 1)} = (1..n) \ {k}
  <2>1. ASSUME NEW j \in (1..n) \ {k} PROVE \E i \in 1..(n - 1) : g[i] = j
    <3>1. CASE j < k
      <4>1. j \in 1..(n - 1) /\ g[j] = j
        BY <1>1, <3>1
      <4> QED BY <4>1
    <3>2. CASE ~(j < k)
      <4>1. j - 1 \in 1..(n - 1) /\ g[j - 1] = j
        BY <1>1, <2>1, <3>2
      <4> QED BY <4>1
    <3> QED BY <3>1, <3>2
  <2>2. ASSUME NEW i \in 1..(n - 1) PROVE g[i] \in (1..n) \ {k}
    BY <1>1
  <2> HIDE DEF g
  <2> QED BY <2>1, <2>2
<1>7. v[k] = s[k].drops /\ \A i \in 1..n : v[i] \in Int
  BY <1>1, <1>2
<1> HIDE DEF v, w, g
<1>8. SumOver(v, 1..n) = v[k] + SumOver(v, (1..n) \ {k})
  <2> DEFINE I == 1..n
  <2>1. IsFiniteSet(I) /\ k \in I /\ \A i \in I : v[i] \in Int
    BY <1>1, <1>2, <1>7
  <2> HIDE DEF I
  <2>2. SumOver(v, I) = v[k] + SumOver(v, I \ {k})
    BY <2>1, SumWithout
  <2> QED BY <2>2 DEF I
<1>9. SumOver(v, {g[i] : i \in 1..(n - 1)}) = SumOver(w, 1..(n - 1))
  <2> DEFINE I == 1..(n - 1)
  <2>1. /\ IsFiniteSet(I)
        /\ \A i \in I : w[i] \in Int /\ v[g[i]] = w[i]
        /\ \A i, j \in I : g[i] = g[j] => i = j
    BY <1>3, <1>4, <1>5
  <2> HIDE DEF I
  <2>2. SumOver(v, {g[i] : i \in I}) = SumOver(w, I)
    BY <2>1, SumRenumbered
  <2> QED BY <2>2 DEF I
<1> QED BY <1>2, <1>3, <1>6, <1>7, <1>8, <1>9 DEF t


-----------------------------------------------------------------------------
(* A turn of the loop of a flush.                                          *)

\* The batch that these flushes are writing.
Hand(L) == IF \E l \in L : l.at = "writing"
           THEN (CHOOSE l \in L : l.at = "writing").batch ELSE <<>>

LEMMA HandOfOne ==
  ASSUME NEW l
  PROVE  Hand({l}) = IF l.at = "writing" THEN l.batch ELSE <<>>
<1>1. CASE l.at = "writing"
  <2>1. (CHOOSE m \in {l} : m.at = "writing") = l
    BY <1>1
  <2> QED BY <1>1, <2>1 DEF Hand
<1>2. CASE l.at # "writing"
  BY <1>2 DEF Hand
<1> QED BY <1>1, <1>2

LEMMA HandOfNone == Hand({}) = <<>>
BY DEF Hand

\* The elements of a run of numbers.
LEMMA RunOfNumbers ==
  ASSUME NEW n \in Nat, NEW S, NEW s \in Seq(S), \A i \in 1..Len(s) : s[i] = n + i
  PROVE  /\ ToSet(s) = (n + 1)..(n + Len(s))
         /\ IsFiniteSet(ToSet(s)) /\ Cardinality(ToSet(s)) = Len(s)
<1> DEFINE k == Len(s)
<1>1. k \in Nat /\ DOMAIN s = 1..k
  OBVIOUS
<1>2. ToSet(s) = {s[i] : i \in 1..k}
  BY <1>1 DEF ToSet
<1>3. \A i \in 1..k : s[i] = n + i
  OBVIOUS
<1> HIDE DEF k
<1>4. ASSUME NEW j \in (n + 1)..(n + k) PROVE \E i \in 1..k : s[i] = j
  <2>1. j - n \in 1..k /\ n + (j - n) = j
    BY <1>1
  <2> QED BY <1>3, <2>1
<1>5. \A i \in 1..k : s[i] \in (n + 1)..(n + k)
  BY <1>1, <1>3
<1>6. ToSet(s) = (n + 1)..(n + k)
  BY <1>2, <1>4, <1>5
<1>7. /\ n + 1 \in Int /\ n + k \in Int
      /\ (IF n + 1 > n + k THEN 0 ELSE (n + k) - (n + 1) + 1) = k
  BY <1>1
<1>8. /\ IsFiniteSet((n + 1)..(n + k))
      /\ Cardinality((n + 1)..(n + k)) = IF n + 1 > n + k THEN 0 ELSE (n + k) - (n + 1) + 1
  BY <1>7, FS_Interval
<1> QED BY <1>6, <1>7, <1>8 DEF k

\* The elements of two sequences put together.
LEMMA SetOfConcat ==
  ASSUME NEW S, NEW s \in Seq(S), NEW u \in Seq(S)
  PROVE  s \o u \in Seq(S) /\ ToSet(s \o u) = ToSet(s) \cup ToSet(u)
<1>1. s \o u \in Seq(S)
  BY ConcatProperties
<1>2. \A v : ToSet(v) = Range(v)
  BY DEF ToSet, Range
<1>3. Range(s \o u) = Range(s) \cup Range(u)
  BY RangeConcatenation
<1> QED BY <1>1, <1>2, <1>3

\* A batch is the start of what is live.
LEMMA BatchOf ==
  ASSUME NEW b, NEW n, Numbered(b, n), Size(b) > 0
  PROVE  LET k == Len(Batch(b))
         IN /\ k \in Nat /\ k > 0 /\ k <= Size(b) /\ k <= BatchSize
            /\ Batch(b) = SubSeq(Live(b), 1, k) /\ Batch(b) \in Seq(Nat)
            /\ \A i \in 1..k : Batch(b)[i] = (n - Size(b)) + i
<1> DEFINE m == IF Size(b) < BatchSize THEN Size(b) ELSE BatchSize
           z == Live(b)
<1>1. b \in Buffers
  BY DEF Numbered
<1>2. Size(b) \in Nat /\ z \in Seq(Nat) /\ Len(z) = Size(b)
  BY <1>1, LiveOf
<1>3. \A i \in 1..Size(b) : z[i] = (n - Size(b)) + i
  BY LiveNumbers
<1>4. m \in Nat /\ m > 0 /\ m <= Size(b) /\ m <= BatchSize
  BY <1>2, RequestLogAssumption
<1>5. Batch(b) = SubSeq(z, 1, m)
  BY DEF Batch
<1> HIDE DEF m, z
<1>6. /\ SubSeq(z, 1, m) \in Seq(Nat) /\ Len(SubSeq(z, 1, m)) = m
      /\ \A i \in 1..m : SubSeq(z, 1, m)[i] = z[i]
  BY <1>2, <1>4
<1>7. \A i \in 1..m : i \in 1..Size(b)
  BY <1>2, <1>4
<1> QED BY <1>3, <1>4, <1>5, <1>6, <1>7 DEF z

\* The next batch is taken from the buffer, or the buffer is empty.
LEMMA Turn ==
  ASSUME NEW b, NEW n, Numbered(b, n), Continue(b, {})
  PROVE  /\ Numbered(buf', n) /\ Size(buf') \in Nat
         /\ \/ \E s \in Seq(Nat) :
                 /\ loops' = {[at |-> "writing", batch |-> s]}
                 /\ Len(s) \in Nat /\ Len(s) > 0 /\ Len(s) <= Size(b) /\ Len(s) <= BatchSize
                 /\ s = SubSeq(Live(b), 1, Len(s))
                 /\ Live(buf') = SubSeq(Live(b), Len(s) + 1, Len(Live(b)))
                 /\ Size(buf') = Size(b) - Len(s)
                 /\ \A i \in 1..Len(s) : s[i] = (n - Size(b)) + i
            \/ /\ loops' = {[at |-> "ended", batch |-> <<>>]}
               /\ buf' = b /\ Size(b) = 0
<1>0. Size(b) \in Nat /\ Len(Live(b)) = Size(b)
  BY LiveOf DEF Numbered
<1>1. CASE Size(b) > 0
  <2> DEFINE s == Batch(b)
  <2>1. /\ Len(s) \in Nat /\ Len(s) > 0 /\ Len(s) <= Size(b) /\ Len(s) <= BatchSize
        /\ s = SubSeq(Live(b), 1, Len(s)) /\ s \in Seq(Nat)
        /\ \A i \in 1..Len(s) : s[i] = (n - Size(b)) + i
    BY <1>1, BatchOf
  <2>2. buf' = Skip(b, Len(s)) /\ loops' = {[at |-> "writing", batch |-> s]}
    BY <1>1 DEF Continue
  <2> HIDE DEF s
  <2>3. /\ Live(buf') = SubSeq(Live(b), Len(s) + 1, Size(b))
        /\ Numbered(buf', n) /\ Size(buf') = Size(b) - Len(s)
    BY <2>1, <2>2, SkipLive
  <2>4. Size(buf') \in Nat
    BY <1>0, <2>1, <2>3
  <2> QED BY <1>0, <2>1, <2>2, <2>3, <2>4
<1>2. CASE ~(Size(b) > 0)
  BY <1>0, <1>2 DEF Continue
<1> QED BY <1>1, <1>2


\* What the queue's Proceed says, of the array and the flushes.
Onward(q) ==
  \/ InHand' = <<>> /\ Live(buf') = q
  \/ \E k \in 1..BatchSize :
       /\ k <= Len(q)
       /\ InHand' = SubSeq(q, 1, k)
       /\ Live(buf') = SubSeq(q, k + 1, Len(q))

\* A turn of the loop keeps what is said of flushes and of logs that were taken.
LEMMA Turned ==
  ASSUME NEW b, Numbered(b, arrived'), arrived' <= MaxLogs, inFlight' = TRUE,
         Continue(b, {}),
         lost' \subseteq 1..(arrived' - Size(b)),
         stored' \in Seq(1..(arrived' - Size(b))),
         1..(arrived' - Size(b)) \subseteq ToSet(stored') \cup lost'
  PROVE  /\ Numbered(buf, arrived)' /\ LoopOK' /\ TakenOK'
         /\ loops' # {} /\ \A l \in loops' : l.at # "warning"
         /\ (\A l \in loops' : l.at = "ended") => Size(buf') = 0
         /\ Onward(Live(b))
<1> DEFINE n == arrived'
           t == n - Size(b)
<1>0. /\ n \in Nat /\ Size(b) \in Nat /\ Size(b) <= n /\ t \in Nat
      /\ Len(Live(b)) = Size(b) /\ MaxLogs \in Nat
  <2>1. n \in Nat /\ b \in Buffers /\ Size(b) <= n
    BY LiveNumbers DEF Numbered
  <2>2. Size(b) \in Nat /\ Len(Live(b)) = Size(b)
    BY <2>1, LiveOf
  <2> HIDE DEF n
  <2> QED BY <2>1, <2>2, RequestLogAssumption
<1>1. Numbered(buf', n) /\ Size(buf') \in Nat
  BY Turn
<1>2. CASE \E s \in Seq(Nat) :
              /\ loops' = {[at |-> "writing", batch |-> s]}
              /\ Len(s) \in Nat /\ Len(s) > 0 /\ Len(s) <= Size(b) /\ Len(s) <= BatchSize
              /\ s = SubSeq(Live(b), 1, Len(s))
              /\ Live(buf') = SubSeq(Live(b), Len(s) + 1, Len(Live(b)))
              /\ Size(buf') = Size(b) - Len(s)
              /\ \A i \in 1..Len(s) : s[i] = t + i
  <2>1. PICK s \in Seq(Nat) :
              /\ loops' = {[at |-> "writing", batch |-> s]}
              /\ Len(s) \in Nat /\ Len(s) > 0 /\ Len(s) <= Size(b) /\ Len(s) <= BatchSize
              /\ s = SubSeq(Live(b), 1, Len(s))
              /\ Live(buf') = SubSeq(Live(b), Len(s) + 1, Len(Live(b)))
              /\ Size(buf') = Size(b) - Len(s)
              /\ \A i \in 1..Len(s) : s[i] = t + i
    BY <1>2
  <2> DEFINE l == [at |-> "writing", batch |-> s]
  <2>2. l.at = "writing" /\ l.batch = s /\ loops' = {l}
    BY <2>1
  <2>3. InHand' = s
    <3>1. InHand' = Hand(loops')
      BY DEF InHand, Hand
    <3> QED BY <2>2, <3>1, HandOfOne
  <2>4. t + Len(s) = n - Size(buf') /\ Len(s) \in 1..BatchSize
    <3> HIDE DEF n
    <3>1. BatchSize \in Nat
      BY RequestLogAssumption
    <3> QED BY <1>0, <1>1, <2>1, <3>1
  <2>5. /\ ToSet(s) = (t + 1)..(t + Len(s))
    BY <1>0, <2>1, RunOfNumbers
  <2>6. s \in Seq(1..MaxLogs)
    <3>0. n <= MaxLogs
      OBVIOUS
    <3> HIDE DEF n, t
    <3>1. \A i \in 1..Len(s) : s[i] \in 1..MaxLogs
      BY <1>0, <1>1, <2>1, <2>4, <3>0, SMTT(30)
    <3>2. s = [i \in 1..Len(s) |-> s[i]]
      BY <2>1
    <3>3. [i \in 1..Len(s) |-> s[i]] \in Seq(1..MaxLogs)
      BY <2>1, <3>1, IsASeq
    <3> QED BY <3>2, <3>3
  <2>7. \A i \in 1..Len(s) : s[i] = t + i /\ t + i \notin lost'
    BY <1>0, <2>1
  <2>8. IsBatch(s)'
    <3>1. t \in Nat /\ t + Len(s) <= n - Size(buf')
      BY <1>0, <1>1, <2>4
    <3> HIDE DEF t
    <3> QED BY <2>1, <2>6, <2>7, <3>1 DEF IsBatch
  <2>9. l \in Loops
    BY <2>6 DEF Loops
  <2>10. LoopOK'
    <3> HIDE DEF l
    <3> QED BY <2>2, <2>8, <2>9 DEF LoopOK
  <2>11. TakenOK'
    <3> DEFINE u == n - Size(buf')
    <3>0. u \in Nat /\ t <= u /\ u = t + Len(s)
      BY <1>0, <1>1, <2>1, <2>4, SMTT(30)
    <3> HIDE DEF t, u
    <3>1. 1..t \subseteq 1..u
      BY <1>0, <3>0
    <3>2. lost' \subseteq 1..u /\ stored' \in Seq(1..u)
      <4>1. lost' \subseteq 1..t /\ stored' \in Seq(1..t)
        BY DEF t
      <4>2. Seq(1..t) \subseteq Seq(1..u)
        BY <3>1, SeqMonotonic
      <4> QED BY <3>1, <4>1, <4>2
    <3>3. 1..u \subseteq (1..t) \cup ToSet(s)
      BY <1>0, <2>1, <2>5, <3>0
    <3>4. 1..u \subseteq ToSet(stored') \cup lost' \cup ToSet(InHand')
      BY <2>3, <3>3 DEF t
    <3> QED BY <3>2, <3>4 DEF TakenOK, Taken, u
  <2>12. Onward(Live(b))
    BY <1>0, <2>1, <2>3, <2>4 DEF Onward
  <2> QED BY <1>1, <2>2, <2>10, <2>11, <2>12
<1>3. CASE loops' = {[at |-> "ended", batch |-> <<>>]} /\ buf' = b /\ Size(b) = 0
  <2> DEFINE l == [at |-> "ended", batch |-> <<>>]
  <2>1. l.at = "ended" /\ l.batch = <<>> /\ loops' = {l} /\ l \in Loops
    BY <1>3 DEF Loops
  <2> HIDE DEF l
  <2>2. InHand' = <<>>
    <3>1. InHand' = Hand(loops')
      BY DEF InHand, Hand
    <3> QED BY <2>1, <3>1, HandOfOne
  <2>3. LoopOK'
    BY <2>1 DEF LoopOK
  <2>4. TakenOK'
    BY <1>3 DEF TakenOK, Taken
  <2>5. Onward(Live(b))
    BY <1>3, <2>2 DEF Onward
  <2> QED BY <1>1, <1>3, <2>1, <2>3, <2>4, <2>5
<1> QED
  <2> HIDE DEF n
  <2> QED BY <1>2, <1>3, Turn DEF n

\* While a flush is under way, what comes in waits.
LEMMA Waits ==
  ASSUME NEW b, Numbered(b, arrived'), buf' = b, UNCHANGED <<inFlight, loops, stored>>,
         LoopOK, TakenOK,
         arrived - Size(buf) \in Nat, arrived' - Size(b) \in Nat,
         arrived - Size(buf) <= arrived' - Size(b),
         lost \subseteq lost', lost' \subseteq 1..(arrived' - Size(b)),
         ((arrived - Size(buf)) + 1)..(arrived' - Size(b)) \subseteq lost',
         lost' \subseteq lost \cup ((arrived - Size(buf)) + 1)..(arrived' - Size(b))
  PROVE  /\ Numbered(buf, arrived)' /\ LoopOK' /\ TakenOK'
         /\ InHand' = InHand /\ Live(buf') = Live(b)
<1> DEFINE t == arrived - Size(buf)
           u == arrived' - Size(buf')
<1>1. t \in Nat /\ u \in Nat /\ t <= u /\ lost' \subseteq 1..u /\ (t + 1)..u \subseteq lost'
      /\ lost' \subseteq lost \cup (t + 1)..u
  OBVIOUS
<1>2. InHand' = InHand
  BY DEF InHand
<1> HIDE DEF t, u
<1>3. ASSUME NEW s, IsBatch(s) PROVE IsBatch(s)'
  <2>1. /\ s \in Seq(1..MaxLogs) /\ Len(s) > 0 /\ Len(s) \in Nat
    BY <1>3 DEF IsBatch
  <2>2. PICK n \in Nat : /\ n + Len(s) <= t
                         /\ \A i \in 1..Len(s) : s[i] = n + i /\ n + i \notin lost
    BY <1>3 DEF IsBatch, t
  <2>3. n + Len(s) <= u
    BY <1>1, <2>1, <2>2
  <2>4. \A i \in 1..Len(s) : n + i \notin (t + 1)..u
    BY <1>1, <2>1, <2>2
  <2>5. \A i \in 1..Len(s) : s[i] = n + i /\ n + i \notin lost'
    BY <1>1, <2>2, <2>4
  <2> QED BY <2>1, <2>3, <2>5 DEF IsBatch, u
<1>4. LoopOK'
  BY <1>3 DEF LoopOK
<1>5. TakenOK'
  <2>1. lost \subseteq 1..t /\ stored \in Seq(1..t) /\ 1..t \subseteq ToSet(stored) \cup lost \cup ToSet(InHand)
    BY DEF TakenOK, Taken, t
  <2>2. 1..t \subseteq 1..u /\ 1..u \subseteq (1..t) \cup (t + 1)..u
    BY <1>1
  <2>3. stored' \in Seq(1..u)
    BY <2>1, <2>2, SeqMonotonic
  <2>4. 1..u \subseteq ToSet(stored') \cup lost' \cup ToSet(InHand')
    BY <1>1, <1>2, <2>1, <2>2
  <2> QED BY <1>1, <2>3, <2>4 DEF TakenOK, Taken, u
<1> QED BY <1>2, <1>4, <1>5


\* The logs that were taken when a request is answered.
Further(b) ==
  /\ arrived - Size(buf) \in Nat /\ arrived' - Size(b) \in Nat
  /\ arrived - Size(buf) <= arrived' - Size(b)
  /\ lost \subseteq lost' /\ lost' \subseteq 1..(arrived' - Size(b))
  /\ ((arrived - Size(buf)) + 1)..(arrived' - Size(b)) \subseteq lost'
  /\ lost' \subseteq lost \cup ((arrived - Size(buf)) + 1)..(arrived' - Size(b))

\* A flush is begun unless one is under way.
LEMMA Flushed ==
  ASSUME NEW b, Numbered(b, arrived'), arrived' <= MaxLogs,
         \/ Flush(b)
         \/ buf' = b /\ UNCHANGED <<inFlight, loops>>,
         stored' = stored, LoopOK, TakenOK, Further(b)
  PROVE  /\ Numbered(buf, arrived)' /\ LoopOK' /\ TakenOK'
         /\ Queue!Proceed(InHand, Live(b))
         /\ \/ loops' = loops
            \/ /\ loops = {}
               /\ (\A l \in loops' : l.at = "ended") => Size(buf') = 0
         /\ Flush(b) => loops' # {}
<1>1. CASE buf' = b /\ UNCHANGED <<inFlight, loops>>
  <2>1. /\ Numbered(buf, arrived)' /\ LoopOK' /\ TakenOK'
        /\ InHand' = InHand /\ Live(buf') = Live(b)
    BY <1>1, Waits DEF Further
  <2>2. loops' = loops /\ (inFlight = (loops # {}))
    BY <1>1 DEF LoopOK
  <2>3. Flush(b) => loops' # {}
    BY <1>1, <2>2 DEF Flush, Continue
  <2> QED BY <2>1, <2>2, <2>3 DEF Queue!Proceed
<1>2. CASE ~inFlight /\ Continue(b, loops) /\ inFlight' = TRUE
  <2>1. loops = {}
    BY <1>2 DEF LoopOK
  <2>2. InHand = <<>>
    BY <2>1 DEF InHand
  <2> DEFINE t == arrived - Size(buf)
             u == arrived' - Size(b)
  <2>3. /\ lost \subseteq 1..t /\ stored \in Seq(1..t)
        /\ 1..t \subseteq ToSet(stored) \cup lost
    <3>1. ToSet(<<>>) = {}
      BY DEF ToSet
    <3> QED BY <2>2, <3>1 DEF TakenOK, Taken
  <2>4. t \in Nat /\ u \in Nat /\ t <= u /\ lost \subseteq lost' /\ lost' \subseteq 1..u
        /\ (t + 1)..u \subseteq lost'
    BY DEF Further
  <2> HIDE DEF t, u
  <2>5. 1..t \subseteq 1..u /\ 1..u \subseteq (1..t) \cup (t + 1)..u
    BY <2>4
  <2>6. stored' \in Seq(1..u)
    BY <2>3, <2>5, SeqMonotonic
  <2>7. 1..u \subseteq ToSet(stored') \cup lost'
    BY <2>3, <2>4, <2>5
  <2>8. /\ Numbered(buf, arrived)' /\ LoopOK' /\ TakenOK'
        /\ loops' # {}
        /\ (\A l \in loops' : l.at = "ended") => Size(buf') = 0
        /\ Onward(Live(b))
    BY <1>2, <2>1, <2>4, <2>6, <2>7, Turned DEF u
  <2>9. Queue!Proceed(InHand, Live(b))
    BY <2>2, <2>8 DEF Queue!Proceed, Onward
  <2> QED BY <2>1, <2>8, <2>9
<1> QED
  BY <1>1, <1>2 DEF Flush

\* What is known of the numbers of logs.
LEMMA Sizes ==
  ASSUME LogIInv
  PROVE  /\ buf \in Buffers /\ Size(buf) \in Nat /\ arrived \in Nat /\ Size(buf) <= arrived
         /\ Size(buf) <= Capacity /\ Len(Live(buf)) = Size(buf) /\ Live(buf) \in Seq(Nat)
         /\ arrived - Size(buf) \in Nat /\ Capacity \in Nat \ {0}
<1>1. buf \in Buffers /\ arrived \in Nat /\ Numbered(buf, arrived) /\ Size(buf) <= Capacity
  BY DEF LogIInv, BufferInv
<1>2. Size(buf) \in Nat /\ Len(Live(buf)) = Size(buf) /\ Live(buf) \in Seq(Nat)
  BY <1>1, LiveOf
<1>3. Size(buf) <= arrived
  BY <1>1, LiveNumbers
<1> QED BY <1>1, <1>2, <1>3, RequestLogAssumption

\* The oldest log that waits.
LEMMA Oldest ==
  ASSUME LogIInv, Size(buf) > 0
  PROVE  /\ Head(Live(buf)) = (arrived - Size(buf)) + 1
         /\ Tail(Live(buf)) = SubSeq(Live(buf), 2, Size(buf))
         /\ Live(buf) # <<>>
<1>1. Size(buf) \in Nat /\ Len(Live(buf)) = Size(buf) /\ Live(buf) \in Seq(Nat) /\ arrived \in Nat
  BY Sizes
<1>2. Live(buf) # <<>>
  BY <1>1
<1>3. Head(Live(buf)) = Live(buf)[1] /\ Tail(Live(buf)) = SubSeq(Live(buf), 2, Len(Live(buf)))
  <2> DEFINE s == Live(buf)
  <2>1. s \in Seq(Nat) /\ s # <<>>
    BY <1>1, <1>2
  <2> HIDE DEF s
  <2>2. Head(s) = s[1]
    BY <2>1
  <2>3. Tail(s) = SubSeq(s, 2, Len(s))
    BY <2>1, TailIsSubSeq
  <2> QED BY <2>2, <2>3 DEF s
<1>4. 1 \in 1..Size(buf)
  BY <1>1
<1>5. Live(buf)[1] = arrived - Size(buf) + 1
  <2>1. Numbered(buf, arrived)
    BY DEF LogIInv
  <2> QED BY <1>4, <2>1, LiveNumbers
<1> QED BY <1>1, <1>2, <1>3, <1>5


\* Whoever waits for a warning goes on waiting.
StillWaiting ==
  /\ (\E l \in loops : l.at = "warning") => \E l \in loops' : l.at = "warning"
  /\ phase = "reporting" => phase' = "reporting"

LEMMA SameWarnings ==
  ASSUME WaitersOK, StillWaiting, audits' = audits
  PROVE  WaitersOK'
BY DEF WaitersOK, StillWaiting

\* A warning is begun for which nobody waits who waits for another.
LEMMA OneMoreWarning ==
  ASSUME WaitersOK, StillWaiting, NEW a \in Warnings, audits' = Append(audits, a),
         a.waiter # "nobody" => \A i \in 1..Len(audits) : audits[i].waiter # a.waiter,
         a.waiter = "flush" => \E l \in loops' : l.at = "warning",
         a.waiter = "onClose" => phase' = "reporting"
  PROVE  WaitersOK'
<1> DEFINE s == audits
           t == audits'
<1>1. s \in Seq(Warnings) /\ Len(s) \in Nat
  BY DEF WaitersOK
<1>2. /\ t \in Seq(Warnings) /\ Len(t) = Len(s) + 1
      /\ \A i \in 1..Len(s) : t[i] = s[i]
      /\ t[Len(s) + 1] = a
  <2> t = Append(s, a)
    OBVIOUS
  <2> HIDE DEF t
  <2> QED BY <1>1
<1> HIDE DEF s, t
<1>3. \A i \in 1..Len(t) : i \in 1..Len(s) \/ i = Len(s) + 1
  BY <1>1, <1>2
<1>4. ASSUME NEW i \in 1..Len(t)
      PROVE  /\ t[i].waiter = "flush" => \E l \in loops' : l.at = "warning"
             /\ t[i].waiter = "onClose" => phase' = "reporting"
  <2>1. CASE i \in 1..Len(s)
    BY <1>2, <2>1 DEF WaitersOK, StillWaiting, s
  <2>2. CASE i = Len(s) + 1
    BY <1>2, <2>2
  <2> QED BY <1>3, <2>1, <2>2
<1>5. ASSUME NEW i \in 1..Len(t), NEW j \in 1..Len(t),
             t[i].waiter = t[j].waiter, t[i].waiter # "nobody"
      PROVE  i = j
  <2>1. CASE i \in 1..Len(s) /\ j \in 1..Len(s)
    BY <1>2, <1>5, <2>1 DEF WaitersOK, s
  <2>2. CASE i = Len(s) + 1 /\ j \in 1..Len(s)
    BY <1>2, <1>5, <2>2 DEF s
  <2>3. CASE j = Len(s) + 1 /\ i \in 1..Len(s)
    BY <1>2, <1>5, <2>3 DEF s
  <2> QED BY <1>3, <2>1, <2>2, <2>3
<1> QED BY <1>2, <1>4, <1>5 DEF WaitersOK, t

\* The counter or a new warning tells of n more drops.
LEMMA Warned ==
  ASSUME WaitersOK, CountsOK, NEW n \in Nat, NEW force \in BOOLEAN,
         NEW waiter \in {"nobody", "flush", "onClose"}, Warn(n, force, waiter),
         Cardinality(lost') = Cardinality(lost) + n
  PROVE  /\ CountsOK'
         /\ IF Due(n, force)
            THEN since' = 0 /\ \E a \in Warnings : a.waiter = waiter /\ audits' = Append(audits, a)
            ELSE audits' = audits /\ since' = since + n
<1>1. /\ since \in Nat /\ recent \in BOOLEAN /\ reported \in Nat /\ unreported \in Nat
      /\ Cardinality(lost) = since + reported + unreported + Told(audits)
      /\ audits \in Seq(Warnings)
  BY DEF CountsOK, DropsCounted, Told, WaitersOK
<1>2. Told(audits) \in Nat
  BY <1>1, ToldIs
<1>3. reported' = reported /\ unreported' = unreported
  BY DEF Warn
<1>4. CASE Due(n, force)
  <2> DEFINE a == [drops |-> since + n, waiter |-> waiter]
  <2>1. since' = 0 /\ recent' = TRUE /\ audits' = Append(audits, a)
    BY <1>4 DEF Warn
  <2>2. a \in Warnings /\ a.drops = since + n /\ a.waiter = waiter
    <3>1. since + n \in Nat \ {0}
      BY <1>1, <1>4 DEF Due
    <3> QED BY <3>1 DEF Warnings
  <2> HIDE DEF a
  <2>3. Told(audits') = Told(audits) + (since + n)
    BY <1>1, <2>1, <2>2, ToldAppend
  <2>4. Cardinality(lost') = since' + reported' + unreported' + Told(audits')
    BY <1>1, <1>2, <1>3, <2>1, <2>3
  <2>5. CountsOK'
    BY <1>1, <1>3, <2>1, <2>4 DEF CountsOK, DropsCounted, Told
  <2> QED BY <1>4, <2>1, <2>2, <2>5
<1>5. CASE ~Due(n, force)
  <2>1. since' = since + n /\ recent' = recent /\ audits' = audits
    BY <1>5 DEF Warn
  <2>2. since' \in Nat /\ Cardinality(lost') = since' + reported' + unreported' + Told(audits')
    BY <1>1, <1>2, <1>3, <2>1
  <2>3. CountsOK'
    BY <1>1, <1>3, <2>1, <2>2 DEF CountsOK, DropsCounted, Told
  <2> QED BY <1>5, <2>1, <2>3
<1> QED BY <1>4, <1>5


-----------------------------------------------------------------------------
(* The steps of requests, timers and onClose.                              *)

\* What is to be shown of a step.
Kept == LogIInv' /\ [Queue!Next]_(Queue!vars)

LEMMA LostFinite ==
  ASSUME LogIInv
  PROVE  IsFiniteSet(lost) /\ Cardinality(lost) \in Nat
<1>1. lost \subseteq 1..(arrived - Size(buf)) /\ arrived - Size(buf) \in Nat
  BY Sizes DEF LogIInv, TakenOK, Taken
<1>2. IsFiniteSet(1..(arrived - Size(buf)))
  BY <1>1, FS_Interval
<1> QED BY <1>1, <1>2, FS_Subset, FS_CardinalityType

\* A request: its log waits, and the oldest is given up when there is no room.
LEMMA AppendStep ==
  ASSUME LogIInv, AppendLog
  PROVE  Kept
<1> DEFINE full == Size(buf) >= Capacity
           a == IF full THEN Skip(buf, 1) ELSE buf
           b == [a EXCEPT !.array = Append(@, arrived')]
           q == IF full THEN Tail(Live(buf)) ELSE Live(buf)
           t == arrived - Size(buf)
<1>1. /\ phase = "open" /\ arrived < MaxLogs /\ arrived' = arrived + 1
      /\ UNCHANGED <<phase, stored>>
      /\ Flush(b) \/ (buf' = b /\ UNCHANGED <<inFlight, loops>>)
      /\ full => lost' = lost \cup {Head(Live(buf))} /\ Warn(1, FALSE, "nobody")
      /\ ~full => UNCHANGED <<lost, warnings>>
  <2>1. /\ phase = "open" /\ arrived < MaxLogs /\ arrived' = arrived + 1
        /\ UNCHANGED <<phase, stored>>
    BY DEF AppendLog
  <2>2. Flush(b) \/ (buf' = b /\ UNCHANGED <<inFlight, loops>>)
    <3> HIDE DEF a
    <3>1. IF Size(b) >= BatchSize THEN Flush(b) ELSE buf' = b /\ UNCHANGED <<inFlight, loops>>
      BY DEF AppendLog, a
    <3> HIDE DEF b
    <3> QED BY <3>1
  <2>3. /\ full => lost' = lost \cup {Head(Live(buf))} /\ Warn(1, FALSE, "nobody")
        /\ ~full => UNCHANGED <<lost, warnings>>
    BY DEF AppendLog
  <2> QED BY <2>1, <2>2, <2>3
<1>2. /\ buf \in Buffers /\ Size(buf) \in Nat /\ arrived \in Nat /\ Size(buf) <= arrived
      /\ Size(buf) <= Capacity /\ Len(Live(buf)) = Size(buf) /\ Live(buf) \in Seq(Nat)
      /\ t \in Nat /\ Capacity \in Nat \ {0}
  BY Sizes
<1>3. BufferInv' /\ arrived' <= MaxLogs
  <2>1. BufferInv'
    BY AppendKeeps DEF LogIInv
  <2>2. MaxLogs \in Nat
    BY RequestLogAssumption
  <2> QED BY <1>1, <1>2, <2>1, <2>2
<1>4. full => /\ Size(buf) > 0 /\ Head(Live(buf)) = t + 1
              /\ Tail(Live(buf)) = SubSeq(Live(buf), 2, Size(buf))
              /\ Live(buf) # <<>>
  BY <1>2, Oldest
<1>5. Numbered(a, arrived) /\ Live(a) = q /\ Size(a) = Size(buf) - (IF full THEN 1 ELSE 0)
  <2>1. Numbered(buf, arrived)
    BY DEF LogIInv
  <2>2. CASE full
    <3>1. 1 \in Nat /\ 1 <= Size(buf) /\ 1 + 1 = 2
      BY <1>2, <1>4, <2>2
    <3>2. /\ Live(Skip(buf, 1)) = SubSeq(Live(buf), 1 + 1, Size(buf))
          /\ Numbered(Skip(buf, 1), arrived)
          /\ Size(Skip(buf, 1)) = Size(buf) - 1
      BY <2>1, <3>1, SkipLive
    <3> QED BY <1>4, <2>2, <3>1, <3>2
  <2>3. CASE ~full
    <3>1. Size(buf) - 0 = Size(buf)
      BY <1>2
    <3> QED BY <2>1, <2>3, <3>1
  <2> QED BY <2>2, <2>3
<1>6. Live(b) = Append(q, arrived') /\ Numbered(b, arrived') /\ Size(b) = Size(a) + 1
  <2> HIDE DEF a, q
  <2>1. LET c == [a EXCEPT !.array = Append(@, arrived + 1)]
        IN /\ Live(c) = Append(Live(a), arrived + 1)
           /\ Numbered(c, arrived + 1)
           /\ Size(c) = Size(a) + 1
    BY <1>5, PushLive
  <2> QED BY <1>1, <1>5, <2>1
<1>7. arrived' - Size(b) = IF full THEN t + 1 ELSE t
  BY <1>1, <1>2, <1>5, <1>6
<1>8. lost \subseteq 1..t
  BY DEF LogIInv, TakenOK, Taken
<1>9. Further(b)
  <2> DEFINE u == arrived' - Size(b)
  <2>1. u = (IF full THEN t + 1 ELSE t) /\ lost' = IF full THEN lost \cup {t + 1} ELSE lost
    BY <1>1, <1>4, <1>7
  <2> HIDE DEF t, u, full
  <2>2. t \in Nat /\ u \in Nat /\ t <= u /\ lost' \subseteq 1..u /\ lost \subseteq lost'
        /\ (t + 1)..u \subseteq lost' /\ lost' \subseteq lost \cup (t + 1)..u
    BY <1>2, <1>8, <2>1
  <2> QED BY <2>2 DEF Further, t, u
<1> HIDE DEF a, b
<1>10. /\ Numbered(buf, arrived)' /\ LoopOK' /\ TakenOK'
       /\ Queue!Proceed(InHand, Live(b))
       /\ loops' = loops \/ loops = {}
  BY <1>1, <1>3, <1>6, <1>9, Flushed DEF LogIInv
<1>11. StillWaiting
  BY <1>1, <1>10 DEF StillWaiting
<1>12. CountsOK' /\ WaitersOK'
  <2>1. CASE full
    <3>1. t + 1 \notin lost /\ lost' = lost \cup {t + 1}
      BY <1>1, <1>2, <1>4, <1>8, <2>1
    <3>2. Cardinality(lost') = Cardinality(lost) + 1
      BY <3>1, LostFinite, FS_AddElement
    <3> HIDE DEF full
    <3>3. /\ CountsOK'
          /\ IF Due(1, FALSE)
             THEN since' = 0 /\ \E w \in Warnings : w.waiter = "nobody" /\ audits' = Append(audits, w)
             ELSE audits' = audits /\ since' = since + 1
      BY <1>1, <2>1, <3>2, Warned DEF LogIInv
    <3>4. CASE audits' = audits
      BY <1>11, <3>3, <3>4, SameWarnings DEF LogIInv
    <3>5. CASE \E w \in Warnings : w.waiter = "nobody" /\ audits' = Append(audits, w)
      <4>1. PICK w \in Warnings : w.waiter = "nobody" /\ audits' = Append(audits, w)
        BY <3>5
      <4> QED BY <1>11, <3>3, <4>1, OneMoreWarning DEF LogIInv
    <3> QED BY <3>3, <3>4, <3>5
  <2>2. CASE ~full
    BY <1>1, <1>11, <2>2, SameWarnings DEF LogIInv, warnings, CountsOK, DropsCounted
  <2> QED BY <2>1, <2>2
<1>13. PhaseOK'
  BY <1>1 DEF PhaseOK
<1>14. Queue!Arrive
  <2>1. CASE full
    <3>1. ~(Len(Live(buf)) < Capacity)
      BY <1>2, <2>1
    <3> QED BY <1>1, <1>6, <1>10, <2>1, <3>1 DEF Queue!Arrive
  <2>2. CASE ~full
    <3>1. Len(Live(buf)) < Capacity
      BY <1>2, <2>2
    <3> QED BY <1>1, <1>6, <1>10, <2>2, <3>1 DEF Queue!Arrive
  <2> QED BY <2>1, <2>2
<1> QED
  BY <1>3, <1>10, <1>12, <1>13, <1>14 DEF LogIInv, Kept, Queue!Next


\* Nothing more is taken, and nothing more is lost.
LEMMA NoFurther ==
  ASSUME LogIInv, UNCHANGED fates
  PROVE  /\ Further(buf) /\ Numbered(buf, arrived') /\ arrived' <= MaxLogs
         /\ stored' = stored /\ lost' = lost /\ arrived' = arrived
<1>1. stored' = stored /\ lost' = lost /\ arrived' = arrived
  BY DEF fates
<1> DEFINE t == arrived - Size(buf)
<1>2. t \in Nat /\ lost \subseteq 1..t
  BY Sizes DEF LogIInv, TakenOK, Taken
<1>3. arrived' - Size(buf) = t
  BY <1>1
<1> HIDE DEF t
<1>4. (t + 1)..t = {} /\ t <= t
  BY <1>2
<1> QED
  BY <1>1, <1>2, <1>3, <1>4 DEF Further, LogIInv, t

LEMMA TimerStep ==
  ASSUME LogIInv, Timer
  PROVE  Kept
<1>1. phase = "open" /\ Flush(buf) /\ UNCHANGED <<warnings, phase, fates>>
  BY DEF Timer
<1>2. BufferInv'
  BY NextBufferInv DEF LogIInv, Next
<1>3. /\ Further(buf) /\ Numbered(buf, arrived') /\ arrived' <= MaxLogs
      /\ stored' = stored /\ lost' = lost /\ arrived' = arrived
  BY <1>1, NoFurther
<1>4. /\ Numbered(buf, arrived)' /\ LoopOK' /\ TakenOK'
      /\ Queue!Proceed(InHand, Live(buf))
      /\ loops' = loops \/ loops = {}
  BY <1>1, <1>3, Flushed DEF LogIInv
<1>5. StillWaiting
  BY <1>1, <1>4 DEF StillWaiting
<1>6. CountsOK' /\ WaitersOK'
  BY <1>1, <1>3, <1>5, SameWarnings DEF LogIInv, warnings, CountsOK, DropsCounted
<1>7. PhaseOK'
  BY <1>1 DEF PhaseOK
<1>8. Queue!Begin
  BY <1>3, <1>4 DEF Queue!Begin
<1> QED
  BY <1>2, <1>3, <1>4, <1>6, <1>7, <1>8 DEF LogIInv, Kept, Queue!Next

\* A flush that begins with onClose, or is under way, has not ended.
LEMMA CloseStep ==
  ASSUME LogIInv, Close
  PROVE  Kept
<1>1. /\ phase = "open" /\ phase' = "flushing" /\ Flush(buf) /\ UNCHANGED <<warnings, fates>>
      /\ \A l \in loops : l.at # "ended"
  BY DEF Close
<1>2. BufferInv'
  BY NextBufferInv DEF LogIInv, Next
<1>3. /\ Further(buf) /\ Numbered(buf, arrived') /\ arrived' <= MaxLogs
      /\ stored' = stored /\ lost' = lost /\ arrived' = arrived
  BY <1>1, NoFurther
<1>4. /\ Numbered(buf, arrived)' /\ LoopOK' /\ TakenOK'
      /\ Queue!Proceed(InHand, Live(buf))
      /\ \/ loops' = loops
         \/ /\ loops = {}
            /\ (\A l \in loops' : l.at = "ended") => Size(buf') = 0
      /\ loops' # {}
  BY <1>1, <1>3, Flushed DEF LogIInv
<1>5. StillWaiting
  BY <1>1, <1>4 DEF StillWaiting
<1>6. CountsOK' /\ WaitersOK'
  BY <1>1, <1>3, <1>5, SameWarnings DEF LogIInv, warnings, CountsOK, DropsCounted
<1>7. PhaseOK'
  BY <1>1, <1>4 DEF PhaseOK
<1>8. Queue!Begin
  BY <1>3, <1>4 DEF Queue!Begin
<1> QED
  BY <1>2, <1>3, <1>4, <1>6, <1>7, <1>8 DEF LogIInv, Kept, Queue!Next

\* Steps that leave the buffer and the flushes alone.
LEMMA Untouched ==
  ASSUME LogIInv, UNCHANGED <<buf, inFlight, loops, fates>>
  PROVE  /\ Numbered(buf, arrived)' /\ LoopOK' /\ TakenOK' /\ BufferInv' /\ arrived' <= MaxLogs
         /\ UNCHANGED Queue!vars
         /\ lost' = lost /\ arrived' = arrived
<1>1. stored' = stored /\ lost' = lost /\ arrived' = arrived /\ buf' = buf
      /\ inFlight' = inFlight /\ loops' = loops
  BY DEF fates
<1>2. InHand' = InHand /\ Live(buf') = Live(buf) /\ Size(buf') = Size(buf)
  BY <1>1 DEF InHand
<1> QED
  BY <1>1, <1>2
  DEF LogIInv, LoopOK, TakenOK, Taken, BufferInv, IsBatch, Queue!vars

\* The last warning, when the flush of onClose has ended.
LEMMA LastWarningStep ==
  ASSUME LogIInv, LastWarning
  PROVE  Kept
<1>1. /\ phase = "flushing" /\ ~inFlight /\ Warn(0, TRUE, "onClose")
      /\ phase' = IF Due(0, TRUE) THEN "reporting" ELSE "closed"
      /\ UNCHANGED <<buf, inFlight, loops, fates>>
  BY DEF LastWarning
<1>2. /\ Numbered(buf, arrived)' /\ LoopOK' /\ TakenOK' /\ BufferInv' /\ arrived' <= MaxLogs
      /\ UNCHANGED Queue!vars /\ lost' = lost
  BY <1>1, Untouched
<1>3. Cardinality(lost') = Cardinality(lost) + 0
  BY <1>2, LostFinite
<1>4. /\ CountsOK'
      /\ IF Due(0, TRUE)
         THEN since' = 0 /\ \E a \in Warnings : a.waiter = "onClose" /\ audits' = Append(audits, a)
         ELSE audits' = audits /\ since' = since + 0
  BY <1>1, <1>3, Warned DEF LogIInv
<1>5. StillWaiting
  BY <1>1 DEF StillWaiting
<1>6. WaitersOK'
  <2>1. CASE Due(0, TRUE)
    <3>1. PICK a \in Warnings : a.waiter = "onClose" /\ audits' = Append(audits, a)
      BY <1>4, <2>1
    <3>2. \A i \in 1..Len(audits) : audits[i].waiter # "onClose"
      BY <1>1 DEF LogIInv, WaitersOK
    <3>3. phase' = "reporting"
      BY <1>1, <2>1
    <3> QED BY <1>5, <3>1, <3>2, <3>3, OneMoreWarning DEF LogIInv
  <2>2. CASE ~Due(0, TRUE)
    BY <1>4, <1>5, <2>2, SameWarnings DEF LogIInv
  <2> QED BY <2>1, <2>2
<1>7. PhaseOK'
  <2>1. loops = {} /\ Size(buf) = 0
    BY <1>1 DEF LogIInv, LoopOK, PhaseOK
  <2>2. since' = 0
    <3>1. since \in Nat
      BY DEF LogIInv, CountsOK
    <3>2. CASE ~Due(0, TRUE)
      BY <1>4, <3>1, <3>2 DEF Due
    <3> QED BY <1>4, <3>2
  <2> QED BY <1>1, <2>1, <2>2 DEF PhaseOK
<1> QED
  BY <1>2, <1>4, <1>6, <1>7 DEF LogIInv, Kept

LEMMA IntervalStep ==
  ASSUME LogIInv, IntervalPasses
  PROVE  Kept
<1>1. /\ recent' = FALSE
      /\ UNCHANGED <<buf, inFlight, loops, since, audits, reported, unreported, phase, fates>>
  BY DEF IntervalPasses
<1>2. /\ Numbered(buf, arrived)' /\ LoopOK' /\ TakenOK' /\ BufferInv' /\ arrived' <= MaxLogs
      /\ UNCHANGED Queue!vars /\ lost' = lost
  BY <1>1, Untouched
<1>3. StillWaiting
  BY <1>1 DEF StillWaiting
<1>4. CountsOK' /\ WaitersOK' /\ PhaseOK'
  BY <1>1, <1>2, <1>3, SameWarnings DEF LogIInv, CountsOK, DropsCounted, PhaseOK
<1> QED
  BY <1>2, <1>4 DEF LogIInv, Kept

LEMMA StutterStep ==
  ASSUME LogIInv, UNCHANGED vars
  PROVE  Kept
<1>1. UNCHANGED <<buf, inFlight, loops, since, recent, audits, reported, unreported, phase, fates>>
  BY DEF vars, warnings
<1>2. /\ Numbered(buf, arrived)' /\ LoopOK' /\ TakenOK' /\ BufferInv' /\ arrived' <= MaxLogs
      /\ UNCHANGED Queue!vars /\ lost' = lost
  BY <1>1, Untouched
<1>3. StillWaiting
  BY <1>1 DEF StillWaiting
<1>4. CountsOK' /\ WaitersOK' /\ PhaseOK'
  BY <1>1, <1>2, <1>3, SameWarnings DEF LogIInv, CountsOK, DropsCounted, PhaseOK
<1> QED
  BY <1>2, <1>4 DEF LogIInv, Kept

\* The flush that ends is the only one.
LEMMA EndStep ==
  ASSUME LogIInv, NEW l \in loops, EndFlush(l)
  PROVE  Kept
<1>1. /\ l.at = "ended" /\ loops' = loops \ {l} /\ inFlight' = FALSE
      /\ UNCHANGED <<buf, warnings, phase, fates>>
  BY DEF EndFlush
<1>2. loops = {l} /\ loops' = {}
  BY <1>1 DEF LogIInv, LoopOK
<1>3. BufferInv'
  BY NextBufferInv DEF LogIInv, Next, Answers
<1>4. InHand = <<>> /\ InHand' = <<>>
  BY <1>1, <1>2 DEF InHand
<1>5. stored' = stored /\ lost' = lost /\ arrived' = arrived /\ buf' = buf
  BY <1>1 DEF fates
<1>6. Numbered(buf, arrived)' /\ arrived' <= MaxLogs /\ Live(buf') = Live(buf)
  BY <1>5 DEF LogIInv
<1>7. LoopOK'
  BY <1>1, <1>2 DEF LoopOK
<1>8. TakenOK'
  BY <1>4, <1>5 DEF LogIInv, TakenOK, Taken
<1>9. StillWaiting
  BY <1>1, <1>2 DEF StillWaiting
<1>10. CountsOK' /\ WaitersOK'
  BY <1>1, <1>5, <1>9, SameWarnings DEF LogIInv, warnings, CountsOK, DropsCounted
<1>11. PhaseOK'
  BY <1>1, <1>2, <1>5 DEF LogIInv, PhaseOK, warnings
<1>12. UNCHANGED Queue!vars
  BY <1>4, <1>5, <1>6 DEF Queue!vars
<1> QED
  BY <1>3, <1>6, <1>7, <1>8, <1>10, <1>11, <1>12 DEF LogIInv, Kept


\* The batch that a flush is writing, and the logs before and after it.
LEMMA WritingOne ==
  ASSUME LogIInv, NEW l \in loops, l.at = "writing"
  PROVE  /\ loops = {l} /\ inFlight = TRUE /\ InHand = l.batch /\ InHand # <<>>
         /\ l.batch \in Seq(1..(arrived - Size(buf)))
         /\ ToSet(l.batch) \subseteq 1..(arrived - Size(buf))
         /\ ToSet(l.batch) \cap lost = {}
         /\ IsFiniteSet(ToSet(l.batch)) /\ Cardinality(ToSet(l.batch)) = Len(l.batch)
         /\ Len(l.batch) \in Nat
         /\ phase \notin {"reporting", "closed"}
<1> DEFINE s == l.batch
           t == arrived - Size(buf)
<1>1. loops = {l} /\ inFlight = TRUE /\ IsBatch(s)
  BY DEF LogIInv, LoopOK
<1>2. InHand = s
  <2>1. InHand = Hand(loops)
    BY DEF InHand, Hand
  <2> QED BY <1>1, <2>1, HandOfOne
<1>3. s \in Seq(1..MaxLogs) /\ Len(s) > 0 /\ Len(s) \in Nat /\ DOMAIN s = 1..Len(s)
  BY <1>1 DEF IsBatch
<1>4. PICK n \in Nat : n + Len(s) <= t /\ \A i \in 1..Len(s) : s[i] = n + i /\ n + i \notin lost
  BY <1>1 DEF IsBatch
<1>5. t \in Nat
  BY Sizes
<1> HIDE DEF s, t
<1>6. /\ ToSet(s) = (n + 1)..(n + Len(s))
      /\ IsFiniteSet(ToSet(s)) /\ Cardinality(ToSet(s)) = Len(s)
  BY <1>3, <1>4, RunOfNumbers
<1>7. (n + 1)..(n + Len(s)) \subseteq 1..t
  BY <1>3, <1>4, <1>5
<1>8. ToSet(s) \cap lost = {}
  <2>1. \A x \in ToSet(s) : \E i \in 1..Len(s) : x = s[i]
    BY <1>3 DEF ToSet
  <2> QED BY <1>4, <2>1
<1>9. s \in Seq(1..t)
  <2>1. \A i \in 1..Len(s) : s[i] \in 1..t
    BY <1>3, <1>4, <1>5
  <2>2. s = [i \in 1..Len(s) |-> s[i]]
    BY <1>3
  <2>3. [i \in 1..Len(s) |-> s[i]] \in Seq(1..t)
    BY <1>3, <2>1, IsASeq
  <2> QED BY <2>2, <2>3
<1>10. phase \notin {"reporting", "closed"}
  BY <1>1 DEF LogIInv, PhaseOK
<1>11. s # <<>>
  BY <1>3
<1> QED
  BY <1>1, <1>2, <1>3, <1>6, <1>7, <1>8, <1>9, <1>10, <1>11 DEF s, t

\* No flush waits for a warning then.
LEMMA NobodyWaits ==
  ASSUME LogIInv, NEW l \in loops, l.at # "warning"
  PROVE  /\ \A i \in 1..Len(audits) : audits[i].waiter # "flush"
         /\ ~ \E m \in loops : m.at = "warning"
BY DEF LogIInv, WaitersOK, LoopOK

\* The database answers, and the loop goes on.
LEMMA WrittenStep ==
  ASSUME LogIInv, NEW l \in loops, Written(l)
  PROVE  Kept
<1> DEFINE t == arrived - Size(buf)
<1>1. /\ l.at = "writing" /\ stored' = stored \o l.batch
      /\ Continue(buf, loops \ {l})
      /\ UNCHANGED <<inFlight, warnings, phase, arrived, lost>>
  BY DEF Written
<1>2. /\ loops = {l} /\ inFlight = TRUE /\ InHand = l.batch /\ InHand # <<>>
      /\ l.batch \in Seq(1..t) /\ phase \notin {"reporting", "closed"}
  BY <1>1, WritingOne
<1>3. BufferInv'
  BY NextBufferInv DEF LogIInv, Next, Answers
<1>4. Continue(buf, {}) /\ inFlight' = TRUE
  <2>1. loops \ {l} = {}
    BY <1>2
  <2> QED BY <1>1, <1>2, <2>1
<1>5. /\ lost \subseteq 1..t /\ stored \in Seq(1..t)
      /\ 1..t \subseteq ToSet(stored) \cup lost \cup ToSet(l.batch)
  BY <1>2 DEF LogIInv, TakenOK, Taken
<1> HIDE DEF t
<1>6. stored' \in Seq(1..t) /\ ToSet(stored') = ToSet(stored) \cup ToSet(l.batch)
  BY <1>1, <1>2, <1>5, SetOfConcat
<1>7. Numbered(buf, arrived') /\ arrived' <= MaxLogs /\ arrived' = arrived /\ lost' = lost
  BY <1>1 DEF LogIInv
<1>8. 1..t \subseteq ToSet(stored') \cup lost'
  BY <1>5, <1>6, <1>7
<1>9. /\ Numbered(buf, arrived)' /\ LoopOK' /\ TakenOK'
      /\ loops' # {} /\ \A m \in loops' : m.at # "warning"
      /\ (\A m \in loops' : m.at = "ended") => Size(buf') = 0
      /\ Onward(Live(buf))
  BY <1>4, <1>5, <1>6, <1>7, <1>8, Turned DEF t
<1>10. StillWaiting
  BY <1>1, NobodyWaits DEF StillWaiting
<1>11. CountsOK' /\ WaitersOK'
  BY <1>1, <1>10, SameWarnings DEF LogIInv, warnings, CountsOK, DropsCounted
<1>12. PhaseOK'
  BY <1>1, <1>2, <1>9 DEF LogIInv, PhaseOK
<1>13. Queue!Store
  BY <1>1, <1>2, <1>7, <1>9 DEF Queue!Store, Queue!Proceed, Onward
<1> QED
  BY <1>3, <1>7, <1>9, <1>11, <1>12, <1>13 DEF LogIInv, Kept, Queue!Next

\* The batch is given up; the loop goes on, or a warning comes first.
LEMMA FailsStep ==
  ASSUME LogIInv, NEW l \in loops, WriteFails(l)
  PROVE  Kept
<1> DEFINE t == arrived - Size(buf)
           n == Len(l.batch)
<1>1. /\ l.at = "writing" /\ stored' \in {stored, stored \o l.batch}
      /\ lost' = lost \cup ToSet(l.batch)
      /\ Warn(n, FALSE, "flush")
      /\ IF Due(n, FALSE)
         THEN /\ loops' = (loops \ {l}) \cup {[at |-> "warning", batch |-> <<>>]}
              /\ buf' = buf
         ELSE Continue(buf, loops \ {l})
      /\ UNCHANGED <<inFlight, phase, arrived>>
  BY DEF WriteFails
<1>2. /\ loops = {l} /\ inFlight = TRUE /\ InHand = l.batch /\ InHand # <<>>
      /\ l.batch \in Seq(1..t) /\ phase \notin {"reporting", "closed"}
      /\ ToSet(l.batch) \subseteq 1..t /\ ToSet(l.batch) \cap lost = {}
      /\ IsFiniteSet(ToSet(l.batch)) /\ Cardinality(ToSet(l.batch)) = n /\ n \in Nat
  BY <1>1, WritingOne
<1>3. BufferInv'
  BY NextBufferInv DEF LogIInv, Next, Answers
<1>4. loops \ {l} = {} /\ inFlight' = TRUE
  BY <1>1, <1>2
<1>5. /\ lost \subseteq 1..t /\ stored \in Seq(1..t)
      /\ 1..t \subseteq ToSet(stored) \cup lost \cup ToSet(l.batch)
  BY <1>2 DEF LogIInv, TakenOK, Taken
<1>6. Cardinality(lost') = Cardinality(lost) + n
  <2>1. lost \cap ToSet(l.batch) = {} /\ Cardinality({}) = 0
    BY <1>2, FS_EmptySet
  <2>2. Cardinality(lost \cup ToSet(l.batch))
          = Cardinality(lost) + Cardinality(ToSet(l.batch)) - Cardinality(lost \cap ToSet(l.batch))
    BY <1>2, LostFinite, FS_Union
  <2>3. Cardinality(lost) \in Nat
    BY LostFinite
  <2> DEFINE x == Cardinality(lost)
             y == Cardinality(lost \cup ToSet(l.batch))
  <2>4. y = x + n - 0 /\ x \in Nat /\ n \in Nat /\ Cardinality(lost') = y
    BY <1>1, <1>2, <2>1, <2>2, <2>3
  <2> HIDE DEF n, x, y
  <2>5. y = x + n
    BY <2>4
  <2> QED BY <2>4, <2>5 DEF x
<1> HIDE DEF t, n
<1>7. stored' \in Seq(1..t) /\ ToSet(stored) \subseteq ToSet(stored')
  <2> DEFINE b == l.batch
  <2>1. stored \in Seq(1..t) /\ b \in Seq(1..t) /\ stored' \in {stored, stored \o b}
    BY <1>1, <1>2, <1>5
  <2> HIDE DEF b
  <2>2. stored \o b \in Seq(1..t) /\ ToSet(stored \o b) = ToSet(stored) \cup ToSet(b)
    BY <2>1, SetOfConcat
  <2> QED BY <2>1, <2>2
<1>8. Numbered(buf, arrived') /\ arrived' <= MaxLogs /\ arrived' = arrived
  BY <1>1 DEF LogIInv
<1>9. lost' \subseteq 1..t /\ 1..t \subseteq ToSet(stored') \cup lost'
  BY <1>1, <1>2, <1>5, <1>7
<1>10. /\ CountsOK'
       /\ IF Due(n, FALSE)
          THEN since' = 0 /\ \E a \in Warnings : a.waiter = "flush" /\ audits' = Append(audits, a)
          ELSE audits' = audits /\ since' = since + n
  BY <1>1, <1>2, <1>6, Warned DEF LogIInv
<1>11. StillWaiting
  BY <1>1, NobodyWaits DEF StillWaiting
<1>14. /\ InHand # <<>> /\ stored' \in {stored, stored \o InHand}
       /\ lost' = lost \cup ToSet(InHand) /\ arrived' = arrived
  BY <1>1, <1>2
<1>12. CASE Due(n, FALSE)
  <2> DEFINE m == [at |-> "warning", batch |-> <<>>]
  <2>1. m.at = "warning" /\ m.batch = <<>> /\ loops' = {m} /\ m \in Loops /\ buf' = buf
    BY <1>1, <1>4, <1>12 DEF Loops
  <2> HIDE DEF m
  <2>2. InHand' = <<>>
    BY <2>1 DEF InHand
  <2>3. LoopOK'
    BY <1>4, <2>1 DEF LoopOK
  <2>4. TakenOK'
    BY <1>7, <1>8, <1>9, <2>1 DEF TakenOK, Taken, t
  <2>5. WaitersOK'
    <3>1. PICK a \in Warnings : a.waiter = "flush" /\ audits' = Append(audits, a)
      BY <1>10, <1>12
    <3>2. \A i \in 1..Len(audits) : audits[i].waiter # "flush"
      BY <1>1, NobodyWaits
    <3> QED BY <1>11, <2>1, <3>1, <3>2, OneMoreWarning DEF LogIInv
  <2>6. PhaseOK'
    BY <1>1, <1>2, <2>1 DEF LogIInv, PhaseOK
  <2>7. Queue!GiveUp
    <3>1. Queue!Proceed(<<>>, Live(buf))
      BY <2>1, <2>2 DEF Queue!Proceed
    <3>2. Queue!ToSet(InHand) = ToSet(InHand)
      BY DEF Queue!ToSet, ToSet
    <3> QED BY <1>14, <3>1, <3>2 DEF Queue!GiveUp
  <2>8. Numbered(buf, arrived)'
    BY <1>8, <2>1
  <2> QED
    BY <1>3, <1>8, <1>10, <2>3, <2>4, <2>5, <2>6, <2>7, <2>8 DEF LogIInv, Kept, Queue!Next
<1>13. CASE ~Due(n, FALSE)
  <2>1. Continue(buf, {})
    BY <1>1, <1>4, <1>13
  <2>2. /\ Numbered(buf, arrived)' /\ LoopOK' /\ TakenOK'
        /\ loops' # {} /\ \A m \in loops' : m.at # "warning"
        /\ (\A m \in loops' : m.at = "ended") => Size(buf') = 0
        /\ Onward(Live(buf))
    BY <1>4, <1>7, <1>8, <1>9, <2>1, Turned DEF t
  <2>3. WaitersOK'
    BY <1>10, <1>11, <1>13, SameWarnings DEF LogIInv
  <2>4. PhaseOK'
    BY <1>1, <1>2, <2>2 DEF LogIInv, PhaseOK
  <2>5. Queue!GiveUp
    <3>1. Queue!Proceed(<<>>, Live(buf))
      BY <2>2 DEF Queue!Proceed, Onward
    <3>2. Queue!ToSet(InHand) = ToSet(InHand)
      BY DEF Queue!ToSet, ToSet
    <3> QED BY <1>14, <3>1, <3>2 DEF Queue!GiveUp
  <2> QED
    BY <1>3, <1>8, <1>10, <2>2, <2>3, <2>4, <2>5 DEF LogIInv, Kept, Queue!Next
<1> QED BY <1>12, <1>13


\* A warning is settled: whoever waited for it does not wait any more.
LEMMA OneWarningLess ==
  ASSUME WaitersOK, NEW k \in 1..Len(audits), audits' = RemoveAt(audits, k),
         \/ audits[k].waiter = "flush"
         \/ (\E l \in loops : l.at = "warning") => \E l \in loops' : l.at = "warning",
         \/ audits[k].waiter = "onClose"
         \/ phase = "reporting" => phase' = "reporting"
  PROVE  WaitersOK'
<1> DEFINE s == audits
           t == audits'
           n == Len(s)
           g == [i \in 1..(n - 1) |-> IF i < k THEN i ELSE i + 1]
<1>1. s \in Seq(Warnings) /\ n \in Nat /\ k \in 1..n
  BY DEF WaitersOK
<1>2. /\ t \in Seq(Warnings) /\ Len(t) = n - 1
      /\ \A i \in 1..(n - 1) : t[i] = IF i < k THEN s[i] ELSE s[i + 1]
  BY <1>1, Removed
<1> HIDE DEF s, t, n
<1>3. \A i \in 1..(n - 1) : g[i] \in 1..n /\ g[i] # k
  BY <1>1
<1>4. \A i, j \in 1..(n - 1) : g[i] = g[j] => i = j
  BY <1>1
<1>5. \A i \in 1..(n - 1) : t[i] = s[g[i]]
  BY <1>2
<1> HIDE DEF g
<1>6. \A i, j \in 1..n : s[i].waiter = s[j].waiter /\ s[i].waiter # "nobody" => i = j
  BY DEF WaitersOK, s, n
<1>7. ASSUME NEW i \in 1..n, i # k
      PROVE  /\ s[i].waiter = "flush" => \E l \in loops' : l.at = "warning"
             /\ s[i].waiter = "onClose" => phase' = "reporting"
  <2>1. /\ s[i].waiter = "flush" => \E l \in loops : l.at = "warning"
        /\ s[i].waiter = "onClose" => phase = "reporting"
    BY DEF WaitersOK, s, n
  <2>2. /\ s[i].waiter = "flush" => s[k].waiter # "flush"
        /\ s[i].waiter = "onClose" => s[k].waiter # "onClose"
    BY <1>1, <1>6, <1>7
  <2> QED BY <2>1, <2>2 DEF s
<1>8. \A i, j \in 1..(n - 1) : t[i].waiter = t[j].waiter /\ t[i].waiter # "nobody" => i = j
  BY <1>3, <1>4, <1>5, <1>6
<1>9. \A i \in 1..(n - 1) : /\ t[i].waiter = "flush" => \E l \in loops' : l.at = "warning"
                            /\ t[i].waiter = "onClose" => phase' = "reporting"
  BY <1>3, <1>5, <1>7
<1> QED BY <1>2, <1>8, <1>9 DEF WaitersOK, t

\* The answer to a warning, and what the one who waited for it does then.
LEMMA AuditedStep ==
  ASSUME LogIInv, NEW i \in DOMAIN audits, NEW written \in BOOLEAN, Audited(i, written)
  PROVE  Kept
<1> DEFINE a == audits[i]
           d == a.drops
           t == arrived - Size(buf)
<1>1. /\ audits' = RemoveAt(audits, i)
      /\ reported' = reported + (IF written THEN d ELSE 0)
      /\ unreported' = unreported + (IF written THEN 0 ELSE d)
      /\ IF a.waiter = "flush"
         THEN Continue(buf, {l \in loops : l.at # "warning"})
         ELSE UNCHANGED <<buf, loops>>
      /\ phase' = IF a.waiter = "onClose" THEN "closed" ELSE phase
      /\ UNCHANGED <<inFlight, since, recent, fates>>
  BY DEF Audited
<1>2. /\ audits \in Seq(Warnings) /\ i \in 1..Len(audits) /\ a \in Warnings
      /\ a.waiter = "flush" => \E l \in loops : l.at = "warning"
      /\ a.waiter = "onClose" => phase = "reporting"
  <2>1. audits \in Seq(Warnings)
    BY DEF LogIInv, WaitersOK
  <2>2. DOMAIN audits = 1..Len(audits)
    BY <2>1
  <2> QED BY <2>1, <2>2 DEF LogIInv, WaitersOK
<1>3. BufferInv'
  BY NextBufferInv DEF LogIInv, Next, Audit
<1>4. stored' = stored /\ lost' = lost /\ arrived' = arrived
  BY <1>1 DEF fates
<1>5. CountsOK'
  <2>1. /\ since \in Nat /\ recent \in BOOLEAN /\ reported \in Nat /\ unreported \in Nat
        /\ Cardinality(lost) = since + reported + unreported + Told(audits)
    BY DEF LogIInv, CountsOK, DropsCounted, Told
  <2>2. Told(audits) = d + Told(audits') /\ Told(audits') \in Nat /\ d \in Nat
    BY <1>1, <1>2, ToldRemoved DEF Warnings
  <2> DEFINE x == Told(audits')
  <2>3. reported' \in Nat /\ unreported' \in Nat
        /\ reported' + unreported' = reported + unreported + d
    BY <1>1, <2>1, <2>2
  <2>4. since' = since /\ recent' = recent
    BY <1>1
  <2> HIDE DEF d
  <2>5. Cardinality(lost') = since' + reported' + unreported' + x
    <3>1. /\ x \in Nat /\ d \in Nat /\ Cardinality(lost) = since + reported + unreported + (d + x)
          /\ Cardinality(lost') = Cardinality(lost)
      BY <1>4, <2>1, <2>2
    <3> HIDE DEF x
    <3>2. since + reported + unreported + (d + x) = since + reported' + unreported' + x
      <4>2. /\ since \in Nat /\ reported \in Nat /\ unreported \in Nat
            /\ reported' \in Nat /\ unreported' \in Nat /\ d \in Nat /\ x \in Nat
            /\ reported' + unreported' = reported + unreported + d
        BY <2>1, <2>3, <3>1
      <4> DEFINE p == since
                 q == reported
                 r == unreported
                 y == reported'
                 z == unreported'
      <4>3. p \in Nat /\ q \in Nat /\ r \in Nat /\ y \in Nat /\ z \in Nat /\ d \in Nat
            /\ x \in Nat /\ y + z = q + r + d
        BY <4>2
      <4> HIDE DEF p, q, r, y, z
      <4>4. p + q + r + (d + x) = p + y + z + x
        BY ONLY <4>3
      <4> QED BY <4>4 DEF p, q, r, y, z
    <3> QED BY <2>4, <3>1, <3>2
  <2> QED BY <2>1, <2>3, <2>4, <2>5 DEF CountsOK, DropsCounted, Told
<1> HIDE DEF d
<1>6. CASE a.waiter = "flush"
  <2>1. PICK l \in loops : l.at = "warning"
    BY <1>2, <1>6
  <2>2. loops = {l} /\ inFlight = TRUE /\ {m \in loops : m.at # "warning"} = {}
    BY <2>1 DEF LogIInv, LoopOK
  <2>3. Continue(buf, {}) /\ inFlight' = TRUE /\ phase' = phase
    BY <1>1, <1>6, <2>2
  <2>4. InHand = <<>> /\ ToSet(<<>>) = {}
    BY <2>1, <2>2 DEF InHand, ToSet
  <2>5. /\ lost' \subseteq 1..t /\ stored' \in Seq(1..t)
        /\ 1..t \subseteq ToSet(stored') \cup lost'
    BY <1>4, <2>4 DEF LogIInv, TakenOK, Taken
  <2>6. Numbered(buf, arrived') /\ arrived' <= MaxLogs /\ arrived' - Size(buf) = t
    BY <1>4 DEF LogIInv
  <2> HIDE DEF t
  <2>7. /\ Numbered(buf, arrived)' /\ LoopOK' /\ TakenOK'
        /\ loops' # {} /\ \A m \in loops' : m.at # "warning"
        /\ (\A m \in loops' : m.at = "ended") => Size(buf') = 0
        /\ Onward(Live(buf))
    BY <2>3, <2>5, <2>6, Turned
  <2>8. WaitersOK'
    BY <1>1, <1>2, <1>6, <2>3, OneWarningLess DEF LogIInv
  <2>9. PhaseOK'
    BY <2>2, <2>3, <2>7 DEF LogIInv, PhaseOK
  <2>10. Queue!Begin
    BY <1>4, <2>4, <2>7 DEF Queue!Begin, Queue!Proceed, Onward
  <2> QED
    BY <1>3, <1>5, <2>6, <2>7, <2>8, <2>9, <2>10 DEF LogIInv, Kept, Queue!Next
<1>7. CASE a.waiter # "flush"
  <2>1. UNCHANGED <<buf, inFlight, loops, fates>>
    BY <1>1, <1>7
  <2>2. /\ Numbered(buf, arrived)' /\ LoopOK' /\ TakenOK' /\ BufferInv' /\ arrived' <= MaxLogs
        /\ UNCHANGED Queue!vars
    BY <2>1, Untouched
  <2>3. WaitersOK'
    BY <1>1, <1>2, <1>7, <2>1, OneWarningLess DEF LogIInv
  <2>4. PhaseOK'
    <3>1. since' = since /\ loops' = loops /\ buf' = buf
      BY <1>1, <2>1
    <3>2. phase' = phase \/ (phase = "reporting" /\ phase' = "closed")
      BY <1>1, <1>2
    <3> QED BY <3>1, <3>2 DEF LogIInv, PhaseOK
  <2> QED
    BY <1>5, <2>2, <2>3, <2>4 DEF LogIInv, Kept
<1> QED BY <1>6, <1>7

\* Every step keeps the invariant and is a step of the queue or of nothing.
LEMMA StepKept == LogIInv /\ [Next]_vars => Kept
<1> SUFFICES ASSUME LogIInv, [Next]_vars PROVE Kept
  OBVIOUS
<1>1. CASE AppendLog
  BY <1>1, AppendStep
<1>2. CASE Timer
  BY <1>2, TimerStep
<1>3. ASSUME NEW l \in loops, Written(l) PROVE Kept
  BY <1>3, WrittenStep
<1>4. ASSUME NEW l \in loops, WriteFails(l) PROVE Kept
  BY <1>4, FailsStep
<1>5. ASSUME NEW l \in loops, EndFlush(l) PROVE Kept
  BY <1>5, EndStep
<1>6. ASSUME NEW i \in DOMAIN audits, NEW written \in BOOLEAN, Audited(i, written)
      PROVE  Kept
  BY <1>6, AuditedStep
<1>7. CASE IntervalPasses
  BY <1>7, IntervalStep
<1>8. CASE Close
  BY <1>8, CloseStep
<1>9. CASE LastWarning
  BY <1>9, LastWarningStep
<1>10. CASE UNCHANGED vars
  BY <1>10, StutterStep
<1> QED
  BY <1>1, <1>2, <1>3, <1>4, <1>5, <1>6, <1>7, <1>8, <1>9, <1>10
  DEF Next, Answers, Audit

LEMMA InitKept == Init => LogIInv /\ Queue!Init
<1> SUFFICES ASSUME Init PROVE LogIInv /\ Queue!Init
  OBVIOUS
<1>1. /\ buf = [array |-> <<>>, head |-> 0] /\ inFlight = FALSE /\ loops = {}
      /\ since = 0 /\ recent = FALSE /\ audits = <<>> /\ reported = 0 /\ unreported = 0
      /\ phase = "open" /\ arrived = 0 /\ stored = <<>> /\ lost = {}
  BY DEF Init
<1>2. BufferInv
  BY InitBufferInv
<1>3. Size(buf) = 0 /\ Len(buf.array) = 0
  BY <1>1 DEF Size
<1>4. Live(buf) = <<>> /\ InHand = <<>>
  <2>1. Live(buf) \in Seq(Nat) /\ Len(Live(buf)) = 0
    BY <1>2, <1>3, LiveOf DEF BufferInv
  <2> QED BY <1>1, <2>1 DEF InHand
<1>5. Numbered(buf, arrived) /\ arrived <= MaxLogs
  BY <1>1, <1>2, <1>3, RequestLogAssumption DEF Numbered, BufferInv
<1>6. LoopOK /\ TakenOK /\ PhaseOK
  <2>1. LoopOK /\ PhaseOK
    BY <1>1, <1>3 DEF LoopOK, PhaseOK
  <2>2. Taken = {}
    <3>1. 1..(0 - 0) = {}
      OBVIOUS
    <3> QED BY <1>1, <1>3, <3>1 DEF Taken
  <2>3. stored \in Seq(Taken)
    BY <1>1
  <2>4. TakenOK
    BY <1>1, <2>2, <2>3 DEF TakenOK
  <2> QED BY <2>1, <2>4
<1>7. WaitersOK
  BY <1>1 DEF WaitersOK
<1>8. CountsOK
  <2>1. Told(<<>>) = 0
    <3>1. <<>> \in Seq(Warnings) /\ Len(<<>>) = 0 /\ 1..0 = {}
      OBVIOUS
    <3>2. Told(<<>>) = SumOver([i \in DOMAIN <<>> |-> <<>>[i].drops], 1..Len(<<>>))
      BY <3>1, ToldIs
    <3> QED BY <3>1, <3>2, SumEmpty
  <2>2. Cardinality({}) = 0
    BY FS_EmptySet
  <2>3. Cardinality(lost) = since + reported + unreported + Told(audits)
    BY <1>1, <2>1, <2>2
  <2> QED BY <1>1, <2>3 DEF CountsOK, DropsCounted, Told
<1> QED BY <1>1, <1>2, <1>4, <1>5, <1>6, <1>7, <1>8 DEF LogIInv, Queue!Init

LEMMA LogInvariant == Spec => []LogIInv
<1>1. LogIInv /\ [Next]_vars => LogIInv'
  BY StepKept DEF Kept
<1> QED BY <1>1, InitKept, PTL DEF Spec

\* No log is lost in silence, for every capacity and batch size, however
\* writes, their failures, the warnings and the end of the server interleave:
\* what was given up is counted until a warning tells of it, and nothing is
\* left untold or unwritten when onClose has run.
THEOREM DropsAreTold == Spec => []DropsTold
<1>1. LogIInv => DropsTold
  <2> SUFFICES ASSUME LogIInv PROVE DropsTold
    OBVIOUS
  <2> DEFINE t == arrived - Size(buf)
  <2>1. /\ buf \in Buffers /\ Size(buf) \in Nat /\ arrived \in Nat /\ t \in Nat /\ t <= arrived
    <3>1. /\ buf \in Buffers /\ Size(buf) \in Nat /\ arrived \in Nat /\ t \in Nat
      BY Sizes
    <3> QED BY <3>1
  <2>2. lost \subseteq 1..t /\ stored \in Seq(1..t)
        /\ 1..t \subseteq ToSet(stored) \cup lost \cup ToSet(InHand)
    BY DEF LogIInv, TakenOK, Taken
  <2>3. arrived \in 0..MaxLogs /\ 1..t \subseteq 1..MaxLogs
    <3>1. MaxLogs \in Nat /\ arrived <= MaxLogs
      BY RequestLogAssumption DEF LogIInv
    <3> QED BY <2>1, <3>1
  <2>4. TypeOK
    <3>1. buf.array \in Seq(1..MaxLogs) /\ buf.head \in 0..Len(buf.array)
      <4> DEFINE s == buf.array
      <4>1. /\ s \in Seq(Nat) /\ Len(s) \in Nat /\ Len(s) <= arrived /\ buf.head \in Nat
            /\ buf.head <= Len(s)
            /\ \A i \in 1..Len(s) : s[i] = arrived - Len(s) + i
        BY DEF LogIInv, Numbered, Buffers
      <4> HIDE DEF s
      <4>2. \A i \in 1..Len(s) : s[i] \in 1..MaxLogs
        <5> SUFFICES ASSUME NEW i \in 1..Len(s) PROVE s[i] \in 1..MaxLogs
          OBVIOUS
        <5>1. /\ MaxLogs \in Nat /\ arrived \in Nat /\ arrived <= MaxLogs
              /\ Len(s) \in Nat /\ Len(s) <= arrived /\ i \in Nat /\ 1 <= i /\ i <= Len(s)
          BY <2>1, <2>3, <4>1, RequestLogAssumption DEF LogIInv
        <5>2. arrived - Len(s) + i \in 1..MaxLogs
          BY <5>1
        <5> QED BY <4>1, <5>2
      <4>3. [i \in 1..Len(s) |-> s[i]] \in Seq(1..MaxLogs) /\ s = [i \in 1..Len(s) |-> s[i]]
        <5>1. s = [i \in 1..Len(s) |-> s[i]]
          BY <4>1
        <5>2. [i \in 1..Len(s) |-> s[i]] \in Seq(1..MaxLogs)
          BY <4>1, <4>2, IsASeq
        <5> QED BY <5>1, <5>2
      <4>4. s \in Seq(1..MaxLogs) /\ buf.head \in 0..Len(s)
        <5>1. buf.head \in Nat /\ Len(s) \in Nat /\ buf.head <= Len(s)
          BY <4>1
        <5>2. buf.head \in 0..Len(s)
          BY ONLY <5>1
        <5> QED BY <4>3, <5>2
      <4> QED BY <4>4 DEF s
    <3>2. stored \in Seq(1..MaxLogs) /\ lost \subseteq 1..MaxLogs
      BY <2>2, <2>3, SeqMonotonic
    <3>3. inFlight \in BOOLEAN
          /\ \A l \in loops : l.at \in {"writing", "warning", "ended"} /\ l.batch \in Seq(1..MaxLogs)
      BY DEF LogIInv, LoopOK, Loops
    <3>4. \A i \in DOMAIN audits :
            audits[i].drops \in Nat \ {0} /\ audits[i].waiter \in {"nobody", "flush", "onClose"}
      <4>1. audits \in Seq(Warnings)
        BY DEF LogIInv, WaitersOK
      <4>2. \A i \in DOMAIN audits : audits[i] \in Warnings
        BY <4>1
      <4> QED BY <4>2 DEF Warnings
    <3> QED BY <2>3, <3>1, <3>2, <3>3, <3>4 DEF TypeOK, LogIInv, CountsOK, PhaseOK
  <2>5. ClosedClean
    <3> SUFFICES ASSUME phase = "closed"
                 PROVE  loops = {} /\ since = 0 /\ 1..arrived = ToSet(stored) \cup lost
      BY DEF ClosedClean
    <3>1. loops = {} /\ since = 0 /\ Size(buf) = 0
      BY DEF LogIInv, PhaseOK
    <3>2. InHand = <<>> /\ ToSet(<<>>) = {} /\ t = arrived
      BY <2>1, <3>1 DEF InHand, ToSet
    <3>3. ToSet(stored) \subseteq 1..t
      <4> DEFINE S == 1..t
      <4>1. stored \in Seq(S)
        BY <2>2
      <4> HIDE DEF S
      <4>2. ToSet(stored) \subseteq S
        BY <4>1 DEF ToSet
      <4> QED BY <4>2 DEF S
    <3> QED BY <2>2, <3>1, <3>2, <3>3
  <2> QED BY <2>4, <2>5 DEF DropsTold, LogIInv, CountsOK
<1> QED BY <1>1, LogInvariant, PTL

\* The array with its moving head, the flushes with their batches and the
\* warnings that interrupt them are the simple queue: logs are written in the
\* order of the requests, one batch at a time, and only the oldest is given up.
THEOREM QueueRefined == Spec => QueueSpec
<1>1. Init => Queue!Init
  BY InitKept
<1>2. LogIInv /\ [Next]_vars => [Queue!Next]_(Queue!vars)
  BY StepKept DEF Kept
<1> QED BY <1>1, <1>2, LogInvariant, PTL DEF Spec, QueueSpec, Queue!Spec

-----------------------------------------------------------------------------
(* Requests on their way.  The instances of the model are those of the     *)
(* proofs, definition by definition.                                       *)

OneRequest == INSTANCE RequestProofs WITH Requests <- {1}
TwoRequests == INSTANCE RequestProofs
                 WITH Requests <- {1, 2}, MaxRetries <- 1, MaxBans <- 0, MaxDeaths <- 0

LEMMA OneStarts == One!Init = OneRequest!Init
BY DEF One!Init, OneRequest!Init, One!Unsent, OneRequest!Unsent, One!NoEntry, OneRequest!NoEntry,
        One!NoMetrics, OneRequest!NoMetrics

LEMMA OneSteps == One!Next = OneRequest!Next /\ One!requestVars = OneRequest!requestVars
BY DEF One!Next, OneRequest!Next, One!Proceed, OneRequest!Proceed, One!Arrive, OneRequest!Arrive,
        One!Noted, OneRequest!Noted, One!Authenticate, OneRequest!Authenticate, One!CheckActive,
        OneRequest!CheckActive, One!CheckAdmin, OneRequest!CheckAdmin, One!Enter,
        OneRequest!Enter, One!Attempt, OneRequest!Attempt, One!RunMarket, OneRequest!RunMarket,
        One!RunSettings, OneRequest!RunSettings, One!RunFeedback, OneRequest!RunFeedback,
        One!HandleError, OneRequest!HandleError, One!Answer, OneRequest!Answer, One!Ban,
        OneRequest!Ban, One!Die, OneRequest!Die, One!GoOn, OneRequest!GoOn, One!Kinds,
        OneRequest!Kinds, One!Note, OneRequest!Note, One!Entry, OneRequest!Entry, One!InProcess,
        OneRequest!InProcess, One!Reject, OneRequest!Reject, One!Refuse, OneRequest!Refuse,
        One!Unexpected, OneRequest!Unexpected, One!Fail, OneRequest!Fail, One!OnTheWayIn,
        OneRequest!OnTheWayIn, One!HasRepository, OneRequest!HasRepository, One!MayRefresh,
        OneRequest!MayRefresh, One!Routes, OneRequest!Routes, One!TaskRoutes,
        OneRequest!TaskRoutes, One!DisputeRoutes, OneRequest!DisputeRoutes, One!ProfileRoutes,
        OneRequest!ProfileRoutes, One!FeedbackRoutes, OneRequest!FeedbackRoutes,
        One!SettingsRoutes, OneRequest!SettingsRoutes, One!MayWrite, OneRequest!MayWrite,
        One!Counted, OneRequest!Counted, One!Succeed, OneRequest!Succeed, One!NotedInTransaction,
        OneRequest!NotedInTransaction, One!GoWrong, OneRequest!GoWrong, One!Repeat,
        OneRequest!Repeat, One!CarriedOut, OneRequest!CarriedOut, One!NoMetrics,
        OneRequest!NoMetrics, One!Unsent, OneRequest!Unsent, One!NoEntry, OneRequest!NoEntry,
        One!requestVars, OneRequest!requestVars

LEMMA OneSays ==
  /\ One!TypeOK = OneRequest!TypeOK
  /\ One!AnswerTrue = OneRequest!AnswerTrue
  /\ One!AuditTrue = OneRequest!AuditTrue
  /\ One!Accounted = OneRequest!Accounted
  /\ One!CountersAgree = OneRequest!CountersAgree
  /\ \A S : One!Cardinality(S) = OneRequest!Cardinality(S)
<1>0. \A S : One!Cardinality(S) = OneRequest!Cardinality(S)
  BY DEF One!Cardinality, OneRequest!Cardinality, One!IsFiniteSet, OneRequest!IsFiniteSet
<1>1. One!TypeOK = OneRequest!TypeOK
  BY DEF One!TypeOK, OneRequest!TypeOK, One!Kinds, OneRequest!Kinds, One!Stages, OneRequest!Stages,
        One!Entries, OneRequest!Entries, One!NoEntry, OneRequest!NoEntry
<1>2. One!AnswerTrue = OneRequest!AnswerTrue
  BY DEF One!AnswerTrue, OneRequest!AnswerTrue
<1>3. One!AuditTrue = OneRequest!AuditTrue
  BY DEF One!AuditTrue, OneRequest!AuditTrue, One!Entry, OneRequest!Entry
<1>4. One!Accounted = OneRequest!Accounted
  BY DEF One!Accounted, OneRequest!Accounted
<1>5. One!CountersAgree = OneRequest!CountersAgree
  BY <1>0 DEF One!CountersAgree, OneRequest!CountersAgree, One!Awaited, OneRequest!Awaited, One!Number,
        OneRequest!Number, One!HasRepository, OneRequest!HasRepository
<1> QED
  BY <1>0, <1>1, <1>2, <1>3, <1>4, <1>5

LEMMA TwoStarts == Two!Init = TwoRequests!Init
BY DEF Two!Init, TwoRequests!Init, Two!Unsent, TwoRequests!Unsent, Two!NoEntry, TwoRequests!NoEntry,
        Two!NoMetrics, TwoRequests!NoMetrics

LEMMA TwoSteps == Two!Next = TwoRequests!Next /\ Two!requestVars = TwoRequests!requestVars
BY DEF Two!Next, TwoRequests!Next, Two!Proceed, TwoRequests!Proceed, Two!Arrive, TwoRequests!Arrive,
        Two!Noted, TwoRequests!Noted, Two!Authenticate, TwoRequests!Authenticate, Two!CheckActive,
        TwoRequests!CheckActive, Two!CheckAdmin, TwoRequests!CheckAdmin, Two!Enter,
        TwoRequests!Enter, Two!Attempt, TwoRequests!Attempt, Two!RunMarket, TwoRequests!RunMarket,
        Two!RunSettings, TwoRequests!RunSettings, Two!RunFeedback, TwoRequests!RunFeedback,
        Two!HandleError, TwoRequests!HandleError, Two!Answer, TwoRequests!Answer, Two!Ban,
        TwoRequests!Ban, Two!Die, TwoRequests!Die, Two!GoOn, TwoRequests!GoOn, Two!Kinds,
        TwoRequests!Kinds, Two!Note, TwoRequests!Note, Two!Entry, TwoRequests!Entry,
        Two!InProcess, TwoRequests!InProcess, Two!Reject, TwoRequests!Reject, Two!Refuse,
        TwoRequests!Refuse, Two!Unexpected, TwoRequests!Unexpected, Two!Fail, TwoRequests!Fail,
        Two!OnTheWayIn, TwoRequests!OnTheWayIn, Two!HasRepository, TwoRequests!HasRepository,
        Two!MayRefresh, TwoRequests!MayRefresh, Two!Routes, TwoRequests!Routes, Two!TaskRoutes,
        TwoRequests!TaskRoutes, Two!DisputeRoutes, TwoRequests!DisputeRoutes, Two!ProfileRoutes,
        TwoRequests!ProfileRoutes, Two!FeedbackRoutes, TwoRequests!FeedbackRoutes,
        Two!SettingsRoutes, TwoRequests!SettingsRoutes, Two!MayWrite, TwoRequests!MayWrite,
        Two!Counted, TwoRequests!Counted, Two!Succeed, TwoRequests!Succeed,
        Two!NotedInTransaction, TwoRequests!NotedInTransaction, Two!GoWrong, TwoRequests!GoWrong,
        Two!Repeat, TwoRequests!Repeat, Two!CarriedOut, TwoRequests!CarriedOut, Two!NoMetrics,
        TwoRequests!NoMetrics, Two!Unsent, TwoRequests!Unsent, Two!NoEntry, TwoRequests!NoEntry,
        Two!requestVars, TwoRequests!requestVars

LEMMA TwoSays ==
  /\ Two!TypeOK = TwoRequests!TypeOK
  /\ Two!AnswerTrue = TwoRequests!AnswerTrue
  /\ Two!AuditTrue = TwoRequests!AuditTrue
  /\ Two!Accounted = TwoRequests!Accounted
  /\ Two!CountersAgree = TwoRequests!CountersAgree
  /\ \A S : Two!Cardinality(S) = TwoRequests!Cardinality(S)
<1>0. \A S : Two!Cardinality(S) = TwoRequests!Cardinality(S)
  BY DEF Two!Cardinality, TwoRequests!Cardinality, Two!IsFiniteSet, TwoRequests!IsFiniteSet
<1>1. Two!TypeOK = TwoRequests!TypeOK
  BY DEF Two!TypeOK, TwoRequests!TypeOK, Two!Kinds, TwoRequests!Kinds, Two!Stages, TwoRequests!Stages,
        Two!Entries, TwoRequests!Entries, Two!NoEntry, TwoRequests!NoEntry
<1>2. Two!AnswerTrue = TwoRequests!AnswerTrue
  BY DEF Two!AnswerTrue, TwoRequests!AnswerTrue
<1>3. Two!AuditTrue = TwoRequests!AuditTrue
  BY DEF Two!AuditTrue, TwoRequests!AuditTrue, Two!Entry, TwoRequests!Entry
<1>4. Two!Accounted = TwoRequests!Accounted
  BY DEF Two!Accounted, TwoRequests!Accounted
<1>5. Two!CountersAgree = TwoRequests!CountersAgree
  BY <1>0 DEF Two!CountersAgree, TwoRequests!CountersAgree, Two!Awaited, TwoRequests!Awaited, Two!Number,
        TwoRequests!Number, Two!HasRepository, TwoRequests!HasRepository
<1> QED
  BY <1>0, <1>1, <1>2, <1>3, <1>4, <1>5

LEMMA OneBounded == OneRequest!Bounded
<1>1. IsFiniteSet({1})
  BY FS_Singleton
<1> QED
  BY <1>1, LogsAssumption DEF OneRequest!Bounded, OneRequest!IsFiniteSet, IsFiniteSet

LEMMA TwoBounded == TwoRequests!Bounded
<1>1. IsFiniteSet({1, 2})
  <2>1. {1, 2} = {1} \cup {2} /\ IsFiniteSet({1}) /\ IsFiniteSet({2})
    BY FS_Singleton
  <2> QED
    BY <2>1, FS_Union
<1> QED
  BY <1>1 DEF TwoRequests!Bounded, TwoRequests!IsFiniteSet, IsFiniteSet

\* What is known of the requests of an area; in the writer's none is sent.
RequestsIInv ==
  /\ area \in {"writer", "one", "two"}
  /\ IF area = "two" THEN TwoRequests!RequestsInv ELSE OneRequest!RequestsInv

LEMMA RequestsIInit == LogsInit => RequestsIInv
<1> SUFFICES ASSUME LogsInit PROVE RequestsIInv
  OBVIOUS
<1>1. area \in {"writer", "one", "two"}
  BY DEF LogsInit
<1>2. CASE area = "two"
  <2>1. TwoRequests!Init
    BY <1>2, TwoStarts DEF LogsInit
  <2> QED
    BY <1>1, <1>2, <2>1, TwoBounded, TwoRequests!RequestsInit DEF RequestsIInv
<1>3. CASE area # "two"
  <2>1. OneRequest!Init
    BY <1>3, OneStarts DEF LogsInit
  <2> QED
    BY <1>1, <1>3, <2>1, OneBounded, LogsAssumption, OneRequest!RequestsInit DEF RequestsIInv
<1> QED
  BY <1>2, <1>3

\* A step of either area is a step of the requests, or none.
LEMMA RequestsAct ==
  ASSUME RequestsIInv, [LogsNext]_logVars
  PROVE  /\ area' = area
         /\ area = "two" => [TwoRequests!Next]_(TwoRequests!requestVars)
         /\ area # "two" => [OneRequest!Next]_(OneRequest!requestVars)
<1>1. CASE UNCHANGED logVars \/ Writing(Next)
  <2>1. area' = area /\ UNCHANGED requestVars
    BY <1>1 DEF logVars, Writing
  <2> QED
    BY <2>1 DEF requestVars, TwoRequests!requestVars, OneRequest!requestVars
<1>2. CASE area = "one" /\ Requesting(One!Next)
  BY <1>2, OneSteps DEF Requesting
<1>3. CASE area = "two" /\ Requesting(Two!Next)
  BY <1>3, TwoSteps DEF Requesting
<1> QED
  BY <1>1, <1>2, <1>3 DEF LogsNext

LEMMA RequestsIStep == RequestsIInv /\ [LogsNext]_logVars => RequestsIInv'
<1> SUFFICES ASSUME RequestsIInv, [LogsNext]_logVars PROVE RequestsIInv'
  OBVIOUS
<1>1. area' = area /\ area \in {"writer", "one", "two"}
  BY RequestsAct DEF RequestsIInv
<1>2. CASE area = "two"
  <2>1. TwoRequests!RequestsInv /\ [TwoRequests!Next]_(TwoRequests!requestVars)
    BY <1>2, RequestsAct DEF RequestsIInv
  <2>2. TwoRequests!RequestsInv'
    BY <2>1, TwoBounded, TwoRequests!RequestsStep
  <2> QED
    BY <1>1, <1>2, <2>2 DEF RequestsIInv
<1>3. CASE area # "two"
  <2>1. OneRequest!RequestsInv /\ [OneRequest!Next]_(OneRequest!requestVars)
    BY <1>3, RequestsAct DEF RequestsIInv
  <2>2. OneRequest!RequestsInv'
    BY <2>1, OneBounded, OneRequest!RequestsStep
  <2> QED
    BY <1>1, <1>3, <2>2 DEF RequestsIInv
<1> QED
  BY <1>2, <1>3

LEMMA RequestsInvariant == LogsSpec => []RequestsIInv
BY RequestsIInit, RequestsIStep, PTL DEF LogsSpec

\* What a request is told, what the audit log says of it and what is counted is
\* what was done, however often transactions are repeated, the agent is banned
\* and the process dies, and whatever answers of the database are lost.
THEOREM RequestsAreToldTheTruth == LogsSpec => []RequestsTold
<1>1. RequestsIInv => RequestsTold
  <2> SUFFICES ASSUME RequestsIInv PROVE RequestsTold
    OBVIOUS
  <2>1. CASE area = "two"
    BY <2>1, TwoBounded, TwoRequests!RequestsFollow, TwoSays DEF RequestsIInv, RequestsTold
  <2>2. CASE area # "two"
    BY <2>2, OneBounded, OneRequest!RequestsFollow, OneSays DEF RequestsIInv, RequestsTold
  <2> QED
    BY <2>1, <2>2
<1> QED
  BY <1>1, RequestsInvariant, PTL

\* A banned agent changes nothing in the marketplace with a request that was let
\* in before it was banned, wherever between the two checks the ban falls.
THEOREM BansTakeEffect == LogsSpec => BannedStop
<1>1. RequestsIInv /\ [LogsNext]_logVars => [One!BannedStop]_requestVars
  <2> SUFFICES ASSUME RequestsIInv, [LogsNext]_logVars PROVE [One!BannedStop]_requestVars
    OBVIOUS
  <2>1. CASE area = "two"
    <3>1. TwoRequests!BannedStop
      BY <2>1, RequestsAct, TwoRequests!RequestsStop DEF RequestsIInv
    <3> QED
      BY <3>1 DEF TwoRequests!BannedStop, One!BannedStop, TwoRequests!HasRepository, One!HasRepository
  <2>2. CASE area # "two"
    <3>1. OneRequest!BannedStop
      BY <2>2, RequestsAct, OneRequest!RequestsStop DEF RequestsIInv
    <3> QED
      BY <3>1 DEF OneRequest!BannedStop, One!BannedStop, OneRequest!HasRepository, One!HasRepository
  <2> QED
    BY <2>1, <2>2
<1> QED
  BY <1>1, RequestsInvariant, PTL DEF LogsSpec, BannedStop
=============================================================================
