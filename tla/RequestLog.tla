----------------------------- MODULE RequestLog -----------------------------
(***************************************************************************)
(* The buffered writer of request logs (apps/server/src/app.ts): requests  *)
(* append to an array whose consumed part is compacted now and then, one   *)
(* flush at a time writes batches of it, and logs that had to be dropped   *)
(* are counted and reported in the audit log.  A process does one thing at *)
(* a time, but answers of the database come whenever they like.            *)
(***************************************************************************)
EXTENDS Naturals, FiniteSets, Sequences, SequencesExt, Functions

CONSTANTS
  Capacity,       \* requestLogBufferCapacity
  BatchSize,      \* requestLogBatchSize
  CompactAt,      \* the consumed part that is removed at once
  MaxLogs         \* bound on the number of requests

ASSUME RequestLogAssumption ==
  {Capacity, BatchSize, CompactAt, MaxLogs} \subseteq Nat \ {0}

VARIABLES
  buf,            \* requestLogBuffer and requestLogBufferHead
  inFlight,       \* requestLogFlushInFlight is set
  loops,          \* the flushes that are under way, and where they wait
  since,          \* requestLogDroppedSinceLastWarn
  recent,         \* a warning was given within REQUEST_LOG_DROP_WARN_INTERVAL_MS
  audits,         \* warnings that are being written, and who waits for them
  reported,       \* drops in warnings that were written ...
  unreported,     \* ... and in those that were not
  phase,          \* how far onClose is
  arrived,        \* how many requests there were
  stored,         \* logs in the database, in the order they got there
  lost            \* logs that were dropped

warnings == <<since, recent, audits, reported, unreported>>
fates == <<arrived, stored, lost>>
vars == <<buf, inFlight, loops, warnings, phase, fates>>

Init ==
  /\ buf = [array |-> <<>>, head |-> 0]
  /\ inFlight = FALSE /\ loops = {}
  /\ since = 0 /\ recent = FALSE /\ audits = <<>> /\ reported = 0 /\ unreported = 0
  /\ phase = "open"
  /\ arrived = 0 /\ stored = <<>> /\ lost = {}

-----------------------------------------------------------------------------
(* The array.                                                              *)

Size(b) == Len(b.array) - b.head
Live(b) == SubSeq(b.array, b.head + 1, Len(b.array))

\* Fault: the consumed part is never removed.
CompactNever(b) == b

\* compactRequestLogBuffer
Compact(b) ==
  IF b.head # 0 /\ (b.head >= CompactAt \/ 2 * b.head >= Len(b.array))
  THEN [array |-> Live(b), head |-> 0]
  ELSE b

Skip(b, n) == Compact([b EXCEPT !.head = @ + n])
Batch(b) == SubSeq(Live(b), 1, IF Size(b) < BatchSize THEN Size(b) ELSE BatchSize)

\* The loop of flushRequestLogBuffer takes the next batch or is at its end.
Continue(b, others) ==
  IF Size(b) > 0
  THEN /\ buf' = Skip(b, Len(Batch(b)))
       /\ loops' = others \cup {[at |-> "writing", batch |-> Batch(b)]}
  ELSE /\ buf' = b
       /\ loops' = others \cup {[at |-> "ended", batch |-> <<>>]}

\* Fault: a second flush does not see the first.
FlushAgain(b) == Continue(b, loops) /\ inFlight' = TRUE

\* flushRequestLogBuffer
Flush(b) ==
  IF inFlight
  THEN buf' = b /\ UNCHANGED <<inFlight, loops>>
  ELSE Continue(b, loops) /\ inFlight' = TRUE

\* flushDroppedRequestLogWarning after n more drops, with somebody waiting.
Due(n, force) == since + n > 0 /\ (force \/ ~recent)

Warn(n, force, waiter) ==
  /\ IF Due(n, force)
     THEN /\ since' = 0 /\ recent' = TRUE
          /\ audits' = Append(audits, [drops |-> since + n, waiter |-> waiter])
     ELSE since' = since + n /\ UNCHANGED <<recent, audits>>
  /\ UNCHANGED <<reported, unreported>>

-----------------------------------------------------------------------------
(* Requests, answers and timers.                                           *)

\* appendRequestLog
AppendLog ==
  /\ phase = "open" /\ arrived < MaxLogs
  /\ arrived' = arrived + 1
  /\ LET full == Size(buf) >= Capacity
         b == [IF full THEN Skip(buf, 1) ELSE buf EXCEPT !.array = Append(@, arrived')]
     IN /\ IF Size(b) >= BatchSize
           THEN Flush(b)
           ELSE buf' = b /\ UNCHANGED <<inFlight, loops>>
        /\ IF full
           THEN lost' = lost \cup {Head(Live(buf))} /\ Warn(1, FALSE, "nobody")
           ELSE UNCHANGED <<lost, warnings>>
  /\ UNCHANGED <<phase, stored>>

\* requestLogFlushTimer; a query of the logs flushes as well.
Timer ==
  /\ phase = "open" /\ ~inFlight /\ Size(buf) > 0
  /\ Flush(buf)
  /\ UNCHANGED <<warnings, phase, fates>>

\* appendRequestLogsDirect answers.
Written(l) ==
  /\ l.at = "writing"
  /\ stored' = stored \o l.batch
  /\ Continue(buf, loops \ {l})
  /\ UNCHANGED <<inFlight, warnings, phase, arrived, lost>>

\* It fails, or its answer is lost: the batch is dropped.
WriteFails(l) ==
  /\ l.at = "writing"
  /\ stored' \in {stored, stored \o l.batch}
  /\ lost' = lost \cup ToSet(l.batch)
  /\ Warn(Len(l.batch), FALSE, "flush")
  /\ IF Due(Len(l.batch), FALSE)
     THEN /\ loops' = (loops \ {l}) \cup {[at |-> "warning", batch |-> <<>>]}
          /\ UNCHANGED buf
     ELSE Continue(buf, loops \ {l})
  /\ UNCHANGED <<inFlight, phase, arrived>>

\* Fault: a flush that has ended is still thought to be under way.
EndFlushSilently(l) ==
  /\ l.at = "ended"
  /\ loops' = loops \ {l}
  /\ UNCHANGED <<inFlight, buf, warnings, phase, fates>>

\* The flush has settled, and its finally runs.
EndFlush(l) ==
  /\ l.at = "ended"
  /\ loops' = loops \ {l}
  /\ inFlight' = FALSE
  /\ UNCHANGED <<buf, warnings, phase, fates>>

\* recordAudit settles whether the warning was written or not; the one who
\* waited for it goes on.
Audited(i, written) ==
  LET a == audits[i]
  IN /\ audits' = RemoveAt(audits, i)
     /\ reported' = reported + (IF written THEN a.drops ELSE 0)
     /\ unreported' = unreported + (IF written THEN 0 ELSE a.drops)
     /\ IF a.waiter = "flush"
        THEN Continue(buf, {l \in loops : l.at # "warning"})
        ELSE UNCHANGED <<buf, loops>>
     /\ phase' = IF a.waiter = "onClose" THEN "closed" ELSE phase
     /\ UNCHANGED <<inFlight, since, recent, fates>>

IntervalPasses ==
  /\ recent /\ recent' = FALSE
  /\ UNCHANGED <<buf, inFlight, loops, since, audits, reported, unreported, phase, fates>>

-----------------------------------------------------------------------------
(* onClose.  Requests have finished when it runs, and what has settled      *)
(* before has been dealt with.                                              *)

Close ==
  /\ phase = "open"
  /\ \A l \in loops : l.at # "ended"
  /\ phase' = "flushing"
  /\ Flush(buf)
  /\ UNCHANGED <<warnings, fates>>

\* Fault: the last drops are not reported.
LastWarningSkipped ==
  /\ phase = "flushing" /\ ~inFlight
  /\ phase' = "closed"
  /\ UNCHANGED <<buf, inFlight, loops, warnings, fates>>

LastWarning ==
  /\ phase = "flushing" /\ ~inFlight
  /\ Warn(0, TRUE, "onClose")
  /\ phase' = IF Due(0, TRUE) THEN "reporting" ELSE "closed"
  /\ UNCHANGED <<buf, inFlight, loops, fates>>

Answers == \E l \in loops : Written(l) \/ WriteFails(l) \/ EndFlush(l)
Audit == \E i \in DOMAIN audits, written \in BOOLEAN : Audited(i, written)

Next ==
  \/ AppendLog \/ Timer \/ Answers \/ Audit
  \/ IntervalPasses \/ Close \/ LastWarning

Spec == Init /\ [][Next]_vars

\* The timer fires, the database answers or a connection times out, and
\* onClose runs on; requests and the end of the process are not promised.
FairSpec == Spec /\ WF_vars(Timer) /\ WF_vars(Answers) /\ WF_vars(Audit) /\ WF_vars(LastWarning)

-----------------------------------------------------------------------------

\* The variables have their types.
TypeOK ==
  /\ buf.array \in Seq(1..MaxLogs) /\ buf.head \in 0..Len(buf.array)
  /\ inFlight \in BOOLEAN
  /\ \A l \in loops : l.at \in {"writing", "warning", "ended"} /\ l.batch \in Seq(1..MaxLogs)
  /\ since \in Nat /\ recent \in BOOLEAN /\ reported \in Nat /\ unreported \in Nat
  /\ \A i \in DOMAIN audits :
       audits[i].drops \in Nat \ {0} /\ audits[i].waiter \in {"nobody", "flush", "onClose"}
  /\ phase \in {"open", "flushing", "reporting", "closed"}
  /\ arrived \in 0..MaxLogs /\ stored \in Seq(1..MaxLogs) /\ lost \subseteq 1..MaxLogs

\* The buffer holds no more logs than it may, and the array no more than that
\* many consumed ones, however appending, dropping and flushing alternate.
MemoryBounded == Size(buf) <= Capacity /\ Len(buf.array) < 2 * Capacity

\* Every drop is still to be reported, in a warning that is under way, or in
\* one that was written or failed: no two warnings report the same drop, and
\* resetting the counter before the warning is written forgets none.
DropsCounted ==
  Cardinality(lost) =
    since + reported + unreported + SumFunction([i \in DOMAIN audits |-> audits[i].drops])

\* When onClose has run, no log waits, nothing is being written, and there was
\* a warning for every drop.
ClosedClean ==
  phase = "closed" =>
    loops = {} /\ since = 0 /\ 1..arrived = ToSet(stored) \cup lost

\* No log is lost in silence: what is dropped is counted until a warning tells of it,
\* and nothing is left untold when the server has closed.
DropsTold == TypeOK /\ DropsCounted /\ ClosedClean

\* The batch that a flush is writing.
InHand == IF \E l \in loops : l.at = "writing"
          THEN (CHOOSE l \in loops : l.at = "writing").batch ELSE <<>>

\* The array with its head, the flushes and their batches are a queue that is
\* written in order, a batch at a time, and gives up the oldest when it is full.
Queue == INSTANCE LogQueue WITH
  waiting <- Live(buf), writing <- InHand

QueueSpec == Queue!Spec

\* Every log is written or dropped in the end, also one that is appended when
\* the loop of a flush has just found the buffer empty.
Settled == \A n \in 1..MaxLogs : arrived >= n ~> n \in ToSet(stored) \cup lost
=============================================================================
