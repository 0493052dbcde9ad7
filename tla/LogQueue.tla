------------------------------ MODULE LogQueue ------------------------------
(***************************************************************************)
(* What the buffered request log promises: logs are written in the order   *)
(* of the requests, one batch at a time, and when more than Capacity wait  *)
(* the oldest of them is given up.                                         *)
(***************************************************************************)
EXTENDS Naturals, Sequences, SequencesExt

CONSTANTS Capacity, BatchSize

VARIABLES
  waiting,        \* logs that wait, by number, oldest first
  writing,        \* the batch that is being written
  stored,         \* the logs in the database, in the order they got there
  lost,           \* the logs that were given up
  arrived         \* how many logs there were

vars == <<waiting, writing, stored, lost, arrived>>

Init == waiting = <<>> /\ writing = <<>> /\ stored = <<>> /\ lost = {} /\ arrived = 0

\* The batch and the queue become these, or the first of the queue become the
\* next batch as well.
Proceed(batch, queue) ==
  \/ writing' = batch /\ waiting' = queue
  \/ /\ batch = <<>>
     /\ \E n \in 1..BatchSize :
          /\ n <= Len(queue)
          /\ writing' = SubSeq(queue, 1, n)
          /\ waiting' = SubSeq(queue, n + 1, Len(queue))

Arrive ==
  /\ arrived' = arrived + 1
  /\ IF Len(waiting) < Capacity
     THEN Proceed(writing, Append(waiting, arrived')) /\ UNCHANGED lost
     ELSE /\ Proceed(writing, Append(Tail(waiting), arrived'))
          /\ lost' = lost \cup {Head(waiting)}
  /\ UNCHANGED stored

Store ==
  /\ writing # <<>>
  /\ stored' = stored \o writing
  /\ Proceed(<<>>, waiting)
  /\ UNCHANGED <<lost, arrived>>

\* A batch whose insert failed is given up, although it may be in the database.
GiveUp ==
  /\ writing # <<>>
  /\ stored' \in {stored, stored \o writing}
  /\ lost' = lost \cup ToSet(writing)
  /\ Proceed(<<>>, waiting)
  /\ UNCHANGED arrived

Begin == Proceed(writing, waiting) /\ UNCHANGED <<stored, lost, arrived>>

Next == Arrive \/ Store \/ GiveUp \/ Begin

Spec == Init /\ [][Next]_vars
=============================================================================
