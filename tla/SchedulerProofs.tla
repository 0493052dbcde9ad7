--------------------------- MODULE SchedulerProofs ---------------------------
(***************************************************************************)
(* What ClosingScheduler keeps whatever fails, for every set of workers    *)
(* and every bound on the faults; and that logs are kept as long as was    *)
(* asked and no longer, in a process and in the tables that the worker     *)
(* cleans.                                                                 *)
(***************************************************************************)
EXTENDS MCWorker, AllocationProofs, SequenceTheorems

\* A closing transaction has the row lock, which belongs to nobody else, and
\* has found the open cycle due when it read the clock.
ClosingLocked ==
  \A w \in Workers :
    /\ pc[w]["close"] = "closing" <=> row = w
    /\ row = w => readAt[w] >= startedAt + duration

SchedulerInv == TypeOK /\ LockReturned /\ ClosingLocked

-----------------------------------------------------------------------------

\* Before a worker polls, nothing is held.
LEMMA InitSchedulerInv == Init => SchedulerInv
BY SchedulerAssumption
DEF Init, SchedulerInv, TypeOK, LockReturned, ClosingLocked, Jobs, Steps

\* Every step of every worker and every fault keeps clock and locks typed.
LEMMA NextTypeOK == SchedulerInv /\ [Next]_vars => TypeOK'
<1> SUFFICES ASSUME SchedulerInv, [Next]_vars PROVE TypeOK'
  OBVIOUS
<1> USE SchedulerAssumption DEF SchedulerInv, TypeOK, Jobs, Steps
<1>1. CASE Tick
  BY <1>1 DEF Tick, faults
<1>2. ASSUME NEW d \in Durations, UpdateDuration(d) PROVE TypeOK'
  BY <1>2 DEF UpdateDuration, faults
<1>3. ASSUME NEW w \in Workers, NEW j \in Jobs, Poll(w, j) PROVE TypeOK'
  BY <1>3 DEF Poll, Goto, time, faults
<1>4. ASSUME NEW w \in Workers, NEW j \in Jobs, Acquire(w, j) PROVE TypeOK'
  BY <1>4 DEF Acquire, Goto, time, faults
<1>5. ASSUME NEW w \in Workers, NEW j \in Jobs, Miss(w, j) PROVE TypeOK'
  BY <1>5 DEF Miss, Goto, time, faults
<1>6. ASSUME NEW w \in Workers, NEW j \in Jobs, Release(w, j) PROVE TypeOK'
  BY <1>6 DEF Release, Goto, time, faults
<1>7. ASSUME NEW w \in Workers, BeginClosing(w) PROVE TypeOK'
  BY <1>7 DEF BeginClosing, Goto, time, faults
<1>8. ASSUME NEW w \in Workers, Commit(w) PROVE TypeOK'
  BY <1>8 DEF Commit, EndClosing, Goto, faults
<1>9. ASSUME NEW w \in Workers, AnswerLost(w) PROVE TypeOK'
  BY <1>9 DEF AnswerLost, EndClosing, Goto
<1>10. ASSUME NEW w \in Workers, Clean(w) PROVE TypeOK'
  BY <1>10 DEF Clean, Goto, time, faults
<1>11. ASSUME NEW w \in Workers, Fail(w) PROVE TypeOK'
  BY <1>11 DEF Fail, Goto, time
<1>12. ASSUME NEW w \in Workers, LoseConnection(w) PROVE TypeOK'
  BY <1>12 DEF LoseConnection, Released, time
<1>13. ASSUME NEW w \in Workers, Crash(w) PROVE TypeOK'
  BY <1>13 DEF Crash, Released, time
<1>14. CASE UNCHANGED vars
  BY <1>14 DEF vars, time, faults
<1> QED
  BY <1>1, <1>2, <1>3, <1>4, <1>5, <1>6, <1>7, <1>8, <1>9, <1>10, <1>11, <1>12,
     <1>13, <1>14 DEF Next, Work

\* No step leaves a lock or a guard behind without the run it belongs to.
LEMMA NextLockReturned == SchedulerInv /\ [Next]_vars => LockReturned'
<1> SUFFICES ASSUME SchedulerInv, [Next]_vars PROVE LockReturned'
  OBVIOUS
<1> USE SchedulerAssumption DEF SchedulerInv, TypeOK, LockReturned, Jobs, Steps
<1>1. CASE Tick
  BY <1>1 DEF Tick
<1>2. ASSUME NEW d \in Durations, UpdateDuration(d) PROVE LockReturned'
  BY <1>2 DEF UpdateDuration
<1>3. ASSUME NEW w \in Workers, NEW j \in Jobs, Poll(w, j) PROVE LockReturned'
  BY <1>3 DEF Poll, Goto
<1>4. ASSUME NEW w \in Workers, NEW j \in Jobs, Acquire(w, j) PROVE LockReturned'
  BY <1>4 DEF Acquire, Goto
<1>5. ASSUME NEW w \in Workers, NEW j \in Jobs, Miss(w, j) PROVE LockReturned'
  BY <1>5 DEF Miss, Grantable, Goto
<1>6. ASSUME NEW w \in Workers, NEW j \in Jobs, Release(w, j) PROVE LockReturned'
  BY <1>6 DEF Release, Goto
<1>7. ASSUME NEW w \in Workers, BeginClosing(w) PROVE LockReturned'
  BY <1>7 DEF BeginClosing, Goto
<1>8. ASSUME NEW w \in Workers, Commit(w) PROVE LockReturned'
  BY <1>8 DEF Commit, EndClosing, Goto
<1>9. ASSUME NEW w \in Workers, AnswerLost(w) PROVE LockReturned'
  BY <1>9 DEF AnswerLost, EndClosing, Goto
<1>10. ASSUME NEW w \in Workers, Clean(w) PROVE LockReturned'
  BY <1>10 DEF Clean, Goto
<1>11. ASSUME NEW w \in Workers, Fail(w) PROVE LockReturned'
  BY <1>11 DEF Fail, Goto
<1>12. ASSUME NEW w \in Workers, LoseConnection(w) PROVE LockReturned'
  BY <1>12 DEF LoseConnection, Released
<1>13. ASSUME NEW w \in Workers, Crash(w) PROVE LockReturned'
  BY <1>13 DEF Crash, Released
<1>14. CASE UNCHANGED vars
  BY <1>14 DEF vars
<1> QED
  BY <1>1, <1>2, <1>3, <1>4, <1>5, <1>6, <1>7, <1>8, <1>9, <1>10, <1>11, <1>12,
     <1>13, <1>14 DEF Next, Work

\* No step takes the row lock from a closing transaction, nor moves the start
\* or the duration of the cycle it has found due.
LEMMA NextClosingLocked == SchedulerInv /\ [Next]_vars => ClosingLocked'
<1> SUFFICES ASSUME SchedulerInv, [Next]_vars PROVE ClosingLocked'
  OBVIOUS
<1> USE SchedulerAssumption DEF SchedulerInv, TypeOK, ClosingLocked, Jobs, Steps
<1>1. CASE Tick
  BY <1>1 DEF Tick
<1>2. ASSUME NEW d \in Durations, UpdateDuration(d) PROVE ClosingLocked'
  BY <1>2 DEF UpdateDuration
<1>3. ASSUME NEW w \in Workers, NEW j \in Jobs, Poll(w, j) PROVE ClosingLocked'
  BY <1>3 DEF Poll, Goto, time
<1>4. ASSUME NEW w \in Workers, NEW j \in Jobs, Acquire(w, j) PROVE ClosingLocked'
  BY <1>4 DEF Acquire, Goto, time
<1>5. ASSUME NEW w \in Workers, NEW j \in Jobs, Miss(w, j) PROVE ClosingLocked'
  BY <1>5 DEF Miss, Goto, time
<1>6. ASSUME NEW w \in Workers, NEW j \in Jobs, Release(w, j) PROVE ClosingLocked'
  BY <1>6 DEF Release, Goto, time
<1>7. ASSUME NEW w \in Workers, BeginClosing(w) PROVE ClosingLocked'
  BY <1>7 DEF BeginClosing, Goto, Due, time
<1>8. ASSUME NEW w \in Workers, Commit(w) PROVE ClosingLocked'
  BY <1>8 DEF Commit, EndClosing, Goto
<1>9. ASSUME NEW w \in Workers, AnswerLost(w) PROVE ClosingLocked'
  BY <1>9 DEF AnswerLost, EndClosing, Goto
<1>10. ASSUME NEW w \in Workers, Clean(w) PROVE ClosingLocked'
  BY <1>10 DEF Clean, Goto, time
<1>11. ASSUME NEW w \in Workers, Fail(w) PROVE ClosingLocked'
  BY <1>11 DEF Fail, Goto, time
<1>12. ASSUME NEW w \in Workers, LoseConnection(w) PROVE ClosingLocked'
  BY <1>12 DEF LoseConnection, time
<1>13. ASSUME NEW w \in Workers, Crash(w) PROVE ClosingLocked'
  BY <1>13 DEF Crash, time
<1>14. CASE UNCHANGED vars
  BY <1>14 DEF vars, time
<1> QED
  BY <1>1, <1>2, <1>3, <1>4, <1>5, <1>6, <1>7, <1>8, <1>9, <1>10, <1>11, <1>12,
     <1>13, <1>14 DEF Next, Work

\* The invariant holds of every behaviour.
LEMMA SchedulerInvariant == Spec => []SchedulerInv
<1>1. SchedulerInv /\ [Next]_vars => SchedulerInv'
  BY NextTypeOK, NextLockReturned, NextClosingLocked DEF SchedulerInv
<1> QED
  BY <1>1, InitSchedulerInv, PTL DEF Spec

\* No lock and no guard of a worker outlives the run of the job it was taken
\* for, whatever fails in between (withAdvisoryLock).
THEOREM LocksReturned == Spec => []LockReturned
<1>1. SchedulerInv => LockReturned
  BY DEF SchedulerInv
<1> QED
  BY <1>1, SchedulerInvariant, PTL

\* However many workers there are, and even if the lock of a worker that is
\* still closing was lost, a cycle is closed once and not before it is due.
THEOREM CyclesLast == Spec => EachCycleLasts
<1>1. SchedulerInv /\ [Next]_vars
        => [closed' # closed => /\ closed' = closed + 1
                                /\ startedAt' >= startedAt + duration]_vars
  <2> SUFFICES ASSUME SchedulerInv, [Next]_vars, closed' # closed
               PROVE closed' = closed + 1 /\ startedAt' >= startedAt + duration
    OBVIOUS
  <2>1. PICK w \in Workers : \E next \in Steps : EndClosing(w, next)
    BY DEF Next, Work, vars, time, Tick, UpdateDuration, Poll, Acquire, Miss, Release,
           BeginClosing, Commit, AnswerLost, Clean, Fail, LoseConnection, Crash, Steps
  <2> QED
    BY <2>1 DEF EndClosing, SchedulerInv, ClosingLocked
<1> QED
  BY <1>1, SchedulerInvariant, PTL DEF Spec, EachCycleLasts
-----------------------------------------------------------------------------
(* Mutual exclusion.                                                       *)

\* The workers that run job j, and those among them whose session has lost the
\* lock that they took for it.
Running(j) == {w \in Workers : pc[w][j] \in {"holding", "closing", "releasing"}}
Unprotected(j) == Running(j) \ {lock[j]}

\* There are no more of these than connections were lost.
ExclusiveInv ==
  \A j \in Jobs :
    /\ IsFiniteSet(Running(j))
    /\ Cardinality(Unprotected(j)) <= losses

\* A set that gains at most one element gains at most one in number.
LEMMA OneMore ==
  ASSUME NEW S, IsFiniteSet(S), NEW x, NEW T \in SUBSET (S \cup {x})
  PROVE  /\ IsFiniteSet(T)
         /\ Cardinality(T) \in Nat
         /\ Cardinality(S) \in Nat
         /\ Cardinality(T) <= Cardinality(S) + 1
<1>1. /\ IsFiniteSet(S \cup {x})
      /\ Cardinality(S \cup {x}) <= Cardinality(S) + 1
      /\ Cardinality(S) \in Nat
  BY FS_AddElement, FS_CardinalityType
<1>2. IsFiniteSet(T) /\ Cardinality(T) <= Cardinality(S \cup {x})
  BY <1>1, FS_Subset
<1>3. Cardinality(T) \in Nat /\ Cardinality(S \cup {x}) \in Nat
  BY <1>1, <1>2, FS_CardinalityType
<1> QED BY <1>1, <1>2, <1>3

\* A step that starts no run of job j and unprotects none keeps the bound.
LEMMA FewerUnprotected ==
  ASSUME ExclusiveInv, TypeOK, losses' = losses, NEW j \in Jobs,
         Running(j)' \subseteq Running(j),
         Unprotected(j)' \subseteq Unprotected(j)
  PROVE  IsFiniteSet(Running(j)') /\ Cardinality(Unprotected(j)') <= losses'
<1>1. IsFiniteSet(Running(j)) /\ IsFiniteSet(Unprotected(j))
  BY FS_Subset DEF ExclusiveInv, Unprotected
<1>2. IsFiniteSet(Running(j)')
  BY <1>1, FS_Subset
<1>3. IsFiniteSet(Unprotected(j)') /\ Cardinality(Unprotected(j)') <= Cardinality(Unprotected(j))
  BY <1>1, FS_Subset
<1>4. Cardinality(Unprotected(j)') \in Nat /\ Cardinality(Unprotected(j)) \in Nat
  BY <1>1, <1>3, FS_CardinalityType
<1>5. Cardinality(Unprotected(j)) <= losses /\ losses \in Int
  BY SchedulerAssumption DEF ExclusiveInv, TypeOK
<1> QED BY <1>2, <1>3, <1>4, <1>5

\* A run begins with its lock; a lost connection unprotects one run; whatever
\* else happens ends runs or goes on with them.
LEMMA NextExclusiveInv == SchedulerInv /\ ExclusiveInv /\ [Next]_vars => ExclusiveInv'
<1> SUFFICES ASSUME SchedulerInv, ExclusiveInv, [Next]_vars, NEW j \in Jobs
             PROVE  IsFiniteSet(Running(j)') /\ Cardinality(Unprotected(j)') <= losses'
  BY DEF ExclusiveInv
<1> USE SchedulerAssumption
<1> DEFINE Goal == IsFiniteSet(Running(j)') /\ Cardinality(Unprotected(j)') <= losses'
<1>0. TypeOK /\ LockReturned
  BY DEF SchedulerInv
<1>1. CASE Tick
  BY <1>0, <1>1, FewerUnprotected DEF Tick, faults, Running, Unprotected
<1>2. ASSUME NEW d \in Durations, UpdateDuration(d) PROVE Goal
  BY <1>0, <1>2, FewerUnprotected DEF UpdateDuration, faults, Running, Unprotected
<1>3. ASSUME NEW w \in Workers, NEW k \in Jobs, Poll(w, k) PROVE Goal
  BY <1>0, <1>3, FewerUnprotected DEF Poll, Goto, faults, Running, Unprotected, TypeOK
<1>4. ASSUME NEW w \in Workers, NEW k \in Jobs, Acquire(w, k) PROVE Goal
  <2>1. Running(j)' \subseteq Running(j) \cup {w}
    BY <1>0, <1>4 DEF Acquire, Goto, Running, TypeOK
  <2>2. Unprotected(j)' \subseteq Unprotected(j)
    BY <1>0, <1>4 DEF Acquire, Goto, Grantable, Running, Unprotected, TypeOK
  <2>3. losses' = losses
    BY <1>4 DEF Acquire, faults
  <2>4. IsFiniteSet(Running(j)) /\ IsFiniteSet(Unprotected(j))
    BY FS_Subset DEF ExclusiveInv, Unprotected
  <2>5. IsFiniteSet(Running(j)')
    BY <2>1, <2>4, OneMore
  <2>6. /\ Cardinality(Unprotected(j)') <= Cardinality(Unprotected(j))
        /\ Cardinality(Unprotected(j)') \in Nat
        /\ Cardinality(Unprotected(j)) \in Nat
    BY <2>2, <2>4, FS_Subset, FS_CardinalityType
  <2>7. Cardinality(Unprotected(j)) <= losses /\ losses \in Int
    BY <1>0 DEF ExclusiveInv, TypeOK
  <2> QED BY <2>3, <2>5, <2>6, <2>7
<1>5. ASSUME NEW w \in Workers, NEW k \in Jobs, Miss(w, k) PROVE Goal
  BY <1>0, <1>5, FewerUnprotected DEF Miss, Goto, faults, Running, Unprotected, TypeOK
<1>6. ASSUME NEW w \in Workers, NEW k \in Jobs, Release(w, k) PROVE Goal
  BY <1>0, <1>6, FewerUnprotected DEF Release, Goto, faults, Running, Unprotected, TypeOK
<1>7. ASSUME NEW w \in Workers, BeginClosing(w) PROVE Goal
  <2>1. PICK next \in {"closing", "releasing"} : Goto(w, "close", next)
    BY <1>7 DEF BeginClosing
  <2>2. Running(j)' \subseteq Running(j)
    BY <1>0, <1>7, <2>1 DEF BeginClosing, Goto, Running, TypeOK, Jobs
  <2>3. lock' = lock /\ losses' = losses
    BY <1>7 DEF BeginClosing, faults
  <2> QED BY <1>0, <2>2, <2>3, FewerUnprotected DEF Unprotected
<1>8. ASSUME NEW w \in Workers, Commit(w) PROVE Goal
  BY <1>0, <1>8, FewerUnprotected
  DEF Commit, EndClosing, Goto, faults, Running, Unprotected, TypeOK, Jobs
<1>9. ASSUME NEW w \in Workers, AnswerLost(w) PROVE Goal
  BY <1>0, <1>9, FewerUnprotected
  DEF AnswerLost, EndClosing, Goto, Running, Unprotected, TypeOK, Jobs
<1>10. ASSUME NEW w \in Workers, Clean(w) PROVE Goal
  BY <1>0, <1>10, FewerUnprotected DEF Clean, Goto, faults, Running, Unprotected, TypeOK, Jobs
<1>11. ASSUME NEW w \in Workers, Fail(w) PROVE Goal
  <2>1. PICK next \in {"holding", "releasing"} : Goto(w, "close", next)
    BY <1>11 DEF Fail
  <2>2. Running(j)' \subseteq Running(j)
    BY <1>0, <1>11, <2>1 DEF Fail, Goto, Running, TypeOK, Jobs
  <2>3. lock' = lock /\ losses' = losses
    BY <1>11 DEF Fail
  <2> QED BY <1>0, <2>2, <2>3, FewerUnprotected DEF Unprotected
<1>12. ASSUME NEW w \in Workers, LoseConnection(w) PROVE Goal
  <2>1. Running(j)' \subseteq Running(j)
    BY <1>0, <1>12 DEF LoseConnection, Running, TypeOK
  <2>2. Unprotected(j)' \subseteq Unprotected(j) \cup {w}
    BY <1>0, <1>12, <2>1 DEF LoseConnection, Released, Running, Unprotected, TypeOK
  <2>3. losses' = losses + 1
    BY <1>12 DEF LoseConnection
  <2>4. IsFiniteSet(Running(j)) /\ IsFiniteSet(Unprotected(j))
    BY FS_Subset DEF ExclusiveInv, Unprotected
  <2>5. IsFiniteSet(Running(j)')
    BY <2>1, <2>4, FS_Subset
  <2>6. /\ Cardinality(Unprotected(j)') <= Cardinality(Unprotected(j)) + 1
        /\ Cardinality(Unprotected(j)') \in Nat
        /\ Cardinality(Unprotected(j)) \in Nat
    BY <2>2, <2>4, OneMore
  <2>7. Cardinality(Unprotected(j)) <= losses /\ losses \in Int
    BY <1>0 DEF ExclusiveInv, TypeOK
  <2> QED BY <2>3, <2>5, <2>6, <2>7
<1>13. ASSUME NEW w \in Workers, Crash(w) PROVE Goal
  BY <1>0, <1>13, FewerUnprotected DEF Crash, Released, Running, Unprotected, TypeOK
<1>14. CASE UNCHANGED vars
  BY <1>0, <1>14, FewerUnprotected DEF vars, faults, Running, Unprotected
<1> QED
  BY <1>1, <1>2, <1>3, <1>4, <1>5, <1>6, <1>7, <1>8, <1>9, <1>10, <1>11, <1>12,
     <1>13, <1>14 DEF Next, Work

\* The runs of a job, of whatever workers, exclude each other but for one more
\* per connection that was lost without its worker noticing (withAdvisoryLock).
THEOREM RunsExclude == Spec => []Exclusive
<1>1. Init => ExclusiveInv
  <2> SUFFICES ASSUME Init, NEW j \in Jobs
               PROVE  IsFiniteSet(Running(j)) /\ Cardinality(Unprotected(j)) <= losses
    BY DEF ExclusiveInv
  <2>1. Running(j) = {} /\ Unprotected(j) = {} /\ losses = 0
    BY DEF Init, Running, Unprotected
  <2> QED BY <2>1, FS_EmptySet
<1>2. SchedulerInv /\ ExclusiveInv => Exclusive
  <2> SUFFICES ASSUME SchedulerInv, ExclusiveInv, NEW j \in Jobs
               PROVE  Cardinality(Running(j)) <= 1 + losses
    BY DEF Exclusive, Running
  <2>1. IsFiniteSet(Unprotected(j)) /\ Running(j) \subseteq Unprotected(j) \cup {lock[j]}
    BY FS_Subset DEF ExclusiveInv, Unprotected
  <2>2. /\ Cardinality(Running(j)) <= Cardinality(Unprotected(j)) + 1
        /\ Cardinality(Running(j)) \in Nat
        /\ Cardinality(Unprotected(j)) \in Nat
    BY <2>1, OneMore
  <2>3. Cardinality(Unprotected(j)) <= losses /\ losses \in Int
    BY SchedulerAssumption DEF ExclusiveInv, SchedulerInv, TypeOK
  <2> QED BY <2>2, <2>3
<1> QED
  BY <1>1, <1>2, NextExclusiveInv, SchedulerInvariant, PTL DEF Spec

-----------------------------------------------------------------------------
(* The logs: sequences of numbers that grow.                               *)

LEMMA LeastNumber ==
  ASSUME NEW P \in SUBSET Nat, P # {}
  PROVE  \E k \in P : \A j \in P : k <= j
<1>1. IsWellFoundedOn(OpToRel(<, Nat), Nat)
  BY NatLessThanWellFounded
<1>2. PICK k \in P : \A j \in P : <<j, k>> \notin OpToRel(<, Nat)
  BY <1>1, WFMin
<1>3. \A j \in P : ~(j < k)
  BY <1>2 DEF OpToRel
<1> QED
  BY <1>3

\* Of two logs the later has a number that is larger by at least their distance.
Spaced(q) == \A a, b \in 1..Len(q) : a <= b => q[a] + (b - a) <= q[b]

LEMMA SpacedMore ==
  ASSUME NEW q \in Seq(Nat), NEW x \in Nat, Spaced(q), \A a \in 1..Len(q) : q[a] < x
  PROVE  Spaced(Append(q, x))
<1> DEFINE r == Append(q, x)
           n == Len(q)
<1>1. /\ n \in Nat /\ Len(r) = n + 1 /\ r[n + 1] = x
      /\ \A a \in 1..n : r[a] = q[a] /\ q[a] \in Nat
  BY AppendProperties, LenProperties, ElementOfSeq
<1>2. \A a, b \in 1..n : a <= b => q[a] + (b - a) <= q[b]
  BY DEF Spaced
<1>3. \A a \in 1..n : q[a] < x
  OBVIOUS
<1> HIDE DEF n, r
<1>4. ASSUME NEW a \in 1..(n + 1), NEW b \in 1..(n + 1), a <= b
      PROVE  r[a] + (b - a) <= r[b]
  <2>1. ASSUME b \in 1..n PROVE r[a] + (b - a) <= r[b]
    <3>1. a \in 1..n
      BY <1>1, <1>4, <2>1
    <3> QED
      BY <1>1, <1>2, <1>4, <2>1, <3>1
  <2>2. ASSUME b = n + 1, a = n + 1 PROVE r[a] + (b - a) <= r[b]
    BY <1>1, <2>2
  <2>3. ASSUME b = n + 1, a \in 1..n PROVE r[a] + (b - a) <= r[b]
    <3>1. n \in 1..n /\ a <= n /\ a \in Nat
      BY <1>1, <2>3
    <3>2. q[a] + (n - a) <= q[n] /\ q[n] < x /\ q[a] \in Nat /\ q[n] \in Nat
      BY <1>1, <1>2, <1>3, <2>3, <3>1
    <3>3. q[a] + ((n + 1) - a) <= x
      BY <1>1, <3>1, <3>2
    <3> QED
      BY <1>1, <2>3, <3>3
  <2> QED
    BY <1>1, <1>4, <2>1, <2>2, <2>3
<1> QED
  BY <1>1, <1>4 DEF Spaced, r

LEMMA SpacedRest ==
  ASSUME NEW q \in Seq(Nat), Spaced(q), NEW m \in 1..(Len(q) + 1)
  PROVE  /\ SubSeq(q, m, Len(q)) \in Seq(Nat)
         /\ Len(SubSeq(q, m, Len(q))) = (Len(q) - m) + 1
         /\ \A i \in 1..((Len(q) - m) + 1) : SubSeq(q, m, Len(q))[i] = q[(m + i) - 1]
         /\ Spaced(SubSeq(q, m, Len(q)))
<1> DEFINE n == Len(q)
           r == SubSeq(q, m, n)
           k == (n - m) + 1
<1>1. n \in Nat /\ m \in Nat /\ m >= 1 /\ m <= n + 1 /\ \A i \in 1..n : q[i] \in Nat
  BY LenProperties, ElementOfSeq
<1>2. m \in Int /\ n \in Int /\ \A i \in m..n : q[i] \in Nat
  BY <1>1
<1>3. /\ r \in Seq(Nat) /\ Len(r) = (IF m <= n THEN k ELSE 0)
      /\ \A i \in 1..k : r[i] = q[(m + i) - 1]
  <2> HIDE DEF n
  <2> QED
    BY <1>2, SubSeqProperties
<1>4. k \in Nat /\ Len(r) = k
  BY <1>1, <1>3
<1>5. \A a, b \in 1..n : a <= b => q[a] + (b - a) <= q[b]
  BY DEF Spaced
<1> HIDE DEF n, r, k
<1>6. ASSUME NEW a \in 1..k, NEW b \in 1..k, a <= b
      PROVE  r[a] + (b - a) <= r[b]
  <2>1. /\ (m + a) - 1 \in 1..n /\ (m + b) - 1 \in 1..n /\ (m + a) - 1 <= (m + b) - 1
        /\ ((m + b) - 1) - ((m + a) - 1) = b - a
    BY <1>1, <1>6 DEF k
  <2>2. q[(m + a) - 1] + (b - a) <= q[(m + b) - 1]
    BY <1>5, <2>1
  <2> QED
    BY <1>3, <2>2
<1> QED
  BY <1>3, <1>4, <1>6 DEF Spaced, n, r, k

-----------------------------------------------------------------------------
(* The logs of a process.                                                  *)

\* f says for each i which of the first i logs of s are no older than c.
Chooses(f, s, c, n) ==
  f = [i \in 0..n |-> CASE i = 0 -> <<>>
                        [] i > 0 /\ recorded[s[i]] >= c -> Append(f[i - 1], s[i])
                        [] OTHER -> f[i - 1]]

LEMMA Choosing ==
  ASSUME NEW f, NEW s, NEW c, NEW n \in Nat, Chooses(f, s, c, n)
  PROVE  /\ f[0] = <<>>
         /\ \A i \in 1..n :
              f[i] = IF recorded[s[i]] >= c THEN Append(f[i - 1], s[i]) ELSE f[i - 1]
<1>1. 0 \in 0..n /\ \A i \in 1..n : i \in 0..n /\ i > 0 /\ i # 0
  OBVIOUS
<1>2. \A i \in 0..n : f[i] = CASE i = 0 -> <<>>
                               [] i > 0 /\ recorded[s[i]] >= c -> Append(f[i - 1], s[i])
                               [] OTHER -> f[i - 1]
  BY DEF Chooses
<1> QED
  BY <1>1, <1>2

\* There is such a function.
LEMMA ChoiceExists ==
  ASSUME NEW s, NEW c, NEW n \in Nat
  PROVE  \E f : Chooses(f, s, c, n)
<1> DEFINE P == {k \in Nat : \A f : ~ Chooses(f, s, c, k)}
<1>1. ASSUME P # {} PROVE FALSE
  <2>1. PICK k \in P : \A j \in P : k <= j
    <3>1. P \in SUBSET Nat
      OBVIOUS
    <3> HIDE DEF P
    <3> QED
      BY <1>1, <3>1, LeastNumber
  <2>2. k \in Nat /\ \A f : ~ Chooses(f, s, c, k)
    BY <2>1
  <2>3. ASSUME k = 0 PROVE FALSE
    <3> DEFINE f == [i \in 0..0 |-> <<>>]
    <3>1. \A i \in 0..0 : i = 0
      OBVIOUS
    <3>2. Chooses(f, s, c, 0)
      BY <3>1 DEF Chooses
    <3> QED
      BY <2>2, <2>3, <3>2
  <2>4. ASSUME k > 0 PROVE FALSE
    <3>1. k - 1 \in Nat /\ k - 1 \notin P
      BY <2>1, <2>2, <2>4
    <3>2. PICK f : Chooses(f, s, c, k - 1)
      BY <3>1
    <3> DEFINE last == IF recorded[s[k]] >= c THEN Append(f[k - 1], s[k]) ELSE f[k - 1]
               g == [i \in 0..k |-> IF i = k THEN last ELSE f[i]]
    <3>3. \A i \in 0..k : i = k \/ i \in 0..(k - 1)
      BY <2>2
    <3>4. \A i \in 0..(k - 1) : g[i] = f[i] /\ i \in 0..k
      BY <2>2
    <3>5. g[k] = last /\ k \in 0..k /\ k # 0
      BY <2>2, <2>4
    <3>6. /\ f[0] = <<>>
          /\ \A i \in 1..(k - 1) :
               f[i] = IF recorded[s[i]] >= c THEN Append(f[i - 1], s[i]) ELSE f[i - 1]
      BY <3>1, <3>2, Choosing
    <3> DEFINE step(i) == CASE i = 0 -> <<>>
                            [] i > 0 /\ recorded[s[i]] >= c -> Append(g[i - 1], s[i])
                            [] OTHER -> g[i - 1]
    <3>7. g = [i \in 0..k |-> g[i]]
      OBVIOUS
    <3> HIDE DEF g
    <3>8. ASSUME NEW i \in 0..k PROVE g[i] = step(i)
      <4>1. ASSUME i = 0 PROVE g[i] = step(i)
        <5>1. 0 \in 0..(k - 1)
          BY <3>1
        <5> QED
          BY <3>4, <3>6, <4>1, <5>1
      <4>2. ASSUME i = k PROVE g[i] = step(i)
        <5>1. k - 1 \in 0..(k - 1)
          BY <3>1
        <5>2. g[k - 1] = f[k - 1]
          BY <3>4, <5>1
        <5> QED
          BY <2>2, <2>4, <3>5, <4>2, <5>2
      <4>3. ASSUME i \in 1..(k - 1) PROVE g[i] = step(i)
        <5>1. i - 1 \in 0..(k - 1) /\ i \in 0..(k - 1) /\ i > 0 /\ i # 0
          BY <2>2, <4>3
        <5>2. g[i - 1] = f[i - 1] /\ g[i] = f[i]
          BY <3>4, <5>1
        <5> QED
          BY <3>6, <4>3, <5>1, <5>2
      <4> QED
        BY <2>2, <4>1, <4>2, <4>3
    <3>9. g = [i \in 0..k |-> step(i)]
      <4> HIDE DEF step
      <4> QED
        BY <3>7, <3>8
    <3> QED
      BY <2>2, <3>9 DEF Chooses
  <2> QED
    BY <2>2, <2>3, <2>4
<1> QED
  BY <1>1

\* What is chosen of the first i logs: those of them that are no older, in order.
ChosenOK(q, s, c, i) ==
  /\ q \in Seq(Nat) /\ Len(q) <= i /\ Spaced(q)
  /\ \A a \in 1..Len(q) : \E j \in 1..i : q[a] = s[j]
  /\ \A j \in 1..i : recorded[s[j]] >= c => \E a \in 1..Len(q) : q[a] = s[j]

LEMMA ChosenKept ==
  ASSUME NEW s \in Seq(Nat), Spaced(s), NEW c, NEW f, Chooses(f, s, c, Len(s)),
         NEW k \in 0..Len(s)
  PROVE  ChosenOK(f[k], s, c, k)
<1> DEFINE P == {i \in Nat : i <= Len(s) /\ ~ ChosenOK(f[i], s, c, i)}
<1>1. ASSUME P # {} PROVE FALSE
  <2>1. PICK i \in P : \A j \in P : i <= j
    <3>1. P \in SUBSET Nat
      OBVIOUS
    <3> HIDE DEF P
    <3> QED
      BY <1>1, <3>1, LeastNumber
  <2>2. i \in Nat /\ i <= Len(s) /\ Len(s) \in Nat /\ ~ ChosenOK(f[i], s, c, i)
    BY <2>1, LenProperties
  <2>3. /\ f[0] = <<>>
        /\ \A j \in 1..Len(s) :
             f[j] = IF recorded[s[j]] >= c THEN Append(f[j - 1], s[j]) ELSE f[j - 1]
    BY <2>2, Choosing
  <2>4. ASSUME i = 0 PROVE FALSE
    <3>1. f[0] \in Seq(Nat) /\ Len(f[0]) = 0
      BY <2>3, EmptySeq
    <3>2. Spaced(f[0])
      BY <3>1 DEF Spaced
    <3> QED
      BY <2>2, <2>4, <3>1, <3>2 DEF ChosenOK
  <2>5. ASSUME i > 0 PROVE FALSE
    <3> DEFINE q == f[i - 1]
               x == s[i]
    <3>1. i - 1 \in Nat /\ i - 1 <= Len(s) /\ i - 1 \notin P /\ i \in 1..Len(s)
      BY <2>1, <2>2, <2>5
    <3>2. ChosenOK(q, s, c, i - 1)
      BY <3>1
    <3>3. x \in Nat /\ \A j \in 1..(i - 1) : s[j] < x
      <4>1. \A j \in 1..Len(s) : s[j] \in Nat
        BY ElementOfSeq
      <4>2. ASSUME NEW j \in 1..(i - 1) PROVE s[j] < s[i]
        <5>1. j \in 1..Len(s) /\ j <= i /\ i - j >= 1 /\ i - j \in Nat
          BY <2>2, <3>1
        <5>2. s[j] + (i - j) <= s[i] /\ s[j] \in Nat /\ s[i] \in Nat
          BY <3>1, <4>1, <5>1 DEF Spaced
        <5> QED
          BY <5>1, <5>2
      <4> QED
        BY <3>1, <4>1, <4>2
    <3>4. /\ q \in Seq(Nat) /\ Len(q) <= i - 1 /\ Spaced(q)
          /\ \A a \in 1..Len(q) : \E j \in 1..(i - 1) : q[a] = s[j]
          /\ \A j \in 1..(i - 1) : recorded[s[j]] >= c => \E a \in 1..Len(q) : q[a] = s[j]
      BY <3>2 DEF ChosenOK
    <3> DEFINE m == Len(q)
    <3>5. m \in Nat /\ m <= i - 1
      BY <3>4, LenProperties
    <3> HIDE DEF q, x
    <3>6. ASSUME recorded[s[i]] >= c PROVE FALSE
      <4>1. f[i] = Append(q, x)
        BY <2>3, <3>1, <3>6 DEF q, x
      <4>2. /\ Append(q, x) \in Seq(Nat) /\ Len(Append(q, x)) = m + 1
            /\ Append(q, x)[m + 1] = x
            /\ \A a \in 1..m : Append(q, x)[a] = q[a]
        BY <3>3, <3>4, AppendProperties
      <4>3. \A a \in 1..m : q[a] < x
        BY <3>3, <3>4
      <4>4. Spaced(Append(q, x))
        BY <3>3, <3>4, <4>3, SpacedMore
      <4> DEFINE r == Append(q, x)
      <4> HIDE DEF r, m
      <4>5. \A a \in 1..(m + 1) : \E j \in 1..i : r[a] = s[j]
        <5> SUFFICES ASSUME NEW a \in 1..(m + 1) PROVE \E j \in 1..i : r[a] = s[j]
          OBVIOUS
        <5>1. ASSUME a = m + 1 PROVE r[a] = s[i] /\ i \in 1..i
          BY <2>2, <2>5, <4>2, <5>1 DEF r, x
        <5>2. ASSUME a \in 1..m PROVE \E j \in 1..i : r[a] = s[j]
          <6>1. PICK j \in 1..(i - 1) : q[a] = s[j]
            BY <3>4, <5>2 DEF m
          <6> QED
            BY <2>2, <4>2, <5>2, <6>1 DEF r
        <5> QED
          BY <3>5, <5>1, <5>2
      <4>6. \A j \in 1..i : recorded[s[j]] >= c => \E a \in 1..(m + 1) : r[a] = s[j]
        <5> SUFFICES ASSUME NEW j \in 1..i, recorded[s[j]] >= c
                     PROVE  \E a \in 1..(m + 1) : r[a] = s[j]
          OBVIOUS
        <5>1. ASSUME j = i PROVE r[m + 1] = s[j] /\ m + 1 \in 1..(m + 1)
          BY <3>5, <4>2, <5>1 DEF r, x
        <5>2. ASSUME j \in 1..(i - 1) PROVE \E a \in 1..(m + 1) : r[a] = s[j]
          <6>1. PICK a \in 1..m : q[a] = s[j]
            BY <3>4, <5>2 DEF m
          <6> QED
            BY <3>5, <4>2, <6>1 DEF r
        <5> QED
          BY <2>2, <5>1, <5>2
      <4>7. m + 1 <= i
        BY <2>2, <3>5
      <4>8. ChosenOK(r, s, c, i)
        BY <4>2, <4>4, <4>5, <4>6, <4>7 DEF ChosenOK, r
      <4> QED
        BY <2>2, <4>1, <4>8 DEF r
    <3>7. ASSUME ~(recorded[s[i]] >= c) PROVE FALSE
      <4>1. f[i] = q
        BY <2>3, <3>1, <3>7 DEF q
      <4>2. m <= i
        BY <2>2, <3>5
      <4>3. \A j \in 1..(i - 1) : j \in 1..i
        BY <2>2
      <4>4. \A j \in 1..i : j = i \/ j \in 1..(i - 1)
        BY <2>2
      <4>5. ChosenOK(q, s, c, i)
        BY <3>4, <3>7, <4>2, <4>3, <4>4 DEF ChosenOK
      <4> QED
        BY <2>2, <4>1, <4>5
    <3> QED
      BY <3>6, <3>7
  <2> QED
    BY <2>2, <2>4, <2>5
<1>2. k \in Nat /\ k <= Len(s)
  BY LenProperties
<1> QED
  BY <1>1, <1>2

\* Those that are no older are chosen, and no others, in their order.
LEMMA YoungerIs ==
  ASSUME NEW s \in Seq(Nat), Spaced(s), NEW c
  PROVE  ChosenOK(Keeping!Younger(s, c), s, c, Len(s))
<1>1. Len(s) \in Nat
  BY LenProperties
<1> DEFINE f == CHOOSE g : Chooses(g, s, c, Len(s))
<1>2. Chooses(f, s, c, Len(s))
  BY <1>1, ChoiceExists
<1>3. Keeping!Younger(s, c) = f[Len(s)]
  BY DEF Keeping!Younger, Chooses
<1> HIDE DEF f
<1>4. Len(s) \in 0..Len(s)
  BY <1>1
<1> QED
  BY <1>2, <1>3, <1>4, ChosenKept

Held(n) == \E i \in 1..Len(memory) : memory[i] = n

ClockOK == logTime \in 0..MaxLogTime /\ setBacks \in 0..MaxSetBacks

\* What a process holds is in order, and it misses nothing but what was too old
\* or is followed by as much as it may hold.
ProcessInv ==
  /\ recorded \in Seq(0..MaxLogTime)
  /\ memory \in Seq(Nat)
  /\ \A i \in 1..Len(memory) : memory[i] \in 1..Len(recorded)
  /\ horizon \in Int
  /\ Len(memory) <= MemoryCapacity
  /\ Spaced(memory)
  /\ \A n \in 1..Len(recorded) :
       Held(n) \/ recorded[n] < horizon \/ n <= Len(recorded) - MemoryCapacity

LEMMA KeepingTyped ==
  /\ MemoryCapacity \in Nat /\ CleanupBatch \in Nat
  /\ RequestRetention \in Nat /\ AuditRetention \in Nat
  /\ MaxLogTime \in Nat /\ MaxRecords \in Nat /\ MaxRows \in Nat
  /\ MaxSetBacks \in Nat /\ MaxJobs \in Nat
BY RetentionAssumption

LEMMA CutoffIs ==
  ASSUME NEW i
  PROVE  /\ Keeping!Cutoff("audits", i) = i - AuditRetention
         /\ Keeping!Cutoff("requests", i) = i - RequestRetention
BY DEF Keeping!Cutoff

\* A process that has as many logs as it may hold drops its oldest.
LEMMA LogHolds ==
  ASSUME ClockOK, ProcessInv, Keeping!Log
  PROVE  ClockOK' /\ ProcessInv'
<1> DEFINE L == Len(recorded)
           longer == Append(memory, L + 1)
           k == Len(memory) + 1
           least == IF k <= MemoryCapacity THEN k ELSE MemoryCapacity
           from == (k - least) + 1
<1>1. recorded' = Append(recorded, logTime) /\ UNCHANGED <<logTime, setBacks, horizon>>
  BY DEF Keeping!Log
<1>2. logTime \in 0..MaxLogTime /\ recorded \in Seq(0..MaxLogTime) /\ memory \in Seq(Nat)
  BY DEF ClockOK, ProcessInv
<1>3. /\ L \in Nat /\ Len(memory) \in Nat
      /\ Len(recorded') = L + 1 /\ recorded' \in Seq(0..MaxLogTime)
      /\ \A n \in 1..L : recorded'[n] = recorded[n]
  BY <1>1, <1>2, AppendProperties, LenProperties
<1>4. /\ longer \in Seq(Nat) /\ Len(longer) = k /\ longer[k] = L + 1
      /\ \A i \in 1..Len(memory) : longer[i] = memory[i]
  <2>1. L + 1 \in Nat
    BY <1>3
  <2> HIDE DEF L
  <2> QED
    BY <1>2, <2>1, AppendProperties
<1>5. \A i \in 1..Len(memory) : memory[i] \in 1..L
  BY DEF ProcessInv
<1>6. Spaced(longer)
  <2>1. L + 1 \in Nat /\ \A i \in 1..Len(memory) : memory[i] < L + 1
    BY <1>3, <1>5
  <2> HIDE DEF L
  <2> QED
    BY <1>2, <2>1, SpacedMore DEF ProcessInv
<1>7. least \in 0..k /\ least <= MemoryCapacity /\ from \in 1..(k + 1) /\ k \in Nat
  <2>1. k \in Nat /\ MemoryCapacity \in Nat
    BY <1>3, KeepingTyped
  <2> HIDE DEF k
  <2>2. least \in 0..k /\ least <= MemoryCapacity
    BY <2>1
  <2> HIDE DEF least
  <2> QED
    BY <2>1, <2>2
<1>8. Keeping!Min({Len(longer), MemoryCapacity}) = least
  <2> DEFINE c == MemoryCapacity
  <2>1. Keeping!Min({k, c}) = CHOOSE x \in {k, c} : \A y \in {k, c} : x =< y
    BY DEF Keeping!Min
  <2>2. k \in Nat /\ c \in Nat
    BY <1>3, KeepingTyped
  <2> HIDE DEF k, c
  <2>3. least \in {k, c} /\ \A y \in {k, c} : least =< y
    BY <2>2 DEF c
  <2>4. \A x \in {k, c} : (\A y \in {k, c} : x =< y) => x = least
    BY <2>2, <2>3
  <2> HIDE DEF least
  <2> QED
    BY <1>4, <2>1, <2>3, <2>4 DEF c
<1>9. memory' = SubSeq(longer, from, k)
  <2>1. memory' = SubSeq(longer, (Len(longer) - Keeping!Min({Len(longer), MemoryCapacity})) + 1, Len(longer))
    BY <1>1, <1>3 DEF Keeping!Log
  <2> QED
    BY <1>4, <1>8, <2>1
<1> HIDE DEF longer, L, from, least
<1>10. /\ memory' \in Seq(Nat) /\ Len(memory') = (k - from) + 1 /\ Spaced(memory')
       /\ \A i \in 1..((k - from) + 1) : memory'[i] = longer[(from + i) - 1]
  BY <1>4, <1>6, <1>7, <1>9, SpacedRest
<1>11. (k - from) + 1 = least
  BY <1>7 DEF from
<1>12. \A i \in 1..k : longer[i] \in 1..(L + 1)
  <2>1. \A i \in 1..k : i = k \/ i \in 1..Len(memory)
    BY <1>3
  <2> QED
    BY <1>3, <1>4, <1>5, <2>1
<1>13. \A i \in 1..Len(memory') : memory'[i] \in 1..Len(recorded')
  <2> SUFFICES ASSUME NEW i \in 1..least PROVE memory'[i] \in 1..(L + 1)
    BY <1>3, <1>10, <1>11
  <2>1. (from + i) - 1 \in 1..k
    BY <1>7, <1>11
  <2> QED
    BY <1>10, <1>11, <1>12, <2>1
\* What is longer away than the process may hold has as many newer ones.
<1>14. ASSUME NEW i \in 1..k, i < from PROVE longer[i] <= (L + 1) - MemoryCapacity
  <2>1. longer[i] + (k - i) <= L + 1
    BY <1>4, <1>6, <1>7 DEF Spaced
  <2>2. from > 1 /\ least = MemoryCapacity
    <3>1. k \in Nat /\ MemoryCapacity \in Nat /\ i \in 1..k /\ i < from
      BY <1>7, <1>14, KeepingTyped
    <3> HIDE DEF k
    <3> QED
      BY <3>1 DEF from, least
  <2>3. k - i >= MemoryCapacity
    BY <1>7, <1>14, <2>2, KeepingTyped DEF from
  <2>4. longer[i] \in Nat /\ i \in Nat
    BY <1>3, <1>12
  <2> QED
    BY <1>3, <1>7, <2>1, <2>3, <2>4, KeepingTyped
<1>15. ASSUME NEW n, NEW i \in 1..k, i >= from, n = longer[i] PROVE Held(n)'
  <2>1. (i - from) + 1 \in 1..Len(memory') /\ (from + ((i - from) + 1)) - 1 = i
    BY <1>7, <1>10, <1>15
  <2>2. memory'[(i - from) + 1] = longer[i]
    BY <1>10, <2>1
  <2>3. \E j \in 1..Len(memory') : memory'[j] = n
    BY <1>15, <2>1, <2>2
  <2> QED
    BY <2>3 DEF Held
<1>16. ASSUME NEW n \in 1..Len(recorded')
       PROVE  \/ Held(n)' \/ recorded'[n] < horizon' \/ n <= Len(recorded') - MemoryCapacity
  <2>1. ASSUME NEW i \in 1..k, n = longer[i] PROVE Held(n)' \/ n <= (L + 1) - MemoryCapacity
    <3>1. i \in Nat /\ from \in Nat /\ (i < from \/ i >= from)
      BY <1>7
    <3> QED
      BY <1>14, <1>15, <2>1, <3>1
  <2>2. ASSUME n = L + 1 PROVE Held(n)' \/ n <= (L + 1) - MemoryCapacity
    BY <1>3, <1>4, <1>7, <2>1, <2>2
  <2>3. ASSUME n \in 1..L PROVE Held(n)' \/ recorded[n] < horizon \/ n <= (L + 1) - MemoryCapacity
    <3>1. Held(n) \/ recorded[n] < horizon \/ n <= L - MemoryCapacity
      BY <2>3 DEF ProcessInv, L
    <3>2. ASSUME Held(n) PROVE Held(n)' \/ n <= (L + 1) - MemoryCapacity
      <4>1. PICK i \in 1..Len(memory) : memory[i] = n
        BY <3>2 DEF Held
      <4>2. i \in 1..k /\ longer[i] = n
        BY <1>3, <1>4, <4>1
      <4> QED
        BY <2>1, <4>2
    <3>3. ASSUME n <= L - MemoryCapacity PROVE n <= (L + 1) - MemoryCapacity
      BY <1>3, <2>3, <3>3, KeepingTyped
    <3> QED
      BY <3>1, <3>2, <3>3
  <2>4. n = L + 1 \/ n \in 1..L
    BY <1>3
  <2> QED
    BY <1>1, <1>3, <2>2, <2>3, <2>4
<1>17. Len(memory') <= MemoryCapacity
  BY <1>7, <1>10, <1>11
<1>18. ClockOK'
  BY <1>1 DEF ClockOK
<1>19. horizon' \in Int
  BY <1>1 DEF ProcessInv
<1> QED
  BY <1>3, <1>10, <1>13, <1>16, <1>17, <1>18, <1>19 DEF ProcessInv

\* A cleanup of a process drops what is too old at its time.
LEMMA CleanHolds ==
  ASSUME ClockOK, ProcessInv, Keeping!CleanMemory
  PROVE  ClockOK' /\ ProcessInv'
<1>c. PICK c : c = logTime - AuditRetention
  OBVIOUS
<1>1. /\ memory' = Keeping!Younger(memory, c)
      /\ horizon' = Keeping!Max({horizon, c})
      /\ UNCHANGED <<logTime, setBacks, recorded>>
  BY <1>c, CutoffIs DEF Keeping!CleanMemory
<1>2. memory \in Seq(Nat) /\ Spaced(memory) /\ horizon \in Int /\ c \in Int
  BY <1>c, KeepingTyped DEF ProcessInv, ClockOK
<1>3. ChosenOK(memory', memory, c, Len(memory)) /\ Len(memory) \in Nat
  BY <1>1, <1>2, YoungerIs, LenProperties
<1>4. horizon' \in Int /\ horizon' >= horizon /\ horizon' >= c
  <2> DEFINE S == {horizon, c}
             top == IF horizon >= c THEN horizon ELSE c
  <2>1. Keeping!Max(S) = CHOOSE x \in S : \A y \in S : x >= y
    BY DEF Keeping!Max
  <2>2. top \in S /\ \A y \in S : top >= y
    BY <1>2
  <2>3. Keeping!Max(S) \in S /\ \A y \in S : Keeping!Max(S) >= y
    <3> HIDE DEF S, top
    <3> QED
      BY <2>1, <2>2
  <2>4. horizon \in S /\ c \in S /\ \A x \in S : x \in Int
    BY <1>2
  <2> QED
    BY <1>1, <2>3, <2>4
<1>5. /\ memory' \in Seq(Nat) /\ Len(memory') <= Len(memory) /\ Spaced(memory')
      /\ \A a \in 1..Len(memory') : \E j \in 1..Len(memory) : memory'[a] = memory[j]
      /\ \A j \in 1..Len(memory) :
           recorded[memory[j]] >= c => \E a \in 1..Len(memory') : memory'[a] = memory[j]
  BY <1>3 DEF ChosenOK
<1>6. \A i \in 1..Len(memory') : memory'[i] \in 1..Len(recorded')
  BY <1>1, <1>5 DEF ProcessInv
<1>7. Len(memory') <= MemoryCapacity
  <2>1. Len(memory') \in Nat /\ Len(memory) <= MemoryCapacity
    BY <1>5, LenProperties DEF ProcessInv
  <2> QED
    BY <1>3, <1>5, <2>1, KeepingTyped
<1>8. ASSUME NEW n \in 1..Len(recorded)
      PROVE  Held(n)' \/ recorded[n] < horizon' \/ n <= Len(recorded) - MemoryCapacity
  <2>1. recorded[n] \in Int
    <3>1. recorded[n] \in 0..MaxLogTime
      BY ElementOfSeq DEF ProcessInv
    <3> QED
      BY <3>1, KeepingTyped
  <2>2. Held(n) \/ recorded[n] < horizon \/ n <= Len(recorded) - MemoryCapacity
    BY DEF ProcessInv
  <2>3. ASSUME Held(n) PROVE Held(n)' \/ recorded[n] < horizon'
    <3>1. PICK j \in 1..Len(memory) : memory[j] = n
      BY <2>3 DEF Held
    <3>2. ASSUME recorded[n] >= c PROVE Held(n)'
      <4>1. \E a \in 1..Len(memory') : memory'[a] = n
        BY <1>5, <3>1, <3>2
      <4> QED
        BY <4>1 DEF Held
    <3>3. ASSUME recorded[n] < c PROVE recorded[n] < horizon'
      BY <1>2, <1>4, <2>1, <3>3
    <3> QED
      BY <1>2, <2>1, <3>2, <3>3
  <2>4. ASSUME recorded[n] < horizon PROVE recorded[n] < horizon'
    BY <1>2, <1>4, <2>1, <2>4
  <2> QED
    BY <2>2, <2>3, <2>4
<1> QED
  BY <1>1, <1>4, <1>5, <1>6, <1>7, <1>8 DEF ProcessInv, ClockOK

\* In its own terms.
LEMMA YoungAreKept ==
  ASSUME ProcessInv
  PROVE  Keeping!YoungKept /\ memory \in Seq(DOMAIN recorded)
<1>1. /\ DOMAIN memory = 1..Len(memory) /\ DOMAIN recorded = 1..Len(recorded)
      /\ Len(memory) \in Nat /\ memory \in [1..Len(memory) -> Nat]
  BY LenProperties DEF ProcessInv
<1>2. ASSUME NEW i \in 1..Len(memory), NEW j \in 1..Len(memory), i < j
      PROVE  memory[i] < memory[j]
  <2>1. memory[i] + (j - i) <= memory[j] /\ memory[i] \in Nat /\ memory[j] \in Nat
    BY <1>1, <1>2 DEF ProcessInv, Spaced
  <2> QED
    BY <1>2, <2>1
<1>3. \A n : Held(n) => n \in Keeping!ToSet(memory)
  BY <1>1 DEF Held, Keeping!ToSet
<1>4. memory \in Seq(DOMAIN recorded)
  <2>1. memory \in [1..Len(memory) -> DOMAIN recorded]
    BY <1>1 DEF ProcessInv
  <2> QED
    BY <1>1, <2>1, SeqDef
<1> QED
  BY <1>1, <1>2, <1>3, <1>4 DEF Keeping!YoungKept, ProcessInv

-----------------------------------------------------------------------------
(* The logs in the tables.                                                 *)

LogTables == {"requests", "audits"}
Stages == LogTables \cup {"idle", "failed", "succeeded"}
JobStates == [stage : Stages, at : 0..MaxLogTime]
Times == {Keeping!NotYet, Keeping!Gone} \cup 0..MaxLogTime

RowsTyped == rows \in [LogTables -> [1..MaxRows -> Times]]

\* What was too old when the cleanup started is gone, or still there for one of
\* the deletions that are to come.
DueKept ==
  job.stage \in {"requests", "audits", "succeeded"} =>
    \A t \in LogTables : \A n \in due[t] :
      \/ rows[t][n] = Keeping!Gone
      \/ /\ n \in Keeping!Old(t, job.at)
         /\ job.stage = "requests" \/ (job.stage = "audits" /\ t = "audits")

TablesInv ==
  /\ RowsTyped
  /\ job \in JobStates
  /\ due \in [LogTables -> SUBSET (1..MaxRows)]
  /\ finished \in 0..MaxJobs /\ counter \in Nat /\ uncounted \in Nat
  /\ job.stage # "idle" => finished < MaxJobs
  /\ counter <= finished /\ finished <= counter + uncounted
  /\ job.at <= logTime + setBacks
  /\ DueKept

LEMMA TablesAre ==
  /\ Keeping!ToSet(Keeping!Tables) = LogTables
  /\ \A S : Keeping!Cardinality(S) = Cardinality(S)
  /\ Keeping!Gone = -1 /\ Keeping!NotYet = -2
<1>1. Keeping!Tables = <<"requests", "audits">>
  BY DEF Keeping!Tables
<1>2. Keeping!ToSet(<<"requests", "audits">>) = {"requests", "audits"}
  BY DEF Keeping!ToSet
<1> QED
  BY <1>1, <1>2 DEF LogTables, Keeping!Cardinality, Cardinality, Keeping!Gone, Keeping!NotYet

\* How long the logs of a table are kept.
KeptFor(t) == IF t = "requests" THEN RequestRetention ELSE AuditRetention

LEMMA OldIs ==
  ASSUME NEW t \in LogTables, NEW i, RowsTyped
  PROVE  /\ KeptFor(t) \in Nat
         /\ Keeping!Old(t, i) = {n \in 1..MaxRows : rows[t][n] >= 0 /\ rows[t][n] < i - KeptFor(t)}
         /\ IsFiniteSet(Keeping!Old(t, i))
         /\ \A n \in 1..MaxRows : rows[t][n] \in Int
<1>1. Keeping!Cutoff(t, i) = i - KeptFor(t) /\ KeptFor(t) \in Nat
  BY CutoffIs, KeepingTyped DEF LogTables, KeptFor
<1>2. Keeping!Old(t, i) = {n \in 1..MaxRows : rows[t][n] >= 0 /\ rows[t][n] < i - KeptFor(t)}
  BY <1>1 DEF Keeping!Old
<1>3. IsFiniteSet(1..MaxRows)
  <2>1. 1 \in Int /\ MaxRows \in Int
    BY KeepingTyped
  <2> QED
    BY <2>1, FS_Interval
<1>4. Keeping!Old(t, i) \subseteq 1..MaxRows
  BY <1>2
<1>5. IsFiniteSet(Keeping!Old(t, i))
  BY <1>3, <1>4, FS_Subset
<1>6. \A n \in 1..MaxRows : rows[t][n] \in Times
  BY DEF RowsTyped
<1>7. \A x \in Times : x \in Int
  BY TablesAre, KeepingTyped DEF Times
<1> QED
  BY <1>1, <1>2, <1>5, <1>6, <1>7

\* A batch is full, or it is all that is old.
LEMMA BatchIs ==
  ASSUME NEW t \in LogTables, RowsTyped
  PROVE  /\ Keeping!Batch(t) \subseteq Keeping!Old(t, job.at)
         /\ \/ Keeping!Cardinality(Keeping!Batch(t)) = CleanupBatch
            \/ Keeping!Batch(t) = Keeping!Old(t, job.at)
<1> DEFINE old == Keeping!Old(t, job.at)
           Before(m, n) == \/ rows[t][m] < rows[t][n]
                           \/ (rows[t][m] = rows[t][n] /\ m < n)
           R == {x \in old \X old : Before(x[1], x[2])}
           ahead(n) == Preceding(R, old, n)
<1>1. old \subseteq 1..MaxRows /\ IsFiniteSet(old) /\ \A n \in old : rows[t][n] \in Int /\ n \in Int
  BY OldIs
<1>2. Orders(R, old)
  <2> HIDE DEF old
  <2>1. \A a \in old : <<a, a>> \notin R
    BY <1>1
  <2>2. \A a, b \in old : a # b => <<a, b>> \in R \/ <<b, a>> \in R
    BY <1>1
  <2>3. \A a, b, c \in old : <<a, b>> \in R /\ <<b, c>> \in R => <<a, c>> \in R
    BY <1>1
  <2> QED
    BY <2>1, <2>2, <2>3 DEF Orders
<1>3. \A n \in old : {m \in old : Before(m, n)} = ahead(n)
  BY DEF Preceding
<1>4. Keeping!Batch(t) = FirstOf(R, old, CleanupBatch)
  <2>1. Keeping!Batch(t) = {n \in old : Keeping!Cardinality({m \in old : Before(m, n)}) < CleanupBatch}
    BY DEF Keeping!Batch
  <2>2. FirstOf(R, old, CleanupBatch) = {n \in old : Cardinality(ahead(n)) < CleanupBatch}
    BY DEF FirstOf
  <2> HIDE DEF old, Before, R
  <2> QED
    BY <1>3, <2>1, <2>2, TablesAre
<1> HIDE DEF old, R
<1>5. Cardinality(old) \in Nat /\ CleanupBatch \in Nat
  BY <1>1, FS_CardinalityType, KeepingTyped
<1>6. ASSUME CleanupBatch <= Cardinality(old) PROVE Cardinality(Keeping!Batch(t)) = CleanupBatch
  <2>1. CleanupBatch \in 0..Cardinality(old)
    BY <1>5, <1>6
  <2> QED
    BY <1>1, <1>2, <1>4, <2>1, FirstCount
<1>7. ASSUME Cardinality(old) < CleanupBatch PROVE Keeping!Batch(t) = old
  <2>1. ASSUME NEW n \in old PROVE Cardinality(ahead(n)) < CleanupBatch
    <3>1. ahead(n) \subseteq old
      BY DEF Preceding
    <3>2. Cardinality(ahead(n)) <= Cardinality(old) /\ Cardinality(ahead(n)) \in Nat
      BY <1>1, <3>1, FS_Subset, FS_CardinalityType
    <3> QED
      BY <1>5, <1>7, <3>2
  <2> QED
    BY <1>4, <2>1 DEF FirstOf
<1>8. Keeping!Batch(t) \subseteq old
  BY <1>4 DEF FirstOf
<1> QED
  BY <1>5, <1>6, <1>7, <1>8, TablesAre DEF old

LEMMA RetentionInit == Keeping!Init => ClockOK /\ ProcessInv /\ TablesInv
<1> SUFFICES ASSUME Keeping!Init PROVE ClockOK /\ ProcessInv /\ TablesInv
  OBVIOUS
<1>1. /\ logTime = 0 /\ setBacks = 0 /\ recorded = <<>> /\ memory = <<>>
      /\ horizon = 0 - AuditRetention
      /\ rows = [t \in LogTables |-> [n \in 1..MaxRows |-> Keeping!NotYet]]
      /\ job = [stage |-> "idle", at |-> 0]
      /\ due = [t \in LogTables |-> {}] /\ finished = 0 /\ counter = 0 /\ uncounted = 0
  BY CutoffIs, TablesAre DEF Keeping!Init, Keeping!Idle
<1>2. ClockOK
  BY <1>1, KeepingTyped DEF ClockOK
<1>3. ProcessInv
  <2>1. recorded \in Seq(0..MaxLogTime) /\ memory \in Seq(Nat) /\ Len(recorded) = 0 /\ Len(memory) = 0
    BY <1>1, EmptySeq
  <2>2. horizon \in Int
    BY <1>1, KeepingTyped
  <2>3. Spaced(memory)
    BY <2>1 DEF Spaced
  <2> QED
    BY <2>1, <2>2, <2>3, KeepingTyped DEF ProcessInv
<1>4. TablesInv
  <2>1. RowsTyped
    BY <1>1 DEF RowsTyped, Times
  <2>2. job \in JobStates /\ job.stage = "idle" /\ job.at = 0
    BY <1>1, KeepingTyped DEF JobStates, Stages
  <2>3. DueKept
    BY <2>2 DEF DueKept
  <2> QED
    BY <1>1, <2>1, <2>2, <2>3, KeepingTyped DEF TablesInv
<1> QED
  BY <1>2, <1>3, <1>4

\* What a cleanup has to delete stays as it is while logs are inserted.
LEMMA InsertKeepsTables ==
  ASSUME ClockOK, TablesInv, NEW t \in LogTables, NEW lag \in 0..1, Keeping!Insert(t, lag)
  PROVE  TablesInv'
<1>1. PICK n \in 1..MaxRows :
        /\ rows[t][n] = Keeping!NotYet
        /\ rows' = [rows EXCEPT ![t][n] = logTime - lag]
  BY DEF Keeping!Insert
<1>2. lag <= logTime /\ UNCHANGED <<logTime, setBacks, job, due, finished, counter, uncounted>>
  BY DEF Keeping!Insert
<1>3. rows \in [LogTables -> [1..MaxRows -> Times]]
  BY DEF TablesInv, RowsTyped
<1>4. logTime - lag \in Times
  <2>1. logTime - lag \in 0..MaxLogTime
    BY <1>2, KeepingTyped DEF ClockOK
  <2> QED
    BY <2>1 DEF Times
<1>5. RowsTyped'
  <2> HIDE DEF Times
  <2>1. rows' \in [LogTables -> [1..MaxRows -> Times]]
    BY <1>1, <1>3, <1>4
  <2>2. Times' = Times
    BY DEF Times, Keeping!NotYet, Keeping!Gone
  <2> QED
    BY <2>1, <2>2 DEF RowsTyped
<1>6. \A u \in LogTables : \A m \in 1..MaxRows :
        rows[u][m] = Keeping!Gone \/ rows[u][m] >= 0 => rows'[u][m] = rows[u][m]
  BY <1>1, <1>3, TablesAre
<1>7. \A u \in LogTables : Keeping!Old(u, job.at) \subseteq Keeping!Old(u, job.at)'
  <2> TAKE u \in LogTables
  <2>1. Keeping!Old(u, job.at) = {m \in 1..MaxRows : rows[u][m] >= 0 /\ rows[u][m] < job.at - KeptFor(u)}
    BY OldIs DEF TablesInv
  <2>2. Keeping!Cutoff(u, job.at) = job.at - KeptFor(u)
    BY CutoffIs DEF LogTables, KeptFor
  <2>3. Keeping!Cutoff(u, job.at)' = Keeping!Cutoff(u, job.at)
    BY <1>2 DEF Keeping!Cutoff
  <2>4. Keeping!Old(u, job.at)' = {m \in 1..MaxRows : rows'[u][m] >= 0 /\ rows'[u][m] < job.at - KeptFor(u)}
    BY <2>2, <2>3 DEF Keeping!Old
  <2> QED
    BY <1>6, <2>1, <2>4
<1>8. DueKept'
  <2> SUFFICES ASSUME job.stage \in {"requests", "audits", "succeeded"},
                      NEW u \in LogTables, NEW m \in due[u]
               PROVE  \/ rows'[u][m] = Keeping!Gone
                      \/ /\ m \in Keeping!Old(u, job.at)'
                         /\ job.stage = "requests" \/ (job.stage = "audits" /\ u = "audits")
    BY <1>2 DEF DueKept, Keeping!Gone
  <2>1. m \in 1..MaxRows
    BY DEF TablesInv
  <2> QED
    BY <1>6, <1>7, <2>1 DEF TablesInv, DueKept
<1> QED
  BY <1>2, <1>5, <1>8 DEF TablesInv, JobStates, Stages

\* A cleanup starts with what is too old by then.
LEMMA StartKeepsTables ==
  ASSUME ClockOK, TablesInv, NEW locked \in BOOLEAN, Keeping!StartJob(locked)
  PROVE  TablesInv'
<1>1. /\ job.stage = "idle" /\ finished < MaxJobs
      /\ job' = [stage |-> IF locked THEN "requests" ELSE "failed", at |-> logTime]
      /\ due' = [t \in LogTables |-> IF locked THEN Keeping!Old(t, logTime) ELSE {}]
      /\ UNCHANGED <<logTime, setBacks, rows, finished, counter, uncounted>>
  BY TablesAre DEF Keeping!StartJob
<1>2. /\ job' \in JobStates /\ job'.at = logTime
      /\ job'.stage = (IF locked THEN "requests" ELSE "failed")
  BY <1>1 DEF ClockOK, JobStates, Stages, LogTables
<1>3. \A t \in LogTables : Keeping!Old(t, logTime) \subseteq 1..MaxRows
  BY DEF Keeping!Old
<1>4. due' \in [LogTables -> SUBSET (1..MaxRows)]
  BY <1>1, <1>3
<1>5. RowsTyped'
  BY <1>1 DEF TablesInv, RowsTyped, Times, Keeping!NotYet, Keeping!Gone
<1>6. \A t \in LogTables : Keeping!Old(t, job.at)' = Keeping!Old(t, logTime)
  BY <1>1, <1>2 DEF Keeping!Old, Keeping!Cutoff
<1>7. DueKept'
  BY <1>1, <1>2, <1>6 DEF DueKept
<1>8. job'.at <= logTime' + setBacks'
  BY <1>1, <1>2, KeepingTyped DEF ClockOK
<1> QED
  BY <1>1, <1>2, <1>4, <1>5, <1>7, <1>8 DEF TablesInv, JobStates, Stages

\* A deletion that is not full leaves nothing that is too old, and only then does
\* the cleanup go on to the next table.
LEMMA DeleteKeepsTables ==
  ASSUME ClockOK, TablesInv, NEW t \in LogTables, NEW answered \in BOOLEAN,
         Keeping!DeleteBatch(t, answered)
  PROVE  TablesInv'
<1>b. PICK B : B = Keeping!Batch(t)
  OBVIOUS
<1>1. /\ job.stage = t
      /\ rows' = [rows EXCEPT ![t] = [n \in 1..MaxRows |-> IF n \in B THEN Keeping!Gone ELSE rows[t][n]]]
      /\ UNCHANGED <<logTime, setBacks, due, finished, counter, uncounted>>
  <2>1. t \in DOMAIN rows
    BY DEF TablesInv, RowsTyped
  <2> QED
    BY <1>b, <2>1 DEF Keeping!DeleteBatch
<1>s. PICK s : s = (CASE ~answered -> "failed"
                      [] answered /\ Keeping!Cardinality(B) = CleanupBatch -> t
                      [] OTHER -> IF t = "requests" THEN "audits" ELSE "succeeded")
  OBVIOUS
<1>2. job' = [job EXCEPT !.stage = s]
  BY <1>b, <1>s DEF Keeping!DeleteBatch
<1>3. /\ s \in Stages /\ s # "idle"
      /\ s = "failed" \/ s = t \/ s = (IF t = "requests" THEN "audits" ELSE "succeeded")
      /\ s # "failed" /\ s # t => Keeping!Cardinality(B) # CleanupBatch
  BY <1>s DEF Stages, LogTables
<1>4. job'.stage = s /\ job'.at = job.at /\ job' \in JobStates
  BY <1>2, <1>3 DEF TablesInv, JobStates
<1>5. /\ B \subseteq Keeping!Old(t, job.at)
      /\ Keeping!Cardinality(B) = CleanupBatch \/ B = Keeping!Old(t, job.at)
  BY <1>b, BatchIs DEF TablesInv
<1>6. rows \in [LogTables -> [1..MaxRows -> Times]]
  BY DEF TablesInv, RowsTyped
<1>7. RowsTyped'
  <2>1. Keeping!Gone \in Times
    BY DEF Times
  <2> HIDE DEF Times
  <2>2. [n \in 1..MaxRows |-> IF n \in B THEN Keeping!Gone ELSE rows[t][n]] \in [1..MaxRows -> Times]
    BY <1>6, <2>1
  <2>3. rows' \in [LogTables -> [1..MaxRows -> Times]]
    BY <1>1, <1>6, <2>2
  <2>4. Times' = Times
    BY DEF Times, Keeping!NotYet, Keeping!Gone
  <2> QED
    BY <2>3, <2>4 DEF RowsTyped
<1>8. /\ \A n \in 1..MaxRows : rows'[t][n] = IF n \in B THEN Keeping!Gone ELSE rows[t][n]
      /\ \A u \in LogTables : u # t => rows'[u] = rows[u]
  BY <1>1, <1>6
<1>9. \A u \in LogTables : \A n \in 1..MaxRows :
        n \in Keeping!Old(u, job.at) =>
          \/ rows'[u][n] = Keeping!Gone
          \/ n \in Keeping!Old(u, job.at)' /\ ~(u = t /\ n \in B)
  <2> SUFFICES ASSUME NEW u \in LogTables, NEW n \in 1..MaxRows, n \in Keeping!Old(u, job.at),
                      ~(u = t /\ n \in B)
               PROVE  n \in Keeping!Old(u, job.at)'
    BY <1>8
  <2>1. rows'[u][n] = rows[u][n]
    BY <1>8
  <2>2. Keeping!Cutoff(u, job.at)' = Keeping!Cutoff(u, job.at)
    BY <1>4 DEF Keeping!Cutoff
  <2> QED
    BY <2>1, <2>2 DEF Keeping!Old
<1>10. DueKept'
  <2> SUFFICES ASSUME s \in {"requests", "audits", "succeeded"},
                      NEW u \in LogTables, NEW n \in due[u]
               PROVE  \/ rows'[u][n] = Keeping!Gone
                      \/ /\ n \in Keeping!Old(u, job.at)'
                         /\ s = "requests" \/ (s = "audits" /\ u = "audits")
    BY <1>1, <1>4 DEF DueKept, Keeping!Gone
  <2>1. n \in 1..MaxRows
    BY DEF TablesInv
  <2>2. \/ rows[u][n] = Keeping!Gone
        \/ /\ n \in Keeping!Old(u, job.at)
           /\ t = "requests" \/ (t = "audits" /\ u = "audits")
    BY <1>1 DEF TablesInv, DueKept, LogTables
  <2>3. rows[u][n] = Keeping!Gone => rows'[u][n] = Keeping!Gone
    BY <1>8, <2>1
  <2>4. ASSUME n \in Keeping!Old(u, job.at), s = t, t = "requests" \/ (t = "audits" /\ u = "audits")
        PROVE  \/ rows'[u][n] = Keeping!Gone
               \/ /\ n \in Keeping!Old(u, job.at)'
                  /\ s = "requests" \/ (s = "audits" /\ u = "audits")
    BY <1>9, <2>1, <2>4
  <2>5. ASSUME n \in Keeping!Old(u, job.at), s # t, t = "requests" \/ (t = "audits" /\ u = "audits")
        PROVE  \/ rows'[u][n] = Keeping!Gone
               \/ /\ n \in Keeping!Old(u, job.at)'
                  /\ s = "requests" \/ (s = "audits" /\ u = "audits")
    <3>1. s # "failed" /\ B = Keeping!Old(t, job.at)
      BY <1>3, <1>5, <2>5
    <3>2. s = (IF t = "requests" THEN "audits" ELSE "succeeded")
      BY <1>3, <2>5, <3>1
    <3>3. u = t => rows'[u][n] = Keeping!Gone
      BY <1>8, <2>1, <2>5, <3>1
    <3>4. u # t => t = "requests" /\ u = "audits" /\ s = "audits"
      BY <2>5, <3>2 DEF LogTables
    <3> QED
      BY <1>9, <2>1, <2>5, <3>3, <3>4
  <2> QED
    BY <2>2, <2>3, <2>4, <2>5
<1>11. job.stage # "idle"
  BY <1>1 DEF LogTables
<1> QED
  BY <1>1, <1>4, <1>7, <1>10, <1>11 DEF TablesInv, JobStates, Stages

\* A deletion fails, the job is counted, and the worker may die at any time.
LEMMA EndsKeepTables ==
  ASSUME ClockOK, TablesInv,
         \/ Keeping!DeleteFails \/ Keeping!WorkerDies
         \/ \E written, answered \in BOOLEAN : Keeping!Count(written, answered)
  PROVE  TablesInv'
<1>1. /\ UNCHANGED <<logTime, setBacks, rows>>
      /\ \/ job' = [job EXCEPT !.stage = "failed"] /\ due' = due
         \/ job' = Keeping!Idle /\ due' = [t \in LogTables |-> {}]
  BY TablesAre DEF Keeping!DeleteFails, Keeping!WorkerDies, Keeping!Count
<1>2. /\ finished' \in 0..MaxJobs /\ counter' \in Nat /\ uncounted' \in Nat
      /\ job'.stage # "idle" => finished' < MaxJobs
      /\ counter' <= finished' /\ finished' <= counter' + uncounted'
  <2>1. CASE Keeping!DeleteFails
    <3>1. UNCHANGED <<finished, counter, uncounted>> /\ job.stage # "idle"
      BY <2>1, TablesAre DEF Keeping!DeleteFails, LogTables
    <3> QED
      BY <3>1 DEF TablesInv
  <2>2. CASE Keeping!WorkerDies
    <3>1. UNCHANGED <<finished, counter, uncounted>> /\ job'.stage = "idle"
      BY <2>2 DEF Keeping!WorkerDies, Keeping!Idle
    <3> QED
      BY <3>1 DEF TablesInv
  <2>3. ASSUME NEW written \in BOOLEAN, NEW answered \in BOOLEAN, Keeping!Count(written, answered)
        PROVE  /\ finished' \in 0..MaxJobs /\ counter' \in Nat /\ uncounted' \in Nat
               /\ job'.stage # "idle" => finished' < MaxJobs
               /\ counter' <= finished' /\ finished' <= counter' + uncounted'
    <3>1. /\ written \/ ~answered
          /\ finished' = finished + 1
          /\ counter' = counter + (IF written THEN 1 ELSE 0)
          /\ uncounted' = uncounted + (IF answered THEN 0 ELSE 1)
          /\ job.stage # "idle" /\ job'.stage = "idle"
      BY <2>3 DEF Keeping!Count, Keeping!Idle
    <3>2. /\ finished \in 0..MaxJobs /\ counter \in Nat /\ uncounted \in Nat /\ finished < MaxJobs
          /\ counter <= finished /\ finished <= counter + uncounted
      BY <3>1 DEF TablesInv
    <3> QED
      BY <3>1, <3>2, KeepingTyped
  <2> QED
    BY <2>1, <2>2, <2>3
<1>3. RowsTyped'
  BY <1>1 DEF TablesInv, RowsTyped, Times, Keeping!NotYet, Keeping!Gone
<1>4. /\ job' \in JobStates /\ job'.stage \in {"failed", "idle"}
      /\ job'.at = job.at \/ job'.at = 0
  BY <1>1, KeepingTyped DEF TablesInv, JobStates, Stages, Keeping!Idle
<1>5. DueKept'
  BY <1>4 DEF DueKept
<1>6. due' \in [LogTables -> SUBSET (1..MaxRows)]
  BY <1>1 DEF TablesInv
<1>7. job'.at <= logTime' + setBacks'
  BY <1>1, <1>4, KeepingTyped DEF TablesInv, ClockOK
<1> QED
  BY <1>2, <1>3, <1>4, <1>5, <1>6, <1>7 DEF TablesInv, JobStates, Stages

\* Time goes on, or the clock is set back.
LEMMA ClockKeepsBoth ==
  ASSUME ClockOK, ProcessInv, TablesInv, Keeping!Tick \/ Keeping!SetBack
  PROVE  ClockOK' /\ ProcessInv' /\ TablesInv'
<1>1. /\ UNCHANGED <<recorded, memory, horizon, rows, job, due, finished, counter, uncounted>>
      /\ \/ logTime < MaxLogTime /\ logTime' = logTime + 1 /\ setBacks' = setBacks
         \/ /\ setBacks < MaxSetBacks /\ setBacks' = setBacks + 1
            /\ logTime > 0 /\ logTime' = logTime - 1
  BY DEF Keeping!Tick, Keeping!SetBack, Keeping!ofProcess, Keeping!ofTables
<1>2. ClockOK'
  BY <1>1, KeepingTyped DEF ClockOK
<1>3. logTime' + setBacks' >= logTime + setBacks /\ job.at \in Nat
  BY <1>1, KeepingTyped DEF ClockOK, TablesInv, JobStates
<1>4. ProcessInv'
  BY <1>1 DEF ProcessInv, Held, Spaced
<1>5. RowsTyped' /\ DueKept'
  BY <1>1 DEF TablesInv, RowsTyped, DueKept, Times, Keeping!Old, Keeping!Cutoff, Keeping!NotYet, Keeping!Gone
<1>6. job'.at <= logTime' + setBacks'
  BY <1>1, <1>2, <1>3 DEF TablesInv, ClockOK
<1> QED
  BY <1>1, <1>2, <1>4, <1>5, <1>6 DEF TablesInv, JobStates, Stages

\* Whatever a process or the tables do, and nothing else changes their logs.
LEMMA NextLogs ==
  ASSUME ClockOK, ProcessInv, TablesInv, [WorkerNext]_workerVars
  PROVE  ClockOK' /\ ProcessInv' /\ TablesInv'
<1>1. ASSUME UNCHANGED retentionVars PROVE ClockOK' /\ ProcessInv' /\ TablesInv'
  <2>1. UNCHANGED <<logTime, setBacks, recorded, memory, horizon, rows, job, due, finished, counter, uncounted>>
    BY <1>1 DEF retentionVars
  <2>2. ClockOK' /\ ProcessInv'
    BY <2>1 DEF ClockOK, ProcessInv, Held, Spaced
  <2>3. RowsTyped' /\ DueKept'
    BY <2>1 DEF TablesInv, RowsTyped, DueKept, Times, Keeping!Old, Keeping!Cutoff, Keeping!NotYet, Keeping!Gone
  <2>4. job' \in JobStates /\ job'.stage = job.stage /\ job'.at = job.at
    BY <2>1 DEF TablesInv
  <2> QED
    BY <2>1, <2>2, <2>3, <2>4 DEF TablesInv, JobStates, Stages
<1>2. ASSUME Keeping!Tick \/ Keeping!SetBack PROVE ClockOK' /\ ProcessInv' /\ TablesInv'
  BY <1>2, ClockKeepsBoth
<1>3. ASSUME Keeping!NextOfProcess PROVE ClockOK' /\ ProcessInv' /\ TablesInv'
  <2>1. ClockOK' /\ ProcessInv'
    BY <1>3, LogHolds, CleanHolds DEF Keeping!NextOfProcess
  <2>2. UNCHANGED <<logTime, setBacks, rows, job, due, finished, counter, uncounted>>
    BY <1>3 DEF Keeping!NextOfProcess, Keeping!Log, Keeping!CleanMemory, Keeping!ofTables
  <2>3. RowsTyped' /\ DueKept'
    BY <2>2 DEF TablesInv, RowsTyped, DueKept, Times, Keeping!Old, Keeping!Cutoff, Keeping!NotYet, Keeping!Gone
  <2> QED
    BY <2>1, <2>2, <2>3 DEF TablesInv, JobStates, Stages
<1>4. ASSUME Keeping!NextOfTables PROVE ClockOK' /\ ProcessInv' /\ TablesInv'
  <2>1. \/ \E t \in LogTables, lag \in 0..1 : Keeping!Insert(t, lag)
        \/ \E locked \in BOOLEAN : Keeping!StartJob(locked)
        \/ \E t \in LogTables, answered \in BOOLEAN : Keeping!DeleteBatch(t, answered)
        \/ \/ Keeping!DeleteFails \/ Keeping!WorkerDies
           \/ \E written, answered \in BOOLEAN : Keeping!Count(written, answered)
    BY <1>4, TablesAre DEF Keeping!NextOfTables, Keeping!Clean
  <2>2. TablesInv'
    BY <2>1, InsertKeepsTables, StartKeepsTables, DeleteKeepsTables, EndsKeepTables
  <2>3. UNCHANGED <<logTime, setBacks, recorded, memory, horizon>>
    BY <2>1 DEF Keeping!Insert, Keeping!StartJob, Keeping!DeleteBatch, Keeping!DeleteFails,
                Keeping!WorkerDies, Keeping!Count, Keeping!ofProcess
  <2>4. ClockOK' /\ ProcessInv'
    BY <2>3 DEF ClockOK, ProcessInv, Held, Spaced
  <2> QED
    BY <2>2, <2>4
<1>5. \/ UNCHANGED retentionVars \/ Keeping!Tick \/ Keeping!SetBack
      \/ Keeping!NextOfProcess \/ Keeping!NextOfTables
  BY DEF WorkerNext, workerVars, Scheduling, Aging
<1> QED
  BY <1>1, <1>2, <1>3, <1>4, <1>5

LogsInv == ClockOK /\ ProcessInv /\ TablesInv

LEMMA LogsInvariant == WorkerSpec => []LogsInv
<1>1. WorkerInit => LogsInv
  BY RetentionInit DEF WorkerInit, LogsInv
<1>2. LogsInv /\ [WorkerNext]_workerVars => LogsInv'
  BY NextLogs DEF LogsInv
<1> QED
  BY <1>1, <1>2, PTL DEF WorkerSpec

\* The closing jobs run as they do without the logs.
THEOREM JobsRunAsAlone == WorkerSpec => Spec
<1>1. WorkerInit => Init
  BY DEF WorkerInit
<1>2. [WorkerNext]_workerVars => [Next]_vars
  BY DEF WorkerNext, workerVars, Scheduling, Aging
<1> QED
  BY <1>1, <1>2, PTL DEF WorkerSpec, Spec

\* Logs are kept as long as was asked and no longer: a process loses none that is
\* young, unless it has as many newer ones, a cleanup that succeeds leaves none that
\* was too old when it started, and the database's counters miss only what failed.
THEOREM LogsAreKept == WorkerSpec => []LogsKept
<1>1. LogsInv => Keeping!YoungKept /\ Keeping!CleanedOut /\ Keeping!CounterHonest
  <2> SUFFICES ASSUME LogsInv PROVE Keeping!YoungKept /\ Keeping!CleanedOut /\ Keeping!CounterHonest
    OBVIOUS
  <2>1. Keeping!YoungKept
    BY YoungAreKept DEF LogsInv
  <2>2. Keeping!CleanedOut
    BY TablesAre DEF LogsInv, TablesInv, DueKept, Keeping!CleanedOut
  <2> QED
    BY <2>1, <2>2 DEF LogsInv, TablesInv, Keeping!CounterHonest
<1>2. LogsInv => Keeping!TypeOK
  <2> SUFFICES ASSUME LogsInv PROVE Keeping!TypeOK
    OBVIOUS
  <2>1. memory \in Seq(DOMAIN recorded)
    BY YoungAreKept DEF LogsInv
  <2>2. rows \in [LogTables -> [1..MaxRows -> {Keeping!NotYet, Keeping!Gone} \cup (0..MaxLogTime)]]
    BY DEF LogsInv, TablesInv, RowsTyped, Times
  <2>3. job.stage \in LogTables \cup {"idle", "failed", "succeeded"} /\ job.at \in 0..MaxLogTime
    BY DEF LogsInv, TablesInv, JobStates, Stages
  <2> QED
    BY <2>1, <2>2, <2>3, TablesAre DEF LogsInv, ClockOK, ProcessInv, TablesInv, Keeping!TypeOK
<1>3. SchedulerInv => TypeOK
  BY DEF SchedulerInv
<1>4. LogsInv /\ SchedulerInv => LogsKept
  BY <1>1, <1>2, <1>3 DEF LogsKept
<1> QED
  BY <1>4, LogsInvariant, JobsRunAsAlone, SchedulerInvariant, PTL

\* No log of the database is deleted before its own table's time, however late it
\* was inserted, and whatever else is inserted or set back meanwhile.
THEOREM NoLogTooEarly == WorkerSpec => [][Keeping!NothingTooEarly]_retentionVars
<1>1. ASSUME LogsInv, [WorkerNext]_workerVars PROVE [Keeping!NothingTooEarly]_retentionVars
  <2> SUFFICES ASSUME ~UNCHANGED retentionVars,
                      NEW t \in LogTables, NEW n \in 1..MaxRows,
                      rows[t][n] >= 0, rows'[t][n] = -1
               PROVE  rows[t][n] + KeptFor(t) < logTime + setBacks
    BY TablesAre DEF Keeping!NothingTooEarly, KeptFor, LogTables
  <2>t. RowsTyped /\ ClockOK /\ job \in JobStates /\ job.at <= logTime + setBacks
    BY <1>1 DEF LogsInv, TablesInv
  <2>o. /\ KeptFor(t) \in Nat
        /\ Keeping!Old(t, job.at) =
             {m \in 1..MaxRows : rows[t][m] >= 0 /\ rows[t][m] < job.at - KeptFor(t)}
        /\ \A m \in 1..MaxRows : rows[t][m] \in Int
    BY <2>t, OldIs
  <2>1. /\ \A m \in 1..MaxRows : rows[t][m] \in Int
        /\ rows \in [LogTables -> [1..MaxRows -> Times]]
        /\ KeptFor(t) \in Nat
    BY <2>t, <2>o DEF RowsTyped
  <2>2. ASSUME UNCHANGED rows PROVE FALSE
    BY <2>1, <2>2
  <2>3. ASSUME NEW u \in LogTables, NEW lag \in 0..1, Keeping!Insert(u, lag) PROVE FALSE
    <3>1. PICK m \in 1..MaxRows : rows[u][m] = -2 /\ rows' = [rows EXCEPT ![u][m] = logTime - lag]
      BY <2>3, TablesAre DEF Keeping!Insert
    <3>2. ~(u = t /\ m = n)
      BY <3>1
    <3>3. rows'[t][n] = rows[t][n]
      BY <2>1, <3>1, <3>2
    <3> QED
      BY <3>3
  <2>4. ASSUME NEW u \in LogTables, NEW answered \in BOOLEAN, Keeping!DeleteBatch(u, answered)
        PROVE  rows[t][n] + KeptFor(t) < logTime + setBacks
    <3>1. rows' = [rows EXCEPT ![u] = [m \in 1..MaxRows |-> IF m \in Keeping!Batch(u) THEN Keeping!Gone ELSE rows[u][m]]]
      BY <2>1, <2>4 DEF Keeping!DeleteBatch
    <3>2. u = t /\ n \in Keeping!Batch(u)
      BY <2>1, <3>1
    <3>3. n \in Keeping!Old(t, job.at)
      BY <2>t, <3>2, BatchIs
    <3>4. rows[t][n] < job.at - KeptFor(t)
      BY <2>o, <3>3
    <3>5. job.at \in Int /\ job.at <= logTime + setBacks /\ logTime + setBacks \in Int
      BY <2>t, KeepingTyped DEF ClockOK, JobStates
    <3> QED
      BY <2>1, <3>4, <3>5
  <2>5. \/ UNCHANGED rows
        \/ \E u \in LogTables, lag \in 0..1 : Keeping!Insert(u, lag)
        \/ \E u \in LogTables, answered \in BOOLEAN : Keeping!DeleteBatch(u, answered)
    BY <1>1, TablesAre
    DEF WorkerNext, workerVars, retentionVars, Scheduling, Aging, Keeping!Tick, Keeping!SetBack,
       Keeping!NextOfProcess, Keeping!NextOfTables, Keeping!Log, Keeping!CleanMemory, Keeping!StartJob,
       Keeping!Clean, Keeping!Count, Keeping!DeleteFails, Keeping!WorkerDies, Keeping!ofTables
  <2> QED
    BY <2>2, <2>3, <2>4, <2>5
<1> QED
  BY <1>1, LogsInvariant, PTL DEF WorkerSpec
=============================================================================
