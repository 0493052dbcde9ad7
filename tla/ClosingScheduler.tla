-------------------------- MODULE ClosingScheduler --------------------------
(***************************************************************************)
(* Who closes a cycle, and when.  Worker processes poll (settleDueCycles   *)
(* and runLogCleanup in apps/server/src/app.ts); each job runs under a     *)
(* session-scoped PostgreSQL advisory lock that is taken on a connection   *)
(* of its own (withAdvisoryLock in infra/state-repository.ts), and every   *)
(* closing is a transaction of its own under the row lock of RuntimeState, *)
(* where it looks at the clock and at the rules again.                     *)
(***************************************************************************)
EXTENDS Integers, FiniteSets

CONSTANTS
  Workers,        \* worker processes
  NoWorker,       \* what a free lock is held by
  Durations,      \* values of cycleDurationHours an administrator may set
  MaxTime,        \* bound on the clock
  MaxErrors,      \* bound on transactions that fail
  MaxLosses,      \* bound on lost connections of the lock
  MaxCrashes      \* bound on crashed processes

ASSUME SchedulerAssumption ==
  /\ NoWorker \notin Workers
  /\ Durations \subseteq Nat \ {0}
  /\ {MaxTime, MaxErrors, MaxLosses, MaxCrashes} \subseteq Nat

Jobs == {"close", "cleanup"}

Steps == {"idle", "acquiring", "holding", "closing", "releasing"}

VARIABLES
  now,            \* the clock
  startedAt,      \* of the open cycle
  closed,         \* how many cycles were closed
  duration,       \* cycleDurationHours of the current rules
  row,            \* the worker whose transaction has locked RuntimeState
  readAt,         \* what a closing transaction has read of the clock
  pc,             \* how far a job of a worker is
  guard,          \* inProcessWorkerLocks of a worker
  lock,           \* the advisory locks, by job: the worker whose session has it
  errors, losses, crashes

time == <<now, startedAt, closed, duration>>
faults == <<errors, losses, crashes>>
vars == <<time, row, readAt, pc, guard, lock, faults>>

Due == now >= startedAt + duration

Init ==
  /\ now = 0
  /\ startedAt = 0
  /\ closed = 0
  /\ duration \in Durations
  /\ row = NoWorker
  /\ readAt = [w \in Workers |-> 0]
  /\ pc = [w \in Workers |-> [j \in Jobs |-> "idle"]]
  /\ guard = [w \in Workers |-> {}]
  /\ lock = [j \in Jobs |-> NoWorker]
  /\ errors = 0 /\ losses = 0 /\ crashes = 0

-----------------------------------------------------------------------------
(* The world around the workers.                                           *)

Tick ==
  /\ now < MaxTime
  /\ now' = now + 1
  /\ UNCHANGED <<startedAt, closed, duration, row, readAt, pc, guard, lock, faults>>

\* An API process updates the current rules, under the same row lock.
UpdateDuration(d) ==
  /\ row = NoWorker
  /\ duration' = d
  /\ UNCHANGED <<now, startedAt, closed, row, readAt, pc, guard, lock, faults>>

-----------------------------------------------------------------------------
(* One run of a job.                                                       *)

Goto(w, j, step) == pc' = [pc EXCEPT ![w][j] = step]

\* The timer: nothing happens while the last run is in flight, nor if the key
\* is guarded already.
Poll(w, j) ==
  /\ pc[w][j] = "idle"
  /\ j \notin guard[w]
  /\ guard' = [guard EXCEPT ![w] = @ \cup {j}]
  /\ Goto(w, j, "acquiring")
  /\ UNCHANGED <<time, row, readAt, lock, faults>>

\* Fault: a lock that somebody holds is taken all the same.
AnyGrantable(w, j) == lock[j] \in Workers \cup {NoWorker}

\* pg_try_advisory_lock: PostgreSQL gives the lock to a session that has it
\* already.
Grantable(w, j) == lock[j] \in {NoWorker, w}

Acquire(w, j) ==
  /\ pc[w][j] = "acquiring"
  /\ Grantable(w, j)
  /\ lock' = [lock EXCEPT ![j] = w]
  /\ Goto(w, j, "holding")
  /\ UNCHANGED <<time, row, readAt, guard, faults>>

Miss(w, j) ==
  /\ pc[w][j] = "acquiring"
  /\ ~Grantable(w, j)
  /\ guard' = [guard EXCEPT ![w] = @ \ {j}]
  /\ Goto(w, j, "idle")
  /\ UNCHANGED <<time, row, readAt, lock, faults>>

\* Fault: the transaction closes whatever cycle is open.
BeginClosingUnconditionally(w) ==
  /\ pc[w]["close"] = "holding"
  /\ row = NoWorker
  /\ row' = w
  /\ readAt' = [readAt EXCEPT ![w] = now]
  /\ Goto(w, "close", "closing")
  /\ UNCHANGED <<time, guard, lock, faults>>

\* A closing transaction locks RuntimeState and looks at the clock; what it
\* then finds is not due ends the loop, otherwise closing goes on.
BeginClosing(w) ==
  /\ pc[w]["close"] = "holding"
  /\ row = NoWorker
  /\ IF Due
     THEN /\ row' = w
          /\ readAt' = [readAt EXCEPT ![w] = now]
          /\ Goto(w, "close", "closing")
     ELSE /\ Goto(w, "close", "releasing")
          /\ UNCHANGED <<row, readAt>>
  /\ UNCHANGED <<time, guard, lock, faults>>

\* The commit: the next cycle starts when the transaction began.  The loop
\* goes on, unless the answer of the commit is lost.
EndClosing(w, next) ==
  /\ pc[w]["close"] = "closing"
  /\ closed' = closed + 1
  /\ startedAt' = readAt[w]
  /\ row' = NoWorker
  /\ Goto(w, "close", next)
  /\ UNCHANGED <<now, duration, readAt, guard, lock>>

Commit(w) == EndClosing(w, "holding") /\ UNCHANGED faults

AnswerLost(w) ==
  /\ errors < MaxErrors
  /\ errors' = errors + 1
  /\ UNCHANGED <<losses, crashes>>
  /\ EndClosing(w, "releasing")

\* Fault: a transaction that failed is not rolled back.
FailKeepingRow(w) ==
  /\ pc[w]["close"] = "closing"
  /\ errors < MaxErrors
  /\ errors' = errors + 1
  /\ \E next \in {"holding", "releasing"} : Goto(w, "close", next)
  /\ UNCHANGED <<time, row, readAt, guard, lock, losses, crashes>>

\* The transaction fails, on a conflict to be run again (executeWithRetry) or
\* for good, which ends the loop.
Fail(w) ==
  /\ pc[w]["close"] = "closing"
  /\ errors < MaxErrors
  /\ errors' = errors + 1
  /\ row' = NoWorker
  /\ \E next \in {"holding", "releasing"} : Goto(w, "close", next)
  /\ UNCHANGED <<time, readAt, guard, lock, losses, crashes>>

\* cleanupExpiredLogs.
Clean(w) ==
  /\ pc[w]["cleanup"] = "holding"
  /\ Goto(w, "cleanup", "releasing")
  /\ UNCHANGED <<time, row, readAt, guard, lock, faults>>

\* Fault: the lock stays with the session.
ReleaseGuardOnly(w, j) ==
  /\ pc[w][j] = "releasing"
  /\ guard' = [guard EXCEPT ![w] = @ \ {j}]
  /\ Goto(w, j, "idle")
  /\ UNCHANGED <<time, row, readAt, lock, faults>>

\* The finally blocks: pg_advisory_unlock, which releases nothing that the
\* session does not hold, and the guard.
Release(w, j) ==
  /\ pc[w][j] = "releasing"
  /\ lock' = IF lock[j] = w THEN [lock EXCEPT ![j] = NoWorker] ELSE lock
  /\ guard' = [guard EXCEPT ![w] = @ \ {j}]
  /\ Goto(w, j, "idle")
  /\ UNCHANGED <<time, row, readAt, faults>>

-----------------------------------------------------------------------------
(* Failures.                                                               *)

Released(w) == [j \in Jobs |-> IF lock[j] = w THEN NoWorker ELSE lock[j]]

\* The connection of the locks breaks; the client opens another for the next
\* query.  A query for a lock that was under way fails.
LoseConnection(w) ==
  /\ losses < MaxLosses
  /\ losses' = losses + 1
  /\ lock' = Released(w)
  /\ pc' = [pc EXCEPT ![w] = [j \in Jobs |-> IF @[j] = "acquiring" THEN "idle" ELSE @[j]]]
  /\ guard' = [guard EXCEPT ![w] = {j \in @ : pc[w][j] # "acquiring"}]
  /\ UNCHANGED <<time, row, readAt, errors, crashes>>

\* The process dies and is started again: PostgreSQL rolls its transaction
\* back and ends its sessions.
Crash(w) ==
  /\ crashes < MaxCrashes
  /\ crashes' = crashes + 1
  /\ row' = IF row = w THEN NoWorker ELSE row
  /\ lock' = Released(w)
  /\ pc' = [pc EXCEPT ![w] = [j \in Jobs |-> "idle"]]
  /\ guard' = [guard EXCEPT ![w] = {}]
  /\ UNCHANGED <<time, readAt, errors, losses>>

-----------------------------------------------------------------------------

\* What a worker does when nothing fails.
Work(w) ==
  \/ \E j \in Jobs : Poll(w, j) \/ Acquire(w, j) \/ Miss(w, j) \/ Release(w, j)
  \/ BeginClosing(w) \/ Commit(w) \/ Clean(w)

Next ==
  \/ Tick
  \/ \E d \in Durations : UpdateDuration(d)
  \/ \E w \in Workers : Work(w) \/ Fail(w) \/ AnswerLost(w) \/ LoseConnection(w) \/ Crash(w)

Spec == Init /\ [][Next]_vars

\* setInterval polls for ever, and promises are settled: each job of each
\* worker goes on.
FairSpec ==
  /\ Spec
  /\ \A w \in Workers :
       /\ WF_vars(BeginClosing(w) \/ Commit(w))
       /\ WF_vars(Clean(w))
       /\ \A j \in Jobs :
            WF_vars(Poll(w, j) \/ Acquire(w, j) \/ Miss(w, j) \/ Release(w, j))

-----------------------------------------------------------------------------

\* The types, and no clock of the database runs ahead.
TypeOK ==
  /\ now \in 0..MaxTime
  /\ startedAt \in 0..now
  /\ closed \in Nat
  /\ duration \in Durations
  /\ row \in Workers \cup {NoWorker}
  /\ readAt \in [Workers -> 0..now]
  /\ pc \in [Workers -> [Jobs -> Steps]]
  /\ guard \in [Workers -> SUBSET Jobs]
  /\ lock \in [Jobs -> Workers \cup {NoWorker}]
  /\ errors \in 0..MaxErrors
  /\ losses \in 0..MaxLosses
  /\ crashes \in 0..MaxCrashes

\* A lock never outlives the run it was taken for, and a worker runs a job
\* exactly while it guards its key: no failure leaves a job locked out.
LockReturned ==
  \A w \in Workers, j \in Jobs :
    /\ lock[j] = w => pc[w][j] \in {"holding", "closing", "releasing"}
    /\ j \in guard[w] <=> pc[w][j] # "idle"

\* The runs of a job exclude each other, but for one more per connection whose
\* loss its worker does not notice.
Exclusive ==
  \A j \in Jobs :
    Cardinality({w \in Workers : pc[w][j] \in {"holding", "closing", "releasing"}})
      <= 1 + losses

\* However many workers believe to hold the lock, and whatever is retried: a
\* cycle is closed once, and not before the duration that the rules in force
\* give it is over.
EachCycleLasts ==
  [][closed' # closed => /\ closed' = closed + 1
                         /\ startedAt' >= startedAt + duration]_vars

\* A cycle that is due is closed, as long as it stays due.
DueClosed ==
  \A n \in 0..MaxTime : Due /\ closed = n ~> closed > n \/ ~Due
=============================================================================
