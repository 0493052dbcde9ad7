------------------------------ MODULE RateLimits ------------------------------
(***************************************************************************)
(* How often one client may call, apps/server/src/core/rate-limit.ts: the  *)
(* API processes either refill a bucket each (InMemoryRateLimiter) or      *)
(* count together in a window of Redis (RedisRateLimiter); which, is       *)
(* decided when they start (infra/rate-limiter.ts).  The unit of time is   *)
(* that in which one call is refilled, so that tokens are whole.  The      *)
(* clock of a process may be ahead of the time, and be set back.           *)
(***************************************************************************)
EXTENDS Integers, FiniteSets, FiniteSetsExt

CONSTANTS
    ApiProcesses,
    PerMinute,      \* rateLimitPerMinute: so many units are a minute
    Burst,          \* rateLimitBurst
    Expiry,         \* the units after which Redis forgets a counter: 90 seconds
    MaxAhead,       \* no clock is further ahead,
    MaxClock,       \* the time ends here,
    MaxCalls,       \* a process is called so often in a unit,
    MaxLost         \* and so many calls are lost in Redis

VARIABLES
    time, ahead, backend,
    bucket,         \* process -> tokens and updatedAt
    admitted,       \* process -> time -> calls admitted
    counters,       \* Redis: window -> count and expiry
    counting,       \* process -> the call that waits for Redis: window and count
    within,         \* window -> calls admitted
    lost            \* window -> calls that Redis counted and nobody answered

limitVars == <<time, ahead, backend, bucket, admitted, counters, counting, within, lost>>

capacity == PerMinute + Burst

Clock(p) == time + ahead[p]

Never == -1

Windows == 0..((MaxClock + MaxAhead) \div PerMinute)

NoCall == [window |-> Never, count |-> 0]

Unused == [count |-> 0, expiresAt |-> Never]

Init ==
  /\ time = 0
  /\ backend \in {"memory", "redis"}
  /\ ahead \in [ApiProcesses -> 0..MaxAhead]
  /\ bucket = [p \in ApiProcesses |-> [tokens |-> capacity, updatedAt |-> Clock(p)]]
  /\ admitted = [p \in ApiProcesses |-> [t \in 0..MaxClock |-> 0]]
  /\ counters = [w \in Windows |-> Unused]
  /\ counting = [p \in ApiProcesses |-> NoCall]
  /\ within = [w \in Windows |-> 0]
  /\ lost = [w \in Windows |-> 0]

-----------------------------------------------------------------------------

\* What is in the bucket when a call arrives
Refilled(p) == Min({capacity, bucket[p].tokens + Max({0, Clock(p) - bucket[p].updatedAt})})

\* InMemoryRateLimiter.check
CheckBucket(p) ==
  /\ backend = "memory"
  /\ admitted[p][time] < MaxCalls
  /\ LET taken == IF Refilled(p) >= 1 THEN 1 ELSE 0
     IN  /\ bucket' = [bucket EXCEPT ![p] = [tokens |-> Refilled(p) - taken, updatedAt |-> Clock(p)]]
         /\ admitted' = [admitted EXCEPT ![p][time] = @ + taken]
  /\ UNCHANGED <<time, ahead, backend, counters, counting, within, lost>>

-----------------------------------------------------------------------------

Window(p) == Clock(p) \div PerMinute

Admits(count) == count <= capacity

\* The first half of RedisRateLimiter.check
Increment(p) ==
  LET w == Window(p)
  IN  /\ backend = "redis" /\ counting[p] = NoCall
      /\ counters[w].count <= capacity
      /\ counters' = [counters EXCEPT ![w].count = @ + 1]
      /\ counting' = [counting EXCEPT ![p] = [window |-> w, count |-> counters[w].count + 1]]
      /\ UNCHANGED <<time, ahead, backend, bucket, admitted, within, lost>>

\* Fault: the counter is forgotten while its window is open.
ExpireEarly(call) ==
  IF call.count = 1
    THEN [counters EXCEPT ![call.window].expiresAt = time + PerMinute - 1]
    ELSE counters

\* The first call of a window lets its counter expire, if it is still there.
Expire(call) ==
  IF call.count = 1 /\ counters[call.window] # Unused
    THEN [counters EXCEPT ![call.window].expiresAt = time + Expiry]
    ELSE counters

\* The second half
AnswerCall(p) ==
  LET call == counting[p]
  IN  /\ call # NoCall
      /\ counters' = Expire(call)
      /\ within' = IF Admits(call.count) THEN [within EXCEPT ![call.window] = @ + 1] ELSE within
      /\ counting' = [counting EXCEPT ![p] = NoCall]
      /\ UNCHANGED <<time, ahead, backend, bucket, admitted, lost>>

\* The process, or its connection, dies between the two.
LoseCall(p) ==
  LET call == counting[p]
  IN  /\ call # NoCall
      /\ lost[call.window] < MaxLost
      /\ lost' = [lost EXCEPT ![call.window] = @ + 1]
      /\ counting' = [counting EXCEPT ![p] = NoCall]
      /\ UNCHANGED <<time, ahead, backend, bucket, admitted, counters, within>>

-----------------------------------------------------------------------------

\* Time passes; Redis forgets the counters that expire.
Tick ==
  /\ time < MaxClock
  /\ time' = time + 1
  /\ counters' = [w \in Windows |-> IF counters[w].expiresAt = time' THEN Unused ELSE counters[w]]
  /\ UNCHANGED <<ahead, backend, bucket, admitted, counting, within, lost>>

SetBack(p) ==
  /\ ahead[p] > 0
  /\ ahead' = [ahead EXCEPT ![p] = @ - 1]
  /\ UNCHANGED <<time, backend, bucket, admitted, counters, counting, within, lost>>

Next ==
  \/ Tick
  \/ \E p \in ApiProcesses :
       \/ CheckBucket(p)
       \/ Increment(p) \/ AnswerCall(p) \/ LoseCall(p)
       \/ SetBack(p)

-----------------------------------------------------------------------------

\* Every variable has its type.
TypeOK ==
  /\ time \in 0..MaxClock
  /\ ahead \in [ApiProcesses -> 0..MaxAhead]
  /\ bucket \in [ApiProcesses -> [tokens : 0..capacity, updatedAt : 0..(MaxClock + MaxAhead)]]
  /\ admitted \in [ApiProcesses -> [0..MaxClock -> 0..MaxCalls]]
  /\ counters \in [Windows -> [count : 0..(capacity + 1), expiresAt : {Never} \cup 0..(MaxClock + Expiry)]]
  /\ counting \in [ApiProcesses -> [window : {Never} \cup Windows, count : 0..(capacity + 1)]]

Admitted(p, from, to) == MapThenSumSet(LAMBDA t : admitted[p][t], from..to)

\* What a client may still ask for: in no stretch of time more than the capacity
\* and one call a unit.
Allowance(p) ==
  Min({capacity} \cup {capacity + (time - s) - Admitted(p, s, time) : s \in 0..time})

\* A bucket holds just that allowance, although it is only touched when a call
\* comes, admitted or not.  A clock that was set back makes it wrong by at most
\* the calls of the time it was set back by.
BucketExact ==
  backend = "memory" =>
    \A p \in ApiProcesses :
      /\ Refilled(p) >= Allowance(p) - (MaxAhead - ahead[p])
      /\ Refilled(p) <= Allowance(p) + (MaxAhead - ahead[p])

\* Together the processes admit no more calls in a window than its capacity,
\* although its counter is forgotten some time, their clocks differ, and calls
\* are lost between the count and its expiry.
WindowBound == \A w \in Windows : within[w] <= capacity

\* A call is refused only when the calls of its window that were admitted, lost,
\* or are being admitted, have used it up.
RefusedJustly ==
  \A p \in ApiProcesses : counting[p] # NoCall /\ ~Admits(counting[p].count) =>
    LET w == counting[p].window
    IN  within[w] + lost[w]
          + Cardinality({q \in ApiProcesses : counting[q].window = w /\ Admits(counting[q].count)})
        >= capacity

\* Redis keeps no counter for ever but one whose first call was lost.
CountersForgotten ==
  \A w \in Windows : counters[w].count > 0 /\ counters[w].expiresAt = Never =>
    \/ lost[w] > 0
    \/ \E p \in ApiProcesses : counting[p].window = w /\ counting[p].count = 1
=============================================================================
