------------------------------ MODULE MCRules ------------------------------
(***************************************************************************)
(* What an API process either shares with others or keeps itself, for TLC: *)
(* the rules, in the database or, without a repository, in memory          *)
(* (updateRuntimeSettings and resetRuntimeSettings in                      *)
(* apps/server/src/app.ts ask for it at every call); and the limits of     *)
(* calls, which share no state with them.  A process never changes from    *)
(* one to the other.  Requests are interchangeable, and so are the         *)
(* processes they run in.                                                  *)
(***************************************************************************)
EXTENDS RuntimeRules, TLC

CONSTANTS ApiProcesses, PerMinute, Burst, Expiry, MaxAhead, MaxClock, MaxCalls, MaxLost

\* Redis keeps a counter for longer than its window is open on any clock.
ASSUME LimitsAssumption ==
  /\ IsFiniteSet(ApiProcesses)
  /\ PerMinute \in Nat \ {0} /\ Burst \in Nat /\ Expiry \in Nat
  /\ MaxAhead \in Nat /\ MaxClock \in Nat /\ MaxCalls \in Nat /\ MaxLost \in Nat
  /\ PerMinute + MaxAhead <= Expiry

VARIABLES
  area,               \* rules with a database, without one, or limits
  runtimeSettings,    \* without a database: the settings,
  engineConfig,       \* the configuration of the engine,
  engineMinted,       \* and the mint of its open cycle
  time, ahead, backend, bucket, admitted, counters, counting, within, lost

memoryVars == <<runtimeSettings, engineConfig, engineMinted>>
limitVars == <<time, ahead, backend, bucket, admitted, counters, counting, within, lost>>

Memory == INSTANCE MemoryRules
            WITH state <- runtimeSettings, config <- engineConfig, minted <- engineMinted

Limiting == INSTANCE RateLimits

\* What an area is about varies, the others stay at one of their initial states.
BackendInit ==
  /\ area \in {"stored", "memory", "limits"}
  /\ Init
  /\ Memory!Init
  /\ Limiting!Init
  /\ \A p \in ApiProcesses \ {1} : ahead[p] <= ahead[1]
  /\ area # "limits" => backend = "redis" /\ \A p \in ApiProcesses : ahead[p] = 0

Stored == area = "stored" /\ Next /\ UNCHANGED <<memoryVars, limitVars>>

InMemory == area = "memory" /\ Memory!Next /\ UNCHANGED <<vars, limitVars>>

\* Processes that count in memory have nothing in common: the first stands for all.
OneBucket ==
  backend = "memory" =>
    \A p \in ApiProcesses \ {1} : ahead[p] = 0 /\ bucket'[p] = bucket[p]

Limits == area = "limits" /\ Limiting!Next /\ OneBucket /\ UNCHANGED <<vars, memoryVars>>

BackendSpec ==
  BackendInit
    /\ [][(Stored \/ InMemory \/ Limits) /\ UNCHANGED area]_<<vars, memoryVars, limitVars, area>>

Symmetry == Permutations(Requests) \cup Permutations(Processes)

-----------------------------------------------------------------------------

\* Without a database, too, the open cycle mints what the rules in force say, and
\* the engine works with the weights in force unless setRuntimeSettingsState refused
\* them after it had installed them, although the cycle, the settings and the
\* configuration are assigned at different places of handlers that may throw in
\* between.
MemoryRulesKept ==
  area = "memory" => Memory!TypeOK /\ Memory!MintFollows /\ Memory!ConfigFollows

\* A bucket holds what the calls so far have left of the rate; no window of Redis
\* admits more than its capacity, and none refuses a call before it is used up; and
\* Redis forgets every counter but one whose first call was lost.
LimitsKept ==
  area = "limits" =>
    /\ Limiting!TypeOK
    /\ Limiting!BucketExact
    /\ Limiting!WindowBound
    /\ Limiting!RefusedJustly
    /\ Limiting!CountersForgotten
=============================================================================
