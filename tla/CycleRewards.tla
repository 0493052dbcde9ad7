---------------------------- MODULE CycleRewards ----------------------------
(***************************************************************************)
(* The reward pool of one open cycle and the workload recorded in it, and  *)
(* what allocateIntegerPool (apps/server/src/domain/helpers.ts) makes of   *)
(* them: the loop of the code, its arithmetic included, beside the closed  *)
(* form of module Allocation that the settlement uses.                     *)
(***************************************************************************)
EXTENDS Allocation, SequencesExt

CONSTANTS
  Agents,       \* naturals, in the order of the addresses
  MintPerCycle, \* what the pool starts with
  Fees,         \* taxes and penalties that may be added to it
  Workloads,    \* workloads of one row, in quarters
  MaxPool, MaxLoad,  \* bounds
  Precision     \* significant bits of a number

ASSUME RewardsAssumption ==
  /\ Agents \subseteq Nat
  /\ MintPerCycle \in Nat
  /\ Fees \subseteq Nat \ {0}
  /\ Workloads \subseteq Nat
  /\ Precision \in Nat \ 0..20

VARIABLES pool, load

vars == <<pool, load>>

Init ==
  /\ pool = MintPerCycle
  /\ load = [a \in {} |-> 0]

\* publishTask and terminateTask feed the pool.
CollectFee(n) ==
  /\ pool + n <= MaxPool
  /\ pool' = pool + n
  /\ UNCHANGED load

\* A workload row of agent a; the rows of an agent are added up.
RecordWorkload(a, w) ==
  LET before == IF a \in DOMAIN load THEN load[a] ELSE 0
  IN /\ before + w <= MaxLoad
     /\ load' = [b \in DOMAIN load \cup {a} |-> IF b = a THEN before + w ELSE load[b]]
     /\ UNCHANGED pool

Next ==
  \/ \E n \in Fees : CollectFee(n)
  \/ \E a \in Agents, w \in Workloads : RecordWorkload(a, w)

Spec == Init /\ [][Next]_vars

-----------------------------------------------------------------------------
(***************************************************************************)
(* The server divides pool * workload by the total in binary numbers of    *)
(* Precision significant bits: the quotient is rounded to the nearest of   *)
(* them, to the even one of two nearest.  RoundingError is the difference  *)
(* it makes, multiplied by the divisor and by 2^(Precision + 9); it is far *)
(* smaller than the distance between two different fractions of a divisor, *)
(* so it matters only between equal ones.                                  *)
(***************************************************************************)
PowerOfTwoMod(k, m) ==
  LET power[i \in Nat] == IF i = 0 THEN 1 % m ELSE (2 * power[i - 1]) % m
  IN power[k]

\* n / d lies between 2^Exponent and its double.
Exponent(n, d) ==
  CHOOSE j \in -10..10 : IF j >= 0 THEN d * 2^j <= n /\ n < d * 2^(j + 1)
                                   ELSE d <= n * 2^(-j) /\ n * 2^(-j) < 2 * d

RoundingError(n, d) ==
  LET j == Exponent(n, d)
      r == (n * PowerOfTwoMod(Precision - 1 - j, 2 * d)) % (2 * d)
      below == r % d
      up == 2 * below > d \/ (2 * below = d /\ r >= d)
  IN (IF up THEN d - below ELSE -below) * 2^(j + 10)

(***************************************************************************)
(* The loop of allocateIntegerPool for a pool and a total above 0: the     *)
(* agents with workload, sorted by falling fraction (the errors are part   *)
(* of the fractions) and then by address, get one more unit each until the *)
(* remainder is gone.                                                      *)
(***************************************************************************)
HandOut(p, positive, base, fraction, error) ==
  LET before(a, b) ==
        \/ fraction[a] > fraction[b]
        \/ fraction[a] = fraction[b] /\ error[a] > error[b]
        \/ fraction[a] = fraction[b] /\ error[a] = error[b] /\ a < b
      order == SetToSortSeq(positive, before)
      give[i \in Nat] ==       \* the amounts after i more units
        IF i = 0 THEN base
        ELSE [give[i - 1] EXCEPT ![order[((i - 1) % Len(order)) + 1]] = @ + 1]
  IN give[p - SumOver(base, positive)]

PositiveOf(l) == {a \in DOMAIN l : l[a] > 0}

LoopWith(p, l, error) ==
  LET total == SumOver(l, DOMAIN l)
      given == HandOut(p, PositiveOf(l),
                       [a \in PositiveOf(l) |-> (p * l[a]) \div total],
                       [a \in PositiveOf(l) |-> (p * l[a]) % total],
                       error)
  IN [a \in DOMAIN l |-> IF a \in PositiveOf(l) THEN given[a] ELSE 0]

\* With exact quotients, and with those of the server.
LoopAllocation(p, l) == LoopWith(p, l, [a \in PositiveOf(l) |-> 0])

NumberAllocation(p, l) ==
  LET total == SumOver(l, DOMAIN l)
  IN LoopWith(p, l, [a \in PositiveOf(l) |-> RoundingError(p * l[a], total)])

Shared(l) == SumOver(l, DOMAIN l) > 0

-----------------------------------------------------------------------------
(* What the split has to satisfy in every state a cycle can be closed in.  *)

Amounts == AllocateIntegerPool(pool, load)

\* The split in exact quotients and, where there is one, in rounded ones.
Splits ==
  {Amounts} \cup (IF Shared(load) /\ pool > 0 THEN {NumberAllocation(pool, load)} ELSE {})

TypeOK ==
  /\ pool \in MintPerCycle..MaxPool
  /\ DOMAIN load \subseteq Agents
  /\ \A a \in DOMAIN load : load[a] \in 0..MaxLoad

\* The whole pool is handed out, to the last unit, as soon as somebody took
\* part in the cycle.
PoolExhausted ==
  pool > 0 /\ DOMAIN load # {} =>
    \A amounts \in Splits : SumOver(amounts, DOMAIN load) = pool

\* Nobody gets less than the whole units of their share, nor more than one
\* unit above them; whoever did nothing gets nothing while others worked.  The
\* rounding of the quotients moves no unit further than that.
QuotaKept ==
  Shared(load) =>
    LET total == SumOver(load, DOMAIN load)
    IN \A amounts \in Splits, a \in DOMAIN load :
         /\ amounts[a] * total > pool * load[a] - total
         /\ amounts[a] * total < pool * load[a] + total

\* More work never earns less, and of two with equal work the first address
\* gets the odd unit.
SplitOrdered ==
  \A amounts \in Splits, a, b \in DOMAIN load :
    \/ load[a] > load[b]
    \/ load[a] = load[b] /\ a < b
    => amounts[a] >= amounts[b]

\* The closed form is what the loop computes.
LoopAgrees == Shared(load) /\ pool > 0 => Amounts = LoopAllocation(pool, load)

\* Recording work of one agent never lowers that agent's own share.
WorkPays ==
  [][\A a \in DOMAIN load :
       pool' = pool /\ load'[a] > load[a]
         => AllocateIntegerPool(pool', load')[a] >= Amounts[a]]_vars

\* The split is exact and fair, whatever pool and workload a cycle closes with.
PoolSplit == []TypeOK /\ [](PoolExhausted /\ QuotaKept /\ SplitOrdered /\ LoopAgrees) /\ WorkPays

=============================================================================
