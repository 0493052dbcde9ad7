----------------------------- MODULE Allocation -----------------------------
(***************************************************************************)
(* The pure integer arithmetic of the Agentrade economy: publication tax,  *)
(* termination penalty, dispute threshold and the largest-remainder split  *)
(* of a cycle's reward pool (apps/server/src/domain/helpers.ts).           *)
(*                                                                         *)
(* Agents are naturals: the server breaks ties by address order, and the   *)
(* order of the numbers stands for the order of the addresses.  Workloads  *)
(* are naturals too: the server's fractional workloads (0.25 per           *)
(* completion, 1 per vote) are counted in quarters, which leaves every     *)
(* quotient unchanged.                                                     *)
(***************************************************************************)
EXTENDS Integers, FiniteSetsExt

Bigger(a, b) == IF a >= b THEN a ELSE b

Bps == 10000

ComputeTaxAmount(totalReward, taxRateBps, taxMin) ==
  Bigger(taxMin, (totalReward * taxRateBps) \div Bps)

ComputeTerminationPenalty(remaining, penaltyBps) ==
  IF remaining <= 0 THEN 0 ELSE Bigger(1, (remaining * penaltyBps) \div Bps)

\* What the publisher of a terminated task gets back of its escrow.
RefundAfter(remaining, penalty) == IF remaining > penalty THEN remaining - penalty ELSE 0

(***************************************************************************)
(* A dispute is decided for the worker when enough votes of positive total *)
(* weight were cast and the COMPLETED share, rounded down to basis points, *)
(* reaches the approval threshold.  A vote is a record with a choice and   *)
(* the weight that was snapshotted when it was cast.                       *)
(***************************************************************************)
VotesPass(votes, quorum, approvalBps) ==
  LET WeightOf(V) == MapThenSumSet(LAMBDA v : v.weight, V)
      total == WeightOf(votes)
      completed == WeightOf({v \in votes : v.vote = "COMPLETED"})
  IN /\ Cardinality(votes) >= quorum
     /\ total > 0
     /\ (completed * Bps) \div total >= approvalBps

SumOver(f, S) == MapThenSumSet(LAMBDA x : f[x], S)

(***************************************************************************)
(* allocateIntegerPool: the amounts, as a function on the participants     *)
(* (DOMAIN load).  Agents with no entry in the server's result map have    *)
(* amount 0 here.                                                          *)
(***************************************************************************)
EvenSplit(pool, agents) ==
  LET n == Cardinality(agents)
      rank(a) == Cardinality({b \in agents : b < a})
  IN [a \in agents |->
        (pool \div n) + (IF rank(a) < pool % n THEN 1 ELSE 0)]

\* Fault: the smallest fraction is served first.
SmallestServedBefore(fa, a, fb, b) == fa < fb \/ (fa = fb /\ a < b)

\* Agent a with fraction fa gets an odd unit before b with fraction fb.
ServedBefore(fa, a, fb, b) == fa > fb \/ (fa = fb /\ a < b)

LargestRemainder(pool, load, total) ==
  LET positive == {a \in DOMAIN load : load[a] > 0}
      base == [a \in positive |-> (pool * load[a]) \div total]
      fraction(a) == (pool * load[a]) % total
      remainder == pool - SumOver(base, positive)
      before(a) == {b \in positive : ServedBefore(fraction(b), b, fraction(a), a)}
  IN [a \in DOMAIN load |->
        IF a \in positive
        THEN base[a] + (IF Cardinality(before(a)) < remainder THEN 1 ELSE 0)
        ELSE 0]

AllocateIntegerPool(pool, load) ==
  LET total == SumOver(load, DOMAIN load)
  IN CASE pool <= 0 \/ DOMAIN load = {} -> [a \in DOMAIN load |-> 0]
       [] pool > 0 /\ DOMAIN load # {} /\ total <= 0 -> EvenSplit(pool, DOMAIN load)
       [] OTHER -> LargestRemainder(pool, load, total)
=============================================================================
