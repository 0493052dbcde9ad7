--------------------------- MODULE TableInvariants --------------------------
(***************************************************************************)
(* What has to be true of the marketplace's tables, whoever writes them:   *)
(* the transactions of the repository (SettlementProperties) or the        *)
(* methods of the in-memory engine (EngineProperties).                     *)
(***************************************************************************)
EXTENDS Marketplace

Tables == [task : [Tasks -> TaskRow], sub : [Subs -> SubRow],
           disp : [Disps -> DispRow], ban : [Agents -> BanRow],
           avail : [Agents -> Int], cycle : [Cycles -> CycleRow],
           active : Cycles, work : SUBSET WorkRow]

\* Escrow is counted in rewards, and a task is active while one is left.
EscrowBacked(d) ==
  \A t \in Existing(d.task) :
    LET row == d.task[t]
    IN /\ \E k \in 0..row.slots : row.escrow = k * row.reward
       /\ row.status \in ActiveTask <=> row.escrow > 0

\* completedAgents lists the agents of the completed submissions.
CompletionsRecorded(d) ==
  \A t \in Tasks :
    d.task[t].completed = {d.sub[s].agent : s \in {s \in Subs :
                             d.sub[s].status \in CompletedSub /\ d.sub[s].task = t}}

\* One WORKER row per completion, unless a completion earns nothing, and one VOTE
\* row per vote that counts.
WorkEarned(d) ==
  /\ \A s \in Subs :
       Cardinality({r \in d.work : r.kind = "WORKER" /\ r.sub = s})
         = IF d.sub[s].status \in CompletedSub /\ WorkerWorkload > 0 THEN 1 ELSE 0
  /\ \A x \in Disps :
       LET rows == {r \in d.work : r.kind = "VOTE" /\ r.disp = x}
       IN /\ {<<r.agent, r.cycle>> : r \in rows} = {<<v.agent, v.cycle>> : v \in d.disp[x].votes}
          /\ Cardinality(rows) = Cardinality(d.disp[x].votes)

\* Without repeats an agent is paid out of a task's escrow once.
PaidOnce(d) ==
  \A s, o \in Subs :
    /\ s # o
    /\ d.sub[s].status = "CONFIRMED"
    /\ d.sub[o].status = "CONFIRMED"
    /\ d.sub[s].task = d.sub[o].task
    /\ d.sub[s].agent = d.sub[o].agent
    => TaskOf(d, s).repeat

\* Everything that is somewhere and was not minted: balances, escrows and the
\* part of the cycles' pools that settlement has not credited yet.
Holdings(d) ==
  SumOver(d.avail, Agents)
    + SumOver([t \in Tasks |-> d.task[t].escrow], Tasks)
    + SumOver([c \in Cycles |-> d.cycle[c].tax + d.cycle[c].penalty - d.cycle[c].credited], Cycles)

\* AGC only moves; what is new is what a cycle mints.
Conserved(d) == Holdings(d) = Cardinality(Agents) * InitialAgentBalance

\* Nobody is in debt and no cycle has paid out more than its pool.
Solvent(d) ==
  /\ \A a \in Agents : d.avail[a] >= 0
  /\ \A c \in Cycles : d.cycle[c].credited <= RewardPool(d.cycle[c])

\* The tasks a reopened dispute gives back are still as its resolution and the
\* sweeps it caused left them.
UntouchedSince(d, x) ==
  LET snap == d.disp[x].snap
      row == d.task[DispTask(d, x)]
      paid == IF d.disp[x].source = "ESCROW" THEN row.reward ELSE 0
  IN /\ d.disp[x].status = "RESOLVED_COMPLETED" => row.escrow = snap.escrow - paid
     /\ \A i \in DOMAIN snap.forced :
          /\ d.task[snap.forced[i].task].status = "TERMINATED"
          /\ snap.forced[i].task # DispTask(d, x)
=============================================================================
