----------------------------- MODULE Marketplace ----------------------------
(***************************************************************************)
(* The tables of the marketplace and what each repository helper does to   *)
(* them (apps/server/src/infra/state-repository.ts).                       *)
(*                                                                         *)
(* A database d is a record with one field per table.  Every operator      *)
(* below that ends a LET in [d EXCEPT ...] is one ...WithTx helper of the  *)
(* repository: it maps the tables a transaction sees to the tables it      *)
(* leaves.  The module has no variables; Settlement turns the helpers into *)
(* transactions.                                                           *)
(*                                                                         *)
(* Row ids are naturals handed out in creation order, so the order of ids  *)
(* is the createdAt order of the rows.  A row that does not exist yet has  *)
(* status "NONE".  Left out of the rows: texts, timestamps, reputation and *)
(* the lifecycle counters of a profile.                                    *)
(***************************************************************************)
EXTENDS Integers, Sequences, FiniteSets, Allocation

CONSTANTS
  Agents,                \* addresses, naturals above 0
  Tasks, Subs, Disps,    \* ids that can be handed out, naturals above 0
  Cycles,                \* cycle numbers 1..n
  InitialAgentBalance, MintPerCycle,
  TaxRateBps, TaxMin, TerminationPenaltyBps,
  PublisherWorkload, WorkerWorkload, VoteWorkload,
  DisputeQuorum, DisputeApprovalBps

ASSUME IdsAssumption ==
  /\ Agents \subseteq Nat \ {0}
  /\ Tasks \subseteq Nat \ {0}
  /\ Subs \subseteq Nat \ {0}
  /\ Disps \subseteq Nat \ {0}
  /\ Cycles \subseteq Nat \ {0}
  /\ 1 \in Cycles

\* What is added up over these is a sum of finitely many amounts.
ASSUME FiniteAssumption == IsFiniteSet(Agents) /\ IsFiniteSet(Tasks) /\ IsFiniteSet(Cycles)

ASSUME RulesAssumption ==
  /\ InitialAgentBalance \in Nat
  /\ MintPerCycle \in Nat
  /\ TaxRateBps \in 0..Bps
  /\ TaxMin \in Nat
  /\ TerminationPenaltyBps \in 0..Bps
  /\ PublisherWorkload \in Nat
  /\ WorkerWorkload \in Nat
  /\ VoteWorkload \in Nat \ {0}
  /\ DisputeQuorum \in Nat \ {0}
  /\ DisputeApprovalBps \in 0..Bps

NoOne == 0          \* no agent
NoTask == 0         \* no task
NoSub == 0          \* no submission
NoDispute == 0      \* a null disputeId

-----------------------------------------------------------------------------
(* The tables.                                                             *)

TaskStatus == {"NONE", "OPEN", "IN_PROGRESS", "CLOSED", "TERMINATED"}
SubStatus == {"NONE", "SUBMITTED", "CONFIRMED", "REJECTED", "DISPUTE_COMPLETED"}
DispStatus == {"NONE", "OPEN", "RESOLVED_COMPLETED"}
PayoutSource == {"NONE", "ESCROW", "PUBLISHER_WALLET", "PUBLISHER_WALLET_PARTIAL"}
BanReason == {"NONE", "DISPUTE_INSOLVENCY", "REOPEN_NEGATIVE_BALANCE"}

ActiveTask == {"OPEN", "IN_PROGRESS"}
CompletedSub == {"CONFIRMED", "DISPUTE_COMPLETED"}

TaskRow == [status : TaskStatus, publisher : Agents \cup {NoOne},
            slots : Nat, reward : Nat, repeat : BOOLEAN, escrow : Int,
            intents : SUBSET Agents, completed : SUBSET Agents]

SubRow == [status : SubStatus, task : Tasks \cup {NoTask},
           agent : Agents \cup {NoOne}]

VoteRow == [agent : Agents, vote : {"COMPLETED", "NOT_COMPLETED"},
            weight : Nat, cycle : Cycles]

\* One forcedTerminations entry of a resolution rollback snapshot.
ForcedRow == [task : Tasks, cycle : Cycles, status : TaskStatus,
              escrow : Int, penalty : Int, refund : Int]

\* source, payout: the resolution metadata; snap: the rollback snapshot, that
\* counts only while source is not "NONE"; history: the rollback history.
SnapRow == [status : TaskStatus, escrow : Int, wasBanned : BOOLEAN,
            banSource : Disps \cup {NoDispute}, forced : Seq(ForcedRow)]

HistoryRow == [exists : BOOLEAN, cycles : SUBSET Cycles, agents : SUBSET Agents]

DispRow == [status : DispStatus, sub : Subs \cup {NoSub}, votes : SUBSET VoteRow,
            source : PayoutSource, payout : Int, snap : SnapRow,
            history : HistoryRow]

BanRow == [status : {"ACTIVE", "BANNED"}, reason : BanReason,
           source : Disps \cup {NoDispute}]

\* credited is what settlement and reconciliation have credited for the cycle.
CycleRow == [status : {"NONE", "OPEN", "CLOSED"}, minted : Nat,
             tax : Int, penalty : Int, credited : Int]

WorkRow == [cycle : Cycles, agent : Agents,
            kind : {"PUBLISHER", "WORKER", "VOTE"},
            disp : Disps \cup {NoDispute}, sub : Subs \cup {NoSub}]

NoSnap == [status |-> "NONE", escrow |-> 0, wasBanned |-> FALSE,
           banSource |-> NoDispute, forced |-> <<>>]
NoHistory == [exists |-> FALSE, cycles |-> {}, agents |-> {}]
NoBan == [status |-> "ACTIVE", reason |-> "NONE", source |-> NoDispute]

EmptyTables ==
  [task |-> [t \in Tasks |->
               [status |-> "NONE", publisher |-> NoOne, slots |-> 0, reward |-> 0,
                repeat |-> FALSE, escrow |-> 0, intents |-> {}, completed |-> {}]],
   sub |-> [s \in Subs |-> [status |-> "NONE", task |-> NoTask, agent |-> NoOne]],
   disp |-> [x \in Disps |->
               [status |-> "NONE", sub |-> NoSub, votes |-> {}, source |-> "NONE",
                payout |-> 0, snap |-> NoSnap, history |-> NoHistory]],
   ban |-> [a \in Agents |-> NoBan],
   avail |-> [a \in Agents |-> InitialAgentBalance],
   cycle |-> [c \in Cycles |->
               [status |-> IF c = 1 THEN "OPEN" ELSE "NONE",
                minted |-> IF c = 1 THEN MintPerCycle ELSE 0,
                tax |-> 0, penalty |-> 0, credited |-> 0]],
   active |-> 1,
   work |-> {}]

-----------------------------------------------------------------------------
(* Reading the tables.                                                     *)

Existing(rows) == {i \in DOMAIN rows : rows[i].status # "NONE"}
NextId(rows, i) == i \notin Existing(rows) /\ \A j \in DOMAIN rows : j < i => j \in Existing(rows)

Banned(d, a) == d.ban[a].status = "BANNED"

ConfirmedSlots(row) == (row.slots * row.reward - row.escrow) \div row.reward

HasPayableSlot(row) ==
  /\ ConfirmedSlots(row) < row.slots
  /\ row.escrow >= row.reward

TaskOf(d, s) == d.task[d.sub[s].task]
DispTask(d, x) == d.sub[d.disp[x].sub].task
DispPublisher(d, x) == d.task[DispTask(d, x)].publisher
DispWorker(d, x) == d.sub[d.disp[x].sub].agent

\* Fault: the wrong status.
ResolvedDisputeOnSub(d, s) ==
  \E x \in Disps : d.disp[x].status = "RESOLVED_COMPLETED" /\ d.disp[x].sub = s

OpenDisputeOnSub(d, s) ==
  \E x \in Disps : d.disp[x].status = "OPEN" /\ d.disp[x].sub = s

OpenDisputeOnTask(d, t) ==
  \E x \in Disps : d.disp[x].status = "OPEN" /\ DispTask(d, x) = t
SubmittedOnTask(d, t) ==
  \E s \in Subs : d.sub[s].status = "SUBMITTED" /\ d.sub[s].task = t

\* isTaskCleanForForcedTermination, for a task that is still active.
ActiveClean(d, t) ==
  /\ d.task[t].status \in ActiveTask
  /\ ~SubmittedOnTask(d, t)
  /\ ~OpenDisputeOnTask(d, t)

RepeatBlocked(d, s) ==
  /\ ~TaskOf(d, s).repeat
  /\ d.sub[s].agent \in TaskOf(d, s).completed

WorkloadOf(row) == CASE row.kind = "PUBLISHER" -> PublisherWorkload
                     [] row.kind = "WORKER" -> WorkerWorkload
                     [] row.kind = "VOTE" -> VoteWorkload

\* recordCycleWorkload skips a workload that is not positive.
Recorded(rows) == {r \in rows : WorkloadOf(r) > 0}

\* The reward split of cycle c that the workload rows and the pool imply.
CycleLoad(d, c) ==
  LET rows == {r \in d.work : r.cycle = c}
      workload == [r \in rows |-> WorkloadOf(r)]
  IN [a \in {r.agent : r \in rows} |->
        SumOver(workload, {r \in rows : r.agent = a})]

Distribution(d, c, pool) ==
  LET amount == AllocateIntegerPool(pool, CycleLoad(d, c))
  IN [a \in Agents |-> IF a \in DOMAIN amount THEN amount[a] ELSE 0]

RewardPool(row) == row.minted + row.tax + row.penalty

-----------------------------------------------------------------------------
(* Completion out of the task's escrow.                                    *)

\* The workload rows of a completion; the publisher earns none when a dispute
\* overturned its rejection.
CompletionWork(d, s, x) ==
  LET row(agent, kind) == [cycle |-> d.active, agent |-> agent, kind |-> kind,
                           disp |-> x, sub |-> s]
  IN Recorded({row(d.sub[s].agent, "WORKER")}
              \cup IF x = NoDispute
                   THEN {row(TaskOf(d, s).publisher, "PUBLISHER")} ELSE {})

\* confirmSubmissionInternalWithTx and settleConfirmedSubmissionWithTx.
ConfirmInternal(d, s, x) ==
  LET t == d.sub[s].task
      row == d.task[t]
      paid == [row EXCEPT !.escrow = @ - row.reward,
                          !.completed = @ \cup {d.sub[s].agent}]
  IN [d EXCEPT
        !.sub[s].status = "CONFIRMED",
        !.task[t] = [paid EXCEPT !.status =
                       IF ConfirmedSlots(paid) >= paid.slots THEN "CLOSED" ELSE @],
        !.avail[d.sub[s].agent] = @ + row.reward,
        !.work = @ \cup CompletionWork(d, s, x)]

\* Fault: a rejected submission can no longer be confirmed.
ConfirmThrowsUnlessPending(d, s) ==
  d.sub[s].status # "SUBMITTED" \/ RepeatBlocked(d, s)

\* The conditions under which confirmSubmissionInternalWithTx throws although
\* the task still has a payable slot.
ConfirmThrows(d, s) ==
  \/ d.sub[s].status \notin {"SUBMITTED", "REJECTED"}
  \/ RepeatBlocked(d, s)

-----------------------------------------------------------------------------
(* Termination and bans.                                                   *)

\* terminateTaskInternalWithTx, with the rollback record that the sweep of a
\* banned publisher appends to the dispute x that caused the ban (NoDispute
\* when there is none; a dispute without a snapshot keeps nothing).
TerminateInternal(d, t, x) ==
  LET row == d.task[t]
      penalty == ComputeTerminationPenalty(row.escrow, TerminationPenaltyBps)
      refund == RefundAfter(row.escrow, penalty)
      entry == [task |-> t, cycle |-> d.active, status |-> row.status,
                escrow |-> row.escrow, penalty |-> penalty, refund |-> refund]
  IN [d EXCEPT
        !.avail[row.publisher] = @ + refund,
        !.cycle[d.active].penalty = @ + penalty,
        !.task[t] = [row EXCEPT !.escrow = 0, !.status = "TERMINATED"],
        !.disp = [y \in Disps |->
                    IF y = x /\ d.disp[y].source # "NONE"
                    THEN [d.disp[y] EXCEPT !.snap.forced = Append(@, entry)]
                    ELSE d.disp[y]]]

\* sweepBannedPublisherCleanTasksWithTx terminates these, one at a time.
SweepTargets(d) ==
  {t \in Tasks : ActiveClean(d, t) /\ Banned(d, d.task[t].publisher)}

SweepOne(d, t) == TerminateInternal(d, t, d.ban[d.task[t].publisher].source)

\* banAgentWithTx: a ban that already exists only gains what it lacks.
BanRowAfter(old, reason, source) ==
  CASE old.status = "ACTIVE" ->
         [status |-> "BANNED", reason |-> reason, source |-> source]
    [] old.status = "BANNED"
         /\ (old.reason = "NONE" \/ (source # NoDispute /\ old.source = NoDispute)) ->
         [old EXCEPT !.reason = IF @ = "NONE" THEN reason ELSE @,
                     !.source = IF source # NoDispute THEN source ELSE @]
    [] OTHER -> old

BanAgents(d, A, reason, source) ==
  [d EXCEPT !.ban = [a \in Agents |->
     IF a \in A THEN BanRowAfter(d.ban[a], reason, source) ELSE d.ban[a]]]

-----------------------------------------------------------------------------
(* Resolution of a dispute as completed.                                   *)

SnapshotBefore(d, x) ==
  LET row == d.task[DispTask(d, x)]
      ban == d.ban[row.publisher]
  IN [status |-> row.status, escrow |-> row.escrow,
      wasBanned |-> ban.status = "BANNED", banSource |-> ban.source,
      forced |-> <<>>]

ResolveFromEscrow(d, x) ==
  [ConfirmInternal(d, d.disp[x].sub, x) EXCEPT
     !.disp[x] = [@ EXCEPT !.source = "ESCROW",
                           !.payout = d.task[DispTask(d, x)].reward,
                           !.snap = SnapshotBefore(d, x)]]

\* Fault: the reward is paid whatever the wallet holds.
WalletPayoutInFull(d, x) == d.task[DispTask(d, x)].reward

WalletPayout(d, x) ==
  LET reward == d.task[DispTask(d, x)].reward
      available == d.avail[DispPublisher(d, x)]
  IN IF available <= 0 THEN 0 ELSE IF available < reward THEN available ELSE reward

Insolvent(d, x) == WalletPayout(d, x) < d.task[DispTask(d, x)].reward

\* resolveCompletedDisputeFromPublisherWalletWithTx up to its sweep, which
\* Settlement runs as the next step of the same transaction.
ResolveFromWallet(d, x) ==
  LET s == d.disp[x].sub
      t == DispTask(d, x)
      row == d.task[t]
      paid == WalletPayout(d, x)
      settled == [d EXCEPT
        !.avail[row.publisher] = @ - paid,
        !.avail[d.sub[s].agent] = @ + paid,
        !.sub[s].status = "DISPUTE_COMPLETED",
        !.task[t] = [row EXCEPT !.completed = @ \cup {d.sub[s].agent},
                                !.status = IF HasPayableSlot(row) THEN @ ELSE "CLOSED"],
        !.work = @ \cup CompletionWork(d, s, x),
        !.disp[x] = [@ EXCEPT
          !.source = IF Insolvent(d, x) THEN "PUBLISHER_WALLET_PARTIAL"
                                        ELSE "PUBLISHER_WALLET",
          !.payout = paid,
          !.snap = SnapshotBefore(d, x)]]
  IN IF Insolvent(d, x)
     THEN BanAgents(settled, {row.publisher}, "DISPUTE_INSOLVENCY", x)
     ELSE settled

\* The three ways finalizeDisputeWithOutcomeWithTx can go.
AlreadyCompleted(d, x) == d.sub[d.disp[x].sub].status \in CompletedSub
PaysFromEscrow(d, x) == ~AlreadyCompleted(d, x) /\ HasPayableSlot(TaskOf(d, d.disp[x].sub))
PaysFromWallet(d, x) == ~AlreadyCompleted(d, x) /\ ~HasPayableSlot(TaskOf(d, d.disp[x].sub))

FinalizeThrows(d, x) == PaysFromEscrow(d, x) /\ ConfirmThrows(d, d.disp[x].sub)

FinalizeCompleted(d, x) ==
  LET e == [d EXCEPT !.disp[x].status = "RESOLVED_COMPLETED"]
  IN CASE PaysFromEscrow(d, x) -> ResolveFromEscrow(e, x)
       [] PaysFromWallet(d, x) -> ResolveFromWallet(e, x)
       [] OTHER -> e

\* Fault: only the publisher is looked at.
NegativePublisher(d, x) == {a \in {DispPublisher(d, x)} : d.avail[a] < 0}

\* Whom banNegativeBalanceAgentsAffectedByReopenedDisputeSettlementWithTx bans.
NegativeAffected(d, x) ==
  LET h == d.disp[x].history
      affected == {DispWorker(d, x), DispPublisher(d, x)} \cup h.agents
                  \cup {r.agent : r \in {w \in d.work : w.cycle \in h.cycles}}
  IN {a \in affected : d.avail[a] < 0}

HasActiveTask(d, A) ==
  \E t \in Tasks : d.task[t].status \in ActiveTask /\ d.task[t].publisher \in A

-----------------------------------------------------------------------------
(* Reopening a dispute (override NOT_COMPLETED).                           *)

DisputeWork(d, x) == {r \in d.work : r.disp = x}

ForcedCycles(d, x) ==
  LET forced == d.disp[x].snap.forced
  IN {forced[i].cycle : i \in DOMAIN forced}

\* The cycles whose reward split the dispute has touched.
AffectedCycles(d, x) ==
  {v.cycle : v \in d.disp[x].votes} \cup {r.cycle : r \in DisputeWork(d, x)}
  \cup ForcedCycles(d, x)

\* appendDisputeRollbackHistoryWithTx, reduced to the cycles and agents that
\* the next settlement of the dispute reads back.
ArchiveRound(d, x) ==
  LET row == d.disp[x]
      anything == row.source # "NONE" \/ row.votes # {} \/ DisputeWork(d, x) # {}
  IN IF ~anything THEN d
     ELSE [d EXCEPT !.disp[x].history =
             [exists |-> TRUE,
              cycles |-> @.cycles \cup AffectedCycles(d, x),
              agents |-> @.agents \cup {r.agent : r \in DisputeWork(d, x)}]]

\* Fault: a submission that was not completed counts.
OtherSubmission(d, s) ==
  \E o \in Subs \ {s} : /\ d.sub[o].task = d.sub[s].task
                        /\ d.sub[o].agent = d.sub[s].agent

\* Whether the agent of submission s has another completed one on the task.
OtherCompletion(d, s) ==
  \E o \in Subs \ {s} : /\ d.sub[o].task = d.sub[s].task
                        /\ d.sub[o].agent = d.sub[s].agent
                        /\ d.sub[o].status \in CompletedSub

\* rollbackResolvedCompletedDisputeWithTx up to the forced terminations: the
\* task row gets back the status and the escrow it had before the resolution.
RollbackResolution(d, x) ==
  LET s == d.disp[x].sub
      t == DispTask(d, x)
      row == d.task[t]
      worker == d.sub[s].agent
      disp == d.disp[x]
      hasSnap == disp.source # "NONE"
      payout == CASE hasSnap -> disp.payout
                  [] ~hasSnap /\ d.sub[s].status = "CONFIRMED" -> row.reward
                  [] OTHER -> 0
  IN [d EXCEPT
        !.sub[s].status = "REJECTED",
        !.task[t] = [row EXCEPT
          !.escrow = IF hasSnap THEN disp.snap.escrow ELSE @,
          !.status = IF hasSnap THEN disp.snap.status ELSE "IN_PROGRESS",
          !.completed = IF OtherCompletion(d, s) THEN @ ELSE @ \ {worker}],
        !.avail[worker] = @ - payout,
        !.avail[row.publisher] = IF disp.source \in {"NONE", "ESCROW"}
                                 THEN @ ELSE @ + payout,
        !.work = @ \ {r \in DisputeWork(d, x) : r.kind = "WORKER"}]

\* Fault: the penalty stays in the pool.
RollbackForcedKeepingPenalty(d, entry) ==
  [d EXCEPT
     !.avail[d.task[entry.task].publisher] = @ - entry.refund,
     !.task[entry.task] = [@ EXCEPT !.escrow = entry.escrow, !.status = entry.status]]

\* rollbackForcedTerminationWithTx.
RollbackForced(d, entry) ==
  [d EXCEPT
     !.avail[d.task[entry.task].publisher] = @ - entry.refund,
     !.cycle[entry.cycle].penalty = @ - entry.penalty,
     !.task[entry.task] = [@ EXCEPT !.escrow = entry.escrow, !.status = entry.status]]

\* findAlternateBanSourceDisputeIdWithTx returns the least recently updated
\* of these.
AlternateBanSources(d, x) ==
  {y \in Disps \ {x} : /\ d.disp[y].status = "RESOLVED_COMPLETED"
                       /\ d.disp[y].source = "PUBLISHER_WALLET_PARTIAL"
                       /\ DispPublisher(d, y) = DispPublisher(d, x)}

\* restorePublisherBanStateWithTx, alt being the alternate ban source or
\* NoDispute.
RestoreBan(d, x, alt) ==
  LET p == DispPublisher(d, x)
      snap == d.disp[x].snap
      wasBanned == d.disp[x].source # "NONE" /\ snap.wasBanned
      row == CASE wasBanned -> [d.ban[p] EXCEPT
                    !.source = IF snap.banSource # NoDispute THEN snap.banSource ELSE alt]
               [] ~wasBanned /\ alt # NoDispute ->
                    [status |-> "BANNED", reason |-> "DISPUTE_INSOLVENCY", source |-> alt]
               [] ~wasBanned /\ alt = NoDispute /\ d.ban[p].source # x -> d.ban[p]
               [] OTHER -> NoBan
  IN [d EXCEPT !.ban[p] = row]

\* What the helper returns: whether the publisher remains banned.
RemainsBanned(d, x, alt) ==
  Banned(RestoreBan(d, x, alt), DispPublisher(d, x))
  \/ (d.disp[x].source # "NONE" /\ d.disp[x].snap.wasBanned)

\* Fault: the workload of the votes that are taken back stays.
OpenNewRoundKeepingWork(d, x) ==
  [d EXCEPT !.disp[x] = [@ EXCEPT !.status = "OPEN", !.votes = {}, !.source = "NONE",
                                  !.payout = 0, !.snap = NoSnap]]

\* clearDisputeVotesWithTx and the update that opens the new round.
OpenNewRound(d, x) ==
  [d EXCEPT
     !.work = @ \ {r \in DisputeWork(d, x) : r.kind = "VOTE"},
     !.disp[x] = [@ EXCEPT !.status = "OPEN", !.votes = {}, !.source = "NONE",
                           !.payout = 0, !.snap = NoSnap]]

\* One cycle of reconcileClosedCycleDistributionsWithTx.
ReconcileCycle(d, c, before) ==
  LET after == Distribution(d, c, RewardPool(d.cycle[c]))
      delta == [a \in Agents |-> after[a] - before[a]]
  IN [d EXCEPT
        !.avail = [a \in Agents |-> @[a] + delta[a]],
        !.cycle[c].credited = @ + SumOver(delta, Agents)]

-----------------------------------------------------------------------------
\* The end of writeCloseCurrentCycleInternal: the pool is split over the
\* workload of the cycle, the cycle closes and the next one opens.
SettleCycle(d, pool) ==
  LET c == d.active
      amount == Distribution(d, c, pool)
  IN [d EXCEPT
        !.avail = [a \in Agents |-> @[a] + amount[a]],
        !.cycle[c] = [d.cycle[c] EXCEPT !.status = "CLOSED",
                                        !.credited = @ + SumOver(amount, Agents)],
        !.cycle[c + 1] = [status |-> "OPEN", minted |-> MintPerCycle, tax |-> 0,
                          penalty |-> 0, credited |-> 0],
        !.active = c + 1]
=============================================================================
