-------------------------------- MODULE Engine ------------------------------
(***************************************************************************)
(* AgentradeEngine (apps/server/src/domain/engine.ts): the marketplace in  *)
(* the memory of one process, which serves the API when no database is     *)
(* configured.                                                             *)
(*                                                                         *)
(* A method runs from beginning to end without a pause, so every public    *)
(* method is one action.  Nothing takes back what a method did before it   *)
(* threw: a method yields an outcome, the tables it leaves and whether it  *)
(* threw, and the tables count in either case.  Calls that are refused     *)
(* before they change anything are left out.                               *)
(***************************************************************************)
EXTENDS TableInvariants, SequencesExt

CONSTANTS
  Publishers, Workers, Supervisors, SlotCounts, Rewards, RepeatOptions,
  VoteWeights, Expiring, MaxAged, MaxReopens

VARIABLES db, expired, stale, reopens

engineVars == <<db, expired, stale, reopens>>

-----------------------------------------------------------------------------
(* Outcomes.                                                               *)

Returned(d) == [d |-> d, thrown |-> FALSE]
Thrown(d) == [d |-> d, thrown |-> TRUE]

\* What follows r is skipped when r threw.
AndThen(r, F(_)) == IF r.thrown THEN r ELSE F(r.d)

\* Maps are iterated in insertion order.
InsertionOrder(ids) == SetToSortSeq(ids, <)

ForEach(ids, r, F(_, _)) ==
  FoldLeft(LAMBDA acc, i : AndThen(acc, LAMBDA d : F(d, i)), r, InsertionOrder(ids))

-----------------------------------------------------------------------------
(* Completion and termination.                                             *)

ConfirmSubmissionInternal(d, s, x) ==
  LET row == TaskOf(d, s)
      agent == d.sub[s].agent
      paid == [row EXCEPT !.escrow = @ - row.reward, !.completed = @ \cup {agent}]
      refused == \/ d.sub[s].status \notin {"SUBMITTED", "REJECTED"}
                 \/ ~row.repeat /\ agent \in row.completed
  IN CASE d.sub[s].status = "CONFIRMED" -> Returned(d)
       [] d.sub[s].status # "CONFIRMED" /\ refused -> Thrown(d)
       [] ~refused /\ ~HasPayableSlot(row) ->
            Thrown([d EXCEPT !.task[d.sub[s].task].status = "CLOSED"])
       [] OTHER -> Returned([d EXCEPT
            !.sub[s].status = "CONFIRMED",
            !.task[d.sub[s].task] =
              IF ConfirmedSlots(paid) >= row.slots THEN [paid EXCEPT !.status = "CLOSED"]
                                                   ELSE paid,
            !.avail[agent] = @ + row.reward,
            !.work = @ \cup CompletionWork(d, s, x)])

\* The rollback record of a termination.
TerminationRecord(d, t) ==
  LET row == d.task[t]
      penalty == ComputeTerminationPenalty(row.escrow, TerminationPenaltyBps)
  IN [task |-> t, cycle |-> d.active, status |-> row.status, escrow |-> row.escrow,
      penalty |-> penalty, refund |-> RefundAfter(row.escrow, penalty)]

TerminateTaskInternal(d, t) ==
  LET record == TerminationRecord(d, t)
  IN [d EXCEPT !.avail[d.task[t].publisher] = @ + record.refund,
               !.cycle[d.active].penalty = @ + record.penalty,
               !.task[t] = [@ EXCEPT !.escrow = 0, !.status = "TERMINATED"]]

\* A dispute without resolution metadata remembers nothing.
AppendForcedTerminationRollback(d, x, record) ==
  IF x # NoDispute /\ d.disp[x].source # "NONE"
  THEN [d EXCEPT !.disp[x].snap.forced = Append(@, record)] ELSE d

\* With a dispute given the records are returned to the caller, otherwise they
\* go to the dispute that caused the publisher's ban.
SweepBannedPublisherCleanTasks(d, override) ==
  LET sweep(acc, t) ==
        LET record == TerminationRecord(acc.d, t)
            after == TerminateTaskInternal(acc.d, t)
        IN CASE t \notin SweepTargets(acc.d) -> acc
             [] t \in SweepTargets(acc.d) /\ override # NoDispute ->
                  [d |-> after, forced |-> Append(acc.forced, record)]
             [] OTHER ->
                  [acc EXCEPT !.d = AppendForcedTerminationRollback(
                     after, acc.d.ban[acc.d.task[t].publisher].source, record)]
  IN FoldLeft(sweep, [d |-> d, forced |-> <<>>], InsertionOrder(Tasks))

Sweep(d) == SweepBannedPublisherCleanTasks(d, NoDispute).d

AutoTerminateExpiredCleanTasks(d) ==
  FoldLeft(LAMBDA acc, t : IF ActiveClean(acc, t) THEN TerminateTaskInternal(acc, t) ELSE acc,
           d, InsertionOrder(expired))

AutoConfirmStaleSubmissions(d) ==
  LET confirm(acc, s) ==
        LET t == acc.sub[s].task
        IN CASE ~(s <= stale /\ acc.sub[s].status = "SUBMITTED") -> Returned(acc)
             [] OTHER ->
                  CASE acc.task[t].status \notin ActiveTask -> Returned(acc)
                    [] acc.task[t].status \in ActiveTask /\ ~HasPayableSlot(acc.task[t]) ->
                         Returned([acc EXCEPT !.task[t].status = "CLOSED"])
                    [] OTHER -> ConfirmSubmissionInternal(acc, s, NoDispute)
  IN ForEach(Subs, Returned(d), confirm)

-----------------------------------------------------------------------------
(* Resolution of a dispute.                                                *)

\* Maps of profiles and of ban sources: an agent keeps the source it has.
BanAgent(d, a, reason, x) ==
  [d EXCEPT !.ban[a] =
     [status |-> "BANNED",
      reason |-> IF @.status = "ACTIVE" \/ @.reason = "NONE" THEN reason ELSE @.reason,
      source |-> IF x # NoDispute /\ (@.status = "ACTIVE" \/ @.source = NoDispute)
                 THEN x ELSE @.source]]

\* The swept tasks become part of the metadata, which are stored last.
ResolveCompletedDisputeFromPublisherWallet(d, x) ==
  LET s == d.disp[x].sub
      t == DispTask(d, x)
      row == d.task[t]
      payout == WalletPayout(d, x)
      paid == [d EXCEPT
        !.avail[row.publisher] = @ - payout,
        !.avail[d.sub[s].agent] = @ + payout,
        !.sub[s].status = "DISPUTE_COMPLETED",
        !.task[t] = [row EXCEPT !.completed = @ \cup {d.sub[s].agent},
                                !.status = IF HasPayableSlot(row) THEN @ ELSE "CLOSED"],
        !.work = @ \cup CompletionWork(d, s, x)]
      swept == IF Insolvent(d, x)
               THEN SweepBannedPublisherCleanTasks(
                      BanAgent(paid, row.publisher, "DISPUTE_INSOLVENCY", x), x)
               ELSE [d |-> paid, forced |-> <<>>]
  IN [swept.d EXCEPT !.disp[x] = [@ EXCEPT
        !.source = IF Insolvent(d, x) THEN "PUBLISHER_WALLET_PARTIAL" ELSE "PUBLISHER_WALLET",
        !.payout = payout,
        !.snap = [SnapshotBefore(d, x) EXCEPT !.forced = swept.forced]]]

\* Whoever the history of the dispute or the workload of its cycles names.
CollectAddressesAffectedByReopenedDispute(d, x) ==
  LET h == d.disp[x].history
  IN {DispWorker(d, x), DispPublisher(d, x)} \cup h.agents
     \cup {r.agent : r \in {w \in d.work : w.cycle \in h.cycles}}

BanNegativeBalanceAgents(d, x) ==
  LET inDebt == {a \in CollectAddressesAffectedByReopenedDispute(d, x) : d.avail[a] < 0}
      banned == FoldLeft(LAMBDA acc, a : BanAgent(acc, a, "REOPEN_NEGATIVE_BALANCE", NoDispute),
                         d, InsertionOrder(inDebt))
  IN IF HasActiveTask(banned, inDebt) THEN Sweep(banned) ELSE banned

FinalizeDisputeWithOutcome(d, x) ==
  LET s == d.disp[x].sub
      fromEscrow == AndThen(ConfirmSubmissionInternal(d, s, x), LAMBDA e :
        Returned([e EXCEPT !.disp[x] = [@ EXCEPT !.source = "ESCROW",
                                                 !.payout = TaskOf(d, s).reward,
                                                 !.snap = SnapshotBefore(d, x)]]))
      settled == CASE AlreadyCompleted(d, x) -> Returned(d)
                   [] PaysFromEscrow(d, x) -> fromEscrow
                   [] OTHER -> Returned(ResolveCompletedDisputeFromPublisherWallet(d, x))
  IN AndThen(settled, LAMBDA e :
       Returned(IF e.disp[x].history.exists THEN BanNegativeBalanceAgents(e, x) ELSE e))

\* The status is set before finalizeDisputeWithOutcome is tried.
ResolveAsCompleted(d, x) ==
  FinalizeDisputeWithOutcome([d EXCEPT !.disp[x].status = "RESOLVED_COMPLETED"], x)

EvaluateDispute(d, x) ==
  IF /\ d.disp[x].status = "OPEN"
     /\ VotesPass(d.disp[x].votes, DisputeQuorum, DisputeApprovalBps)
  THEN ResolveAsCompleted(d, x) ELSE Returned(d)

-----------------------------------------------------------------------------
(* Reopening of a dispute.                                                 *)

\* The history is an array; the rest of the engine reads of it which cycles and
\* agents the archived rounds of the dispute name.
CaptureDisputeRollbackHistory(d, x) ==
  LET row == d.disp[x]
      nothing == /\ row.status = "OPEN"
                 /\ row.votes = {} /\ DisputeWork(d, x) = {} /\ row.source = "NONE"
  IN IF nothing THEN row.history
     ELSE [exists |-> TRUE,
           cycles |-> row.history.cycles \cup AffectedCycles(d, x),
           agents |-> row.history.agents \cup {r.agent : r \in DisputeWork(d, x)}]

RollbackForcedTermination(d, record) ==
  [d EXCEPT !.avail[d.task[record.task].publisher] = @ - record.refund,
            !.cycle[record.cycle].penalty = @ - record.penalty,
            !.task[record.task] = [@ EXCEPT !.escrow = record.escrow,
                                            !.status = record.status]]

FindAlternateBanSourceDispute(d, x) ==
  LET sources == AlternateBanSources(d, x)
  IN IF sources = {} THEN NoDispute ELSE CHOOSE y \in sources : \A z \in sources : y <= z

RestorePublisherBanState(d, x) ==
  LET p == DispPublisher(d, x)
      snap == d.disp[x].snap
      alternate == FindAlternateBanSourceDispute(d, x)
      row == CASE snap.wasBanned ->
                    [d.ban[p] EXCEPT !.status = "BANNED",
                       !.source = IF snap.banSource # NoDispute THEN snap.banSource ELSE alternate]
               [] ~snap.wasBanned /\ alternate # NoDispute ->
                    [status |-> "BANNED", reason |-> "DISPUTE_INSOLVENCY", source |-> alternate]
               [] ~snap.wasBanned /\ alternate = NoDispute /\ d.ban[p].source # x -> d.ban[p]
               [] OTHER -> NoBan
  IN [d EXCEPT !.ban[p] = row]

\* Fault: a dispute without metadata is taken to have paid.
PaidByAssumed(d, x) ==
  IF d.disp[x].source # "NONE" THEN d.disp[x].payout ELSE TaskOf(d, d.disp[x].sub).reward

\* A resolution that failed half-way has no metadata; then nothing was paid
\* unless the submission is confirmed ...
PaidBy(d, x) ==
  CASE d.disp[x].source # "NONE" -> d.disp[x].payout
    [] d.disp[x].source = "NONE" /\ d.sub[d.disp[x].sub].status = "CONFIRMED" ->
         TaskOf(d, d.disp[x].sub).reward
    [] OTHER -> 0

\* ... and the task is taken to be in progress.
RollbackResolvedCompletedDispute(d, x) ==
  LET s == d.disp[x].sub
      row == TaskOf(d, s)
      agent == d.sub[s].agent
      settled == d.disp[x].source # "NONE"
      payout == PaidBy(d, x)
      undone == [d EXCEPT
        !.sub[s].status = IF @ \in CompletedSub THEN "REJECTED" ELSE @,
        !.task[d.sub[s].task] = [row EXCEPT
          !.escrow = IF settled THEN d.disp[x].snap.escrow ELSE @,
          !.status = IF settled THEN d.disp[x].snap.status ELSE "IN_PROGRESS",
          !.completed = IF OtherCompletion(d, s) THEN @ ELSE @ \ {agent}],
        !.avail[agent] = @ - payout,
        !.avail[row.publisher] = IF d.disp[x].source \in {"NONE", "ESCROW"} THEN @ ELSE @ + payout,
        !.work = @ \ {r \in DisputeWork(d, x) : r.kind # "VOTE"}]
      restored == FoldLeft(RollbackForcedTermination, undone, d.disp[x].snap.forced)
  IN RestorePublisherBanState(restored, x)

ReconcileClosedCycleDistributions(d, before) ==
  FoldLeft(LAMBDA acc, c :
             LET after == Distribution(acc, c, RewardPool(acc.cycle[c]))
                 delta == [a \in Agents |-> after[a] - before[c][a]]
             IN [acc EXCEPT !.avail = [a \in Agents |-> @[a] + delta[a]],
                            !.cycle[c].credited = @ + SumOver(delta, Agents)],
           d, InsertionOrder(DOMAIN before))

\* overrideDispute(x, NOT_COMPLETED).
Reopened(d, x) ==
  LET before == [c \in {c \in AffectedCycles(d, x) : d.cycle[c].status = "CLOSED"} |->
                   Distribution(d, c, RewardPool(d.cycle[c]))]
      wasResolved == d.disp[x].status = "RESOLVED_COMPLETED"
      rolledBack == IF wasResolved THEN RollbackResolvedCompletedDispute(d, x) ELSE d
      remainsBanned == wasResolved /\ Banned(rolledBack, DispPublisher(d, x))
      cleared == [rolledBack EXCEPT
        !.work = @ \ {r \in DisputeWork(d, x) : r.kind = "VOTE"},
        !.disp[x] = [@ EXCEPT !.status = "OPEN", !.votes = {}, !.source = "NONE",
                              !.payout = 0, !.snap = NoSnap,
                              !.history = CaptureDisputeRollbackHistory(d, x)]]
      reconciled == ReconcileClosedCycleDistributions(cleared, before)
  IN IF remainsBanned THEN Sweep(reconciled) ELSE reconciled

-----------------------------------------------------------------------------
(* Closing.  The pool is read when everything that feeds it has been done. *)

\* Fault: the pool is the one of the beginning of closing.
PayAndOpenNextReadBefore(d) == SettleCycle(d, RewardPool(db.cycle[d.active]))

PayAndOpenNext(d) ==
  LET c == d.active
      amount == Distribution(d, c, RewardPool(d.cycle[c]))
  IN [d EXCEPT
        !.avail = [a \in Agents |-> @[a] + amount[a]],
        !.cycle[c] = [@ EXCEPT !.status = "CLOSED", !.credited = @ + SumOver(amount, Agents)],
        !.cycle[c + 1] = [status |-> "OPEN", minted |-> MintPerCycle, tax |-> 0,
                          penalty |-> 0, credited |-> 0],
        !.active = c + 1]

Closed(d) ==
  LET evaluated == AndThen(AutoConfirmStaleSubmissions(d), LAMBDA e :
                     ForEach(Disps, Returned(Sweep(e)), EvaluateDispute))
  IN AndThen(evaluated, LAMBDA e :
       Returned(PayAndOpenNext(AutoTerminateExpiredCleanTasks(Sweep(e)))))

-----------------------------------------------------------------------------
(* The public methods.                                                     *)

Init ==
  /\ db = EmptyTables
  /\ expired = {}
  /\ stale = 0
  /\ reopens = 0

\* A method that leaves the tables d, whether it returns or throws.
Leaves(d) == db' = d /\ UNCHANGED <<expired, stale, reopens>>

RequireActiveAgentForWrite(a) == ~Banned(db, a)

PublishTask(t, p, slots, reward, repeat) ==
  LET totalReward == slots * reward
      taxAmount == ComputeTaxAmount(totalReward, TaxRateBps, TaxMin)
      totalCost == totalReward + taxAmount
  IN /\ RequireActiveAgentForWrite(p)
     /\ NextId(db.task, t)
     /\ db.avail[p] >= totalCost
     /\ Leaves([db EXCEPT
          !.avail[p] = @ - totalCost,
          !.cycle[db.active].tax = @ + taxAmount,
          !.task[t] = [status |-> "OPEN", publisher |-> p, slots |-> slots,
                       reward |-> reward, repeat |-> repeat, escrow |-> totalReward,
                       intents |-> {}, completed |-> {}]])

\* The task is neither finished nor frozen by a ban of its publisher.
OpenToWorkers(t) ==
  /\ db.task[t].status \in ActiveTask
  /\ ~Banned(db, db.task[t].publisher)

AddTaskIntention(t, a) ==
  /\ RequireActiveAgentForWrite(a)
  /\ OpenToWorkers(t)
  /\ t \notin expired
  /\ db.task[t].repeat \/ a \notin db.task[t].completed
  /\ a \notin db.task[t].intents
  /\ Leaves([db EXCEPT !.task[t].intents = @ \cup {a}])

SubmitTask(s, t, a) ==
  /\ RequireActiveAgentForWrite(a)
  /\ OpenToWorkers(t)
  /\ HasPayableSlot(db.task[t])
  /\ t \notin expired
  /\ a \in db.task[t].intents
  /\ NextId(db.sub, s)
  /\ Leaves([db EXCEPT
       !.sub[s] = [status |-> "SUBMITTED", task |-> t, agent |-> a],
       !.task[t].status = "IN_PROGRESS"])

\* submitTask throws, but only after it has closed the task.
SubmitTaskWithoutSlot(t, a) ==
  /\ RequireActiveAgentForWrite(a)
  /\ OpenToWorkers(t)
  /\ ~HasPayableSlot(db.task[t])
  /\ Leaves([db EXCEPT !.task[t].status = "CLOSED"])

ConfirmSubmission(s) ==
  /\ db.sub[s].status # "NONE"
  /\ RequireActiveAgentForWrite(TaskOf(db, s).publisher)
  /\ ~OpenDisputeOnSub(db, s)
  /\ Leaves(ConfirmSubmissionInternal(db, s, NoDispute).d)

RejectSubmission(s) ==
  /\ db.sub[s].status = "SUBMITTED"
  /\ RequireActiveAgentForWrite(TaskOf(db, s).publisher)
  /\ Leaves([db EXCEPT !.sub[s].status = "REJECTED"])

TerminateTask(t) ==
  /\ db.task[t].status \in ActiveTask
  /\ RequireActiveAgentForWrite(db.task[t].publisher)
  /\ ~OpenDisputeOnTask(db, t)
  /\ Leaves(TerminateTaskInternal(db, t))

OpenDispute(x, s, opener) ==
  /\ RequireActiveAgentForWrite(opener)
  /\ NextId(db.disp, x)
  /\ db.sub[s].status = "REJECTED"
  /\ TaskOf(db, s).status # "TERMINATED"
  /\ opener \in {TaskOf(db, s).publisher, db.sub[s].agent}
  /\ ~OpenDisputeOnSub(db, s)
  /\ Leaves([db EXCEPT !.disp[x].status = "OPEN", !.disp[x].sub = s])

VoteDispute(x, a, choice, weight) ==
  /\ RequireActiveAgentForWrite(a)
  /\ db.disp[x].status = "OPEN"
  /\ a \notin {DispPublisher(db, x), DispWorker(db, x)}
  /\ \A v \in db.disp[x].votes : v.agent # a
  /\ Leaves([db EXCEPT
       !.disp[x].votes = @ \cup {[agent |-> a, vote |-> choice, weight |-> weight,
                                  cycle |-> db.active]},
       !.work = @ \cup {[cycle |-> db.active, agent |-> a, kind |-> "VOTE",
                         disp |-> x, sub |-> NoSub]}])

CloseCurrentCycle ==
  /\ db.active + 1 \in Cycles
  /\ Leaves(Closed(db).d)

OverrideCompleted(x) ==
  /\ db.disp[x].status = "OPEN"
  /\ Leaves(ResolveAsCompleted(db, x).d)

OverrideNotCompleted(x) ==
  /\ reopens < MaxReopens
  /\ db.disp[x].status # "NONE"
  /\ db' = Reopened(db, x)
  /\ reopens' = reopens + 1
  /\ UNCHANGED <<expired, stale>>

DeadlinePasses(t) ==
  /\ t \in Existing(db.task) \ expired
  /\ expired' = expired \cup {t}
  /\ UNCHANGED <<db, stale, reopens>>

SubmissionAges ==
  /\ stale < MaxAged
  /\ stale + 1 \in Existing(db.sub)
  /\ stale' = stale + 1
  /\ UNCHANGED <<db, expired, reopens>>

-----------------------------------------------------------------------------
Publication ==
  \E t \in Tasks, p \in Publishers, n \in SlotCounts, r \in Rewards, q \in RepeatOptions :
    PublishTask(t, p, n, r, q)

Opening == \E x \in Disps, s \in Subs, a \in Agents : OpenDispute(x, s, a)

Handling ==
  \/ \E t \in Tasks, a \in Workers : AddTaskIntention(t, a) \/ SubmitTaskWithoutSlot(t, a)
  \/ \E s \in Subs, t \in Tasks, a \in Workers : SubmitTask(s, t, a)
  \/ \E s \in Subs : RejectSubmission(s) \/ ConfirmSubmission(s)
  \/ \E t \in Tasks : TerminateTask(t)
  \/ \E x \in Disps, a \in Supervisors, c \in {"COMPLETED", "NOT_COMPLETED"}, w \in VoteWeights :
       VoteDispute(x, a, c, w)
  \/ CloseCurrentCycle
  \/ \E x \in Disps : OverrideCompleted(x) \/ OverrideNotCompleted(x)

Passing == SubmissionAges \/ \E t \in Expiring : DeadlinePasses(t)

Next == Publication \/ Opening \/ Handling \/ Passing

Spec == Init /\ [][Next]_engineVars
=============================================================================
