----------------------------- MODULE Settlement -----------------------------
(***************************************************************************)
(* The transactions of the marketplace in persistence mode                 *)
(* (apps/server/src/infra/state-repository-write-helpers.ts).              *)
(*                                                                         *)
(* Every write locks the RuntimeState row FOR UPDATE before it reads       *)
(* anything else, so transactions run one after the other.  A write that   *)
(* touches a fixed set of rows is one action here.  Closing a cycle and    *)
(* overriding a dispute loop over the tables, call each other's helpers    *)
(* and can fail half way: they run step by step on a private copy `work'   *)
(* of the committed tables `db', which Commit publishes and which Abort    *)
(* (a DomainError thrown inside) and Crash (a lost connection or process)  *)
(* throw away.                                                             *)
(***************************************************************************)
EXTENDS Marketplace

CONSTANTS
  Publishers, Workers, Supervisors,  \* who acts in which role
  SlotCounts, Rewards, RepeatOptions,\* what a task may be published with
  VoteWeights,                       \* weights a supervisor may have
  Expiring,                          \* tasks whose deadline may pass
  MaxAged,                           \* bound on submissions that may time out
  MaxReopens,                        \* bound on override NOT_COMPLETED
  MaxCrashes                         \* bound on interrupted transactions

ASSUME ActorsAssumption ==
  /\ Publishers \subseteq Agents
  /\ Workers \subseteq Agents
  /\ Supervisors \subseteq Agents
  /\ SlotCounts \subseteq Nat \ {0}
  /\ Rewards \subseteq Nat \ {0}
  /\ RepeatOptions \subseteq BOOLEAN
  /\ VoteWeights \subseteq Nat
  /\ Expiring \subseteq Tasks
  /\ MaxAged \in Nat
  /\ MaxReopens \in Nat
  /\ MaxCrashes \in Nat

VARIABLES
  db,        \* the committed tables
  work,      \* the tables as the running transaction sees them
  tx,        \* the running transaction
  expired,   \* tasks whose deadline has passed
  stale,     \* submissions 1..stale are older than the submission timeout
  reopens, crashes

vars == <<db, work, tx, expired, stale, reopens, crashes>>

-----------------------------------------------------------------------------
(* A transaction in progress: its kind, the phases it still has to run, and *)
(* what it has read into local variables.                                   *)

Phases == {"stale", "sweep", "evaluate", "expire", "settle", "finalize",
           "negatives", "unforce", "restoreBan", "newRound", "reconcile"}

Idle == [kind |-> "IDLE", todo |-> <<>>, disp |-> NoDispute, subs |-> {},
         disps |-> {}, pool |-> 0, before |-> <<>>, forced |-> <<>>]

Running == tx.kind # "IDLE"
InPhase(p) == tx.todo # <<>> /\ Head(tx.todo) = p

\* Replaces the current phase by ps.
Then(ps) == [tx EXCEPT !.todo = ps \o Tail(@)]

Init ==
  /\ db = EmptyTables
  /\ work = EmptyTables
  /\ tx = Idle
  /\ expired = {}
  /\ stale = 0
  /\ reopens = 0
  /\ crashes = 0

\* A write of one step: it commits d.
Write(d) ==
  /\ ~Running
  /\ db' = d
  /\ work' = d
  /\ UNCHANGED <<tx, expired, stale, reopens, crashes>>

CanWrite(a) == ~Running /\ ~Banned(db, a)

-----------------------------------------------------------------------------
(* Time.  Both clocks stand still while a transaction runs: it reads the   *)
(* time once, at its start.                                                *)

DeadlinePasses(t) ==
  /\ ~Running
  /\ t \in Existing(db.task) \ expired
  /\ expired' = expired \cup {t}
  /\ UNCHANGED <<db, work, tx, stale, reopens, crashes>>

SubmissionAges ==
  /\ ~Running
  /\ stale < MaxAged
  /\ stale + 1 \in Existing(db.sub)
  /\ stale' = stale + 1
  /\ UNCHANGED <<db, work, tx, expired, reopens, crashes>>

-----------------------------------------------------------------------------
(* The writes of one step.                                                 *)

Publish(t, p, slots, reward, repeat) ==
  LET total == slots * reward
      tax == ComputeTaxAmount(total, TaxRateBps, TaxMin)
  IN /\ CanWrite(p)
     /\ NextId(db.task, t)
     /\ db.avail[p] >= total + tax
     /\ Write([db EXCEPT
          !.avail[p] = @ - (total + tax),
          !.cycle[db.active].tax = @ + tax,
          !.task[t] = [status |-> "OPEN", publisher |-> p, slots |-> slots,
                       reward |-> reward, repeat |-> repeat, escrow |-> total,
                       intents |-> {}, completed |-> {}]])

AddIntention(t, a) ==
  /\ CanWrite(a)
  /\ db.task[t].status \in ActiveTask
  /\ ~Banned(db, db.task[t].publisher)
  /\ t \notin expired
  /\ ~(~db.task[t].repeat /\ a \in db.task[t].completed)
  /\ a \notin db.task[t].intents
  /\ Write([db EXCEPT !.task[t].intents = @ \cup {a}])

\* What both outcomes of writeSubmitTaskDirect require.
Submittable(t, a) ==
  /\ CanWrite(a)
  /\ db.task[t].status \in ActiveTask
  /\ ~Banned(db, db.task[t].publisher)

Submit(s, t, a) ==
  /\ Submittable(t, a)
  /\ HasPayableSlot(db.task[t])
  /\ t \notin expired
  /\ a \in db.task[t].intents
  /\ NextId(db.sub, s)
  /\ Write([db EXCEPT
       !.sub[s] = [status |-> "SUBMITTED", task |-> t, agent |-> a],
       !.task[t].status = "IN_PROGRESS"])

Reject(s) ==
  LET p == TaskOf(db, s).publisher IN
  /\ db.sub[s].status = "SUBMITTED"
  /\ CanWrite(p)
  /\ Write([db EXCEPT !.sub[s].status = "REJECTED"])

\* What both outcomes of writeConfirmSubmissionDirect require.
Confirmable(s) ==
  /\ db.sub[s].status \in {"SUBMITTED", "REJECTED"}
  /\ CanWrite(TaskOf(db, s).publisher)
  /\ ~OpenDisputeOnSub(db, s)
  /\ ~RepeatBlocked(db, s)

Confirm(s) ==
  /\ Confirmable(s)
  /\ HasPayableSlot(TaskOf(db, s))
  /\ Write(ConfirmInternal(db, s, NoDispute))

\* The request fails with SUBMISSION_NOT_CONFIRMABLE but leaves the task closed.
ConfirmWithoutSlot(s) ==
  /\ Confirmable(s)
  /\ ~HasPayableSlot(TaskOf(db, s))
  /\ Write([db EXCEPT !.task[db.sub[s].task].status = "CLOSED"])

Terminate(t) ==
  /\ db.task[t].status \in ActiveTask
  /\ CanWrite(db.task[t].publisher)
  /\ ~OpenDisputeOnTask(db, t)
  /\ Write(TerminateInternal(db, t, NoDispute))

OpenDispute(x, s, opener) ==
  /\ CanWrite(opener)
  /\ NextId(db.disp, x)
  /\ db.sub[s].status = "REJECTED"
  /\ TaskOf(db, s).status # "TERMINATED"
  /\ opener \in {TaskOf(db, s).publisher, db.sub[s].agent}
  /\ ~OpenDisputeOnSub(db, s)
  /\ Write([db EXCEPT !.disp[x].status = "OPEN", !.disp[x].sub = s])

Vote(x, a, choice, weight) ==
  /\ CanWrite(a)
  /\ db.disp[x].status = "OPEN"
  /\ a \notin {DispPublisher(db, x), DispWorker(db, x)}
  /\ \A v \in db.disp[x].votes : v.agent # a
  /\ Write([db EXCEPT
       !.disp[x].votes = @ \cup {[agent |-> a, vote |-> choice, weight |-> weight,
                                  cycle |-> db.active]},
       !.work = @ \cup {[cycle |-> db.active, agent |-> a, kind |-> "VOTE",
                         disp |-> x, sub |-> NoSub]}])

-----------------------------------------------------------------------------
(* Closing the cycle.                                                      *)

StaleSubs(d) == {s \in Subs : d.sub[s].status = "SUBMITTED" /\ s <= stale}
OpenDisputes(d) == {x \in Disps : d.disp[x].status = "OPEN"}
First(S) == CHOOSE i \in S : \A j \in S : i <= j

\* Fault: expired tasks are terminated before the disputes are evaluated.
ClosePhasesExpireFirst ==
  <<"stale", "sweep", "expire", "evaluate", "sweep", "settle">>

\* What closing does, in this order.
ClosePhases == <<"stale", "sweep", "evaluate", "sweep", "expire", "settle">>

\* The cycle row, and with it the pool that will be paid, is read here.
BeginClose ==
  /\ ~Running
  /\ db.active + 1 \in Cycles
  /\ tx' = [Idle EXCEPT
       !.kind = "CLOSE",
       !.todo = ClosePhases,
       !.subs = StaleSubs(db),
       !.disps = OpenDisputes(db),
       !.pool = RewardPool(db.cycle[db.active])]
  /\ UNCHANGED <<db, work, expired, stale, reopens, crashes>>

\* A step of the running transaction: it leaves the tables d and goes on as t.
Step(d, t) ==
  /\ work' = d
  /\ tx' = t
  /\ UNCHANGED <<db, expired, stale, reopens, crashes>>

\* What the loop over the stale submissions does to the tables for s.
AutoConfirmed(d, s) ==
  LET t == d.sub[s].task
  IN CASE d.task[t].status \notin ActiveTask -> d
       [] d.task[t].status \in ActiveTask /\ HasPayableSlot(d.task[t]) ->
            ConfirmInternal(d, s, NoDispute)
       [] OTHER -> [d EXCEPT !.task[t].status = "CLOSED"]

AutoConfirmThrows(d, s) ==
  /\ TaskOf(d, s).status \in ActiveTask
  /\ HasPayableSlot(TaskOf(d, s))
  /\ ConfirmThrows(d, s)

AutoConfirmStale ==
  /\ InPhase("stale")
  /\ tx.subs # {}
  /\ LET s == First(tx.subs)
     IN /\ ~AutoConfirmThrows(work, s)
        /\ Step(AutoConfirmed(work, s), [tx EXCEPT !.subs = @ \ {s}])

Evaluate ==
  /\ InPhase("evaluate")
  /\ tx.disps # {}
  /\ LET x == First(tx.disps)
         rest == [tx EXCEPT !.disps = @ \ {x}]
         passes == VotesPass(work.disp[x].votes, DisputeQuorum, DisputeApprovalBps)
     IN \/ /\ ~passes
           /\ Step(work, rest)
        \/ /\ passes
           /\ Step(work, [rest EXCEPT !.disp = x, !.todo = <<"finalize">> \o @])

ExpireClean ==
  /\ InPhase("expire")
  /\ \E t \in expired : /\ ActiveClean(work, t)
                        /\ Step(TerminateInternal(work, t, NoDispute), tx)

Settle ==
  /\ InPhase("settle")
  /\ Step(SettleCycle(work, tx.pool), Then(<<>>))

-----------------------------------------------------------------------------
(* Steps that closing and overriding share.                                *)

\* finalizeDisputeWithOutcomeWithTx(tx.disp, COMPLETED): an insolvent
\* publisher's tasks are swept at once; a dispute with a rollback history ends
\* with the ban of whom it left in debt.
Finalize ==
  /\ InPhase("finalize")
  /\ ~FinalizeThrows(work, tx.disp)
  /\ LET x == tx.disp
         sweep == IF PaysFromWallet(work, x) /\ Insolvent(work, x)
                  THEN <<"sweep">> ELSE <<>>
         negatives == IF work.disp[x].history.exists THEN <<"negatives">> ELSE <<>>
     IN Step(FinalizeCompleted(work, x), Then(sweep \o negatives))

SweepBanned ==
  /\ InPhase("sweep")
  /\ \E t \in SweepTargets(work) : Step(SweepOne(work, t), tx)

BanNegatives ==
  /\ InPhase("negatives")
  /\ LET A == NegativeAffected(work, tx.disp)
         d == BanAgents(work, A, "REOPEN_NEGATIVE_BALANCE", NoDispute)
     IN Step(d, Then(IF HasActiveTask(d, A) THEN <<"sweep">> ELSE <<>>))

\* A loop that has nothing left to do.
LoopEnds ==
  /\ \/ InPhase("stale") /\ tx.subs = {}
     \/ InPhase("sweep") /\ SweepTargets(work) = {}
     \/ InPhase("evaluate") /\ tx.disps = {}
     \/ InPhase("expire") /\ {t \in expired : ActiveClean(work, t)} = {}
     \/ InPhase("unforce") /\ tx.forced = <<>>
     \/ InPhase("reconcile") /\ DOMAIN tx.before = {}
  /\ Step(work, Then(<<>>))

-----------------------------------------------------------------------------
(* Overriding a dispute.                                                   *)

BeginOverrideCompleted(x) ==
  /\ ~Running
  /\ db.disp[x].status = "OPEN"
  /\ tx' = [Idle EXCEPT !.kind = "OVERRIDE_COMPLETED", !.disp = x,
                        !.todo = <<"finalize">>]
  /\ UNCHANGED <<db, work, expired, stale, reopens, crashes>>

\* Before anything is rolled back, the reward splits of the closed cycles the
\* dispute touched are computed and the round is archived.
BeginReopen(x) ==
  /\ ~Running
  /\ reopens < MaxReopens
  /\ db.disp[x].status # "NONE"
  /\ LET closed == {c \in AffectedCycles(db, x) : db.cycle[c].status = "CLOSED"}
         archived == ArchiveRound(db, x)
         resolved == db.disp[x].status = "RESOLVED_COMPLETED"
     IN /\ work' = IF resolved THEN RollbackResolution(archived, x) ELSE archived
        /\ tx' = [Idle EXCEPT
             !.kind = "REOPEN",
             !.disp = x,
             !.todo = IF resolved
                      THEN <<"unforce", "restoreBan", "newRound", "reconcile">>
                      ELSE <<"newRound", "reconcile">>,
             !.before = [c \in closed |-> Distribution(db, c, RewardPool(db.cycle[c]))],
             !.forced = db.disp[x].snap.forced]
  /\ reopens' = reopens + 1
  /\ UNCHANGED <<db, expired, stale, crashes>>

RestoreForced ==
  /\ InPhase("unforce")
  /\ tx.forced # <<>>
  /\ Step(RollbackForced(work, Head(tx.forced)), [tx EXCEPT !.forced = Tail(@)])

\* A publisher who stays banned has its clean tasks swept at the very end.
RestorePublisherBan ==
  /\ InPhase("restoreBan")
  /\ LET x == tx.disp
         sources == AlternateBanSources(work, x)
     IN \E alt \in IF sources = {} THEN {NoDispute} ELSE sources :
          Step(RestoreBan(work, x, alt),
               [Then(<<>>) EXCEPT
                  !.todo = IF RemainsBanned(work, x, alt) THEN @ \o <<"sweep">> ELSE @])

StartNewRound ==
  /\ InPhase("newRound")
  /\ Step(OpenNewRound(work, tx.disp), Then(<<>>))

Reconcile ==
  /\ InPhase("reconcile")
  /\ \E c \in DOMAIN tx.before :
       Step(ReconcileCycle(work, c, tx.before[c]),
            [tx EXCEPT !.before = [e \in DOMAIN @ \ {c} |-> @[e]]])

-----------------------------------------------------------------------------
(* The end of a transaction.                                               *)

Commit ==
  /\ Running
  /\ tx.todo = <<>>
  /\ db' = work
  /\ tx' = Idle
  /\ UNCHANGED <<work, expired, stale, reopens, crashes>>

RolledBack ==
  /\ work' = db
  /\ tx' = Idle
  /\ reopens' = IF tx.kind = "REOPEN" THEN reopens - 1 ELSE reopens
  /\ UNCHANGED <<db, expired, stale>>

\* The DomainError that the current step of the transaction throws.
StepThrows ==
  \/ /\ InPhase("stale")
     /\ tx.subs # {}
     /\ AutoConfirmThrows(work, First(tx.subs))
  \/ InPhase("finalize") /\ FinalizeThrows(work, tx.disp)

Abort ==
  /\ StepThrows
  /\ RolledBack
  /\ UNCHANGED crashes

Crash ==
  /\ Running
  /\ crashes < MaxCrashes
  /\ RolledBack
  /\ crashes' = crashes + 1

-----------------------------------------------------------------------------
ApiWrite ==
  \/ \E t \in Tasks, p \in Publishers, n \in SlotCounts, r \in Rewards, q \in RepeatOptions :
       Publish(t, p, n, r, q)
  \/ \E t \in Tasks, a \in Workers : AddIntention(t, a)
  \/ \E s \in Subs, t \in Tasks, a \in Workers : Submit(s, t, a)
  \/ \E s \in Subs : Reject(s) \/ Confirm(s) \/ ConfirmWithoutSlot(s)
  \/ \E t \in Tasks : Terminate(t)
  \/ \E x \in Disps, s \in Subs, a \in Agents : OpenDispute(x, s, a)
  \/ \E x \in Disps, a \in Supervisors, c \in {"COMPLETED", "NOT_COMPLETED"}, w \in VoteWeights :
       Vote(x, a, c, w)

Override ==
  \E x \in Disps : BeginOverrideCompleted(x) \/ BeginReopen(x)

TxStep ==
  \/ AutoConfirmStale \/ SweepBanned \/ Evaluate \/ ExpireClean \/ Settle
  \/ Finalize \/ BanNegatives \/ RestoreForced \/ RestorePublisherBan
  \/ StartNewRound \/ Reconcile \/ LoopEnds

Tick == SubmissionAges \/ \E t \in Expiring : DeadlinePasses(t)

Next == ApiWrite \/ Override \/ BeginClose \/ TxStep \/ Commit \/ Abort \/ Crash \/ Tick

Spec == Init /\ [][Next]_vars

(***************************************************************************)
(* The worker polls for a due cycle and a transaction that is neither      *)
(* interrupted nor refused runs to its end; nobody has to use the          *)
(* marketplace.                                                            *)
(***************************************************************************)
FairSpec == Spec /\ WF_vars(BeginClose) /\ WF_vars(TxStep) /\ WF_vars(Commit)
                 /\ WF_vars(Abort)
=============================================================================
