----------------------------- MODULE MoneyProofs ----------------------------
(***************************************************************************)
(* Proofs that the rows of the marketplace that tell of the same thing     *)
(* agree, in the committed tables and half-way through every transaction:  *)
(* the escrow of a task with the slots that are left, the agents it lists  *)
(* with the completed submissions, the workload of the cycles with the     *)
(* completions and votes that count; and that nobody is paid twice for a   *)
(* task that allows no repeats.                                            *)
(*                                                                         *)
(* A rollback writes back what a snapshot or a forced termination has      *)
(* remembered, so these have to agree with their task as well; and it      *)
(* removes workload by its dispute, so a row has to name the dispute that  *)
(* decides about its submission.                                           *)
(*                                                                         *)
(* And proofs that money is only moved: whatever a transaction of          *)
(* Settlement does, short of reopening a dispute, the balances, the        *)
(* escrows and the pools that are not paid out yet keep their sum; and as  *)
(* long as no dispute is reopened nobody is in debt and no cycle pays out  *)
(* more than its pool.  The sums are those of AllocationProofs.  That an   *)
(* escrow is a whole number of rewards is what makes a termination's       *)
(* penalty and refund add up to it.                                        *)
(*                                                                         *)
(* And proofs about whole transactions: that closing a cycle leaves        *)
(* nothing behind that it had to clear, and that settling a dispute again  *)
(* leaves no party in debt that is not banned.                             *)
(***************************************************************************)
EXTENDS SettlementProofs, AllocationProofs, FiniteSetTheorems


-----------------------------------------------------------------------------
(* The invariant.                                                          *)

Sized(row) == row.slots \in Nat \ {0} /\ row.reward \in Nat \ {0}

\* An escrow of whole rewards, with a status that says whether one is left.
Whole(row, status, escrow) ==
  \E k \in 0..row.slots : escrow = k * row.reward /\ (status \in ActiveTask <=> k > 0)

FundedTasks(d) ==
  \A t \in Tasks : d.task[t].status # "NONE" =>
    Sized(d.task[t]) /\ Whole(d.task[t], d.task[t].status, d.task[t].escrow)

\* A status and an escrow that may be written back to task t.
Fits(d, t, status, escrow) ==
  /\ t \in Tasks
  /\ status # "NONE"
  /\ d.task[t].status # "NONE"
  /\ Whole(d.task[t], status, escrow)

AllFit(d, forced) ==
  \A i \in 1..Len(forced) : Fits(d, forced[i].task, forced[i].status, forced[i].escrow)

SnapFits(d, x) ==
  /\ d.disp[x].source # "NONE" =>
       Fits(d, DispTask(d, x), d.disp[x].snap.status, d.disp[x].snap.escrow)
  /\ AllFit(d, d.disp[x].snap.forced)

Funded(d) == FundedTasks(d) /\ \A x \in Disps : SnapFits(d, x)

\* A WORKER row names a completed submission and the dispute that completed it.
WorkerRow(d, r) ==
  /\ r.sub \in Subs
  /\ d.sub[r.sub].status \in CompletedSub
  /\ \/ r.disp = NoDispute /\ ~ResolvedDisputeOnSub(d, r.sub)
     \/ /\ r.disp \in Disps
        /\ d.disp[r.disp].status = "RESOLVED_COMPLETED"
        /\ d.disp[r.disp].sub = r.sub

WorkerRows(d, s) == {r \in d.work : r.kind = "WORKER" /\ r.sub = s}

CompletionsEarn(d) ==
  /\ \A r \in d.work : r.kind = "WORKER" => WorkerRow(d, r)
  /\ \A s \in Subs :
       IF d.sub[s].status \in CompletedSub /\ WorkerWorkload > 0
       THEN \E r \in d.work : WorkerRows(d, s) = {r}
       ELSE WorkerRows(d, s) = {}

VoteRows(d, x) == {r \in d.work : r.kind = "VOTE" /\ r.disp = x}

VotesEarn(d, x) ==
  LET rows == VoteRows(d, x)
      votes == d.disp[x].votes
  IN /\ IsFiniteSet(rows) /\ IsFiniteSet(votes)
     /\ Cardinality(rows) = Cardinality(votes)
     /\ {<<r.agent, r.cycle>> : r \in rows} = {<<v.agent, v.cycle>> : v \in votes}

Matched(d) ==
  /\ CompletionsRecorded(d)
  /\ PaidOnce(d)
  /\ CompletionsEarn(d)
  /\ \A x \in Disps : VotesEarn(d, x)

Agreeing(d) == Funded(d) /\ Matched(d)

RowsIInv ==
  /\ DisputeIInv
  /\ Agreeing(db) /\ Agreeing(work)
  /\ AllFit(work, tx.forced)

-----------------------------------------------------------------------------
(* Whole rewards.                                                          *)

LEMMA Division ==
  ASSUME NEW m \in Int, NEW r \in Nat \ {0}
  PROVE  (m * r) \div r = m
<1> DEFINE q == (m * r) \div r
<1>1. m * r \in Int
  OBVIOUS
<1>2. q \in Int /\ r * q <= m * r /\ m * r < r * q + r
  BY <1>1
<1> HIDE DEF q
<1>3. r * (q - m) <= 0 /\ 0 < r * (q - m) + r
  BY <1>2
<1>4. q - m <= 0
  BY <1>2, <1>3
<1>5. q - m >= 0
  BY <1>2, <1>3
<1> QED BY <1>2, <1>4, <1>5 DEF q

LEMMA PayableIs ==
  ASSUME NEW row, Sized(row), NEW k \in 0..row.slots, row.escrow = k * row.reward
  PROVE  /\ ConfirmedSlots(row) = row.slots - k
         /\ HasPayableSlot(row) <=> k > 0
         /\ row.escrow > 0 <=> k > 0
<1> DEFINE n == row.slots
           r == row.reward
<1>1. n \in Nat \ {0} /\ r \in Nat \ {0} /\ k \in Nat
  BY DEF Sized
<1>2. ConfirmedSlots(row) = (n * r - k * r) \div r
  BY DEF ConfirmedSlots
<1> HIDE DEF n, r
<1>3. n * r - k * r = (n - k) * r
  BY <1>1
<1>4. n - k \in Int
  BY <1>1
<1>5. ((n - k) * r) \div r = n - k
  BY <1>1, <1>4, Division
<1>6. ConfirmedSlots(row) = n - k
  BY <1>2, <1>3, <1>5
<1>7. k > 0 => k * r >= r /\ k * r > 0
  BY <1>1
<1>8. k = 0 => k * r = 0
  BY <1>1
<1>9. HasPayableSlot(row) <=> n - k < n /\ k * r >= r
  BY <1>6 DEF HasPayableSlot, n, r
<1>10. (n - k < n) <=> k > 0
  BY <1>1
<1> QED BY <1>1, <1>6, <1>7, <1>8, <1>9, <1>10 DEF n, r

-----------------------------------------------------------------------------
(* What each part of the invariant depends on.                             *)

\* What never changes about a task once it is published.
TasksKept(d, e) ==
  \A t \in Tasks : d.task[t].status # "NONE" =>
    /\ e.task[t].status # "NONE"
    /\ e.task[t].slots = d.task[t].slots
    /\ e.task[t].reward = d.task[t].reward
    /\ e.task[t].repeat = d.task[t].repeat

LEMMA FitsKept ==
  ASSUME NEW d, NEW e, TasksKept(d, e), NEW t, NEW status, NEW escrow,
         Fits(d, t, status, escrow)
  PROVE  Fits(e, t, status, escrow)
BY DEF Fits, TasksKept, Whole

LEMMA AllFitKept ==
  ASSUME NEW d, NEW e, TasksKept(d, e), NEW forced, AllFit(d, forced)
  PROVE  AllFit(e, forced)
BY FitsKept DEF AllFit

LEMMA SnapKept ==
  ASSUME NEW d, NEW e, TasksKept(d, e), NEW x, SnapFits(d, x),
         e.disp[x].snap = d.disp[x].snap,
         e.disp[x].source = d.disp[x].source,
         d.disp[x].source # "NONE" => DispTask(e, x) = DispTask(d, x)
  PROVE  SnapFits(e, x)
<1>1. AllFit(e, e.disp[x].snap.forced)
  BY AllFitKept DEF SnapFits
<1>2. e.disp[x].source # "NONE" =>
        Fits(e, DispTask(e, x), e.disp[x].snap.status, e.disp[x].snap.escrow)
  BY FitsKept DEF SnapFits
<1> QED BY <1>1, <1>2 DEF SnapFits

LEMMA EarningKept ==
  ASSUME NEW d, NEW e, ReviewKept(d, e), CompletionsEarn(d), \A x \in Disps : VotesEarn(d, x)
  PROVE  CompletionsEarn(e) /\ \A x \in Disps : VotesEarn(e, x)
<1>1. e.work = d.work /\ e.sub = d.sub
  BY DEF ReviewKept
<1>2. \A x \in Disps : /\ e.disp[x].status = d.disp[x].status
                       /\ e.disp[x].sub = d.disp[x].sub
                       /\ e.disp[x].votes = d.disp[x].votes
  BY DEF ReviewKept, DisputeKept
<1>3. ASSUME NEW r, WorkerRow(d, r) PROVE WorkerRow(e, r)
  BY <1>1, <1>2, <1>3 DEF WorkerRow, ResolvedDisputeOnSub
<1>4. \A s : WorkerRows(e, s) = WorkerRows(d, s)
  BY <1>1 DEF WorkerRows
<1>5. CompletionsEarn(e)
  BY <1>1, <1>3, <1>4 DEF CompletionsEarn
<1>6. \A x \in Disps : VoteRows(e, x) = VoteRows(d, x)
  BY <1>1 DEF VoteRows
<1>7. \A x \in Disps : VotesEarn(e, x)
  BY <1>2, <1>6 DEF VotesEarn
<1> QED BY <1>5, <1>7

LEMMA MatchedKept ==
  ASSUME NEW d, References(d), Matched(d), NEW e, ReviewKept(d, e), TasksKept(d, e),
         \A t \in Tasks : e.task[t].completed = d.task[t].completed
  PROVE  Matched(e)
<1>1. e.sub = d.sub
  BY DEF ReviewKept
<1>2. CompletionsRecorded(e)
  BY <1>1 DEF Matched, CompletionsRecorded
<1>3. PaidOnce(e)
  <2> SUFFICES ASSUME NEW s \in Subs, NEW o \in Subs, s # o,
                      d.sub[s].status = "CONFIRMED", d.sub[o].status = "CONFIRMED",
                      d.sub[s].task = d.sub[o].task, d.sub[s].agent = d.sub[o].agent
               PROVE  TaskOf(e, s).repeat
    BY <1>1 DEF PaidOnce
  <2>1. TaskOf(d, s).repeat
    BY DEF Matched, PaidOnce
  <2>2. d.sub[s].task \in Tasks /\ d.task[d.sub[s].task].status # "NONE"
    BY DEF References
  <2> QED BY <1>1, <2>1, <2>2 DEF TaskOf, TasksKept
<1> QED BY <1>2, <1>3, EarningKept DEF Matched

\* A write that leaves the four tables alone.
LEMMA SameAgree ==
  ASSUME NEW d, References(d), Agreeing(d), NEW e,
         e.task = d.task, e.sub = d.sub, e.disp = d.disp, e.work = d.work
  PROVE  Agreeing(e) /\ TasksKept(d, e)
<1>1. TasksKept(d, e)
  BY DEF TasksKept
<1>2. ReviewKept(d, e)
  BY SameKept
<1>3. Matched(e)
  BY <1>1, <1>2, MatchedKept DEF Agreeing
<1>4. FundedTasks(e)
  BY DEF Agreeing, Funded, FundedTasks
<1>5. \A x \in Disps : SnapFits(e, x)
  BY <1>1, SnapKept DEF Agreeing, Funded, DispTask
<1> QED BY <1>1, <1>3, <1>4, <1>5 DEF Agreeing, Funded

\* A write that changes nothing but the row of one existing task, and neither
\* its terms nor whom it lists.
LEMMA TaskRowAgree ==
  ASSUME NEW d, RowsTyped(d), References(d), Agreeing(d),
         NEW t \in Tasks, d.task[t].status # "NONE",
         NEW row, row.status # "NONE", Whole(d.task[t], row.status, row.escrow),
         row.slots = d.task[t].slots, row.reward = d.task[t].reward,
         row.repeat = d.task[t].repeat, row.completed = d.task[t].completed,
         NEW e, e.task = [d.task EXCEPT ![t] = row],
         e.sub = d.sub, e.disp = d.disp, e.work = d.work
  PROVE  Agreeing(e) /\ TasksKept(d, e)
<1>1. e.task[t] = row /\ \A u \in Tasks \ {t} : e.task[u] = d.task[u]
  BY DEF RowsTyped
<1>2. TasksKept(d, e)
  BY <1>1 DEF TasksKept
<1>3. ReviewKept(d, e)
  BY SameKept
<1>4. Matched(e)
  <2>1. \A u \in Tasks : e.task[u].completed = d.task[u].completed
    BY <1>1
  <2> QED BY <1>2, <1>3, <2>1, MatchedKept DEF Agreeing
<1>5. FundedTasks(e)
  BY <1>1 DEF Agreeing, Funded, FundedTasks, Sized, Whole
<1>6. \A x \in Disps : SnapFits(e, x)
  BY <1>2, SnapKept DEF Agreeing, Funded, DispTask
<1> QED BY <1>2, <1>4, <1>5, <1>6 DEF Agreeing, Funded

\* A submission that is not completed, neither before nor after the write.
LEMMA SubRowAgree ==
  ASSUME NEW d, RowsTyped(d), Agreeing(d), NEW s \in Subs, NEW row,
         d.sub[s].status \notin CompletedSub, row.status \notin CompletedSub,
         row.task = d.sub[s].task \/ \A x \in Disps : d.disp[x].source # "NONE" => d.disp[x].sub # s,
         NEW e, e.sub = [d.sub EXCEPT ![s] = row],
         e.task = d.task, e.disp = d.disp, e.work = d.work
  PROVE  Agreeing(e) /\ TasksKept(d, e)
<1>1. e.sub[s] = row /\ \A o \in Subs \ {s} : e.sub[o] = d.sub[o]
  BY DEF RowsTyped
<1>2. \A o \in Subs : \/ e.sub[o] = d.sub[o]
                      \/ /\ e.sub[o].status \notin CompletedSub
                         /\ d.sub[o].status \notin CompletedSub
  BY <1>1
<1>3. TasksKept(d, e)
  BY DEF TasksKept
<1>4. CompletionsRecorded(e)
  <2> DEFINE done(f, t) == {o \in Subs : f.sub[o].status \in CompletedSub /\ f.sub[o].task = t}
  <2>1. \A t \in Tasks : done(e, t) = done(d, t)
    BY <1>2
  <2>2. \A t \in Tasks : \A o \in done(d, t) : e.sub[o] = d.sub[o]
    BY <1>2
  <2>3. ASSUME NEW t \in Tasks
        PROVE  {e.sub[o].agent : o \in done(e, t)} = {d.sub[o].agent : o \in done(d, t)}
    BY <2>1, <2>2
  <2>4. \A t \in Tasks : d.task[t].completed = {d.sub[o].agent : o \in done(d, t)}
    BY DEF Agreeing, Matched, CompletionsRecorded
  <2> QED BY <2>3, <2>4 DEF CompletionsRecorded
<1>5. PaidOnce(e)
  <2>1. \A o \in Subs : e.sub[o].status = "CONFIRMED" =>
                          e.sub[o] = d.sub[o] /\ d.sub[o].status = "CONFIRMED"
    BY <1>2 DEF CompletedSub
  <2>2. PaidOnce(d)
    BY DEF Agreeing, Matched
  <2> QED BY <2>1, <2>2 DEF PaidOnce, TaskOf
<1>6. CompletionsEarn(e)
  <2>1. CompletionsEarn(d)
    BY DEF Agreeing, Matched
  <2>2. ASSUME NEW r, WorkerRow(d, r) PROVE WorkerRow(e, r)
    BY <1>2, <2>2 DEF WorkerRow, ResolvedDisputeOnSub
  <2>3. \A o : WorkerRows(e, o) = WorkerRows(d, o)
    BY DEF WorkerRows
  <2>4. \A o \in Subs : e.sub[o].status \in CompletedSub <=> d.sub[o].status \in CompletedSub
    BY <1>2
  <2> QED BY <2>1, <2>2, <2>3, <2>4 DEF CompletionsEarn
<1>7. \A x \in Disps : VotesEarn(e, x)
  BY DEF Agreeing, Matched, VotesEarn, VoteRows
<1>8. FundedTasks(e)
  BY DEF Agreeing, Funded, FundedTasks
<1>9. ASSUME NEW x \in Disps PROVE SnapFits(e, x)
  <2>1. d.disp[x].source # "NONE" => DispTask(e, x) = DispTask(d, x)
    <3>1. d.disp[x].sub = s => e.sub[d.disp[x].sub].task = d.sub[d.disp[x].sub].task \/ d.disp[x].source = "NONE"
      BY <1>1
    <3>2. d.disp[x].sub # s => e.sub[d.disp[x].sub] = d.sub[d.disp[x].sub]
      BY DEF RowsTyped
    <3> QED BY <3>1, <3>2 DEF DispTask
  <2> QED BY <1>3, <2>1, SnapKept DEF Agreeing, Funded
<1> QED BY <1>3, <1>4, <1>5, <1>6, <1>7, <1>8, <1>9 DEF Agreeing, Funded, Matched

-----------------------------------------------------------------------------
(* A completion.                                                           *)

\* Submission s becomes completed, on account of dispute x if there is one.
Completes(d, e, s, x) ==
  /\ \A o \in Subs \ {s} : e.sub[o] = d.sub[o]
  /\ e.sub[s].status \in CompletedSub
  /\ e.sub[s].task = d.sub[s].task
  /\ e.sub[s].agent = d.sub[s].agent
  /\ e.sub[s].status = "CONFIRMED" => ~RepeatBlocked(d, s)
  /\ e.work = d.work \cup CompletionWork(d, s, x)
  /\ \A t \in Tasks : e.task[t].completed =
       IF t = d.sub[s].task THEN d.task[t].completed \cup {d.sub[s].agent}
                            ELSE d.task[t].completed
  /\ \A y \in Disps : e.disp[y].sub = d.disp[y].sub /\ e.disp[y].votes = d.disp[y].votes
  /\ \A y \in Disps \ {x} : e.disp[y].status = d.disp[y].status
  /\ \/ x = NoDispute
     \/ /\ x \in Disps
        /\ d.disp[x].sub = s
        /\ d.disp[x].status = "OPEN" /\ e.disp[x].status = "RESOLVED_COMPLETED"

LEMMA WorkerEarned ==
  ASSUME NEW d, NEW s, NEW x
  PROVE  LET new == {r \in CompletionWork(d, s, x) : r.kind = "WORKER"}
         IN IF WorkerWorkload > 0 THEN \E r : new = {r} ELSE new = {}
<1> DEFINE row(agent, kind) == [cycle |-> d.active, agent |-> agent, kind |-> kind,
                                disp |-> x, sub |-> s]
           worker == row(d.sub[s].agent, "WORKER")
           publisher == row(TaskOf(d, s).publisher, "PUBLISHER")
           new == {r \in CompletionWork(d, s, x) : r.kind = "WORKER"}
<1>1. \A r : r \in CompletionWork(d, s, x) <=>
               WorkloadOf(r) > 0 /\ (r = worker \/ (r = publisher /\ x = NoDispute))
  BY DEF CompletionWork, Recorded
<1>2. worker.kind = "WORKER" /\ publisher.kind = "PUBLISHER"
  OBVIOUS
<1> HIDE DEF worker, publisher
<1>3. WorkloadOf(worker) = WorkerWorkload
  BY <1>2 DEF WorkloadOf
<1>4. \A r : r \in new <=> WorkerWorkload > 0 /\ r = worker
  BY <1>1, <1>2, <1>3
<1> HIDE DEF new
<1>5. CASE WorkerWorkload > 0
  <2>1. new = {worker}
    BY <1>4, <1>5
  <2> QED BY <1>5, <2>1 DEF new
<1>6. CASE ~(WorkerWorkload > 0)
  <2>1. new = {}
    BY <1>4, <1>6
  <2> QED BY <1>6, <2>1 DEF new
<1> QED BY <1>5, <1>6

LEMMA CompletesMatched ==
  ASSUME NEW d, RowsTyped(d), References(d), Matched(d), NEW s \in Subs,
         d.sub[s].status \in {"SUBMITTED", "REJECTED"}, ~ResolvedDisputeOnSub(d, s),
         NEW x, NEW e, Completes(d, e, s, x), TasksKept(d, e)
  PROVE  Matched(e)
<1>1. NoDispute \notin Disps
  BY IdsAssumption DEF NoDispute
<1>2. /\ d.sub[s].status \notin CompletedSub
      /\ d.sub[s].task \in Tasks /\ d.task[d.sub[s].task].status # "NONE"
  BY DEF CompletedSub, References
<1>3. /\ \A o \in Subs \ {s} : e.sub[o] = d.sub[o]
      /\ e.sub[s].status \in CompletedSub
      /\ e.sub[s].task = d.sub[s].task
      /\ e.sub[s].agent = d.sub[s].agent
  BY DEF Completes
<1>4. CompletionsRecorded(e)
  <2> DEFINE done(f, t) == {o \in Subs : f.sub[o].status \in CompletedSub /\ f.sub[o].task = t}
             agents(f, t) == {f.sub[o].agent : o \in done(f, t)}
  <2>1. \A t \in Tasks : d.task[t].completed = agents(d, t)
    BY DEF Matched, CompletionsRecorded
  <2>2. ASSUME NEW t \in Tasks, t # d.sub[s].task PROVE agents(e, t) = agents(d, t)
    <3>1. done(e, t) = done(d, t) /\ s \notin done(d, t)
      BY <1>2, <1>3, <2>2
    <3>2. \A o \in done(d, t) : e.sub[o].agent = d.sub[o].agent
      BY <1>3, <3>1
    <3> QED BY <3>1, <3>2
  <2>3. agents(e, d.sub[s].task) = agents(d, d.sub[s].task) \cup {d.sub[s].agent}
    <3> DEFINE t == d.sub[s].task
    <3>1. done(e, t) = done(d, t) \cup {s} /\ s \notin done(d, t)
      BY <1>2, <1>3
    <3>2. \A o \in done(e, t) : e.sub[o].agent = d.sub[o].agent
      BY <1>3, <3>1
    <3> QED BY <3>1, <3>2
  <2>4. \A t \in Tasks : e.task[t].completed =
          IF t = d.sub[s].task THEN d.task[t].completed \cup {d.sub[s].agent}
                               ELSE d.task[t].completed
    BY DEF Completes
  <2>5. \A t \in Tasks : e.task[t].completed = agents(e, t)
    <3> HIDE DEF agents
    <3> QED BY <2>1, <2>2, <2>3, <2>4
  <2> QED BY <2>5 DEF CompletionsRecorded
<1>5. PaidOnce(e)
  <2> SUFFICES ASSUME NEW o \in Subs, NEW p \in Subs, o # p,
                      e.sub[o].status = "CONFIRMED", e.sub[p].status = "CONFIRMED",
                      e.sub[o].task = e.sub[p].task, e.sub[o].agent = e.sub[p].agent
               PROVE  TaskOf(e, o).repeat
    BY DEF PaidOnce
  <2>1. d.sub[o].task = e.sub[o].task /\ d.sub[o].agent = e.sub[o].agent
        /\ d.sub[p].task = e.sub[p].task /\ d.sub[p].agent = e.sub[p].agent
    BY <1>3
  <2>2. d.sub[o].status # "NONE"
    BY <1>2, <1>3
  <2>3. d.sub[o].task \in Tasks /\ d.task[d.sub[o].task].status # "NONE"
    BY <2>2 DEF References
  <2>4. TaskOf(d, o).repeat
    <3>1. CASE o # s /\ p # s
      <4>1. d.sub[o].status = "CONFIRMED" /\ d.sub[p].status = "CONFIRMED"
        BY <1>3, <3>1
      <4> QED BY <2>1, <4>1 DEF Matched, PaidOnce
    <3>2. CASE o = s \/ p = s
      <4> DEFINE q == IF o = s THEN p ELSE o
      <4>1. q \in Subs \ {s} /\ d.sub[q].status = "CONFIRMED"
            /\ d.sub[q].task = d.sub[s].task /\ d.sub[q].agent = d.sub[s].agent
        BY <1>3, <2>1, <3>2
      <4>2. d.sub[s].agent \in d.task[d.sub[s].task].completed
        BY <1>2, <4>1 DEF Matched, CompletionsRecorded, CompletedSub
      <4>3. e.sub[s].status = "CONFIRMED"
        BY <3>2
      <4>4. TaskOf(d, s).repeat
        BY <4>2, <4>3 DEF Completes, RepeatBlocked, TaskOf
      <4> QED BY <2>1, <3>2, <4>4 DEF TaskOf
    <3> QED BY <3>1, <3>2
  <2> QED BY <2>1, <2>3, <2>4 DEF TaskOf, TasksKept
<1>6. CompletionsEarn(e)
  <2> DEFINE new == {r \in CompletionWork(d, s, x) : r.kind = "WORKER"}
  <2>1. \A r \in CompletionWork(d, s, x) : r.disp = x /\ r.sub = s
    BY CompletionRows
  <2>2. e.work = d.work \cup CompletionWork(d, s, x)
    BY DEF Completes
  <2>3. CompletionsEarn(d)
    BY DEF Matched
  <2>4. ASSUME NEW r \in d.work, r.kind = "WORKER" PROVE WorkerRow(e, r)
    <3>1. WorkerRow(d, r)
      BY <2>3, <2>4 DEF CompletionsEarn
    <3>2. r.sub \in Subs \ {s} /\ e.sub[r.sub] = d.sub[r.sub]
      BY <1>2, <1>3, <3>1 DEF WorkerRow
    <3>3. CASE r.disp = NoDispute /\ ~ResolvedDisputeOnSub(d, r.sub)
      <4>1. ~ResolvedDisputeOnSub(e, r.sub)
        <5>1. ASSUME NEW y \in Disps, e.disp[y].status = "RESOLVED_COMPLETED",
                     e.disp[y].sub = r.sub
              PROVE  FALSE
          <6>1. d.disp[y].sub = r.sub
            BY <5>1 DEF Completes
          <6>2. y # x
            BY <1>1, <3>2, <6>1 DEF Completes
          <6>3. d.disp[y].status = "RESOLVED_COMPLETED"
            BY <5>1, <6>2 DEF Completes
          <6> QED BY <3>3, <6>1, <6>3 DEF ResolvedDisputeOnSub
        <5> QED BY <5>1 DEF ResolvedDisputeOnSub
      <4> QED BY <3>1, <3>2, <3>3, <4>1 DEF WorkerRow
    <3>4. CASE r.disp \in Disps /\ d.disp[r.disp].status = "RESOLVED_COMPLETED"
               /\ d.disp[r.disp].sub = r.sub
      <4>1. r.disp # x
        BY <1>1, <3>4 DEF Completes
      <4> QED BY <3>1, <3>2, <3>4, <4>1 DEF WorkerRow, Completes
    <3> QED BY <3>1, <3>3, <3>4 DEF WorkerRow
  <2>5. ASSUME NEW r \in new PROVE WorkerRow(e, r)
    <3>1. r.disp = x /\ r.sub = s
      BY <2>1
    <3>2. x = NoDispute => ~ResolvedDisputeOnSub(e, s)
      BY <1>1 DEF Completes, ResolvedDisputeOnSub
    <3>3. x # NoDispute => /\ x \in Disps /\ e.disp[x].sub = s
                           /\ e.disp[x].status = "RESOLVED_COMPLETED"
      BY DEF Completes
    <3> QED BY <1>3, <3>1, <3>2, <3>3 DEF WorkerRow
  <2>6. \A o \in Subs \ {s} : WorkerRows(e, o) = WorkerRows(d, o)
    BY <2>1, <2>2 DEF WorkerRows
  <2>7. WorkerRows(d, s) = {}
    BY <1>2, <2>3 DEF CompletionsEarn
  <2>8. WorkerRows(e, s) = new
    BY <2>1, <2>2, <2>7 DEF WorkerRows
  <2>9. IF WorkerWorkload > 0 THEN \E r : new = {r} ELSE new = {}
    BY WorkerEarned
  <2>10. new \subseteq e.work
    BY <2>2
  <2>11. \A r \in e.work : r.kind = "WORKER" => WorkerRow(e, r)
    BY <2>2, <2>4, <2>5
  <2> HIDE DEF new
  <2>12. IF e.sub[s].status \in CompletedSub /\ WorkerWorkload > 0
         THEN \E r \in e.work : WorkerRows(e, s) = {r}
         ELSE WorkerRows(e, s) = {}
    BY <1>3, <2>8, <2>9, <2>10
  <2>13. ASSUME NEW o \in Subs \ {s}
         PROVE  IF e.sub[o].status \in CompletedSub /\ WorkerWorkload > 0
                THEN \E r \in e.work : WorkerRows(e, o) = {r}
                ELSE WorkerRows(e, o) = {}
    <3>1. IF d.sub[o].status \in CompletedSub /\ WorkerWorkload > 0
          THEN \E r \in d.work : WorkerRows(d, o) = {r}
          ELSE WorkerRows(d, o) = {}
      BY <2>3 DEF CompletionsEarn
    <3>2. e.sub[o].status = d.sub[o].status /\ d.work \subseteq e.work
      BY <1>3, <2>2
    <3> QED BY <2>6, <3>1, <3>2
  <2> QED BY <2>11, <2>12, <2>13 DEF CompletionsEarn
<1>7. ASSUME NEW y \in Disps PROVE VotesEarn(e, y)
  <2>1. VoteRows(e, y) = VoteRows(d, y)
    BY CompletionRows DEF Completes, VoteRows
  <2>2. e.disp[y].votes = d.disp[y].votes
    BY DEF Completes
  <2> QED BY <2>1, <2>2 DEF Matched, VotesEarn
<1> QED BY <1>4, <1>5, <1>6, <1>7 DEF Matched

\* What a completion does to the task it is a completion of: whether it is paid
\* out of the escrow or not, the escrow stays whole.
TaskCompleted(d, e, s) ==
  LET t == d.sub[s].task
  IN /\ TasksKept(d, e)
     /\ FundedTasks(e)
     /\ \A u \in Tasks : e.task[u].completed =
          IF u = t THEN d.task[u].completed \cup {d.sub[s].agent} ELSE d.task[u].completed

LEMMA ConfirmTask ==
  ASSUME NEW d, RowsTyped(d), References(d), FundedTasks(d), NEW s \in Subs,
         d.sub[s].status # "NONE", HasPayableSlot(TaskOf(d, s)), NEW x
  PROVE  TaskCompleted(d, ConfirmInternal(d, s, x), s)
<1> DEFINE e == ConfirmInternal(d, s, x)
           t == d.sub[s].task
           row == d.task[t]
           left == row.escrow - row.reward
           completed == row.completed \cup {d.sub[s].agent}
           paid == [row EXCEPT !.escrow = left, !.completed = completed]
           after == [paid EXCEPT !.status =
                       IF ConfirmedSlots(paid) >= paid.slots THEN "CLOSED" ELSE @]
<1>1. t \in Tasks /\ row.status # "NONE" /\ row \in TaskRow
  BY DEF References, RowsTyped
<1>2. e.task = [d.task EXCEPT ![t] = after]
  BY DEF ConfirmInternal, RowsTyped, TableNames
<1>3. Sized(row) /\ Whole(row, row.status, row.escrow)
  BY <1>1 DEF FundedTasks
<1>4. HasPayableSlot(row)
  BY DEF TaskOf
<1> HIDE DEF row, e
<1>5. PICK k \in 0..row.slots : row.escrow = k * row.reward /\ (row.status \in ActiveTask <=> k > 0)
  BY <1>3 DEF Whole
<1>6. k > 0 /\ row.status \in ActiveTask
  BY <1>3, <1>4, <1>5, PayableIs
<1>7. k - 1 \in 0..row.slots /\ left = (k - 1) * row.reward
  BY <1>3, <1>5, <1>6 DEF Sized
<1>8. /\ paid.slots = row.slots /\ paid.reward = row.reward /\ paid.repeat = row.repeat
      /\ paid.status = row.status /\ paid.escrow = left /\ paid.completed = completed
      /\ DOMAIN paid = DOMAIN row
  BY <1>1 DEF TaskRow
<1> HIDE DEF left, completed, paid
<1>9. Sized(paid)
  BY <1>3, <1>8 DEF Sized
<1>10. ConfirmedSlots(paid) = row.slots - (k - 1)
  BY <1>7, <1>8, <1>9, PayableIs
<1>11. (ConfirmedSlots(paid) >= paid.slots) <=> k - 1 = 0
  BY <1>3, <1>5, <1>6, <1>8, <1>10 DEF Sized
<1>12. /\ after.slots = row.slots /\ after.reward = row.reward /\ after.repeat = row.repeat
       /\ after.status = IF k - 1 = 0 THEN "CLOSED" ELSE row.status
       /\ after.escrow = left /\ after.completed = completed
  BY <1>1, <1>8, <1>11 DEF TaskRow
<1> HIDE DEF after
<1>13. Whole(after, after.status, after.escrow)
  BY <1>5, <1>6, <1>7, <1>12 DEF Whole, ActiveTask
<1>14. e.task[t] = after /\ \A u \in Tasks \ {t} : e.task[u] = d.task[u]
  BY <1>1, <1>2 DEF RowsTyped
<1>15. Sized(after) /\ after.status # "NONE"
  BY <1>1, <1>3, <1>12, <1>6 DEF Sized, ActiveTask
<1>16. FundedTasks(e)
  BY <1>13, <1>14, <1>15 DEF FundedTasks
<1>17. TasksKept(d, e)
  BY <1>12, <1>14, <1>15 DEF TasksKept, row
<1>18. \A u \in Tasks : e.task[u].completed =
         IF u = t THEN d.task[u].completed \cup {d.sub[s].agent} ELSE d.task[u].completed
  BY <1>12, <1>14 DEF completed, row
<1> QED BY <1>16, <1>17, <1>18 DEF TaskCompleted, e

LEMMA WalletTask ==
  ASSUME NEW d, RowsTyped(d), References(d), FundedTasks(d), NEW x \in Disps,
         d.disp[x].status # "NONE", ~HasPayableSlot(TaskOf(d, d.disp[x].sub)),
         NEW e, PaidFromWallet(d, e, x)
  PROVE  TaskCompleted(d, e, d.disp[x].sub)
<1> DEFINE s == d.disp[x].sub
           t == DispTask(d, x)
           row == d.task[t]
           completed == row.completed \cup {DispWorker(d, x)}
           status == IF HasPayableSlot(row) THEN row.status ELSE "CLOSED"
           after == [row EXCEPT !.completed = completed, !.status = status]
<1>1. /\ t \in Tasks /\ row.status # "NONE" /\ row \in TaskRow
      /\ t = d.sub[s].task /\ DispWorker(d, x) = d.sub[s].agent
  BY DisputeRefs DEF RowsTyped, DispTask, DispWorker
<1>2. e.task = [d.task EXCEPT ![t] = after]
  BY DEF PaidFromWallet
<1>3. Sized(row) /\ Whole(row, row.status, row.escrow)
  BY <1>1 DEF FundedTasks
<1>4. ~HasPayableSlot(row)
  BY <1>1 DEF TaskOf
<1>5. status = "CLOSED"
  BY <1>4
<1> HIDE DEF row
<1>6. PICK k \in 0..row.slots : row.escrow = k * row.reward /\ (row.status \in ActiveTask <=> k > 0)
  BY <1>3 DEF Whole
<1>7. ~(k > 0)
  BY <1>3, <1>4, <1>6, PayableIs
<1> HIDE DEF status, completed
<1>8. /\ after.slots = row.slots /\ after.reward = row.reward /\ after.repeat = row.repeat
      /\ after.status = status /\ after.escrow = row.escrow /\ after.completed = completed
  BY <1>1 DEF TaskRow
<1> HIDE DEF after
<1>9. Whole(after, after.status, after.escrow)
  BY <1>5, <1>6, <1>7, <1>8 DEF Whole, ActiveTask
<1>10. Sized(after) /\ after.status # "NONE"
  BY <1>3, <1>5, <1>8 DEF Sized
<1>11. e.task[t] = after /\ \A u \in Tasks \ {t} : e.task[u] = d.task[u]
  BY <1>1, <1>2 DEF RowsTyped
<1>12. FundedTasks(e)
  BY <1>9, <1>10, <1>11 DEF FundedTasks
<1>13. TasksKept(d, e)
  BY <1>8, <1>10, <1>11 DEF TasksKept, row
<1>14. \A u \in Tasks : e.task[u].completed =
         IF u = d.sub[s].task THEN d.task[u].completed \cup {d.sub[s].agent}
                              ELSE d.task[u].completed
  BY <1>1, <1>8, <1>11 DEF completed, row
<1> QED BY <1>12, <1>13, <1>14 DEF TaskCompleted

\* Confirmation by the publisher or on behalf of a publisher who is late.
LEMMA ConfirmAgree ==
  ASSUME NEW d, Good(d, Disps), Agreeing(d), NEW s \in Subs,
         \/ d.sub[s].status = "SUBMITTED"
         \/ d.sub[s].status = "REJECTED" /\ ~OpenDisputeOnSub(d, s),
         HasPayableSlot(TaskOf(d, s)), ~RepeatBlocked(d, s)
  PROVE  LET e == ConfirmInternal(d, s, NoDispute)
         IN Agreeing(e) /\ TasksKept(d, e)
<1> DEFINE e == ConfirmInternal(d, s, NoDispute)
<1>1. /\ RowsTyped(d) /\ References(d) /\ Matched(d) /\ FundedTasks(d)
      /\ d.sub[s].status \in {"SUBMITTED", "REJECTED"}
      /\ d.sub[s].status # "NONE"
  BY DEF Good, Agreeing, Funded
<1>2. ~ResolvedDisputeOnSub(d, s)
  BY <1>1 DEF ResolvedDisputeOnSub, Good, DisputeBacked
<1>3. e.disp = d.disp /\ e.sub = [d.sub EXCEPT ![s].status = "CONFIRMED"]
  BY <1>1, ConfirmEffect
<1>4. e.work = d.work \cup CompletionWork(d, s, NoDispute)
  BY <1>1, ConfirmWork
<1>5. TaskCompleted(d, e, s)
  BY <1>1, ConfirmTask
<1> HIDE DEF e
<1>6. /\ \A o \in Subs \ {s} : e.sub[o] = d.sub[o]
      /\ e.sub[s].status = "CONFIRMED"
      /\ e.sub[s].task = d.sub[s].task /\ e.sub[s].agent = d.sub[s].agent
  BY <1>1, <1>3 DEF RowsTyped, SubRow
<1>7. TasksKept(d, e) /\ FundedTasks(e)
  BY <1>5 DEF TaskCompleted
<1>8. \A t \in Tasks : e.task[t].completed =
        IF t = d.sub[s].task THEN d.task[t].completed \cup {d.sub[s].agent}
                             ELSE d.task[t].completed
  BY <1>5 DEF TaskCompleted
<1>9. Completes(d, e, s, NoDispute)
  BY <1>3, <1>4, <1>6, <1>8 DEF Completes, CompletedSub
<1>10. Matched(e)
  BY <1>1, <1>2, <1>7, <1>9, CompletesMatched
<1>11. ASSUME NEW x \in Disps PROVE SnapFits(e, x)
  <2>1. d.disp[x].source # "NONE" => d.disp[x].sub \in Subs
    BY <1>1, DisputeRefs DEF Good, Restorable
  <2>2. d.disp[x].source # "NONE" => DispTask(e, x) = DispTask(d, x)
    BY <1>3, <1>6, <2>1 DEF DispTask
  <2> QED BY <1>3, <1>7, <2>2, SnapKept DEF Agreeing, Funded
<1> QED BY <1>7, <1>10, <1>11 DEF Agreeing, Funded, e

\* Resolving a dispute as completed, out of the escrow or out of the wallet.
LEMMA FinalizeAgree ==
  ASSUME NEW d, Good(d, Disps), Agreeing(d), NEW x \in Disps, d.disp[x].status = "OPEN",
         ~FinalizeThrows(d, x)
  PROVE  LET e == FinalizeCompleted(d, x)
         IN Agreeing(e) /\ TasksKept(d, e)
<1> DEFINE m == [d EXCEPT !.disp[x].status = "RESOLVED_COMPLETED"]
           s == d.disp[x].sub
           e == FinalizeCompleted(d, x)
<1>1. RowsTyped(d) /\ References(d) /\ DisputeBacked(d, Disps) /\ Matched(d) /\ FundedTasks(d)
  BY DEF Good, Agreeing, Funded
<1>2. /\ RowsTyped(m)
      /\ References(m)
      /\ m.task = d.task /\ m.sub = d.sub /\ m.ban = d.ban /\ m.active = d.active
      /\ \A y \in Disps \ {x} : m.disp[y] = d.disp[y]
      /\ m.disp[x].status = "RESOLVED_COMPLETED"
      /\ m.disp[x].sub = s
  BY <1>1, MarkResolved
<1>3. s \in Subs /\ d.sub[s].status = "REJECTED" /\ d.sub[s].task \in Tasks
      /\ d.task[d.sub[s].task].status # "NONE"
  BY <1>1, DisputeRefs DEF DisputeBacked, DispTask
<1>4. /\ PaysFromEscrow(d, x) <=> HasPayableSlot(TaskOf(d, s))
      /\ PaysFromWallet(d, x) <=> ~HasPayableSlot(TaskOf(d, s))
  BY <1>3 DEF PaysFromEscrow, PaysFromWallet, AlreadyCompleted, CompletedSub
<1>5. Decided(d, e, x)
  BY FinalizeDecides
<1>6. e = IF HasPayableSlot(TaskOf(d, s)) THEN ResolveFromEscrow(m, x) ELSE ResolveFromWallet(m, x)
  BY <1>4 DEF FinalizeCompleted
<1> HIDE DEF m, e
<1>7. TaskOf(m, s) = TaskOf(d, s) /\ DispTask(m, x) = d.sub[s].task
  BY <1>2 DEF TaskOf, DispTask
<1>8. FundedTasks(m)
  BY <1>1, <1>2 DEF FundedTasks
<1>9. /\ TaskCompleted(m, e, s)
      /\ e.disp[x].snap = SnapshotBefore(m, x)
      /\ e.sub[s].status = "CONFIRMED" => HasPayableSlot(TaskOf(d, s))
  <2>1. CASE HasPayableSlot(TaskOf(d, s))
    <3> DEFINE c == ConfirmInternal(m, s, x)
    <3>1. e = ResolveFromEscrow(m, x)
      BY <1>6, <2>1
    <3>2. TaskCompleted(m, c, s)
      BY <1>2, <1>3, <1>7, <1>8, <2>1, ConfirmTask
    <3> HIDE DEF c
    <3>3. e.disp[x].snap = SnapshotBefore(m, x) /\ e.task = c.task
      BY <1>2, <3>1, EscrowDecides DEF c
    <3>4. TaskCompleted(m, e, s)
      BY <3>2, <3>3 DEF TaskCompleted, TasksKept, FundedTasks
    <3> QED BY <2>1, <3>3, <3>4
  <2>2. CASE ~HasPayableSlot(TaskOf(d, s))
    <3>1. PaidFromWallet(m, e, x)
      BY <1>2, <1>6, <2>2, WalletDecides
    <3>2. TaskCompleted(m, e, m.disp[x].sub)
      BY <1>2, <1>7, <1>8, <2>2, <3>1, WalletTask
    <3>3. e.sub = [d.sub EXCEPT ![s].status = "DISPUTE_COMPLETED"]
      BY <1>2, <3>1 DEF PaidFromWallet
    <3>4. e.sub[s].status = "DISPUTE_COMPLETED"
      <4>1. d.sub \in [Subs -> SubRow] /\ s \in Subs
        BY <1>1, <1>3 DEF RowsTyped
      <4> HIDE DEF s
      <4> QED BY <3>3, <4>1, StatusWritten
    <3> QED BY <1>2, <3>1, <3>2, <3>4 DEF PaidFromWallet
  <2> QED BY <2>1, <2>2
<1>10. /\ TasksKept(d, e) /\ FundedTasks(e)
       /\ \A t \in Tasks : e.task[t].completed =
            IF t = d.sub[s].task THEN d.task[t].completed \cup {d.sub[s].agent}
                                 ELSE d.task[t].completed
  BY <1>2, <1>9 DEF TaskCompleted, TasksKept
<1>11. e.sub[s].status = "CONFIRMED" => ~RepeatBlocked(d, s)
  BY <1>4, <1>9 DEF FinalizeThrows, ConfirmThrows
<1>12. Completes(d, e, s, x)
  <2>1. \A y \in Disps \ {x} : e.disp[y] = d.disp[y]
    BY <1>5 DEF Decided
  <2>2. e.disp[x].sub = d.disp[x].sub /\ e.disp[x].votes = d.disp[x].votes
    BY <1>5 DEF Decided
  <2> QED BY <1>5, <1>10, <1>11, <2>1, <2>2 DEF Decided, Completes
<1>13. ~ResolvedDisputeOnSub(d, s)
  BY <1>1, <1>3 DEF ResolvedDisputeOnSub, DisputeBacked
<1>14. Matched(e)
  BY <1>1, <1>3, <1>10, <1>12, <1>13, CompletesMatched
<1>15. ASSUME NEW y \in Disps \ {x} PROVE SnapFits(e, y)
  <2>1. d.disp[y].source # "NONE" => d.disp[y].sub \in Subs
    BY <1>1, DisputeRefs DEF Good, Restorable
  <2>2. e.disp[y] = d.disp[y] /\ \A o \in Subs : e.sub[o].task = d.sub[o].task
    BY <1>5 DEF Decided
  <2>3. d.disp[y].source # "NONE" => DispTask(e, y) = DispTask(d, y)
    BY <2>1, <2>2 DEF DispTask
  <2> QED BY <1>10, <2>2, <2>3, SnapKept DEF Agreeing, Funded
<1>16. SnapFits(e, x)
  <2> DEFINE t == d.sub[s].task
             snap == e.disp[x].snap
             taken == SnapshotBefore(m, x)
  <2>1. snap.status = d.task[t].status /\ snap.escrow = d.task[t].escrow /\ snap.forced = <<>>
    <3>1. /\ taken.status = m.task[DispTask(m, x)].status
          /\ taken.escrow = m.task[DispTask(m, x)].escrow
          /\ taken.forced = <<>>
      BY DEF SnapshotBefore
    <3> HIDE DEF taken
    <3>2. snap = taken
      BY <1>9 DEF taken
    <3> QED BY <1>2, <1>7, <3>1, <3>2
  <2>2. DispTask(e, x) = t
    BY <1>5 DEF Decided, DispTask
  <2> HIDE DEF snap
  <2>3. Fits(d, t, snap.status, snap.escrow)
    BY <1>1, <1>3, <2>1 DEF Fits, FundedTasks
  <2>4. Fits(e, t, snap.status, snap.escrow)
    BY <1>10, <2>3, FitsKept
  <2>5. AllFit(e, snap.forced)
    BY <2>1, SMTT(60) DEF AllFit
  <2> QED BY <2>2, <2>4, <2>5 DEF SnapFits, snap
<1> QED BY <1>10, <1>14, <1>15, <1>16 DEF Agreeing, Funded, e

-----------------------------------------------------------------------------
(* Termination, and the rollback of one.                                   *)

LEMMA TerminateAgree ==
  ASSUME NEW d, RowsTyped(d), References(d), Agreeing(d),
         NEW t \in Tasks, d.task[t].status \in ActiveTask, NEW x
  PROVE  LET e == TerminateInternal(d, t, x)
         IN Agreeing(e) /\ TasksKept(d, e)
<1> DEFINE e == TerminateInternal(d, t, x)
           row == d.task[t]
           penalty == ComputeTerminationPenalty(row.escrow, TerminationPenaltyBps)
           refund == RefundAfter(row.escrow, penalty)
           entry == [task |-> t, cycle |-> d.active, status |-> row.status,
                     escrow |-> row.escrow, penalty |-> penalty, refund |-> refund]
           after == [row EXCEPT !.escrow = 0, !.status = "TERMINATED"]
           more(y) == [d.disp[y] EXCEPT !.snap.forced = Append(@, entry)]
           chosen(y) == y = x /\ d.disp[y].source # "NONE"
<1>1. row \in TaskRow /\ row.status # "NONE"
  BY DEF RowsTyped, ActiveTask
<1>2. DOMAIN d = TableNames
  BY DEF RowsTyped
<1>3. e.task = [d.task EXCEPT ![t] = after] /\ e.sub = d.sub
  BY <1>2 DEF TerminateInternal, TableNames
<1>4. e.disp = [y \in Disps |-> IF chosen(y) THEN more(y) ELSE d.disp[y]]
  BY <1>2 DEF TerminateInternal, TableNames
<1>5. ReviewKept(d, e)
  BY TerminateKeeps
<1>6. entry.task = t /\ entry.status = row.status /\ entry.escrow = row.escrow
  OBVIOUS
<1> HIDE DEF e, entry
<1>7. Sized(row) /\ Whole(row, row.status, row.escrow)
  BY <1>1 DEF Agreeing, Funded, FundedTasks
<1>8. /\ after.slots = row.slots /\ after.reward = row.reward /\ after.repeat = row.repeat
      /\ after.status = "TERMINATED" /\ after.escrow = 0 /\ after.completed = row.completed
  <2> HIDE DEF row
  <2> QED BY <1>1 DEF TaskRow
<1>9. e.task[t] = after /\ \A u \in Tasks \ {t} : e.task[u] = d.task[u]
  BY <1>3 DEF RowsTyped
<1> HIDE DEF after
<1>10. Whole(after, after.status, after.escrow)
  <2>1. 0 \in 0..after.slots /\ 0 = 0 * after.reward
    BY <1>7, <1>8 DEF Sized
  <2> QED BY <1>8, <2>1 DEF Whole, ActiveTask
<1>11. FundedTasks(e)
  BY <1>7, <1>8, <1>9, <1>10 DEF Agreeing, Funded, FundedTasks, Sized
<1>12. TasksKept(d, e)
  BY <1>8, <1>9 DEF TasksKept
<1>13. Matched(e)
  <2>1. \A u \in Tasks : e.task[u].completed = d.task[u].completed
    BY <1>8, <1>9
  <2> QED BY <1>5, <1>12, <2>1, MatchedKept DEF Agreeing
<1>14. ASSUME NEW y \in Disps PROVE SnapFits(e, y)
  <2>1. SnapFits(d, y) /\ DispTask(e, y) = DispTask(d, y)
    BY <1>5 DEF Agreeing, Funded, DispTask, ReviewKept, DisputeKept
  <2>2. CASE ~chosen(y)
    <3>1. e.disp[y] = d.disp[y]
      BY <1>4, <2>2
    <3> QED BY <1>12, <2>1, <3>1, SnapKept
  <2>3. CASE chosen(y)
    <3> DEFINE snap == d.disp[y].snap
    <3>1. snap \in SnapRow /\ DOMAIN d.disp[y] = DispFields
      BY DEF RowsTyped
    <3>2. e.disp[y] = [d.disp[y] EXCEPT !.snap = [snap EXCEPT !.forced = Append(snap.forced, entry)]]
      BY <1>4, <2>3, <3>1 DEF DispFields
    <3>3. /\ e.disp[y].source = d.disp[y].source
          /\ e.disp[y].snap = [snap EXCEPT !.forced = Append(snap.forced, entry)]
      BY <3>1, <3>2 DEF DispFields
    <3> HIDE DEF snap
    <3>4. /\ e.disp[y].snap.status = snap.status /\ e.disp[y].snap.escrow = snap.escrow
          /\ e.disp[y].snap.forced = Append(snap.forced, entry)
          /\ snap.forced \in Seq(ForcedRow)
      BY <3>1, <3>3 DEF SnapRow
    <3>5. Fits(e, entry.task, entry.status, entry.escrow)
      <4>1. Fits(d, entry.task, entry.status, entry.escrow)
        BY <1>1, <1>6, <1>7 DEF Fits
      <4> QED BY <1>12, <4>1, FitsKept
    <3>6. AllFit(e, snap.forced)
      BY <1>12, <2>1, AllFitKept DEF SnapFits, snap
    <3>7. AllFit(e, Append(snap.forced, entry))
      <4> DEFINE longer == Append(snap.forced, entry)
      <4>1. /\ Len(longer) = Len(snap.forced) + 1 /\ Len(snap.forced) \in Nat
            /\ \A i \in 1..Len(snap.forced) : longer[i] = snap.forced[i]
            /\ longer[Len(snap.forced) + 1] = entry
        BY <3>4
      <4> HIDE DEF longer
      <4>2. \A i \in 1..Len(longer) : i \in 1..Len(snap.forced) \/ i = Len(snap.forced) + 1
        BY <4>1
      <4>3. AllFit(e, longer)
        BY <3>5, <3>6, <4>1, <4>2 DEF AllFit
      <4> QED BY <4>3 DEF longer
    <3>8. e.disp[y].source # "NONE" =>
            Fits(e, DispTask(e, y), e.disp[y].snap.status, e.disp[y].snap.escrow)
      BY <1>12, <2>1, <3>3, <3>4, FitsKept DEF SnapFits, snap
    <3> QED BY <3>4, <3>7, <3>8 DEF SnapFits
  <2> QED BY <2>2, <2>3
<1> QED BY <1>11, <1>12, <1>13, <1>14 DEF Agreeing, Funded, e

LEMMA UnforceAgree ==
  ASSUME NEW d, RowsTyped(d), References(d), Agreeing(d),
         NEW entry, Fits(d, entry.task, entry.status, entry.escrow)
  PROVE  LET e == RollbackForced(d, entry)
         IN Agreeing(e) /\ TasksKept(d, e)
<1> DEFINE e == RollbackForced(d, entry)
           t == entry.task
           status == entry.status
           escrow == entry.escrow
           old == d.task[t]
           row == [old EXCEPT !.escrow = escrow, !.status = status]
<1>1. t \in Tasks /\ status # "NONE" /\ old.status # "NONE" /\ Whole(old, status, escrow)
  BY DEF Fits
<1>2. e.task = [d.task EXCEPT ![t] = row] /\ e.sub = d.sub /\ e.disp = d.disp /\ e.work = d.work
  BY DEF RollbackForced, RowsTyped, TableNames
<1>3. old \in TaskRow
  BY <1>1 DEF RowsTyped
<1> HIDE DEF e, old, status, escrow
<1>4. /\ row.slots = old.slots /\ row.reward = old.reward /\ row.repeat = old.repeat
      /\ row.status = status /\ row.escrow = escrow /\ row.completed = old.completed
  BY <1>3 DEF TaskRow
<1> HIDE DEF row, t
<1>5. Agreeing(e) /\ TasksKept(d, e)
  BY <1>1, <1>2, <1>4, TaskRowAgree DEF old
<1> QED BY <1>5 DEF e

\* Only the rollback history of the dispute is written.
LEMMA ArchiveAgree ==
  ASSUME NEW d, RowsTyped(d), References(d), Agreeing(d), NEW x \in Disps
  PROVE  LET e == ArchiveRound(d, x)
         IN /\ Agreeing(e) /\ TasksKept(d, e)
            /\ e.disp[x].snap = d.disp[x].snap
<1> DEFINE e == ArchiveRound(d, x)
           h == [exists |-> TRUE,
                 cycles |-> d.disp[x].history.cycles \cup AffectedCycles(d, x),
                 agents |-> d.disp[x].history.agents \cup {r.agent : r \in DisputeWork(d, x)}]
           row == [d.disp[x] EXCEPT !.history = h]
<1>1. ReviewKept(d, e)
  BY ArchiveKeeps
<1>2. CASE e = d
  BY <1>2 DEF TasksKept
<1>3. CASE e = [d EXCEPT !.disp[x] = row]
  <2> HIDE DEF e, h
  <2>1. e.task = d.task /\ e.disp = [d.disp EXCEPT ![x] = row]
    BY <1>3 DEF RowsTyped, TableNames
  <2>2. row.source = d.disp[x].source /\ row.snap = d.disp[x].snap
    BY DEF RowsTyped, DispFields
  <2>3. e.disp[x] = row /\ \A y \in Disps \ {x} : e.disp[y] = d.disp[y]
    BY <2>1 DEF RowsTyped
  <2> HIDE DEF row
  <2>4. TasksKept(d, e) /\ FundedTasks(e)
    BY <2>1 DEF TasksKept, Agreeing, Funded, FundedTasks
  <2>5. Matched(e)
    BY <1>1, <2>1, <2>4, MatchedKept DEF Agreeing
  <2>6. ASSUME NEW y \in Disps PROVE SnapFits(e, y)
    <3>1. e.disp[y].snap = d.disp[y].snap /\ e.disp[y].source = d.disp[y].source
      BY <2>2, <2>3
    <3>2. DispTask(e, y) = DispTask(d, y)
      BY <1>1 DEF ReviewKept, DisputeKept, DispTask
    <3> QED BY <2>4, <3>1, <3>2, SnapKept DEF Agreeing, Funded
  <2> QED BY <2>2, <2>3, <2>4, <2>5, <2>6 DEF Agreeing, Funded, e
<1> QED BY <1>2, <1>3 DEF ArchiveRound

\* The completion of a resolved dispute is taken back with its workload.
LEMMA RollbackMatched ==
  ASSUME NEW d, RowsTyped(d), Matched(d),
         \A y, z \in Existing(d.disp) : d.disp[y].sub = d.disp[z].sub => y = z,
         NEW x \in Disps, d.disp[x].status = "RESOLVED_COMPLETED", d.disp[x].sub \in Subs,
         d.sub[d.disp[x].sub].status \in CompletedSub,
         NEW e, e.disp = d.disp,
         e.sub = [d.sub EXCEPT ![d.disp[x].sub].status = "REJECTED"],
         e.work = d.work \ {r \in DisputeWork(d, x) : r.kind = "WORKER"},
         TasksKept(d, e), References(d),
         \A t \in Tasks : e.task[t].completed =
           IF t = DispTask(d, x) /\ ~OtherCompletion(d, d.disp[x].sub)
           THEN d.task[t].completed \ {d.sub[d.disp[x].sub].agent}
           ELSE d.task[t].completed
  PROVE  Matched(e)
<1> DEFINE s == d.disp[x].sub
<1>1. /\ \A o \in Subs \ {s} : e.sub[o] = d.sub[o]
      /\ e.sub[s].status = "REJECTED" /\ e.sub[s].status \notin CompletedSub
      /\ e.sub[s].task = d.sub[s].task
      /\ e.sub[s].agent = d.sub[s].agent
  <2>1. d.sub \in [Subs -> SubRow] /\ s \in Subs /\ e.sub = [d.sub EXCEPT ![s].status = "REJECTED"]
    BY DEF RowsTyped
  <2> DEFINE f == d.sub
             g == e.sub
  <2> HIDE DEF s, f, g
  <2>2. f \in [Subs -> SubRow] /\ s \in Subs /\ g = [f EXCEPT ![s].status = "REJECTED"]
    BY ONLY <2>1 DEF f, g
  <2>3. \A o \in Subs : /\ g[o].task = f[o].task
                        /\ g[o].agent = f[o].agent
                        /\ g[o].status = IF o = s THEN "REJECTED" ELSE f[o].status
                        /\ o # s => g[o] = f[o]
    BY ONLY <2>2, StatusWritten
  <2>4. "REJECTED" \notin CompletedSub
    BY DEF CompletedSub
  <2> QED BY ONLY <2>2, <2>3, <2>4 DEF f, g
<1>2. CompletionsRecorded(e)
  <2> DEFINE done(f, t) == {o \in Subs : f.sub[o].status \in CompletedSub /\ f.sub[o].task = t}
             agents(f, t) == {f.sub[o].agent : o \in done(f, t)}
  <2>1. \A t \in Tasks : d.task[t].completed = agents(d, t)
    BY DEF Matched, CompletionsRecorded
  <2>2. ASSUME NEW t \in Tasks, t # d.sub[s].task PROVE agents(e, t) = agents(d, t)
    <3>1. s \notin done(d, t) /\ s \notin done(e, t)
      BY <1>1, <2>2
    <3>2. \A o \in Subs \ {s} : o \in done(e, t) <=> o \in done(d, t)
      BY <1>1
    <3>3. done(e, t) = done(d, t)
      BY <3>1, <3>2
    <3>4. \A o \in done(d, t) : e.sub[o].agent = d.sub[o].agent
      BY <1>1, <3>1
    <3> DEFINE D == done(d, t)
    <3>5. {e.sub[o].agent : o \in D} = {d.sub[o].agent : o \in D}
      <4> HIDE DEF D
      <4> SUFFICES ASSUME \A o \in D : e.sub[o].agent = d.sub[o].agent
                   PROVE  {e.sub[o].agent : o \in D} = {d.sub[o].agent : o \in D}
        BY <3>4 DEF D
      <4> QED OBVIOUS
    <3>6. agents(e, t) = {e.sub[o].agent : o \in D}
      BY <3>3
    <3> QED BY <3>5, <3>6
  <2> DEFINE t == d.sub[s].task
             w == d.sub[s].agent
  <2>3. done(e, t) = done(d, t) \ {s} /\ s \in done(d, t)
    BY <1>1, ZenonT(30)
  <2>4. \A o \in done(e, t) : e.sub[o].agent = d.sub[o].agent
    BY <1>1, <2>3
  <2>5. OtherCompletion(d, s) <=> \E o \in done(e, t) : e.sub[o].agent = w
    <3>1. \A o : o \in done(e, t) <=> /\ o \in Subs \ {s}
                                      /\ d.sub[o].status \in CompletedSub
                                      /\ d.sub[o].task = t
      BY <1>1
    <3>2. OtherCompletion(d, s) <=> \E o \in Subs \ {s} : /\ d.sub[o].task = t
                                                       /\ d.sub[o].agent = w
                                                       /\ d.sub[o].status \in CompletedSub
      BY DEF OtherCompletion
    <3> DEFINE D == done(e, t)
    <3>3. \A o \in D : e.sub[o].agent = d.sub[o].agent
      BY <2>4
    <3>4. \A o : o \in D <=> /\ o \in Subs \ {s}
                             /\ d.sub[o].status \in CompletedSub
                             /\ d.sub[o].task = t
      BY <3>1
    <3>5. OtherCompletion(d, s) <=> \E o \in D : e.sub[o].agent = w
      <4> HIDE DEF D, t, w
      <4>1. ASSUME NEW o \in D, e.sub[o].agent = w PROVE OtherCompletion(d, s)
        BY ONLY <3>2, <3>3, <3>4, <4>1
      <4>2. ASSUME OtherCompletion(d, s) PROVE \E o \in D : e.sub[o].agent = w
        <5>1. PICK o \in Subs \ {s} : /\ d.sub[o].task = t
                                      /\ d.sub[o].agent = w
                                      /\ d.sub[o].status \in CompletedSub
          BY <3>2, <4>2
        <5>2. o \in D
          BY ONLY <3>4, <5>1
        <5> QED BY ONLY <3>3, <5>1, <5>2
      <4> QED BY <4>1, <4>2
    <3> QED BY <3>5
  <2>6. agents(d, t) = agents(e, t) \cup {w}
    <3>1. done(d, t) = done(e, t) \cup {s}
      BY <2>3
    <3> HIDE DEF done
    <3> DEFINE D == done(d, t)
               E == done(e, t)
    <3>2. D = E \cup {s} /\ \A o \in E : e.sub[o].agent = d.sub[o].agent
      BY <2>4, <3>1
    <3> HIDE DEF D, E
    <3>3. {d.sub[o].agent : o \in D} = {e.sub[o].agent : o \in E} \cup {d.sub[s].agent}
      BY ONLY <3>2
    <3> QED BY <3>3 DEF D, E
  <2>7. w \in agents(e, t) <=> OtherCompletion(d, s)
    BY <2>5
  <2> HIDE DEF agents, w
  <2>8. agents(e, t) = IF OtherCompletion(d, s) THEN agents(d, t) ELSE agents(d, t) \ {w}
    BY <2>6, <2>7
  <2>9. \A u \in Tasks : e.task[u].completed = agents(e, u)
    BY <2>1, <2>2, <2>8 DEF DispTask, w
  <2> QED BY <2>9 DEF CompletionsRecorded, agents
<1>3. PaidOnce(e)
  <2> SUFFICES ASSUME NEW o \in Subs, NEW p \in Subs, o # p,
                      e.sub[o].status = "CONFIRMED", e.sub[p].status = "CONFIRMED",
                      e.sub[o].task = e.sub[p].task, e.sub[o].agent = e.sub[p].agent
               PROVE  TaskOf(e, o).repeat
    BY DEF PaidOnce
  <2>1. e.sub[o] = d.sub[o] /\ e.sub[p] = d.sub[p]
    BY <1>1
  <2>2. TaskOf(d, o).repeat
    BY <2>1 DEF Matched, PaidOnce
  <2>3. d.sub[o].task \in Tasks /\ d.task[d.sub[o].task].status # "NONE"
    BY <2>1 DEF References
  <2> QED BY <2>1, <2>2, <2>3 DEF TaskOf, TasksKept
<1>4. CompletionsEarn(e)
  <2>1. CompletionsEarn(d)
    BY DEF Matched
  <2>2. ASSUME NEW r \in d.work, r.kind = "WORKER"
        PROVE  r.disp = x <=> r.sub = s
    <3>1. WorkerRow(d, r)
      BY <2>1, <2>2 DEF CompletionsEarn
    <3>2. ResolvedDisputeOnSub(d, s)
      BY DEF ResolvedDisputeOnSub
    <3>3. x # NoDispute
      BY IdsAssumption DEF NoDispute
    <3>4. \A y \in Disps : d.disp[y].status = "RESOLVED_COMPLETED" /\ d.disp[y].sub = s => y = x
      BY DEF Existing, RowsTyped
    <3> QED BY <3>1, <3>2, <3>3, <3>4 DEF WorkerRow
  <2>3. \A r : r \in e.work /\ r.kind = "WORKER" <=>
                 r \in d.work /\ r.kind = "WORKER" /\ r.sub # s
    BY <2>2 DEF DisputeWork
  <2>4. ASSUME NEW r \in e.work, r.kind = "WORKER" PROVE WorkerRow(e, r)
    <3>1. WorkerRow(d, r) /\ r.sub # s
      BY <2>1, <2>3, <2>4 DEF CompletionsEarn
    <3> QED BY <1>1, <3>1 DEF WorkerRow, ResolvedDisputeOnSub
  <2>5. WorkerRows(e, s) = {}
    BY <2>3 DEF WorkerRows
  <2>6. \A o \in Subs \ {s} : WorkerRows(e, o) = WorkerRows(d, o)
    BY <2>3 DEF WorkerRows
  <2>7. ASSUME NEW o \in Subs \ {s}
        PROVE  IF e.sub[o].status \in CompletedSub /\ WorkerWorkload > 0
               THEN \E r \in e.work : WorkerRows(e, o) = {r}
               ELSE WorkerRows(e, o) = {}
    <3>1. IF d.sub[o].status \in CompletedSub /\ WorkerWorkload > 0
          THEN \E r \in d.work : WorkerRows(d, o) = {r}
          ELSE WorkerRows(d, o) = {}
      BY <2>1 DEF CompletionsEarn
    <3>2. \A r : WorkerRows(e, o) = {r} => r \in e.work
      BY DEF WorkerRows
    <3> QED BY <1>1, <2>6, <3>1, <3>2
  <2> QED BY <1>1, <2>4, <2>5, <2>7 DEF CompletionsEarn
<1>5. ASSUME NEW y \in Disps PROVE VotesEarn(e, y)
  <2>1. VoteRows(e, y) = VoteRows(d, y)
    BY DEF VoteRows, DisputeWork
  <2> QED BY <2>1 DEF Matched, VotesEarn
<1> QED BY <1>2, <1>3, <1>4, <1>5 DEF Matched

LEMMA RollbackAgree ==
  ASSUME NEW d, Good(d, Disps), Agreeing(d), NEW x \in Disps,
         d.disp[x].status = "RESOLVED_COMPLETED"
  PROVE  LET e == RollbackResolution(d, x)
         IN Agreeing(e) /\ TasksKept(d, e)
<1> DEFINE e == RollbackResolution(d, x)
           s == d.disp[x].sub
           t == DispTask(d, x)
           task == d.task[t]
           snap == d.disp[x].snap
           completed == IF OtherCompletion(d, s) THEN task.completed
                        ELSE task.completed \ {d.sub[s].agent}
           after == [task EXCEPT !.escrow = snap.escrow, !.status = snap.status,
                                 !.completed = completed]
<1>1. RowsTyped(d) /\ References(d) /\ DisputeBacked(d, Disps)
  BY DEF Good
<1>2. /\ s \in Subs /\ t \in Tasks
      /\ d.disp[x].source # "NONE"
      /\ d.sub[s].status \in CompletedSub
  BY <1>1, DisputeRefs DEF DisputeBacked, CompletedSub
<1>3. task \in TaskRow
  BY <1>1, <1>2 DEF RowsTyped
<1>4. e.task = [d.task EXCEPT ![t] = after]
  BY <1>1, <1>2, <1>3 DEF RollbackResolution, RowsTyped, TableNames
<1>5. /\ e.disp = d.disp
      /\ e.sub = [d.sub EXCEPT ![s].status = "REJECTED"]
      /\ e.work = d.work \ {r \in DisputeWork(d, x) : r.kind = "WORKER"}
  BY <1>1, RollbackDecides
<1>6. Fits(d, t, snap.status, snap.escrow)
  BY <1>2 DEF Agreeing, Funded, SnapFits
<1> HIDE DEF e, snap, completed
<1>7. /\ after.slots = task.slots /\ after.reward = task.reward /\ after.repeat = task.repeat
      /\ after.status = snap.status /\ after.escrow = snap.escrow
      /\ after.completed = completed
  BY <1>3 DEF TaskRow
<1> HIDE DEF after
<1>8. e.task[t] = after /\ \A u \in Tasks \ {t} : e.task[u] = d.task[u]
  BY <1>1, <1>2, <1>4 DEF RowsTyped
<1>9. TasksKept(d, e)
  BY <1>6, <1>7, <1>8 DEF TasksKept, Fits
<1>10. FundedTasks(e)
  <2>1. Sized(after) /\ Whole(after, after.status, after.escrow)
    BY <1>6, <1>7 DEF Fits, Whole, Agreeing, Funded, FundedTasks, Sized
  <2> QED BY <1>8, <2>1 DEF Agreeing, Funded, FundedTasks
<1>11. Matched(e)
  <2>1. \A u \in Tasks : e.task[u].completed =
          IF u = t /\ ~OtherCompletion(d, s) THEN d.task[u].completed \ {d.sub[s].agent}
                                             ELSE d.task[u].completed
    BY <1>7, <1>8 DEF completed
  <2>2. \A y, z \in Existing(d.disp) : d.disp[y].sub = d.disp[z].sub => y = z
    BY <1>1 DEF DisputeBacked
  <2> QED BY <1>1, <1>2, <1>5, <1>9, <2>1, <2>2, RollbackMatched DEF Agreeing
<1>12. ASSUME NEW y \in Disps PROVE SnapFits(e, y)
  <2>1. d.disp[y].source # "NONE" => d.disp[y].sub \in Subs
    BY <1>1, DisputeRefs DEF Good, Restorable
  <2>2. \A o \in Subs : e.sub[o].task = d.sub[o].task
    BY <1>1, <1>2, <1>5 DEF RowsTyped, SubRow
  <2>3. d.disp[y].source # "NONE" => DispTask(e, y) = DispTask(d, y)
    BY <1>5, <2>1, <2>2 DEF DispTask
  <2> QED BY <1>5, <1>9, <2>3, SnapKept DEF Agreeing, Funded
<1> QED BY <1>9, <1>10, <1>11, <1>12 DEF Agreeing, Funded, e

\* The votes of the round are taken back with their workload.
LEMMA NewRoundAgree ==
  ASSUME NEW d, RowsTyped(d), References(d), Agreeing(d), NEW x \in Disps, Reopenable(d, x)
  PROVE  LET e == OpenNewRound(d, x)
         IN Agreeing(e) /\ TasksKept(d, e)
<1> DEFINE e == OpenNewRound(d, x)
           s == d.disp[x].sub
           row == [d.disp[x] EXCEPT !.status = "OPEN", !.votes = {}, !.source = "NONE",
                                    !.payout = 0, !.snap = NoSnap]
<1>1. e.task = d.task /\ e.disp = [d.disp EXCEPT ![x] = row]
  BY DEF OpenNewRound, RowsTyped, TableNames
<1>2. /\ e.sub = d.sub
      /\ \A y \in Disps \ {x} : e.disp[y] = d.disp[y]
      /\ e.disp[x].status = "OPEN"
      /\ e.disp[x].sub = s
      /\ e.disp[x].votes = {}
      /\ e.work = d.work \ {r \in DisputeWork(d, x) : r.kind = "VOTE"}
  BY NewRoundDecides
<1> HIDE DEF e
<1>3. e.disp[x].source = "NONE" /\ e.disp[x].snap.forced = <<>>
  <2>1. row.source = "NONE" /\ row.snap.forced = <<>>
    BY DEF RowsTyped, DispFields, NoSnap
  <2>2. e.disp[x] = row
    BY <1>1 DEF RowsTyped
  <2> HIDE DEF row
  <2> QED BY <2>1, <2>2
<1>4. d.sub[s].status = "REJECTED" /\ d.sub[s].status \notin CompletedSub
  BY DEF Reopenable, CompletedSub
<1>5. TasksKept(d, e) /\ FundedTasks(e)
  BY <1>1 DEF TasksKept, Agreeing, Funded, FundedTasks
<1>6. CompletionsRecorded(e) /\ PaidOnce(e)
  BY <1>1, <1>2 DEF Agreeing, Matched, CompletionsRecorded, PaidOnce, TaskOf
<1>7. CompletionsEarn(e)
  <2>1. CompletionsEarn(d)
    BY DEF Agreeing, Matched
  <2>2. ASSUME NEW r \in d.work, r.kind = "WORKER" PROVE WorkerRow(e, r)
    <3>1. WorkerRow(d, r)
      BY <2>1, <2>2 DEF CompletionsEarn
    <3>2. r.sub # s
      BY <1>4, <3>1 DEF WorkerRow
    <3>3. ResolvedDisputeOnSub(e, r.sub) => ResolvedDisputeOnSub(d, r.sub)
      BY <1>2, <3>2 DEF ResolvedDisputeOnSub
    <3> QED BY <1>2, <3>1, <3>2, <3>3 DEF WorkerRow
  <2>3. \A r : r \in e.work /\ r.kind = "WORKER" <=> r \in d.work /\ r.kind = "WORKER"
    BY <1>2
  <2>4. \A o : WorkerRows(e, o) = WorkerRows(d, o)
    BY <2>3 DEF WorkerRows
  <2>5. \A o : \A r : WorkerRows(e, o) = {r} => r \in e.work
    BY DEF WorkerRows
  <2> QED BY <1>2, <2>1, <2>2, <2>3, <2>4, <2>5 DEF CompletionsEarn
<1>8. ASSUME NEW y \in Disps PROVE VotesEarn(e, y)
  <2>1. VotesEarn(d, y)
    BY DEF Agreeing, Matched
  <2>2. CASE y = x
    <3>1. VoteRows(e, x) = {}
      BY <1>2 DEF VoteRows, DisputeWork
    <3>2. IsFiniteSet({})
      BY FS_EmptySet
    <3> QED BY <1>2, <2>2, <3>1, <3>2 DEF VotesEarn
  <2>3. CASE y # x
    <3>1. VoteRows(e, y) = VoteRows(d, y)
      BY <1>2, <2>3 DEF VoteRows, DisputeWork
    <3> QED BY <1>2, <2>1, <2>3, <3>1 DEF VotesEarn
  <2> QED BY <2>2, <2>3
<1>9. ASSUME NEW y \in Disps PROVE SnapFits(e, y)
  <2>1. CASE y = x
    <3>1. AllFit(e, e.disp[x].snap.forced)
      BY <1>3 DEF AllFit
    <3> QED BY <1>3, <2>1, <3>1 DEF SnapFits
  <2>2. CASE y # x
    <3>1. e.disp[y] = d.disp[y] /\ DispTask(e, y) = DispTask(d, y)
      BY <1>2, <2>2 DEF DispTask
    <3> QED BY <1>5, <3>1, SnapKept DEF Agreeing, Funded
  <2> QED BY <2>1, <2>2
<1> QED BY <1>5, <1>6, <1>7, <1>8, <1>9 DEF Agreeing, Funded, Matched, e

-----------------------------------------------------------------------------
(* The writes of one step.                                                 *)

LEMMA PublishAgree ==
  ASSUME Good(db, Disps), Agreeing(db), NEW t \in Tasks, NEW p \in Publishers,
         NEW slots \in SlotCounts, NEW reward \in Rewards, NEW repeat \in RepeatOptions,
         Publish(t, p, slots, reward, repeat)
  PROVE  Agreeing(db') /\ TasksKept(db, db')
<1> DEFINE total == slots * reward
           row == [status |-> "OPEN", publisher |-> p, slots |-> slots,
                   reward |-> reward, repeat |-> repeat, escrow |-> total,
                   intents |-> {}, completed |-> {}]
           e == db'
<1>1. RowsTyped(db) /\ References(db)
  BY DEF Good
<1>2. db.task[t].status = "NONE"
  BY <1>1 DEF Publish, NextId, Existing, RowsTyped
<1>3. e.task = [db.task EXCEPT ![t] = row] /\ e.sub = db.sub /\ e.disp = db.disp /\ e.work = db.work
  BY <1>1 DEF Publish, Write, RowsTyped, TableNames
<1>4. slots \in Nat \ {0} /\ reward \in Nat \ {0}
  BY ActorsAssumption
<1> HIDE DEF e, total
<1>5. /\ row.slots = slots /\ row.reward = reward /\ row.escrow = total
      /\ row.status = "OPEN" /\ row.completed = {}
  OBVIOUS
<1> HIDE DEF row
<1>6. e.task[t] = row /\ \A u \in Tasks \ {t} : e.task[u] = db.task[u]
  BY <1>1, <1>3 DEF RowsTyped
<1>7. TasksKept(db, e)
  BY <1>2, <1>6 DEF TasksKept
<1>8. Whole(row, row.status, row.escrow) /\ Sized(row)
  <2>1. slots \in 0..slots /\ slots > 0
    BY <1>4
  <2> QED BY <1>4, <1>5, <2>1 DEF Whole, Sized, ActiveTask, total
<1>9. FundedTasks(e)
  BY <1>6, <1>8 DEF Agreeing, Funded, FundedTasks
<1>10. Matched(e)
  <2> DEFINE done == {o \in Subs : db.sub[o].status \in CompletedSub /\ db.sub[o].task = t}
  <2>1. db.task[t].completed = {db.sub[o].agent : o \in done}
    BY DEF Agreeing, Matched, CompletionsRecorded
  <2>2. done = {}
    BY <1>1, <1>2 DEF References, CompletedSub
  <2> HIDE DEF done
  <2>3. db.task[t].completed = {}
    BY <2>1, <2>2
  <2>4. \A u \in Tasks : e.task[u].completed = db.task[u].completed
    BY <1>5, <1>6, <2>3
  <2>5. ReviewKept(db, e)
    BY <1>3, SameKept
  <2> QED BY <1>1, <1>7, <2>4, <2>5, MatchedKept DEF Agreeing
<1>11. \A x \in Disps : SnapFits(e, x)
  BY <1>3, <1>7, SnapKept DEF Agreeing, Funded, DispTask
<1> QED BY <1>7, <1>9, <1>10, <1>11 DEF Agreeing, Funded, e

\* A status is written to a task that keeps being active, or is not.
LEMMA StatusAgree ==
  ASSUME NEW d, RowsTyped(d), References(d), Agreeing(d),
         NEW t \in Tasks, d.task[t].status # "NONE",
         NEW status \in {"IN_PROGRESS", "CLOSED"},
         status = "IN_PROGRESS" => d.task[t].status \in ActiveTask,
         status = "CLOSED" => ~HasPayableSlot(d.task[t]),
         NEW e, e.task = [d.task EXCEPT ![t] = [d.task[t] EXCEPT !.status = status]],
         e.sub = d.sub, e.disp = d.disp, e.work = d.work
  PROVE  Agreeing(e) /\ TasksKept(d, e)
<1> DEFINE old == d.task[t]
           row == [old EXCEPT !.status = status]
<1>1. old \in TaskRow /\ Sized(old) /\ Whole(old, old.status, old.escrow)
  BY DEF RowsTyped, Agreeing, Funded, FundedTasks
<1>2. e.task = [d.task EXCEPT ![t] = row]
  OBVIOUS
<1>3. /\ status = "IN_PROGRESS" => old.status \in ActiveTask
      /\ status = "CLOSED" => ~HasPayableSlot(old)
  OBVIOUS
<1> HIDE DEF old
<1>4. /\ row.slots = old.slots /\ row.reward = old.reward /\ row.repeat = old.repeat
      /\ row.completed = old.completed /\ row.escrow = old.escrow /\ row.status = status
  BY <1>1 DEF TaskRow
<1> HIDE DEF row
<1>5. PICK k \in 0..old.slots : /\ old.escrow = k * old.reward
                                /\ old.status \in ActiveTask <=> k > 0
  BY <1>1 DEF Whole
<1>6. HasPayableSlot(old) <=> k > 0
  BY <1>1, <1>5, PayableIs
<1>7. status \in ActiveTask <=> k > 0
  BY <1>3, <1>5, <1>6 DEF ActiveTask
<1>8. Whole(old, row.status, row.escrow)
  BY <1>4, <1>5, <1>7 DEF Whole
<1>9. row.status # "NONE"
  BY <1>4
<1> QED BY <1>2, <1>4, <1>8, <1>9, TaskRowAgree DEF old

LEMMA IntentionAgree ==
  ASSUME Good(db, Disps), Agreeing(db), NEW t \in Tasks, NEW a \in Workers, AddIntention(t, a)
  PROVE  Agreeing(db') /\ TasksKept(db, db')
<1> DEFINE old == db.task[t]
           intents == old.intents \cup {a}
           row == [old EXCEPT !.intents = intents]
<1>1. RowsTyped(db) /\ References(db) /\ old \in TaskRow
  BY DEF Good, RowsTyped
<1>2. /\ db'.task = [db.task EXCEPT ![t] = row]
      /\ db'.sub = db.sub /\ db'.disp = db.disp /\ db'.work = db.work
  BY <1>1 DEF AddIntention, Write, RowsTyped, TableNames
<1>3. old.status \in ActiveTask
  BY DEF AddIntention
<1>4. Whole(old, old.status, old.escrow)
  BY <1>3 DEF Agreeing, Funded, FundedTasks, ActiveTask
<1> HIDE DEF old, intents
<1>5. /\ row.slots = old.slots /\ row.reward = old.reward /\ row.repeat = old.repeat
      /\ row.completed = old.completed /\ row.escrow = old.escrow /\ row.status = old.status
  BY <1>1 DEF TaskRow
<1> HIDE DEF row
<1>6. row.status # "NONE"
  BY <1>3, <1>5 DEF ActiveTask
<1> QED BY <1>1, <1>2, <1>4, <1>5, <1>6, TaskRowAgree DEF old

LEMMA SubmitAgree ==
  ASSUME Good(db, Disps), Agreeing(db), NEW s \in Subs, NEW t \in Tasks, NEW a \in Workers,
         Submit(s, t, a)
  PROVE  Agreeing(db') /\ TasksKept(db, db')
<1> DEFINE d == [db EXCEPT !.task[t].status = "IN_PROGRESS"]
           row == [status |-> "SUBMITTED", task |-> t, agent |-> a]
<1>1. RowsTyped(db) /\ References(db)
  BY DEF Good
<1>2. db.task[t].status \in ActiveTask
  BY DEF Submit, Submittable
<1>3. db.sub[s].status = "NONE"
  BY <1>1 DEF Submit, NextId, Existing, RowsTyped
<1>4. /\ DOMAIN d = TableNames
      /\ d.task = [db.task EXCEPT ![t] = [db.task[t] EXCEPT !.status = "IN_PROGRESS"]]
      /\ d.sub = db.sub /\ d.disp = db.disp /\ d.work = db.work
      /\ d.ban = db.ban /\ d.active = db.active
  BY <1>1 DEF RowsTyped, TableNames
<1>5. /\ db'.sub = [d.sub EXCEPT ![s] = row]
      /\ db'.task = d.task /\ db'.disp = d.disp /\ db'.work = d.work
  BY <1>1 DEF Submit, Write, RowsTyped, TableNames
<1> HIDE DEF d
<1>6. Good(d, Disps)
  BY <1>2, <1>4, TaskStatusGood DEF ActiveTask
<1>7. Agreeing(d) /\ TasksKept(db, d)
  BY <1>1, <1>2, <1>4, StatusAgree DEF ActiveTask
<1>8. row.status = "SUBMITTED" /\ row.status \notin CompletedSub
      /\ d.sub[s].status \notin CompletedSub
  BY <1>3, <1>4 DEF CompletedSub
<1>9. \A x \in Disps : d.disp[x].source # "NONE" => d.disp[x].sub # s
  BY <1>3, <1>4, <1>6 DEF Good, References, Restorable
<1> HIDE DEF row
<1>10. Agreeing(db') /\ TasksKept(d, db')
  <2>1. RowsTyped(d)
    BY <1>6 DEF Good
  <2> QED BY <1>5, <1>7, <1>8, <1>9, <2>1, SubRowAgree
<1>11. TasksKept(db, db')
  BY <1>7, <1>10 DEF TasksKept
<1> QED BY <1>10, <1>11

LEMMA RejectAgree ==
  ASSUME Good(db, Disps), Agreeing(db), NEW s \in Subs, Reject(s)
  PROVE  Agreeing(db') /\ TasksKept(db, db')
<1> DEFINE old == db.sub[s]
           row == [old EXCEPT !.status = "REJECTED"]
<1>1. RowsTyped(db)
  BY DEF Good
<1>2. old.status = "SUBMITTED" /\ old \in SubRow
  BY <1>1 DEF Reject, RowsTyped
<1>3. /\ db'.sub = [db.sub EXCEPT ![s] = row]
      /\ db'.task = db.task /\ db'.disp = db.disp /\ db'.work = db.work
  BY <1>1 DEF Reject, Write, RowsTyped, TableNames
<1>4. row.status = "REJECTED" /\ row.task = old.task
  BY <1>2 DEF SubRow
<1>5. row.status \notin CompletedSub /\ old.status \notin CompletedSub
  BY <1>2, <1>4 DEF CompletedSub
<1> HIDE DEF row
<1> QED BY <1>1, <1>3, <1>4, <1>5, SubRowAgree

LEMMA ConfirmWriteAgree ==
  ASSUME Good(db, Disps), Agreeing(db), NEW s \in Subs, Confirm(s) \/ ConfirmWithoutSlot(s)
  PROVE  Agreeing(db') /\ TasksKept(db, db')
<1>1. RowsTyped(db) /\ References(db)
  BY DEF Good
<1>2. /\ db.sub[s].status \in {"SUBMITTED", "REJECTED"}
      /\ ~OpenDisputeOnSub(db, s) /\ ~RepeatBlocked(db, s)
  BY DEF Confirm, ConfirmWithoutSlot, Confirmable
<1>3. CASE Confirm(s)
  <2>1. db' = ConfirmInternal(db, s, NoDispute) /\ HasPayableSlot(TaskOf(db, s))
    BY <1>3 DEF Confirm, Write
  <2> QED BY <1>2, <2>1, ConfirmAgree
<1>4. CASE ConfirmWithoutSlot(s)
  <2> DEFINE t == db.sub[s].task
  <2>1. t \in Tasks /\ db.task[t].status # "NONE"
    BY <1>1, <1>2 DEF References
  <2>2. /\ db'.task = [db.task EXCEPT ![t] = [db.task[t] EXCEPT !.status = "CLOSED"]]
        /\ db'.sub = db.sub /\ db'.disp = db.disp /\ db'.work = db.work
    BY <1>1, <1>4 DEF ConfirmWithoutSlot, Write, RowsTyped, TableNames
  <2>3. ~HasPayableSlot(db.task[t])
    BY <1>4 DEF ConfirmWithoutSlot, TaskOf
  <2> HIDE DEF t
  <2> QED BY <1>1, <2>1, <2>2, <2>3, StatusAgree
<1> QED BY <1>3, <1>4

LEMMA TerminateWriteAgree ==
  ASSUME Good(db, Disps), Agreeing(db), NEW t \in Tasks, Terminate(t)
  PROVE  Agreeing(db') /\ TasksKept(db, db')
<1>1. db' = TerminateInternal(db, t, NoDispute) /\ db.task[t].status \in ActiveTask
  BY DEF Terminate, Write
<1>2. RowsTyped(db) /\ References(db)
  BY DEF Good
<1> QED BY <1>1, <1>2, TerminateAgree

LEMMA OpenDisputeAgree ==
  ASSUME Good(db, Disps), Agreeing(db), NEW x \in Disps, NEW s \in Subs, NEW a \in Agents,
         OpenDispute(x, s, a)
  PROVE  Agreeing(db') /\ TasksKept(db, db')
<1> DEFINE row == [db.disp[x] EXCEPT !.status = "OPEN", !.sub = s]
           e == db'
<1>1. RowsTyped(db) /\ References(db) /\ Restorable(db)
  BY DEF Good
<1>2. db.disp[x].status = "NONE"
  BY <1>1 DEF OpenDispute, NextId, Existing, RowsTyped
<1>3. /\ e.disp = [db.disp EXCEPT ![x] = row]
      /\ e.task = db.task /\ e.sub = db.sub /\ e.work = db.work
  BY <1>1 DEF OpenDispute, Write, RowsTyped, TableNames
<1> HIDE DEF e
<1>4. /\ row.status = "OPEN"
      /\ row.source = db.disp[x].source
      /\ row.snap = db.disp[x].snap
      /\ row.votes = db.disp[x].votes
  BY <1>1 DEF RowsTyped, DispFields
<1> HIDE DEF row
<1>5. e.disp[x] = row /\ \A y \in Disps \ {x} : e.disp[y] = db.disp[y]
  BY <1>1, <1>3 DEF RowsTyped
<1>6. TasksKept(db, e) /\ FundedTasks(e)
  BY <1>3 DEF TasksKept, Agreeing, Funded, FundedTasks
<1>7. CompletionsRecorded(e) /\ PaidOnce(e)
  BY <1>3 DEF Agreeing, Matched, CompletionsRecorded, PaidOnce, TaskOf
<1>8. CompletionsEarn(e)
  <2>1. CompletionsEarn(db)
    BY DEF Agreeing, Matched
  <2>2. \A o : ResolvedDisputeOnSub(e, o) => ResolvedDisputeOnSub(db, o)
    BY <1>4, <1>5 DEF ResolvedDisputeOnSub
  <2>3. ASSUME NEW r, WorkerRow(db, r) PROVE WorkerRow(e, r)
    BY <1>2, <1>3, <1>5, <2>2, <2>3 DEF WorkerRow
  <2>4. \A o : WorkerRows(e, o) = WorkerRows(db, o)
    BY <1>3 DEF WorkerRows
  <2> QED BY <1>3, <2>1, <2>3, <2>4 DEF CompletionsEarn
<1>9. ASSUME NEW y \in Disps PROVE VotesEarn(e, y)
  <2>1. VoteRows(e, y) = VoteRows(db, y) /\ e.disp[y].votes = db.disp[y].votes
    BY <1>3, <1>4, <1>5 DEF VoteRows
  <2> QED BY <2>1 DEF Agreeing, Matched, VotesEarn
<1>10. ASSUME NEW y \in Disps PROVE SnapFits(e, y)
  <2>1. e.disp[y].snap = db.disp[y].snap /\ e.disp[y].source = db.disp[y].source
    BY <1>4, <1>5
  <2>2. db.disp[y].source # "NONE" => DispTask(e, y) = DispTask(db, y)
    BY <1>1, <1>2, <1>3, <1>5 DEF Restorable, DispTask
  <2> QED BY <1>6, <2>1, <2>2, SnapKept DEF Agreeing, Funded
<1> QED BY <1>6, <1>7, <1>8, <1>9, <1>10 DEF Agreeing, Funded, Matched, e

LEMMA VoteAgree ==
  ASSUME Good(db, Disps), Agreeing(db), NEW x \in Disps, NEW a, NEW choice, NEW weight,
         Vote(x, a, choice, weight)
  PROVE  Agreeing(db') /\ TasksKept(db, db')
<1> DEFINE ballot == [agent |-> a, vote |-> choice, weight |-> weight, cycle |-> db.active]
           earned == [cycle |-> db.active, agent |-> a, kind |-> "VOTE",
                      disp |-> x, sub |-> NoSub]
           votes == db.disp[x].votes \cup {ballot}
           row == [db.disp[x] EXCEPT !.votes = votes]
           e == db'
<1>1. RowsTyped(db)
  BY DEF Good
<1>2. \A v \in db.disp[x].votes : v.agent # a
  BY DEF Vote
<1>3. /\ earned.kind = "VOTE" /\ earned.disp = x
      /\ earned.agent = a /\ earned.cycle = db.active
      /\ ballot.agent = a /\ ballot.cycle = db.active
  OBVIOUS
<1>4. db' = [db EXCEPT !.disp[x].votes = @ \cup {ballot}, !.work = @ \cup {earned}]
  BY DEF Vote, Write
<1> HIDE DEF ballot, earned
<1>5. /\ e.task = db.task /\ e.sub = db.sub
      /\ e.disp = [db.disp EXCEPT ![x] = row] /\ e.work = db.work \cup {earned}
  BY <1>1, <1>4 DEF RowsTyped, TableNames, DispFields
<1>6. /\ row.status = db.disp[x].status /\ row.sub = db.disp[x].sub
      /\ row.source = db.disp[x].source /\ row.snap = db.disp[x].snap
      /\ row.votes = votes
  BY <1>1 DEF RowsTyped, DispFields
<1> HIDE DEF e, row, votes
<1>7. e.disp[x] = row /\ \A y \in Disps \ {x} : e.disp[y] = db.disp[y]
  BY <1>1, <1>5 DEF RowsTyped
<1>8. \A y \in Disps : /\ e.disp[y].status = db.disp[y].status
                       /\ e.disp[y].sub = db.disp[y].sub
                       /\ e.disp[y].source = db.disp[y].source
                       /\ e.disp[y].snap = db.disp[y].snap
  BY <1>6, <1>7
<1>9. TasksKept(db, e) /\ FundedTasks(e)
  BY <1>5 DEF TasksKept, Agreeing, Funded, FundedTasks
<1>10. CompletionsRecorded(e) /\ PaidOnce(e)
  BY <1>5 DEF Agreeing, Matched, CompletionsRecorded, PaidOnce, TaskOf
<1>11. CompletionsEarn(e)
  <2>1. CompletionsEarn(db)
    BY DEF Agreeing, Matched
  <2>2. ASSUME NEW r, WorkerRow(db, r) PROVE WorkerRow(e, r)
    BY <1>5, <1>8, <2>2 DEF WorkerRow, ResolvedDisputeOnSub
  <2>3. \A o : WorkerRows(e, o) = WorkerRows(db, o)
    BY <1>3, <1>5 DEF WorkerRows
  <2>4. db.work \subseteq e.work /\ \A r \in e.work : r.kind = "WORKER" => r \in db.work
    BY <1>3, <1>5
  <2> QED BY <1>5, <2>1, <2>2, <2>3, <2>4 DEF CompletionsEarn
<1>12. VotesEarn(e, x)
  <2> DEFINE rows == VoteRows(db, x)
             cast == db.disp[x].votes
  <2>1. /\ IsFiniteSet(rows) /\ IsFiniteSet(cast)
        /\ Cardinality(rows) = Cardinality(cast)
        /\ {<<r.agent, r.cycle>> : r \in rows} = {<<v.agent, v.cycle>> : v \in cast}
    BY DEF Agreeing, Matched, VotesEarn
  <2>2. VoteRows(e, x) = rows \cup {earned} /\ e.disp[x].votes = cast \cup {ballot}
    BY <1>3, <1>5, <1>6, <1>7 DEF VoteRows, votes
  <2>3. ballot \notin cast
    BY <1>2, <1>3
  <2> HIDE DEF rows, cast
  <2>4. earned \notin rows
    <3>1. SUFFICES ASSUME earned \in rows PROVE FALSE
      OBVIOUS
    <3>2. <<a, db.active>> \in {<<v.agent, v.cycle>> : v \in cast}
      BY <1>3, <2>1, <3>1
    <3>3. PICK v \in cast : <<a, db.active>> = <<v.agent, v.cycle>>
      BY <3>2
    <3> QED BY <1>2, <3>3 DEF cast
  <2>5. /\ IsFiniteSet(rows \cup {earned}) /\ IsFiniteSet(cast \cup {ballot})
        /\ Cardinality(rows \cup {earned}) = Cardinality(rows) + 1
        /\ Cardinality(cast \cup {ballot}) = Cardinality(cast) + 1
    BY <2>1, <2>3, <2>4, FS_AddElement
  <2>6. {<<r.agent, r.cycle>> : r \in rows \cup {earned}}
          = {<<v.agent, v.cycle>> : v \in cast \cup {ballot}}
    <3>1. <<earned.agent, earned.cycle>> = <<ballot.agent, ballot.cycle>>
      BY <1>3
    <3> QED BY <2>1, <3>1
  <2> QED BY <2>1, <2>2, <2>5, <2>6 DEF VotesEarn
<1>13. ASSUME NEW y \in Disps \ {x} PROVE VotesEarn(e, y)
  <2>1. VoteRows(e, y) = VoteRows(db, y)
    BY <1>3, <1>5 DEF VoteRows
  <2> QED BY <1>7, <2>1 DEF Agreeing, Matched, VotesEarn
<1>14. ASSUME NEW y \in Disps PROVE SnapFits(e, y)
  <2>1. DispTask(e, y) = DispTask(db, y)
    BY <1>5, <1>8 DEF DispTask
  <2> QED BY <1>8, <1>9, <2>1, SnapKept DEF Agreeing, Funded
<1> QED BY <1>9, <1>10, <1>11, <1>12, <1>13, <1>14 DEF Agreeing, Funded, Matched, e

LEMMA ApiWriteAgree ==
  ASSUME Good(db, Disps), Agreeing(db), ApiWrite
  PROVE  Agreeing(db') /\ TasksKept(db, db')
BY PublishAgree, IntentionAgree, SubmitAgree, RejectAgree, ConfirmWriteAgree,
   TerminateWriteAgree, OpenDisputeAgree, VoteAgree DEF ApiWrite

-----------------------------------------------------------------------------
(* The steps of the running transaction.                                   *)

\* No step but one touches the forced terminations that are left to undo.
LEMMA ForcedKept ==
  ASSUME DOMAIN tx = TxFields, TxStep
  PROVE  RestoreForced \/ tx'.forced = tx.forced
<1>1. ASSUME NEW ps PROVE Then(ps).forced = tx.forced /\ DOMAIN Then(ps) = TxFields
  BY DEF Then, TxFields
<1>2. CASE SweepBanned \/ ExpireClean
  BY <1>2 DEF SweepBanned, ExpireClean, Step
<1>3. CASE AutoConfirmStale
  BY <1>3 DEF AutoConfirmStale, Step, TxFields
<1>4. CASE Evaluate
  BY <1>4 DEF Evaluate, Step, TxFields
<1>5. CASE Settle \/ Finalize \/ BanNegatives \/ StartNewRound \/ LoopEnds
  BY <1>1, <1>5 DEF Settle, Finalize, BanNegatives, StartNewRound, LoopEnds, Step
<1>6. CASE RestorePublisherBan
  <2> DEFINE rest == Then(<<>>)
  <2>1. PICK alt : tx' = [rest EXCEPT !.todo =
                            IF RemainsBanned(work, tx.disp, alt) THEN @ \o <<"sweep">> ELSE @]
    BY <1>6 DEF RestorePublisherBan, Step
  <2>2. rest.forced = tx.forced /\ DOMAIN rest = TxFields
    BY <1>1
  <2> HIDE DEF rest
  <2> QED BY <2>1, <2>2 DEF TxFields
<1>7. CASE Reconcile
  <2>1. PICK c \in DOMAIN tx.before : tx' = [tx EXCEPT !.before = [i \in DOMAIN @ \ {c} |-> @[i]]]
    BY <1>7 DEF Reconcile, Step
  <2> QED BY <2>1 DEF TxFields
<1> QED BY <1>2, <1>3, <1>4, <1>5, <1>6, <1>7 DEF TxStep

LEMMA AutoConfirmAgree ==
  ASSUME DisputeIInv, Agreeing(work), AutoConfirmStale
  PROVE  Agreeing(work') /\ TasksKept(work, work')
<1> DEFINE s == First(tx.subs)
           t == work.sub[s].task
<1>1. /\ TxTyped(tx) /\ Ordered(tx.kind, tx.todo) /\ Prepared(work, tx)
      /\ Good(work, Disps \ Reopening(tx))
  BY DEF DisputeIInv, Ready
<1>2. /\ At(tx, "stale") /\ tx.subs # {} /\ work' = AutoConfirmed(work, s)
      /\ ~AutoConfirmThrows(work, s)
  BY DEF AutoConfirmStale, InPhase, At, Step
<1>3. 1 \in 1..Len(tx.todo) /\ tx.todo[1] = "stale"
  BY <1>1, <1>2, HeadIsFirst
<1>4. tx.kind # "REOPEN"
  BY <1>1, <1>3 DEF Ordered
<1>5. Good(work, Disps) /\ RowsTyped(work) /\ References(work)
  BY <1>1, <1>4 DEF Reopening, Good
<1>6. s \in Subs /\ work.sub[s].status = "SUBMITTED"
  <2>1. tx.subs \in SUBSET Nat /\ tx.subs \subseteq Subs
    BY <1>1, IdsAssumption DEF TxTyped
  <2>2. s \in tx.subs
    BY <1>2, <2>1, FirstIn
  <2> QED BY <1>1, <1>2, <2>1, <2>2 DEF Prepared
<1> HIDE DEF s
<1>7. t \in Tasks /\ work.task[t].status # "NONE"
  BY <1>5, <1>6 DEF References
<1>8. CASE work.task[t].status \in ActiveTask /\ HasPayableSlot(work.task[t])
  <2>1. work' = ConfirmInternal(work, s, NoDispute)
    BY <1>2, <1>8 DEF AutoConfirmed
  <2>2. HasPayableSlot(TaskOf(work, s)) /\ ~RepeatBlocked(work, s)
    BY <1>2, <1>8 DEF TaskOf, AutoConfirmThrows, ConfirmThrows
  <2> QED BY <1>5, <1>6, <2>1, <2>2, ConfirmAgree
<1>9. CASE work.task[t].status \notin ActiveTask
  <2>1. work' = work
    BY <1>2, <1>9 DEF AutoConfirmed
  <2> QED BY <2>1 DEF TasksKept
<1>10. CASE work.task[t].status \in ActiveTask /\ ~HasPayableSlot(work.task[t])
  <2>1. work' = [work EXCEPT !.task[t].status = "CLOSED"]
    BY <1>2, <1>10 DEF AutoConfirmed
  <2>2. /\ work'.task = [work.task EXCEPT ![t] = [work.task[t] EXCEPT !.status = "CLOSED"]]
        /\ work'.sub = work.sub /\ work'.disp = work.disp /\ work'.work = work.work
    BY <1>5, <2>1 DEF RowsTyped, TableNames
  <2> HIDE DEF t
  <2> QED BY <1>5, <1>7, <1>10, <2>2, StatusAgree
<1> QED BY <1>8, <1>9, <1>10

LEMMA FinalizeStepAgree ==
  ASSUME DisputeIInv, Agreeing(work), Finalize
  PROVE  Agreeing(work') /\ TasksKept(work, work')
<1>1. /\ TxTyped(tx) /\ Ordered(tx.kind, tx.todo) /\ Prepared(work, tx)
      /\ Good(work, Disps \ Reopening(tx))
  BY DEF DisputeIInv, Ready
<1>2. /\ At(tx, "finalize") /\ work' = FinalizeCompleted(work, tx.disp)
      /\ ~FinalizeThrows(work, tx.disp)
  BY DEF Finalize, InPhase, At, Step
<1>3. 1 \in 1..Len(tx.todo) /\ tx.todo[1] = "finalize"
  BY <1>1, <1>2, HeadIsFirst
<1>4. tx.kind # "REOPEN"
  BY <1>1, <1>3 DEF Ordered
<1>5. Good(work, Disps) /\ tx.disp \in Disps /\ work.disp[tx.disp].status = "OPEN"
  BY <1>1, <1>2, <1>4 DEF Reopening, Prepared
<1> QED BY <1>2, <1>5, FinalizeAgree

LEMMA NewRoundStepAgree ==
  ASSUME DisputeIInv, Agreeing(work), StartNewRound
  PROVE  Agreeing(work') /\ TasksKept(work, work')
<1>1. /\ TxTyped(tx) /\ Ordered(tx.kind, tx.todo) /\ Prepared(work, tx)
      /\ RowsTyped(work) /\ References(work)
  BY DEF DisputeIInv, Ready, Good
<1>2. At(tx, "newRound") /\ work' = OpenNewRound(work, tx.disp)
  BY DEF StartNewRound, InPhase, At, Step
<1>3. 1 \in 1..Len(tx.todo) /\ tx.todo[1] = "newRound"
  BY <1>1, <1>2, HeadIsFirst
<1>4. tx.kind = "REOPEN"
  BY <1>1, <1>3 DEF Ordered
<1>5. Reopening(tx) = {tx.disp}
  BY <1>3, <1>4 DEF Reopening, Ahead
<1>6. tx.disp \in Disps /\ Reopenable(work, tx.disp)
  BY <1>1, <1>4, <1>5 DEF Prepared
<1> QED BY <1>1, <1>2, <1>6, NewRoundAgree

LEMMA RestoreForcedAgree ==
  ASSUME DisputeIInv, Agreeing(work), AllFit(work, tx.forced), RestoreForced
  PROVE  Agreeing(work') /\ AllFit(work', tx'.forced)
<1> DEFINE entry == Head(tx.forced)
           rest == Tail(tx.forced)
<1>1. RowsTyped(work) /\ References(work) /\ TxTyped(tx)
  BY DEF DisputeIInv, Ready, Good
<1>2. /\ tx.forced # <<>> /\ work' = RollbackForced(work, entry)
      /\ tx'.forced = rest
  BY <1>1 DEF RestoreForced, Step, TxTyped, TxFields
<1>3. /\ Len(rest) = Len(tx.forced) - 1 /\ Len(tx.forced) \in Nat \ {0}
      /\ \A i \in 1..Len(rest) : rest[i] = tx.forced[i + 1]
      /\ entry = tx.forced[1]
  BY <1>1, <1>2 DEF TxTyped
<1> HIDE DEF entry, rest
<1>4. Fits(work, entry.task, entry.status, entry.escrow)
  <2>1. 1 \in 1..Len(tx.forced)
    BY <1>3
  <2> QED BY <1>3, <2>1 DEF AllFit
<1>5. Agreeing(work') /\ TasksKept(work, work')
  BY <1>1, <1>2, <1>4, UnforceAgree
<1>6. AllFit(work, rest)
  <2>1. \A i \in 1..Len(rest) : i + 1 \in 1..Len(tx.forced)
    BY <1>3
  <2> QED BY <1>3, <2>1 DEF AllFit
<1> QED BY <1>2, <1>5, <1>6, AllFitKept

\* The steps that write balances, bans and cycles, or nothing.
LEMMA LedgerAgree ==
  ASSUME RowsTyped(work), References(work), Agreeing(work),
         Evaluate \/ LoopEnds \/ Settle \/ BanNegatives \/ RestorePublisherBan \/ Reconcile
  PROVE  Agreeing(work') /\ TasksKept(work, work')
<1>1. /\ work'.task = work.task /\ work'.sub = work.sub
      /\ work'.disp = work.disp /\ work'.work = work.work
  <2>1. CASE Evaluate \/ LoopEnds
    BY <2>1 DEF Evaluate, LoopEnds, Step
  <2>2. CASE Settle
    BY <2>2 DEF Settle, Step, SettleCycle, RowsTyped, TableNames
  <2>3. CASE BanNegatives
    BY <2>3 DEF BanNegatives, Step, BanAgents, RowsTyped, TableNames
  <2>4. CASE RestorePublisherBan
    <3>1. PICK alt : work' = RestoreBan(work, tx.disp, alt)
      BY <2>4 DEF RestorePublisherBan, Step
    <3> QED BY <3>1 DEF RestoreBan, RowsTyped, TableNames
  <2>5. CASE Reconcile
    <3>1. PICK c \in DOMAIN tx.before : work' = ReconcileCycle(work, c, tx.before[c])
      BY <2>5 DEF Reconcile, Step
    <3> QED BY <3>1 DEF ReconcileCycle, RowsTyped, TableNames
  <2> QED BY <2>1, <2>2, <2>3, <2>4, <2>5
<1> QED BY <1>1, SameAgree

LEMMA SweepAgree ==
  ASSUME RowsTyped(work), References(work), Agreeing(work), expired \subseteq Tasks,
         SweepBanned \/ ExpireClean
  PROVE  Agreeing(work') /\ TasksKept(work, work')
<1>1. \E t \in Tasks : \E x : /\ work.task[t].status \in ActiveTask
                              /\ work' = TerminateInternal(work, t, x)
  <2>1. CASE SweepBanned
    <3>1. PICK t \in SweepTargets(work) : work' = SweepOne(work, t)
      BY <2>1 DEF SweepBanned, Step
    <3> QED BY <3>1 DEF SweepTargets, SweepOne, ActiveClean
  <2>2. CASE ExpireClean
    <3>1. PICK t \in expired : ActiveClean(work, t) /\ work' = TerminateInternal(work, t, NoDispute)
      BY <2>2 DEF ExpireClean, Step
    <3> QED BY <3>1 DEF ActiveClean
  <2> QED BY <2>1, <2>2
<1> QED BY <1>1, TerminateAgree

LEMMA TxStepRows ==
  ASSUME RowsIInv, TxStep, DisputeIInv'
  PROVE  RowsIInv'
<1>1. /\ DisputeIInv /\ Agreeing(work) /\ Agreeing(db) /\ AllFit(work, tx.forced)
      /\ RowsTyped(work) /\ References(work) /\ DOMAIN tx = TxFields /\ expired \subseteq Tasks
  BY DEF RowsIInv, DisputeIInv, Ready, Good, TxTyped
<1>2. UNCHANGED db
  BY DEF TxStep, AutoConfirmStale, SweepBanned, Evaluate, ExpireClean, Settle, Finalize,
         BanNegatives, RestoreForced, RestorePublisherBan, StartNewRound, Reconcile,
         LoopEnds, Step
<1>3. CASE RestoreForced
  <2>1. Agreeing(work') /\ AllFit(work', tx'.forced)
    BY <1>1, <1>3, RestoreForcedAgree
  <2> QED BY <1>1, <1>2, <2>1 DEF RowsIInv
<1>4. CASE ~RestoreForced
  <2>1. tx'.forced = tx.forced
    BY <1>1, <1>4, ForcedKept
  <2>2. Agreeing(work') /\ TasksKept(work, work')
    <3>1. \/ AutoConfirmStale \/ Finalize \/ StartNewRound
          \/ SweepBanned \/ ExpireClean
          \/ Evaluate \/ LoopEnds \/ Settle \/ BanNegatives \/ RestorePublisherBan \/ Reconcile
      BY <1>4 DEF TxStep
    <3> QED BY <1>1, <3>1, AutoConfirmAgree, FinalizeStepAgree, NewRoundStepAgree, SweepAgree,
               LedgerAgree
  <2>3. AllFit(work', tx'.forced)
    BY <1>1, <2>1, <2>2, AllFitKept
  <2> QED BY <1>1, <1>2, <2>2, <2>3 DEF RowsIInv
<1> QED BY <1>3, <1>4

-----------------------------------------------------------------------------
(* The invariant is kept.                                                  *)

LEMMA InitRows == Init => RowsIInv
<1> SUFFICES ASSUME Init PROVE RowsIInv
  OBVIOUS
<1> DEFINE d == EmptyTables
<1>1. DisputeIInv
  BY InitIInv
<1>2. db = d /\ work = d /\ tx.forced = <<>>
  BY DEF Init, Idle
<1>3. /\ \A t \in Tasks : d.task[t].status = "NONE" /\ d.task[t].completed = {}
      /\ \A s \in Subs : d.sub[s].status = "NONE"
      /\ \A x \in Disps : d.disp[x].source = "NONE" /\ d.disp[x].votes = {}
      /\ \A x \in Disps : d.disp[x].snap.forced = <<>>
      /\ d.work = {}
  BY DEF EmptyTables, NoSnap
<1> HIDE DEF d
<1>4. AllFit(work, tx.forced)
  BY <1>2 DEF AllFit
<1>5. Funded(d)
  BY <1>3 DEF Funded, FundedTasks, SnapFits, AllFit
<1>6. CompletionsRecorded(d)
  <2> DEFINE done(t) == {s \in Subs : d.sub[s].status \in CompletedSub /\ d.sub[s].task = t}
  <2>1. \A t \in Tasks : done(t) = {}
    BY <1>3 DEF CompletedSub
  <2> QED BY <1>3, <2>1 DEF CompletionsRecorded
<1>7. PaidOnce(d) /\ CompletionsEarn(d)
  BY <1>3 DEF PaidOnce, CompletionsEarn, WorkerRows, CompletedSub
<1>8. ASSUME NEW x \in Disps PROVE VotesEarn(d, x)
  <2>1. VoteRows(d, x) = {} /\ d.disp[x].votes = {}
    BY <1>3 DEF VoteRows
  <2> QED BY <2>1, FS_EmptySet DEF VotesEarn
<1>9. Agreeing(d)
  BY <1>5, <1>6, <1>7, <1>8 DEF Agreeing, Matched
<1> QED BY <1>1, <1>2, <1>4, <1>9 DEF RowsIInv

LEMMA BeginReopenRows ==
  ASSUME RowsIInv, DisputeIInv', NEW x \in Disps, BeginReopen(x)
  PROVE  RowsIInv'
<1> DEFINE resolved == db.disp[x].status = "RESOLVED_COMPLETED"
           archived == ArchiveRound(db, x)
           rolled == RollbackResolution(archived, x)
<1>1. /\ UNCHANGED db
      /\ work' = IF resolved THEN rolled ELSE archived
      /\ tx'.forced = db.disp[x].snap.forced
  BY DEF BeginReopen, Idle
<1>2. Good(db, Disps) /\ RowsTyped(db) /\ References(db) /\ Agreeing(db)
  BY DEF RowsIInv, DisputeIInv, Good
<1>3. Good(archived, Disps) /\ archived.disp[x].status = db.disp[x].status
  BY <1>2, ArchiveGood
<1>4. Agreeing(archived) /\ TasksKept(db, archived)
  BY <1>2, ArchiveAgree
<1> HIDE DEF archived
<1>5. resolved => Agreeing(rolled) /\ TasksKept(archived, rolled)
  BY <1>3, <1>4, RollbackAgree
<1> HIDE DEF rolled
<1>6. Agreeing(work') /\ TasksKept(db, work')
  BY <1>1, <1>4, <1>5 DEF TasksKept
<1>7. AllFit(work', tx'.forced)
  <2>1. AllFit(db, db.disp[x].snap.forced)
    BY <1>2 DEF Agreeing, Funded, SnapFits
  <2> QED BY <1>1, <1>6, <2>1, AllFitKept
<1> QED BY <1>1, <1>2, <1>6, <1>7 DEF RowsIInv

LEMMA WriteRows ==
  ASSUME RowsIInv, DisputeIInv', ApiWrite
  PROVE  RowsIInv'
<1>1. Good(db, Disps) /\ Agreeing(db) /\ AllFit(work, tx.forced)
  BY DEF RowsIInv, DisputeIInv
<1>2. ~Running /\ work' = db' /\ UNCHANGED tx
  BY WriteAlone
<1>3. work = db
  BY <1>2 DEF RowsIInv, DisputeIInv
<1>4. Agreeing(db') /\ TasksKept(db, db')
  BY <1>1, ApiWriteAgree
<1>5. AllFit(work', tx'.forced)
  BY <1>1, <1>2, <1>3, <1>4, AllFitKept
<1> QED BY <1>2, <1>4, <1>5 DEF RowsIInv

LEMMA NextRows == RowsIInv /\ [Next]_vars => RowsIInv'
<1> SUFFICES ASSUME RowsIInv, [Next]_vars PROVE RowsIInv'
  OBVIOUS
<1>1. DisputeIInv'
  BY NextIInv DEF RowsIInv
<1>2. CASE Tick \/ UNCHANGED vars
  <2>1. UNCHANGED <<db, work, tx>>
    BY <1>2 DEF Tick, SubmissionAges, DeadlinePasses, vars
  <2> QED BY <1>1, <2>1 DEF RowsIInv
<1>3. CASE BeginClose \/ \E x \in Disps : BeginOverrideCompleted(x)
  <2>1. UNCHANGED <<db, work>> /\ tx'.forced = <<>>
    BY <1>3 DEF BeginClose, BeginOverrideCompleted, Idle
  <2> QED BY <1>1, <2>1 DEF RowsIInv, AllFit
<1>4. CASE Commit \/ Abort \/ Crash
  <2>1. work' = db' /\ tx'.forced = <<>> /\ db' \in {db, work}
    BY <1>4 DEF Commit, Abort, Crash, RolledBack, Idle
  <2> QED BY <1>1, <2>1 DEF RowsIInv, AllFit
<1> QED BY <1>1, <1>2, <1>3, <1>4, WriteRows, BeginReopenRows, TxStepRows DEF Next, Override

-----------------------------------------------------------------------------
(* What it says about the rows.                                            *)

LEMMA AgreeingRows ==
  ASSUME NEW d, RowsTyped(d), Agreeing(d)
  PROVE  EscrowBacked(d) /\ CompletionsRecorded(d) /\ WorkEarned(d) /\ PaidOnce(d)
<1>1. EscrowBacked(d)
  <2> SUFFICES ASSUME NEW t \in Tasks, d.task[t].status # "NONE"
               PROVE  LET row == d.task[t]
                      IN /\ \E k \in 0..row.slots : row.escrow = k * row.reward
                         /\ row.status \in ActiveTask <=> row.escrow > 0
    BY DEF EscrowBacked, Existing, RowsTyped
  <2> DEFINE row == d.task[t]
  <2>1. Sized(row) /\ Whole(row, row.status, row.escrow)
    BY DEF Agreeing, Funded, FundedTasks
  <2> HIDE DEF row
  <2>2. PICK k \in 0..row.slots : /\ row.escrow = k * row.reward
                                  /\ row.status \in ActiveTask <=> k > 0
    BY <2>1 DEF Whole
  <2>3. row.escrow > 0 <=> k > 0
    BY <2>1, <2>2, PayableIs
  <2> QED BY <2>2, <2>3 DEF row
<1>2. WorkEarned(d)
  <2>1. ASSUME NEW s \in Subs
        PROVE  Cardinality(WorkerRows(d, s))
                 = IF d.sub[s].status \in CompletedSub /\ WorkerWorkload > 0 THEN 1 ELSE 0
    <3>1. IF d.sub[s].status \in CompletedSub /\ WorkerWorkload > 0
          THEN \E r : WorkerRows(d, s) = {r}
          ELSE WorkerRows(d, s) = {}
      BY DEF Agreeing, Matched, CompletionsEarn
    <3> QED BY <3>1, FS_Singleton, FS_EmptySet
  <2>2. \A x \in Disps : VotesEarn(d, x)
    BY DEF Agreeing, Matched
  <2> QED BY <2>1, <2>2 DEF WorkEarned, WorkerRows, VotesEarn, VoteRows
<1> QED BY <1>1, <1>2 DEF Agreeing, Matched

\* Whatever interleaving of writes, closings, overrides, failures and crashes:
\* in the committed tables and half-way through a transaction, the escrow of a task
\* is one reward for each slot that is left, the task lists the agents of its
\* completed submissions, and the workload is the completions and votes that stand.
THEOREM RowsAlwaysAgree == Spec => []RowsAgree
<1>1. RowsIInv => RowsAgree
  BY AgreeingRows DEF RowsIInv, DisputeIInv, Ready, Good, RowsAgree, EscrowBackedInv,
                      CompletionsRecordedInv, WorkEarnedInv, BothTables
<1> QED BY <1>1, InitRows, NextRows, PTL DEF Spec

\* No agent is paid twice out of the escrow of a task that allows no repeats,
\* whether by its publisher, by a cycle's closing or by a dispute.
THEOREM PaidOnceOnly == Spec => []PaidOnceInv
<1>1. RowsIInv => PaidOnceInv
  BY AgreeingRows DEF RowsIInv, DisputeIInv, Ready, Good, PaidOnceInv, BothTables
<1> QED BY <1>1, InitRows, NextRows, PTL DEF Spec


-----------------------------------------------------------------------------
(* What a cycle pays.                                                      *)

LEMMA Allocated ==
  ASSUME NEW pool \in Int, NEW S \in SUBSET Nat, IsFiniteSet(S), NEW load \in [S -> Nat]
  PROVE  /\ AllocateIntegerPool(pool, load) \in [S -> Nat]
         /\ SumOver(AllocateIntegerPool(pool, load), S) \in Nat
         /\ SumOver(AllocateIntegerPool(pool, load), S) <= Bigger(0, pool)
<1> DEFINE amount == AllocateIntegerPool(pool, load)
<1>1. CASE pool <= 0 \/ S = {}
  <2>1. amount = [a \in S |-> 0]
    BY <1>1 DEF AllocateIntegerPool
  <2>2. (\A a \in S : amount[a] = 0) /\ amount \in [S -> Nat]
    BY <2>1
  <2> HIDE DEF amount
  <2>3. SumOver(amount, S) = 0
    <3>1. Cardinality(S) \in Nat /\ 0 \in Int
      BY FS_CardinalityType
    <3>2. SumOver(amount, S) = 0 * Cardinality(S)
      BY <2>2, <3>1, SumConstant
    <3> QED BY <3>1, <3>2
  <2> QED BY <2>2, <2>3 DEF Bigger, amount
<1>2. CASE pool > 0 /\ S # {}
  <2>1. amount \in [S -> Nat] /\ SumOver(amount, S) = pool
    BY <1>2, PoolHandedOut
  <2> QED BY <1>2, <2>1 DEF Bigger
<1> QED BY <1>1, <1>2

\* Workload rows that a split can be computed from.
Earned(d) == d.work \subseteq WorkRow /\ IsFiniteSet(d.work)

LEMMA LoadTyped ==
  ASSUME NEW d, Earned(d), NEW c
  PROVE  /\ CycleLoad(d, c) \in [DOMAIN CycleLoad(d, c) -> Nat]
         /\ DOMAIN CycleLoad(d, c) \subseteq Agents
<1> DEFINE rows == {r \in d.work : r.cycle = c}
           workload == [r \in rows |-> WorkloadOf(r)]
           of(a) == {r \in rows : r.agent = a}
           load == CycleLoad(d, c)
           S == {r.agent : r \in rows}
<1>1. load = [a \in S |-> SumOver(workload, of(a))]
  BY DEF CycleLoad
<1>2. \A r \in rows : workload[r] \in Int /\ workload[r] >= 0
  BY RulesAssumption DEF Earned, WorkRow, WorkloadOf
<1>3. ASSUME NEW a \in S PROVE SumOver(workload, of(a)) \in Nat
  <2>1. of(a) \in SUBSET rows /\ of(a) \in SUBSET d.work
    OBVIOUS
  <2>2. IsFiniteSet(of(a))
    BY <2>1, FS_Subset DEF Earned
  <2>3. \A r \in of(a) : workload[r] \in Int /\ workload[r] >= 0
    BY <1>2, <2>1
  <2> HIDE DEF of, workload
  <2>4. SumOver(workload, of(a)) \in Int /\ SumOver(workload, of(a)) >= 0
    BY <2>2, <2>3, SumTyped
  <2> QED BY <2>4
<1>4. S \subseteq Agents
  BY DEF Earned, WorkRow
<1> HIDE DEF load, S, workload, of
<1> QED BY <1>1, <1>3, <1>4 DEF load

LEMMA DistributionTyped ==
  ASSUME NEW d, Earned(d), NEW c, NEW pool \in Int
  PROVE  /\ Distribution(d, c, pool) \in [Agents -> Nat]
         /\ SumOver(Distribution(d, c, pool), Agents) \in Nat
         /\ SumOver(Distribution(d, c, pool), Agents) <= Bigger(0, pool)
<1> DEFINE load == CycleLoad(d, c)
           S == DOMAIN load
           amount == AllocateIntegerPool(pool, load)
           share == Distribution(d, c, pool)
<1>1. S \in SUBSET Agents /\ S \in SUBSET Nat /\ IsFiniteSet(S) /\ IsFiniteSet(Agents)
  BY LoadTyped, IdsAssumption, FiniteAssumption, FS_Subset
<1>2. load \in [S -> Nat]
  BY LoadTyped
<1> HIDE DEF load
<1>3. /\ amount \in [S -> Nat]
      /\ SumOver(amount, S) \in Nat /\ SumOver(amount, S) <= Bigger(0, pool)
  <2> HIDE DEF S
  <2> QED BY <1>1, <1>2, Allocated
<1>4. share = [a \in Agents |-> IF a \in DOMAIN amount THEN amount[a] ELSE 0]
  BY DEF Distribution, load
<1> HIDE DEF amount, S, share
<1>5. DOMAIN amount = S
  BY <1>3
<1>6. share \in [Agents -> Nat]
  BY <1>3, <1>4, <1>5
<1>7. /\ \A a \in Agents : share[a] \in Int
      /\ \A a \in Agents \ S : share[a] = 0
      /\ \A a \in S : share[a] = amount[a]
  BY <1>1, <1>4, <1>5, <1>6
<1>8. SumOver(share, Agents) = SumOver(share, S)
  BY <1>1, <1>7, SumSubset
<1>9. SumOver(share, S) = SumOver(amount, S)
  BY <1>1, <1>7, SumSame
<1> QED BY <1>3, <1>6, <1>8, <1>9 DEF share

-----------------------------------------------------------------------------
(* The books.                                                              *)

Framed(d) == d = [n \in TableNames |-> d[n]]

\* What a cycle holds that it has not credited.
Unpaid(row) == row.tax + row.penalty - row.credited

Unopened(row) == row.status = "NONE" /\ row.tax = 0 /\ row.penalty = 0 /\ row.credited = 0

\* Forced terminations whose penalty went to a cycle that has been opened.
Past(d, forced) == \A i \in 1..Len(forced) : forced[i].cycle <= d.active

\* What can be added up: amounts are integers, and what does not exist yet holds none.
Booked(d) ==
  /\ Framed(d)
  /\ d.avail \in [Agents -> Int]
  /\ d.cycle \in [Cycles -> CycleRow]
  /\ d.disp \in [Disps -> DispRow]
  /\ Earned(d)
  /\ \A t \in Tasks : d.task[t].status = "NONE" => d.task[t].escrow = 0
  /\ \A c \in Cycles : c > d.active => Unopened(d.cycle[c])
  /\ \A x \in Disps : Past(d, d.disp[x].snap.forced)

Escrows(d) == [t \in Tasks |-> d.task[t].escrow]
Pools(d) == [c \in Cycles |-> Unpaid(d.cycle[c])]

\* n, m and k more in the wallets, the escrows and the pools.
Flow(d, e, n, m, k) ==
  /\ SumOver(e.avail, Agents) = SumOver(d.avail, Agents) + n
  /\ SumOver(Escrows(e), Tasks) = SumOver(Escrows(d), Tasks) + m
  /\ SumOver(Pools(e), Cycles) = SumOver(Pools(d), Cycles) + k

LEMMA UnpaidTyped == \A row \in CycleRow : Unpaid(row) \in Int
BY DEF CycleRow, Unpaid

LEMMA PartsTyped ==
  ASSUME NEW d, RowsTyped(d), d.avail \in [Agents -> Int], d.cycle \in [Cycles -> CycleRow]
  PROVE  /\ \A a \in Agents : d.avail[a] \in Int
         /\ \A t \in Tasks : Escrows(d)[t] = d.task[t].escrow /\ Escrows(d)[t] \in Int
         /\ \A c \in Cycles : Pools(d)[c] = Unpaid(d.cycle[c]) /\ Pools(d)[c] \in Int
<1>1. \A t \in Tasks : Escrows(d)[t] = d.task[t].escrow /\ Escrows(d)[t] \in Int
  BY DEF Escrows, RowsTyped, TaskRow
<1>2. \A c \in Cycles : Pools(d)[c] = Unpaid(d.cycle[c]) /\ Pools(d)[c] \in Int
  BY UnpaidTyped DEF Pools
<1> QED BY <1>1, <1>2

LEMMA HoldingsTyped ==
  ASSUME NEW d, RowsTyped(d), d.avail \in [Agents -> Int], d.cycle \in [Cycles -> CycleRow]
  PROVE  Holdings(d) \in Int
<1>1. /\ \A a \in Agents : d.avail[a] \in Int
      /\ \A t \in Tasks : Escrows(d)[t] \in Int
      /\ \A c \in Cycles : Pools(d)[c] \in Int
  BY PartsTyped
<1>2. /\ SumOver(d.avail, Agents) \in Int
      /\ SumOver(Escrows(d), Tasks) \in Int
      /\ SumOver(Pools(d), Cycles) \in Int
  BY <1>1, FiniteAssumption, SumTyped
<1>3. Holdings(d) = SumOver(d.avail, Agents) + SumOver(Escrows(d), Tasks) + SumOver(Pools(d), Cycles)
  BY DEF Holdings, Escrows, Pools, Unpaid
<1> QED BY <1>2, <1>3

LEMMA FlowBalance ==
  ASSUME NEW d, RowsTyped(d), d.avail \in [Agents -> Int], d.cycle \in [Cycles -> CycleRow],
         NEW e, NEW n \in Int, NEW m \in Int, NEW k \in Int, Flow(d, e, n, m, k)
  PROVE  Holdings(e) = Holdings(d) + n + m + k
<1>1. /\ \A a \in Agents : d.avail[a] \in Int
      /\ \A t \in Tasks : Escrows(d)[t] \in Int
      /\ \A c \in Cycles : Pools(d)[c] \in Int
  BY PartsTyped
<1>2. /\ SumOver(d.avail, Agents) \in Int
      /\ SumOver(Escrows(d), Tasks) \in Int
      /\ SumOver(Pools(d), Cycles) \in Int
  BY <1>1, FiniteAssumption, SumTyped
<1>3. /\ Holdings(d) = SumOver(d.avail, Agents) + SumOver(Escrows(d), Tasks) + SumOver(Pools(d), Cycles)
      /\ Holdings(e) = SumOver(e.avail, Agents) + SumOver(Escrows(e), Tasks) + SumOver(Pools(e), Cycles)
  BY DEF Holdings, Escrows, Pools, Unpaid
<1> QED BY <1>2, <1>3 DEF Flow

\* One wallet is paid n.
LEMMA WalletPaid ==
  ASSUME NEW v \in [Agents -> Int], NEW a \in Agents, NEW n \in Int
  PROVE  LET w == [v EXCEPT ![a] = @ + n]
         IN w \in [Agents -> Int] /\ SumOver(w, Agents) = SumOver(v, Agents) + n
<1> DEFINE w == [v EXCEPT ![a] = @ + n]
<1>1. /\ w \in [Agents -> Int] /\ w[a] - v[a] = n
      /\ \A b \in Agents : v[b] \in Int /\ w[b] \in Int
      /\ \A b \in Agents \ {a} : v[b] = w[b]
  OBVIOUS
<1> HIDE DEF w
<1>2. SumOver(w, Agents) = SumOver(v, Agents) + (w[a] - v[a])
  BY <1>1, FiniteAssumption, SumChange
<1> QED BY <1>1, <1>2 DEF w

LEMMA SameEscrows ==
  ASSUME NEW d, RowsTyped(d), NEW e, \A t \in Tasks : e.task[t].escrow = d.task[t].escrow
  PROVE  SumOver(Escrows(e), Tasks) = SumOver(Escrows(d), Tasks)
<1>1. Escrows(e) = Escrows(d)
  BY DEF Escrows
<1> QED BY <1>1

LEMMA SamePools ==
  ASSUME NEW d, NEW e, e.cycle = d.cycle
  PROVE  SumOver(Pools(e), Cycles) = SumOver(Pools(d), Cycles)
BY DEF Pools

\* One task's escrow changes.
LEMMA EscrowChanged ==
  ASSUME NEW d, RowsTyped(d), NEW e, RowsTyped(e), NEW t \in Tasks,
         \A u \in Tasks \ {t} : e.task[u].escrow = d.task[u].escrow
  PROVE  SumOver(Escrows(e), Tasks)
           = SumOver(Escrows(d), Tasks) + (e.task[t].escrow - d.task[t].escrow)
<1>1. \A u \in Tasks : /\ Escrows(d)[u] = d.task[u].escrow /\ Escrows(d)[u] \in Int
                       /\ Escrows(e)[u] = e.task[u].escrow /\ Escrows(e)[u] \in Int
  BY DEF Escrows, RowsTyped, TaskRow
<1>2. \A u \in Tasks : Escrows(d)[u] \in Int /\ Escrows(e)[u] \in Int
  BY <1>1
<1>3. \A u \in Tasks \ {t} : Escrows(d)[u] = Escrows(e)[u]
  BY <1>1
<1>4. SumOver(Escrows(e), Tasks) = SumOver(Escrows(d), Tasks) + (Escrows(e)[t] - Escrows(d)[t])
  BY <1>2, <1>3, FiniteAssumption, SumChange
<1> QED BY <1>1, <1>4

\* One cycle's pool changes.
LEMMA PoolChanged ==
  ASSUME NEW d, d.cycle \in [Cycles -> CycleRow], NEW e, e.cycle \in [Cycles -> CycleRow],
         NEW c \in Cycles,
         \A k \in Cycles \ {c} : Unpaid(e.cycle[k]) = Unpaid(d.cycle[k])
  PROVE  SumOver(Pools(e), Cycles)
           = SumOver(Pools(d), Cycles) + (Unpaid(e.cycle[c]) - Unpaid(d.cycle[c]))
<1> DEFINE u == Pools(d)
           v == Pools(e)
<1>1. \A k \in Cycles : /\ u[k] = Unpaid(d.cycle[k]) /\ u[k] \in Int
                        /\ v[k] = Unpaid(e.cycle[k]) /\ v[k] \in Int
  BY UnpaidTyped DEF Pools
<1> HIDE DEF u, v
<1>2. \A k \in Cycles : u[k] \in Int /\ v[k] \in Int
  BY <1>1
<1>3. \A k \in Cycles \ {c} : u[k] = v[k]
  BY <1>1
<1>4. IsFiniteSet(Cycles)
  BY FiniteAssumption
<1>5. SumOver(v, Cycles) = SumOver(u, Cycles) + (v[c] - u[c])
  BY ONLY <1>2, <1>3, <1>4, SumChange
<1> QED BY <1>1, <1>5 DEF u, v

-----------------------------------------------------------------------------
(* Writes that keep the books.                                             *)

\* Nobody owes anything, no cycle has paid out more than it holds, and the open one
\* has not paid yet.
Prudent(d) ==
  /\ \A a \in Agents : d.avail[a] >= 0
  /\ \A c \in Cycles : /\ d.cycle[c].tax >= 0
                       /\ d.cycle[c].penalty >= 0
                       /\ d.cycle[c].credited <= RewardPool(d.cycle[c])
  /\ d.cycle[d.active].credited = 0

Grown(d, e) == RewardPool(e.cycle[d.active]) >= RewardPool(d.cycle[d.active])

Moved(d, e) ==
  /\ Booked(e)
  /\ Holdings(e) = Holdings(d)
  /\ e.active = d.active
  /\ Prudent(d) => Prudent(e) /\ Grown(d, e)

\* What a write leaves behind apart from the amounts.
Entered(d, e) ==
  /\ Framed(e)
  /\ e.active = d.active
  /\ e.disp \in [Disps -> DispRow]
  /\ Earned(e)
  /\ \A t \in Tasks : e.task[t].status = "NONE" => e.task[t].escrow = 0
  /\ \A x \in Disps : Past(d, e.disp[x].snap.forced)

LEMMA PoolTyped == \A row \in CycleRow : RewardPool(row) \in Int
BY DEF CycleRow, RewardPool

LEMMA MovedTwice ==
  ASSUME NEW d, RowsTyped(d), Booked(d), NEW e, Moved(d, e), NEW f, Moved(e, f)
  PROVE  Moved(d, f)
<1>1. /\ RewardPool(d.cycle[d.active]) \in Int
      /\ RewardPool(e.cycle[d.active]) \in Int
      /\ RewardPool(f.cycle[d.active]) \in Int
  BY PoolTyped DEF Moved, Booked, RowsTyped
<1>2. ASSUME Prudent(d) PROVE Prudent(f) /\ Grown(d, f)
  <2>1. Prudent(e) /\ RewardPool(e.cycle[d.active]) >= RewardPool(d.cycle[d.active])
    BY <1>2 DEF Moved, Grown
  <2>2. Prudent(f) /\ RewardPool(f.cycle[d.active]) >= RewardPool(e.cycle[d.active])
    BY <2>1 DEF Moved, Grown
  <2> QED BY <1>1, <2>1, <2>2 DEF Grown
<1> QED BY <1>2 DEF Moved

\* No amount changes.
LEMMA StillBooked ==
  ASSUME NEW d, RowsTyped(d), Booked(d), NEW e, RowsTyped(e), Entered(d, e),
         e.avail = d.avail, e.cycle = d.cycle,
         \A t \in Tasks : e.task[t].escrow = d.task[t].escrow
  PROVE  Moved(d, e)
<1>1. Booked(e)
  BY DEF Booked, Entered, Past
<1>2. Holdings(e) = Holdings(d)
  BY DEF Holdings
<1>3. Prudent(d) => Prudent(e) /\ Grown(d, e)
  <2>1. RewardPool(d.cycle[d.active]) \in Int
    BY PoolTyped DEF Booked, RowsTyped
  <2> QED BY <2>1 DEF Prudent, Grown, Entered
<1> QED BY <1>1, <1>2, <1>3 DEF Moved, Entered

\* Amounts go between wallets, the escrow of one task and the pool of the open cycle.
LEMMA Transfer ==
  ASSUME NEW d, RowsTyped(d), Booked(d), NEW e, RowsTyped(e), Entered(d, e),
         NEW n \in Int, e.avail \in [Agents -> Int],
         SumOver(e.avail, Agents) = SumOver(d.avail, Agents) + n,
         Prudent(d) => \A a \in Agents : e.avail[a] >= 0,
         NEW t \in Tasks, \A u \in Tasks \ {t} : e.task[u].escrow = d.task[u].escrow,
         NEW row \in CycleRow, e.cycle = [d.cycle EXCEPT ![d.active] = row],
         row.minted = d.cycle[d.active].minted, row.credited = d.cycle[d.active].credited,
         row.tax >= d.cycle[d.active].tax, row.penalty >= d.cycle[d.active].penalty,
         n + (e.task[t].escrow - d.task[t].escrow)
           + (Unpaid(row) - Unpaid(d.cycle[d.active])) = 0
  PROVE  Moved(d, e)
<1> DEFINE c == d.active
           old == d.cycle[c]
           m == e.task[t].escrow - d.task[t].escrow
           k == Unpaid(row) - Unpaid(old)
<1>1. c \in Cycles /\ old \in CycleRow
  BY DEF Booked, RowsTyped
<1>2. /\ e.cycle \in [Cycles -> CycleRow]
      /\ e.cycle[c] = row
      /\ \A i \in Cycles \ {c} : e.cycle[i] = d.cycle[i]
  BY <1>1 DEF Booked
<1>3. m \in Int /\ k \in Int
  BY <1>1, UnpaidTyped DEF RowsTyped, TaskRow
<1>4. Holdings(e) = Holdings(d)
  <2>1. SumOver(Escrows(e), Tasks) = SumOver(Escrows(d), Tasks) + m
    BY EscrowChanged
  <2>2. SumOver(Pools(e), Cycles) = SumOver(Pools(d), Cycles) + k
    <3>1. \A i \in Cycles \ {c} : Unpaid(e.cycle[i]) = Unpaid(d.cycle[i])
      BY <1>2
    <3>2. d.cycle \in [Cycles -> CycleRow]
      BY DEF Booked
    <3>3. SumOver(Pools(e), Cycles)
            = SumOver(Pools(d), Cycles) + (Unpaid(e.cycle[c]) - Unpaid(d.cycle[c]))
      BY <1>1, <1>2, <3>1, <3>2, PoolChanged
    <3> QED BY <1>2, <3>3
  <2>3. Flow(d, e, n, m, k)
    BY <2>1, <2>2 DEF Flow
  <2>4. Holdings(d) \in Int /\ Holdings(e) = Holdings(d) + n + m + k
    <3>1. d.avail \in [Agents -> Int] /\ d.cycle \in [Cycles -> CycleRow]
      BY DEF Booked
    <3> HIDE DEF m, k
    <3> QED BY <1>3, <2>3, <3>1, FlowBalance, HoldingsTyped
  <2>5. n + m + k = 0
    OBVIOUS
  <2> HIDE DEF m, k
  <2> QED BY <1>3, <2>4, <2>5, SMTT(30)
<1>5. Booked(e)
  <2>1. \A i \in Cycles : i > e.active => Unopened(e.cycle[i])
    <3>1. \A i \in Cycles : i > c => i # c
      BY <1>1, IdsAssumption
    <3> QED BY <1>2, <3>1 DEF Booked, Entered
  <2>2. \A x \in Disps : Past(e, e.disp[x].snap.forced)
    BY DEF Entered, Past
  <2> QED BY <1>2, <2>1, <2>2 DEF Booked, Entered
<1>6. ASSUME Prudent(d) PROVE Prudent(e) /\ Grown(d, e)
  <2>1. RewardPool(row) >= RewardPool(old) /\ RewardPool(old) \in Int /\ RewardPool(row) \in Int
    BY <1>1 DEF CycleRow, RewardPool
  <2>2. row.tax >= 0 /\ row.penalty >= 0 /\ row.credited = 0 /\ row.credited <= RewardPool(row)
    <3>1. old.tax >= 0 /\ old.penalty >= 0 /\ old.credited = 0 /\ old.credited <= RewardPool(old)
      BY <1>1, <1>6 DEF Prudent
    <3> QED BY <1>1, <2>1, <3>1 DEF CycleRow
  <2>3. Grown(d, e)
    BY <1>2, <2>1 DEF Grown
  <2> QED BY <1>2, <1>6, <2>2, <2>3 DEF Prudent, Entered
<1> QED BY <1>4, <1>5, <1>6 DEF Moved, Entered

-----------------------------------------------------------------------------
(* What the helpers do to the books.                                       *)

\* The workload rows of a completion.
LEMMA CompletionEarned ==
  ASSUME NEW d, RowsTyped(d), References(d), Booked(d),
         NEW s \in Subs, d.sub[s].status # "NONE", NEW x \in Disps \cup {NoDispute},
         NEW e, e.work = d.work \cup CompletionWork(d, s, x)
  PROVE  Earned(e)
<1> DEFINE worker == [cycle |-> d.active, agent |-> d.sub[s].agent, kind |-> "WORKER",
                      disp |-> x, sub |-> s]
           publisher == [cycle |-> d.active, agent |-> TaskOf(d, s).publisher,
                         kind |-> "PUBLISHER", disp |-> x, sub |-> s]
<1>1. d.sub[s].agent \in Agents /\ TaskOf(d, s).publisher \in Agents /\ d.active \in Cycles
  BY DEF References, RowsTyped, TaskOf
<1>2. worker \in WorkRow /\ publisher \in WorkRow
  BY <1>1 DEF WorkRow
<1>3. CompletionWork(d, s, x) \subseteq {worker, publisher}
  BY DEF CompletionWork, Recorded
<1> HIDE DEF worker, publisher
<1>4. IsFiniteSet({worker, publisher})
  <2>1. IsFiniteSet({worker})
    BY FS_Singleton
  <2>2. {worker, publisher} = {worker} \cup {publisher}
    OBVIOUS
  <2> QED BY <2>1, <2>2, FS_AddElement
<1>5. IsFiniteSet(CompletionWork(d, s, x))
  BY <1>3, <1>4, FS_Subset
<1>6. IsFiniteSet(e.work)
  BY <1>5, FS_Union DEF Booked, Earned
<1> QED BY <1>2, <1>3, <1>6 DEF Booked, Earned

\* The reward goes from the escrow to the worker.
LEMMA ConfirmMoved ==
  ASSUME NEW d, RowsTyped(d), References(d), Booked(d),
         NEW s \in Subs, d.sub[s].status # "NONE", NEW x \in Disps \cup {NoDispute}
  PROVE  Moved(d, ConfirmInternal(d, s, x))
<1> DEFINE e == ConfirmInternal(d, s, x)
<1>3. /\ RowsTyped(e)
      /\ e.disp = d.disp
      /\ e.sub = [d.sub EXCEPT ![s].status = "CONFIRMED"]
      /\ \A t \in Tasks :
           /\ e.task[t].publisher = d.task[t].publisher
           /\ \/ e.task[t].status = d.task[t].status
              \/ t = d.sub[s].task /\ e.task[t].status = "CLOSED"
  BY ConfirmEffect
<1> DEFINE t == d.sub[s].task
           r == d.task[t].reward
           a == d.sub[s].agent
           row == d.cycle[d.active]
<1>1. t \in Tasks /\ a \in Agents /\ d.active \in Cycles /\ d.task[t].status # "NONE"
  BY DEF References, RowsTyped
<1>2. r \in Nat /\ d.task[t].escrow \in Int
  BY <1>1 DEF RowsTyped, TaskRow
<1>4. /\ e.avail = [d.avail EXCEPT ![a] = @ + r]
      /\ e.cycle = d.cycle
      /\ e.active = d.active
      /\ e.work = d.work \cup CompletionWork(d, s, x)
      /\ Framed(e)
  <2>1. d.sub = [o \in Subs |-> d.sub[o]] /\ d.task = [u \in Tasks |-> d.task[u]] /\ DOMAIN d = TableNames
    BY DEF RowsTyped
  <2>2. e.avail = [d.avail EXCEPT ![a] = @ + r]
    BY <2>1 DEF ConfirmInternal, TableNames
  <2>3. e.cycle = d.cycle /\ e.active = d.active
    BY <2>1 DEF ConfirmInternal, TableNames
  <2>4. e.work = d.work \cup CompletionWork(d, s, x)
    BY <2>1 DEF ConfirmInternal, TableNames
  <2>5. Framed(e)
    <3>1. \E A, B, C, D : e = [d EXCEPT !.sub = A, !.task = B, !.avail = C, !.work = D]
      BY <2>1 DEF ConfirmInternal
    <3> HIDE DEF e
    <3> QED BY <3>1 DEF Framed, Booked, TableNames
  <2> QED BY <2>2, <2>3, <2>4, <2>5
<1>5. /\ e.task[t].escrow = d.task[t].escrow - r
      /\ \A u \in Tasks \ {t} : e.task[u].escrow = d.task[u].escrow
  BY <1>1 DEF ConfirmInternal, RowsTyped, TaskRow, TableNames
<1> HIDE DEF e
<1>6. Earned(e)
  BY <1>4, CompletionEarned
<1>7. Entered(d, e)
  <2>1. \A u \in Tasks : e.task[u].status = "NONE" => e.task[u].escrow = 0
    BY <1>1, <1>3, <1>5 DEF Booked
  <2> QED BY <1>3, <1>4, <1>6, <2>1 DEF Entered, Booked
<1>8. /\ e.avail \in [Agents -> Int]
      /\ SumOver(e.avail, Agents) = SumOver(d.avail, Agents) + r
  BY <1>1, <1>2, <1>4, WalletPaid DEF Booked
<1>9. Prudent(d) => \A b \in Agents : e.avail[b] >= 0
  BY <1>1, <1>2, <1>4 DEF Booked, Prudent
<1>10. row \in CycleRow /\ e.cycle = [d.cycle EXCEPT ![d.active] = row]
  BY <1>1, <1>4 DEF Booked
<1>11. row.tax \in Int /\ row.penalty \in Int /\ row.tax >= row.tax /\ row.penalty >= row.penalty
  BY <1>10 DEF CycleRow
<1>12. r + (e.task[t].escrow - d.task[t].escrow) + (Unpaid(row) - Unpaid(d.cycle[d.active])) = 0
  <2>1. Unpaid(row) \in Int
    BY <1>10, UnpaidTyped
  <2> QED BY <1>2, <1>5, <2>1
<1>13. r \in Int
  BY <1>2
<1> HIDE DEF r, t, row
<1>14. Moved(d, e)
  BY <1>1, <1>3, <1>5, <1>7, <1>8, <1>9, <1>10, <1>11, <1>12, <1>13, Transfer DEF row
<1> QED BY <1>14 DEF e

LEMMA BanMoved ==
  ASSUME NEW d, RowsTyped(d), Booked(d), NEW A,
         NEW reason \in BanReason, NEW source \in Disps \cup {NoDispute}
  PROVE  Moved(d, BanAgents(d, A, reason, source))
<1> DEFINE e == BanAgents(d, A, reason, source)
<1>1. RowsTyped(e) /\ e.task = d.task /\ e.disp = d.disp /\ e.active = d.active
  BY BanEffect
<1>2. e.avail = d.avail /\ e.cycle = d.cycle /\ e.work = d.work /\ Framed(e)
  BY DEF BanAgents, Booked, Framed, TableNames, RowsTyped
<1> HIDE DEF e
<1>3. Entered(d, e)
  BY <1>1, <1>2 DEF Entered, Booked, Earned
<1> QED BY <1>1, <1>2, <1>3, StillBooked DEF e

\* The penalty and the refund add up to the escrow.
LEMMA PenaltySplits ==
  ASSUME NEW escrow \in Nat
  PROVE  LET penalty == ComputeTerminationPenalty(escrow, TerminationPenaltyBps)
             refund == RefundAfter(escrow, penalty)
         IN /\ penalty \in Nat /\ refund \in Nat
            /\ penalty + refund = escrow
<1> DEFINE b == TerminationPenaltyBps
           q == (escrow * b) \div 10000
           penalty == ComputeTerminationPenalty(escrow, b)
<1>1. b \in Nat /\ b <= 10000
  BY RulesAssumption DEF Bps
<1>2. escrow * b \in Nat /\ escrow * b <= escrow * 10000
  BY <1>1
<1>3. q \in Nat /\ 10000 * q <= escrow * b
  <2> HIDE DEF b
  <2> DEFINE m == escrow * b
  <2>1. m \in Nat
    BY <1>2
  <2> HIDE DEF m
  <2>2. m \div 10000 \in Nat /\ 10000 * (m \div 10000) <= m
    BY <2>1
  <2> QED BY <2>2 DEF m
<1> HIDE DEF q, b
<1>4. q <= escrow
  BY <1>2, <1>3
<1>5. penalty = IF escrow <= 0 THEN 0 ELSE Bigger(1, q)
  BY DEF ComputeTerminationPenalty, Bps, q
<1>6. penalty \in Nat /\ penalty <= escrow
  BY <1>3, <1>4, <1>5 DEF Bigger
<1> HIDE DEF penalty
<1> QED BY <1>6 DEF RefundAfter, penalty, b

\* The escrow is split between the publisher and the pool of the open cycle.
LEMMA TerminateMoved ==
  ASSUME NEW d, RowsTyped(d), References(d), Booked(d), Funded(d),
         NEW t \in Tasks, d.task[t].status \in ActiveTask, NEW x
  PROVE  Moved(d, TerminateInternal(d, t, x))
<1> DEFINE e == TerminateInternal(d, t, x)
           old == d.task[t]
           c == d.active
           penalty == ComputeTerminationPenalty(old.escrow, TerminationPenaltyBps)
           refund == RefundAfter(old.escrow, penalty)
           entry == [task |-> t, cycle |-> c, status |-> old.status,
                     escrow |-> old.escrow, penalty |-> penalty, refund |-> refund]
           row == [d.cycle[c] EXCEPT !.penalty = @ + penalty]
           p == old.publisher
<1>1. c \in Cycles /\ p \in Agents /\ old \in TaskRow /\ d.cycle[c] \in CycleRow
  BY DEF References, RowsTyped, ActiveTask, Booked
<1>2. old.escrow \in Nat
  <2>1. Sized(old) /\ Whole(old, old.status, old.escrow)
    BY DEF Funded, FundedTasks, ActiveTask
  <2>2. PICK k \in 0..old.slots : old.escrow = k * old.reward
    BY <2>1 DEF Whole
  <2> QED BY <2>1, <2>2 DEF Sized
<1>3. penalty \in Nat /\ refund \in Nat /\ penalty + refund = old.escrow
  BY <1>2, PenaltySplits
<1>4. /\ RowsTyped(e)
      /\ \A u \in Tasks : e.task[u].status = IF u = t THEN "TERMINATED" ELSE d.task[u].status
  BY TerminateEffect
<1>5. e.avail = [d.avail EXCEPT ![p] = @ + refund]
  BY DEF TerminateInternal, RowsTyped, TableNames
<1>6. e.cycle = [d.cycle EXCEPT ![c] = row]
  BY DEF TerminateInternal, RowsTyped, TableNames
<1>7. e.active = d.active /\ e.work = d.work
  BY DEF TerminateInternal, RowsTyped, TableNames
<1>8. Framed(e)
  BY DEF TerminateInternal, RowsTyped, TableNames, Framed, Booked
<1>9. /\ e.task[t].escrow = 0
      /\ \A u \in Tasks \ {t} : e.task[u].escrow = d.task[u].escrow
  BY <1>1 DEF TerminateInternal, RowsTyped, TableNames, TaskRow
<1>10. e.disp = [y \in Disps |->
                   IF y = x /\ d.disp[y].source # "NONE"
                   THEN [d.disp[y] EXCEPT !.snap.forced = Append(@, entry)]
                   ELSE d.disp[y]]
  BY DEF TerminateInternal, RowsTyped, TableNames
<1> HIDE DEF e
<1>11. entry \in ForcedRow /\ entry.cycle <= d.active
  <2>1. d.active \in Nat
    BY <1>1, IdsAssumption
  <2>2. old.status \in TaskStatus
    BY DEF TaskStatus, ActiveTask
  <2> HIDE DEF penalty, refund
  <2> QED BY <1>1, <1>2, <1>3, <2>1, <2>2 DEF ForcedRow
<1> HIDE DEF entry
<1>12. ASSUME NEW y \in Disps
       PROVE  /\ e.disp[y] \in DispRow
              /\ Past(d, e.disp[y].snap.forced)
  <2>1. d.disp[y] \in DispRow /\ Past(d, d.disp[y].snap.forced)
    BY DEF Booked
  <2>2. CASE e.disp[y] = d.disp[y]
    BY <2>1, <2>2
  <2>3. CASE e.disp[y] = [d.disp[y] EXCEPT !.snap.forced = Append(@, entry)]
    <3> DEFINE f == d.disp[y].snap.forced
               g == Append(f, entry)
    <3>1. d.disp[y].snap \in SnapRow /\ f \in Seq(ForcedRow)
      BY <2>1 DEF DispRow, SnapRow
    <3>2. g \in Seq(ForcedRow)
      BY <1>11, <3>1
    <3>3. Past(d, g)
      <4>1. \A i \in 1..Len(g) : g[i] = entry \/ (i \in 1..Len(f) /\ g[i] = f[i])
        <5> HIDE DEF f
        <5> QED BY <3>1, <1>11
      <4> QED BY <1>11, <2>1, <4>1 DEF Past
    <3> HIDE DEF g
    <3>4. e.disp[y] = [d.disp[y] EXCEPT !.snap = [d.disp[y].snap EXCEPT !.forced = g]]
      BY <2>3 DEF g
    <3>5. [d.disp[y].snap EXCEPT !.forced = g] \in SnapRow
      BY <3>1, <3>2 DEF SnapRow
    <3>6. e.disp[y] \in DispRow
      BY <2>1, <3>4, <3>5 DEF DispRow
    <3>7. e.disp[y].snap.forced = g
      BY <2>1, <3>1, <3>4 DEF DispRow, SnapRow
    <3> QED BY <3>3, <3>6, <3>7
  <2> QED BY <1>10, <2>2, <2>3
<1>13. Entered(d, e)
  <2>1. \A u \in Tasks : e.task[u].status = "NONE" => e.task[u].escrow = 0
    BY <1>4, <1>9 DEF Booked
  <2>2. e.disp \in [Disps -> DispRow]
    BY <1>10, <1>12
  <2>3. Earned(e)
    BY <1>7 DEF Earned, Booked
  <2> QED BY <1>7, <1>8, <1>12, <2>1, <2>2, <2>3 DEF Entered
<1> HIDE DEF penalty, refund
<1>14. /\ e.avail \in [Agents -> Int]
       /\ SumOver(e.avail, Agents) = SumOver(d.avail, Agents) + refund
  BY <1>1, <1>3, <1>5, WalletPaid DEF Booked
<1>15. Prudent(d) => \A b \in Agents : e.avail[b] >= 0
  BY <1>1, <1>3, <1>5 DEF Booked, Prudent
<1>16. /\ row \in CycleRow
       /\ row.minted = d.cycle[c].minted /\ row.credited = d.cycle[c].credited
       /\ row.tax >= d.cycle[c].tax /\ row.penalty >= d.cycle[c].penalty
       /\ Unpaid(row) = Unpaid(d.cycle[c]) + penalty
  BY <1>1, <1>3 DEF CycleRow, Unpaid
<1>17. refund + (e.task[t].escrow - d.task[t].escrow) + (Unpaid(row) - Unpaid(d.cycle[d.active])) = 0
  <2>1. Unpaid(d.cycle[c]) \in Int
    BY <1>1, UnpaidTyped
  <2> QED BY <1>2, <1>3, <1>9, <1>16, <2>1
<1>18. refund \in Int
  BY <1>3
<1> HIDE DEF row
<1>19. Moved(d, e)
  BY <1>4, <1>6, <1>9, <1>13, <1>14, <1>15, <1>16, <1>17, <1>18, Transfer
<1> QED BY <1>19 DEF e

LEMMA DisputeWritten ==
  ASSUME NEW d, Booked(d), NEW x \in Disps, NEW row \in DispRow, Past(d, row.snap.forced),
         NEW e, e.disp = [d.disp EXCEPT ![x] = row]
  PROVE  /\ e.disp \in [Disps -> DispRow]
         /\ \A y \in Disps : Past(d, e.disp[y].snap.forced)
<1>1. d.disp \in [Disps -> DispRow] /\ \A y \in Disps : Past(d, d.disp[y].snap.forced)
  BY DEF Booked
<1>2. e.disp[x] = row /\ \A y \in Disps \ {x} : e.disp[y] = d.disp[y]
  BY <1>1
<1> QED BY <1>1, <1>2

\* The row of a dispute that has just been paid.
LEMMA PaidRow ==
  ASSUME NEW d, RowsTyped(d), References(d), Booked(d), NEW x \in Disps, d.disp[x].status # "NONE",
         NEW source \in PayoutSource, NEW payout \in Int,
         NEW row, row = [d.disp[x] EXCEPT !.source = source, !.payout = payout,
                                          !.snap = SnapshotBefore(d, x)]
  PROVE  row \in DispRow /\ Past(d, row.snap.forced)
<1> DEFINE snap == SnapshotBefore(d, x)
<1>1. snap \in SnapRow /\ snap.forced = <<>>
  BY SnapshotTyped
<1>2. d.disp[x] \in DispRow
  BY DEF Booked
<1> HIDE DEF snap
<1>3. row \in DispRow /\ row.snap = snap
  BY <1>1, <1>2 DEF DispRow, snap
<1> QED BY <1>1, <1>3 DEF Past

LEMMA ResolveEscrowMoved ==
  ASSUME NEW d, RowsTyped(d), References(d), Booked(d), NEW x \in Disps,
         d.disp[x].status = "RESOLVED_COMPLETED"
  PROVE  Moved(d, ResolveFromEscrow(d, x))
<1> DEFINE s == d.disp[x].sub
           c == ConfirmInternal(d, s, x)
           e == ResolveFromEscrow(d, x)
           reward == d.task[DispTask(d, x)].reward
           row == [d.disp[x] EXCEPT !.source = "ESCROW", !.payout = reward,
                                    !.snap = SnapshotBefore(d, x)]
<1>1. s \in Subs /\ d.sub[s].status # "NONE" /\ DispTask(d, x) \in Tasks
  BY DisputeRefs
<1>2. Moved(d, c)
  BY <1>1, ConfirmMoved
<1>3. /\ RowsTyped(c)
      /\ c.disp = d.disp
      /\ c.sub = [d.sub EXCEPT ![s].status = "CONFIRMED"]
      /\ \A t \in Tasks :
           /\ c.task[t].publisher = d.task[t].publisher
           /\ \/ c.task[t].status = d.task[t].status
              \/ t = d.sub[s].task /\ c.task[t].status = "CLOSED"
  BY <1>1, ConfirmEffect
<1>4. RowsTyped(e)
  BY ResolveFromEscrowEffect DEF Resolved
<1>5. row \in DispRow /\ Past(d, row.snap.forced)
  <2>1. "ESCROW" \in PayoutSource /\ reward \in Int
    BY <1>1 DEF PayoutSource, RowsTyped, TaskRow
  <2> HIDE DEF reward
  <2> QED BY <2>1, PaidRow
<1>6. e = [c EXCEPT !.disp[x] = [@ EXCEPT !.source = "ESCROW", !.payout = reward,
                                          !.snap = SnapshotBefore(d, x)]]
  BY DEF ResolveFromEscrow
<1> HIDE DEF c, e, reward
<1>7. e = [c EXCEPT !.disp = [d.disp EXCEPT ![x] = row]]
  <2>1. DOMAIN c = TableNames /\ DOMAIN d.disp = Disps
    BY <1>3 DEF RowsTyped
  <2> HIDE DEF row
  <2>2. c.disp[x] = d.disp[x]
    BY <1>3
  <2>3. e = [c EXCEPT !.disp = [c.disp EXCEPT ![x] = row]]
    BY <1>6, <2>1, <2>2 DEF row
  <2> QED BY <1>3, <2>3
<1> HIDE DEF row
<1>8. /\ e.disp = [d.disp EXCEPT ![x] = row]
      /\ e.avail = c.avail /\ e.cycle = c.cycle /\ e.active = c.active
      /\ e.task = c.task /\ e.work = c.work
      /\ Framed(e)
  BY <1>2, <1>3, <1>7 DEF Moved, Booked, Framed, RowsTyped, TableNames
<1>9. Entered(c, e)
  <2>1. Booked(c) /\ c.active = d.active
    BY <1>2 DEF Moved
  <2>2. e.disp \in [Disps -> DispRow] /\ \A y \in Disps : Past(d, e.disp[y].snap.forced)
    BY <1>5, <1>8, DisputeWritten, ZenonT(30)
  <2>3. \A y \in Disps : Past(c, e.disp[y].snap.forced)
    BY <2>1, <2>2 DEF Past
  <2> QED BY <1>8, <2>1, <2>2, <2>3 DEF Entered, Booked, Earned
<1>10. Booked(c)
  BY <1>2 DEF Moved
<1>11. Moved(c, e)
  BY <1>3, <1>4, <1>8, <1>9, <1>10, StillBooked
<1>12. Moved(d, e)
  BY <1>2, <1>11, MovedTwice
<1> QED BY <1>12 DEF e

\* What the publisher's wallet can bear goes to the worker.
LEMMA ResolveWalletMoved ==
  ASSUME NEW d, RowsTyped(d), References(d), Booked(d), NEW x \in Disps,
         d.disp[x].status = "RESOLVED_COMPLETED"
  PROVE  Moved(d, ResolveFromWallet(d, x))
<1> DEFINE s == d.disp[x].sub
           t == DispTask(d, x)
           task == d.task[t]
           p == task.publisher
           w == d.sub[s].agent
           paid == WalletPayout(d, x)
           source == IF Insolvent(d, x) THEN "PUBLISHER_WALLET_PARTIAL" ELSE "PUBLISHER_WALLET"
           row == [d.disp[x] EXCEPT !.source = source, !.payout = paid,
                                    !.snap = SnapshotBefore(d, x)]
           taskAfter == [task EXCEPT !.completed = @ \cup {d.sub[s].agent},
                                     !.status = IF HasPayableSlot(task) THEN @ ELSE "CLOSED"]
           settled == [d EXCEPT
             !.avail[task.publisher] = @ - paid,
             !.avail[d.sub[s].agent] = @ + paid,
             !.sub[s].status = "DISPUTE_COMPLETED",
             !.task[t] = taskAfter,
             !.work = @ \cup CompletionWork(d, s, x),
             !.disp[x] = row]
           banned == BanAgents(settled, {task.publisher}, "DISPUTE_INSOLVENCY", x)
           e == ResolveFromWallet(d, x)
           cycle == d.cycle[d.active]
<1>1. /\ s \in Subs /\ d.sub[s].status # "NONE" /\ t \in Tasks
      /\ w \in Agents /\ p \in Agents /\ d.task[t].status # "NONE"
  BY DisputeRefs DEF DispWorker, DispPublisher
<1>2. RowsTyped(e)
  BY ResolveFromWalletEffect DEF Resolved
<1>3. e \in {settled, banned}
  BY DEF ResolveFromWallet
<1>4. source \in PayoutSource
  BY DEF PayoutSource
<1>5. paid \in Int /\ (d.avail[p] >= 0 => paid >= 0 /\ d.avail[p] - paid >= 0)
  <2>1. d.avail[p] \in Int /\ task.reward \in Nat
    BY <1>1 DEF Booked, RowsTyped, TaskRow
  <2>2. paid = IF d.avail[p] <= 0 THEN 0 ELSE IF d.avail[p] < task.reward THEN d.avail[p] ELSE task.reward
    BY DEF WalletPayout, DispPublisher
  <2> HIDE DEF paid, task
  <2> QED BY <2>1, <2>2
<1> HIDE DEF paid, source
<1>6. row \in DispRow /\ Past(d, row.snap.forced)
  BY <1>4, <1>5, PaidRow
<1>7. taskAfter.escrow = d.task[t].escrow /\ taskAfter.status \in {task.status, "CLOSED"}
  <2>1. task \in TaskRow
    BY <1>1 DEF RowsTyped
  <2> HIDE DEF task
  <2>2. taskAfter.escrow = task.escrow /\ taskAfter.status \in {task.status, "CLOSED"}
    BY <2>1 DEF TaskRow
  <2> QED BY <2>2 DEF task
<1> DEFINE once == [d.avail EXCEPT ![p] = @ - paid]
           twice == [once EXCEPT ![w] = @ + paid]
<1> HIDE DEF row, taskAfter
<1>8. /\ settled.avail = twice
      /\ settled.cycle = d.cycle /\ settled.active = d.active
      /\ settled.task = [d.task EXCEPT ![t] = taskAfter]
      /\ settled.work = d.work \cup CompletionWork(d, s, x)
      /\ settled.disp = [d.disp EXCEPT ![x] = row]
      /\ Framed(settled)
  <2>1. DOMAIN d = TableNames /\ Framed(d)
    BY DEF RowsTyped, Booked
  <2>2. settled.avail = twice
    BY <2>1 DEF TableNames
  <2>3. settled.cycle = d.cycle /\ settled.active = d.active
    BY <2>1 DEF TableNames
  <2>4. settled.task = [d.task EXCEPT ![t] = taskAfter]
    BY <2>1 DEF TableNames
  <2>5. settled.work = d.work \cup CompletionWork(d, s, x)
    BY <2>1 DEF TableNames
  <2>6. settled.disp = [d.disp EXCEPT ![x] = row]
    BY <2>1 DEF TableNames
  <2>7. Framed(settled)
    <3>1. \E A, B, C, D, E, F :
            settled = [d EXCEPT !.avail = A, !.avail = B, !.sub = C, !.task = D, !.work = E, !.disp = F]
      BY <2>1
    <3> HIDE DEF settled
    <3> QED BY <2>1, <3>1 DEF Framed, TableNames
  <2> QED BY <2>2, <2>3, <2>4, <2>5, <2>6, <2>7
<1> HIDE DEF settled, e
<1>9. /\ banned.avail = settled.avail
      /\ banned.cycle = settled.cycle /\ banned.active = settled.active
      /\ banned.task = settled.task
      /\ banned.work = settled.work
      /\ banned.disp = settled.disp
      /\ Framed(banned)
  BY <1>8 DEF BanAgents, Framed, TableNames
<1> HIDE DEF banned
<1>10. /\ e.avail = twice
       /\ e.cycle = d.cycle /\ e.active = d.active
       /\ e.task = [d.task EXCEPT ![t] = taskAfter]
       /\ e.work = d.work \cup CompletionWork(d, s, x)
       /\ e.disp = [d.disp EXCEPT ![x] = row]
       /\ Framed(e)
  BY <1>3, <1>8, <1>9
<1>11. e.task[t] = taskAfter /\ \A u \in Tasks \ {t} : e.task[u] = d.task[u]
  BY <1>1, <1>10 DEF RowsTyped
<1>12. Entered(d, e)
  <2>1. e.disp \in [Disps -> DispRow] /\ \A y \in Disps : Past(d, e.disp[y].snap.forced)
    BY <1>6, <1>10, DisputeWritten, ZenonT(30)
  <2>2. \A u \in Tasks : e.task[u].status = "NONE" => e.task[u].escrow = 0
    BY <1>1, <1>7, <1>11 DEF Booked
  <2>3. Earned(e)
    <3>1. x \in Disps \cup {NoDispute}
      OBVIOUS
    <3> HIDE DEF s
    <3> QED BY <1>1, <1>10, <3>1, CompletionEarned
  <2> QED BY <1>10, <2>1, <2>2, <2>3 DEF Entered
<1>13. /\ once \in [Agents -> Int]
       /\ SumOver(once, Agents) = SumOver(d.avail, Agents) - paid
  <2>1. d.avail \in [Agents -> Int]
    BY DEF Booked
  <2>2. -paid \in Int /\ once = [d.avail EXCEPT ![p] = @ + (-paid)]
    BY <1>1, <1>5, <2>1
  <2> HIDE DEF once, p
  <2>3. /\ once \in [Agents -> Int]
        /\ SumOver(once, Agents) = SumOver(d.avail, Agents) + (-paid)
    BY <1>1, <2>1, <2>2, WalletPaid
  <2>4. SumOver(d.avail, Agents) \in Int
    <3>1. \A b \in Agents : d.avail[b] \in Int
      BY <2>1
    <3> QED BY <3>1, FiniteAssumption, SumTyped
  <2> QED BY <1>5, <2>3, <2>4
<1>14. /\ twice \in [Agents -> Int]
       /\ SumOver(twice, Agents) = SumOver(once, Agents) + paid
  <2> HIDE DEF once, w
  <2> QED BY <1>1, <1>5, <1>13, WalletPaid, ZenonT(30)
<1>15. /\ e.avail \in [Agents -> Int]
       /\ SumOver(e.avail, Agents) = SumOver(d.avail, Agents) + 0
  <2>1. SumOver(d.avail, Agents) \in Int
    <3>1. \A b \in Agents : d.avail[b] \in Int
      BY DEF Booked
    <3> QED BY <3>1, FiniteAssumption, SumTyped
  <2> HIDE DEF once, twice
  <2> QED BY <1>5, <1>10, <1>13, <1>14, <2>1
<1>16. Prudent(d) => \A b \in Agents : e.avail[b] >= 0
  <2> SUFFICES ASSUME Prudent(d), NEW b \in Agents PROVE e.avail[b] >= 0
    OBVIOUS
  <2>1. d.avail \in [Agents -> Int] /\ \A i \in Agents : d.avail[i] >= 0
    BY DEF Booked, Prudent
  <2>2. paid >= 0 /\ d.avail[p] - paid >= 0
    BY <1>1, <1>5, <2>1
  <2>3. \A i \in Agents : once[i] >= 0
    BY <1>1, <1>5, <2>1, <2>2
  <2> HIDE DEF once
  <2>4. e.avail[b] = IF b = w THEN once[w] + paid ELSE once[b]
    BY <1>1, <1>10, <1>13
  <2> QED BY <1>1, <1>5, <1>13, <2>2, <2>3, <2>4
<1>17. /\ cycle \in CycleRow /\ e.cycle = [d.cycle EXCEPT ![d.active] = cycle]
       /\ cycle.tax >= cycle.tax /\ cycle.penalty >= cycle.penalty
  <2>1. d.cycle \in [Cycles -> CycleRow] /\ d.active \in Cycles
    BY DEF Booked, RowsTyped
  <2> QED BY <1>10, <2>1, SMTT(60) DEF CycleRow
<1>18. 0 + (e.task[t].escrow - d.task[t].escrow) + (Unpaid(cycle) - Unpaid(d.cycle[d.active])) = 0
  <2>1. Unpaid(cycle) \in Int
    BY <1>17, UnpaidTyped
  <2>2. d.task[t].escrow \in Int
    BY <1>1 DEF RowsTyped, TaskRow
  <2> QED BY <1>7, <1>11, <2>1, <2>2
<1>19. 0 \in Int /\ \A u \in Tasks \ {t} : e.task[u].escrow = d.task[u].escrow
  BY <1>11
<1> HIDE DEF t, cycle
<1>20. Moved(d, e)
  BY <1>1, <1>2, <1>12, <1>15, <1>16, <1>17, <1>18, <1>19, Transfer DEF cycle
<1> QED BY <1>20 DEF e

LEMMA FinalizeMoved ==
  ASSUME NEW d, Good(d, Disps), Booked(d), NEW x \in Disps, d.disp[x].status = "OPEN"
  PROVE  Moved(d, FinalizeCompleted(d, x))
<1> DEFINE m == [d EXCEPT !.disp[x].status = "RESOLVED_COMPLETED"]
           e == FinalizeCompleted(d, x)
<1>1. RowsTyped(d) /\ References(d) /\ DisputeBacked(d, Disps)
  BY DEF Good
<1>2. /\ RowsTyped(m)
      /\ References(m)
      /\ m.task = d.task /\ m.sub = d.sub /\ m.active = d.active
      /\ m.disp[x].status = "RESOLVED_COMPLETED"
      /\ m.disp[x].sub = d.disp[x].sub
  BY <1>1, MarkResolved
<1>3. m.avail = d.avail /\ m.cycle = d.cycle /\ m.work = d.work
      /\ m.disp = [d.disp EXCEPT ![x] = [d.disp[x] EXCEPT !.status = "RESOLVED_COMPLETED"]]
      /\ Framed(m)
  BY <1>1 DEF RowsTyped, TableNames, Framed, Booked
<1>4. d.sub[d.disp[x].sub].status = "REJECTED"
  BY <1>1 DEF DisputeBacked
<1>5. e \in {ResolveFromEscrow(m, x), ResolveFromWallet(m, x)}
  BY <1>4 DEF FinalizeCompleted, PaysFromEscrow, PaysFromWallet, AlreadyCompleted, CompletedSub
<1> HIDE DEF m, e
<1>6. Entered(d, m)
  <2> DEFINE row == [d.disp[x] EXCEPT !.status = "RESOLVED_COMPLETED"]
  <2>1. row \in DispRow /\ Past(d, row.snap.forced)
    <3>1. d.disp[x] \in DispRow /\ Past(d, d.disp[x].snap.forced)
      BY DEF Booked
    <3> QED BY <3>1 DEF DispRow, DispStatus
  <2> HIDE DEF row
  <2>2. m.disp \in [Disps -> DispRow] /\ \A y \in Disps : Past(d, m.disp[y].snap.forced)
    BY <1>3, <2>1, DisputeWritten, ZenonT(30) DEF row
  <2> QED BY <1>2, <1>3, <2>2 DEF Entered, Booked, Earned
<1>7. Moved(d, m)
  BY <1>1, <1>2, <1>3, <1>6, StillBooked
<1>8. Booked(m)
  BY <1>7 DEF Moved
<1>9. Moved(m, e)
  <2>1. CASE e = ResolveFromEscrow(m, x)
    BY <1>2, <1>8, <2>1, ResolveEscrowMoved
  <2>2. CASE e = ResolveFromWallet(m, x)
    BY <1>2, <1>8, <2>2, ResolveWalletMoved
  <2> QED BY <1>5, <2>1, <2>2
<1>10. Moved(d, e)
  BY <1>1, <1>7, <1>9, MovedTwice
<1> QED BY <1>10 DEF e

\* Everybody is credited what the split of the pool gives them.
LEMMA Credited ==
  ASSUME NEW v \in [Agents -> Int], NEW share \in [Agents -> Int]
  PROVE  LET w == [a \in Agents |-> v[a] + share[a]]
         IN /\ w \in [Agents -> Int]
            /\ SumOver(share, Agents) \in Int
            /\ SumOver(w, Agents) = SumOver(v, Agents) + SumOver(share, Agents)
<1> DEFINE w == [a \in Agents |-> v[a] + share[a]]
<1>1. \A a \in Agents : v[a] \in Int /\ share[a] \in Int /\ w[a] = v[a] + share[a]
  OBVIOUS
<1>2. w \in [Agents -> Int]
  OBVIOUS
<1>3. SumOver(share, Agents) \in Int
  BY <1>1, FiniteAssumption, SumTyped
<1> HIDE DEF w
<1>4. SumOver(w, Agents) = SumOver(v, Agents) + SumOver(share, Agents)
  BY <1>1, FiniteAssumption, SumAdded
<1> QED BY <1>2, <1>3, <1>4 DEF w

LEMMA ClosedRow ==
  ASSUME NEW old \in CycleRow, NEW n \in Int,
         NEW row, row = [old EXCEPT !.status = "CLOSED", !.credited = @ + n]
  PROVE  /\ row \in CycleRow
         /\ row.minted = old.minted /\ row.tax = old.tax /\ row.penalty = old.penalty
         /\ row.credited = old.credited + n
<1>1. row = [status |-> "CLOSED", minted |-> old.minted, tax |-> old.tax,
             penalty |-> old.penalty, credited |-> old.credited + n]
  BY DEF CycleRow
<1>2. old.minted \in Nat /\ old.tax \in Int /\ old.penalty \in Int /\ old.credited + n \in Int
  BY DEF CycleRow
<1> QED BY <1>1, <1>2 DEF CycleRow

\* The cycle pays what it credits, and the next one starts with nothing.
LEMMA SettleBooked ==
  ASSUME NEW d, RowsTyped(d), Booked(d), d.active + 1 \in Cycles, NEW pool \in Int,
         NEW e, e = SettleCycle(d, pool), RowsTyped(e)
  PROVE  /\ Booked(e)
         /\ Holdings(e) = Holdings(d)
         /\ Prudent(d) /\ pool <= RewardPool(d.cycle[d.active]) => Prudent(e)
<1> DEFINE c == d.active
           old == d.cycle[c]
           amount == Distribution(d, c, pool)
           total == SumOver(amount, Agents)
           row == [old EXCEPT !.status = "CLOSED", !.credited = @ + total]
           next == [status |-> "OPEN", minted |-> MintPerCycle, tax |-> 0,
                    penalty |-> 0, credited |-> 0]
<1>1. c \in Cycles /\ c \in Nat /\ c + 1 # c /\ old \in CycleRow
  <2>1. c \in Cycles /\ d.cycle \in [Cycles -> CycleRow]
    BY DEF RowsTyped, Booked
  <2> HIDE DEF c
  <2>2. c \in Nat
    BY <2>1, IdsAssumption
  <2> QED BY <2>1, <2>2
<1>2. /\ amount \in [Agents -> Nat]
      /\ total \in Nat /\ total <= Bigger(0, pool)
  BY DistributionTyped DEF Booked
<1> HIDE DEF amount
<1>3. e.avail = [a \in Agents |-> d.avail[a] + amount[a]]
  BY DEF SettleCycle, RowsTyped, TableNames, amount
<1>4. e.cycle = [[d.cycle EXCEPT ![c] = row] EXCEPT ![c + 1] = next]
  <2>1. d.cycle \in [Cycles -> CycleRow] /\ DOMAIN d = TableNames
    BY DEF Booked, RowsTyped
  <2>2. SettleCycle(d, pool)
          = [d EXCEPT
               !.avail = [a \in Agents |-> @[a] + amount[a]],
               !.cycle[c] = row,
               !.cycle[c + 1] = next,
               !.active = c + 1]
    BY DEF SettleCycle, amount
  <2> HIDE DEF row, next
  <2> QED BY <2>1, <2>2 DEF TableNames
<1>5. /\ e.active = c + 1 /\ e.task = d.task /\ e.disp = d.disp /\ e.work = d.work
      /\ Framed(e)
  <2>1. DOMAIN d = TableNames /\ Framed(d)
    BY DEF Booked, RowsTyped
  <2>2. e.active = c + 1 /\ e.task = d.task /\ e.disp = d.disp /\ e.work = d.work
    BY <2>1 DEF SettleCycle, TableNames
  <2>3. \E A, B, C, D : e = [d EXCEPT !.avail = A, !.cycle = B, !.cycle = C, !.active = D]
    BY DEF SettleCycle
  <2> QED BY <2>1, <2>2, <2>3 DEF Framed, TableNames
<1>6. /\ row \in CycleRow
      /\ row.minted = old.minted /\ row.tax = old.tax /\ row.penalty = old.penalty
      /\ row.credited = old.credited + total
  <2>1. total \in Int
    BY <1>2
  <2> HIDE DEF total, old
  <2> QED BY <1>1, <2>1, ClosedRow
<1>7. next \in CycleRow
  BY RulesAssumption DEF CycleRow
<1> HIDE DEF row, total
<1>8. /\ e.cycle \in [Cycles -> CycleRow]
      /\ e.cycle[c] = row /\ e.cycle[c + 1] = next
      /\ \A k \in Cycles \ {c, c + 1} : e.cycle[k] = d.cycle[k]
  BY <1>1, <1>4, <1>6, <1>7 DEF Booked
<1>9. Unpaid(row) = Unpaid(old) - total
  BY <1>1, <1>2, <1>6 DEF Unpaid, CycleRow
<1>10. Unopened(d.cycle[c + 1])
  BY <1>1 DEF Booked
<1>11. \A k \in Cycles \ {c} : Unpaid(e.cycle[k]) = Unpaid(d.cycle[k])
  BY <1>8, <1>10 DEF Unpaid, Unopened
<1>12. SumOver(Pools(e), Cycles) = SumOver(Pools(d), Cycles) + (Unpaid(row) - Unpaid(old))
  <2>1. d.cycle \in [Cycles -> CycleRow]
    BY DEF Booked
  <2>2. SumOver(Pools(e), Cycles)
          = SumOver(Pools(d), Cycles) + (Unpaid(e.cycle[c]) - Unpaid(d.cycle[c]))
    BY <1>1, <1>8, <1>11, <2>1, PoolChanged
  <2> QED BY <1>8, <2>2
<1>13. e.avail \in [Agents -> Int] /\ SumOver(e.avail, Agents) = SumOver(d.avail, Agents) + total
  <2>1. d.avail \in [Agents -> Int] /\ amount \in [Agents -> Int]
    BY <1>2 DEF Booked
  <2> QED BY <1>3, <2>1, Credited DEF total
<1>14. Holdings(e) = Holdings(d)
  <2>1. SumOver(Escrows(e), Tasks) = SumOver(Escrows(d), Tasks) + 0
    <3>1. SumOver(Escrows(e), Tasks) = SumOver(Escrows(d), Tasks)
      BY <1>5, SameEscrows
    <3>2. \A t \in Tasks : Escrows(d)[t] \in Int
      BY PartsTyped DEF Booked
    <3>3. SumOver(Escrows(d), Tasks) \in Int
      BY <3>2, FiniteAssumption, SumTyped
    <3> QED BY <3>1, <3>3
  <2>2. Unpaid(old) \in Int
    BY <1>1, UnpaidTyped
  <2>3. Unpaid(row) - Unpaid(old) = -total /\ -total \in Int /\ total \in Int
    BY <1>2, <1>9, <2>2
  <2>4. Flow(d, e, total, 0, -total)
    BY <1>12, <1>13, <2>1, <2>3 DEF Flow
  <2>5. d.avail \in [Agents -> Int] /\ d.cycle \in [Cycles -> CycleRow]
    BY DEF Booked
  <2>6. Holdings(d) \in Int /\ Holdings(e) = Holdings(d) + total + 0 + (-total)
    BY <2>3, <2>4, <2>5, FlowBalance, HoldingsTyped
  <2> QED BY <2>3, <2>6
<1>15. Booked(e)
  <2>1. \A k \in Cycles : k > e.active => Unopened(e.cycle[k])
    <3>1. \A k \in Cycles : k > c + 1 => k \in Cycles \ {c, c + 1} /\ k > c
      BY <1>1, IdsAssumption
    <3> QED BY <1>5, <1>8, <3>1 DEF Booked
  <2>2. \A x \in Disps : Past(e, e.disp[x].snap.forced)
    <3> SUFFICES ASSUME NEW x \in Disps, NEW i \in 1..Len(d.disp[x].snap.forced)
                 PROVE  d.disp[x].snap.forced[i].cycle <= c + 1
      BY <1>5 DEF Past
    <3>1. d.disp[x].snap.forced[i].cycle <= c
      BY DEF Booked, Past
    <3>2. d.disp[x].snap.forced[i].cycle \in Nat
      <4>1. d.disp[x].snap.forced \in Seq(ForcedRow)
        BY DEF Booked, DispRow, SnapRow
      <4> HIDE DEF c
      <4>2. d.disp[x].snap.forced[i] \in ForcedRow
        BY <4>1
      <4> QED BY <4>2, IdsAssumption DEF ForcedRow
    <3> QED BY <1>1, <3>1, <3>2
  <2> QED BY <1>5, <1>8, <1>13, <2>1, <2>2 DEF Booked, Earned
<1>16. ASSUME Prudent(d), pool <= RewardPool(old) PROVE Prudent(e)
  <2>1. old.tax >= 0 /\ old.penalty >= 0 /\ old.credited = 0
    BY <1>1, <1>16 DEF Prudent
  <2>2. RewardPool(old) \in Int /\ RewardPool(old) >= 0
    BY <1>1, <2>1 DEF RewardPool, CycleRow
  <2>3. RewardPool(row) = RewardPool(old)
    BY <1>6 DEF RewardPool
  <2>4. row.credited <= RewardPool(row)
    BY <1>1, <1>2, <1>6, <1>16, <2>1, <2>2, <2>3 DEF Bigger
  <2>5. 0 <= RewardPool(next)
    BY RulesAssumption DEF RewardPool
  <2>6. \A a \in Agents : e.avail[a] >= 0
    BY <1>2, <1>3, <1>16 DEF Prudent, Booked
  <2>7. ASSUME NEW k \in Cycles
        PROVE  /\ e.cycle[k].tax >= 0 /\ e.cycle[k].penalty >= 0
               /\ e.cycle[k].credited <= RewardPool(e.cycle[k])
    <3>1. CASE k = c
      BY <1>6, <1>8, <2>1, <2>4, <3>1
    <3>2. CASE k = c + 1
      BY <1>8, <2>5, <3>2
    <3>3. CASE k \in Cycles \ {c, c + 1}
      BY <1>8, <1>16, <3>3 DEF Prudent
    <3> QED BY <3>1, <3>2, <3>3
  <2> QED BY <1>5, <1>8, <2>6, <2>7 DEF Prudent
<1> QED BY <1>14, <1>15, <1>16

LEMMA ReconcileBooked ==
  ASSUME NEW d, RowsTyped(d), Booked(d), NEW c \in Cycles, c <= d.active,
         NEW before \in [Agents -> Int], NEW e, e = ReconcileCycle(d, c, before), RowsTyped(e)
  PROVE  Booked(e)
<1> DEFINE old == d.cycle[c]
           after == Distribution(d, c, RewardPool(old))
           delta == [a \in Agents |-> after[a] - before[a]]
           total == SumOver(delta, Agents)
           row == [old EXCEPT !.credited = @ + total]
<1>1. d.active \in Nat /\ c \in Nat /\ old \in CycleRow
  BY IdsAssumption DEF RowsTyped, Booked
<1>2. after \in [Agents -> Nat]
  <2>1. RewardPool(old) \in Int /\ Earned(d)
    BY <1>1, PoolTyped DEF Booked
  <2> HIDE DEF old
  <2> QED BY <2>1, DistributionTyped
<1>3. /\ e.avail = [a \in Agents |-> d.avail[a] + delta[a]]
      /\ e.cycle = [d.cycle EXCEPT ![c] = row]
      /\ e.active = d.active /\ e.task = d.task /\ e.disp = d.disp /\ e.work = d.work
      /\ Framed(e)
  <2>1. DOMAIN d = TableNames /\ Framed(d)
    BY DEF Booked, RowsTyped
  <2>2. e.avail = [a \in Agents |-> d.avail[a] + delta[a]]
    BY <2>1 DEF ReconcileCycle, TableNames
  <2>3. e.cycle = [d.cycle EXCEPT ![c] = row]
    BY <2>1 DEF ReconcileCycle, TableNames
  <2>4. e.active = d.active /\ e.task = d.task /\ e.disp = d.disp /\ e.work = d.work
    BY <2>1 DEF ReconcileCycle, TableNames
  <2>5. \E A, B : e = [d EXCEPT !.avail = A, !.cycle = B]
    BY DEF ReconcileCycle
  <2> QED BY <2>1, <2>2, <2>3, <2>4, <2>5 DEF Framed, TableNames
<1> HIDE DEF after
<1>4. delta \in [Agents -> Int]
  BY <1>2
<1> HIDE DEF delta
<1>5. e.avail \in [Agents -> Int] /\ total \in Int
  <2>1. d.avail \in [Agents -> Int]
    BY DEF Booked
  <2> QED BY <1>3, <1>4, <2>1, Credited
<1> HIDE DEF total
<1>6. row \in CycleRow
  BY <1>1, <1>5 DEF CycleRow
<1> HIDE DEF row
<1>7. e.cycle \in [Cycles -> CycleRow] /\ \A k \in Cycles \ {c} : e.cycle[k] = d.cycle[k]
  BY <1>3, <1>6 DEF Booked
<1>8. \A k \in Cycles : k > e.active => Unopened(e.cycle[k])
  <2>1. \A k \in Cycles : k > d.active => k # c
    BY <1>1, IdsAssumption
  <2> QED BY <1>3, <1>7, <2>1 DEF Booked
<1> QED BY <1>3, <1>5, <1>7, <1>8 DEF Booked, Earned, Past

-----------------------------------------------------------------------------
(* What reopening a dispute does to the books.                             *)

LEMMA HistoryTyped ==
  ASSUME NEW d, Booked(d), NEW x \in Disps
  PROVE  [exists |-> TRUE,
          cycles |-> d.disp[x].history.cycles \cup AffectedCycles(d, x),
          agents |-> d.disp[x].history.agents \cup {r.agent : r \in DisputeWork(d, x)}] \in HistoryRow
<1>1. /\ d.disp[x].history \in HistoryRow
      /\ d.disp[x].votes \subseteq VoteRow
      /\ d.disp[x].snap.forced \in Seq(ForcedRow)
  BY DEF Booked, DispRow, SnapRow
<1>2. d.work \subseteq WorkRow
  BY DEF Booked, Earned
<1>3. ForcedCycles(d, x) \subseteq Cycles
  <2> DEFINE forced == d.disp[x].snap.forced
  <2>1. \A i \in DOMAIN forced : forced[i].cycle \in Cycles
    <3>1. forced \in Seq(ForcedRow)
      BY <1>1
    <3> HIDE DEF forced
    <3>2. \A i \in DOMAIN forced : forced[i] \in ForcedRow
      BY <3>1
    <3> QED BY <3>2 DEF ForcedRow
  <2> QED BY <2>1 DEF ForcedCycles
<1>4. {v.cycle : v \in d.disp[x].votes} \subseteq Cycles
  BY <1>1 DEF VoteRow
<1>5. {r.cycle : r \in DisputeWork(d, x)} \subseteq Cycles /\ {r.agent : r \in DisputeWork(d, x)} \subseteq Agents
  BY <1>2 DEF DisputeWork, WorkRow
<1>6. AffectedCycles(d, x) \subseteq Cycles
  BY <1>3, <1>4, <1>5 DEF AffectedCycles
<1> QED BY <1>1, <1>5, <1>6 DEF HistoryRow

LEMMA ArchiveMoved ==
  ASSUME NEW d, Good(d, Disps), Booked(d), NEW x \in Disps
  PROVE  Moved(d, ArchiveRound(d, x))
<1> DEFINE e == ArchiveRound(d, x)
           history == [exists |-> TRUE,
                       cycles |-> d.disp[x].history.cycles \cup AffectedCycles(d, x),
                       agents |-> d.disp[x].history.agents \cup {r.agent : r \in DisputeWork(d, x)}]
           row == [d.disp[x] EXCEPT !.history = history]
           f == [d EXCEPT !.disp = [d.disp EXCEPT ![x] = row]]
<1>1. RowsTyped(d)
  BY DEF Good
<1>2. RowsTyped(e) /\ e.task = d.task
  BY ArchiveGood DEF Good
<1>3. e \in {d, f}
  <2>1. DOMAIN d = TableNames /\ DOMAIN d.disp = Disps
    BY <1>1 DEF RowsTyped
  <2> QED BY <2>1 DEF ArchiveRound, TableNames
<1>4. history \in HistoryRow
  BY HistoryTyped
<1> HIDE DEF history
<1>5. d.disp[x] \in DispRow /\ Past(d, d.disp[x].snap.forced)
  BY DEF Booked
<1>6. row \in DispRow /\ row.snap = d.disp[x].snap
  BY <1>4, <1>5 DEF DispRow
<1> HIDE DEF e, f, row
<1>7. ASSUME e = d PROVE Moved(d, e)
  <2>1. Entered(d, d)
    BY DEF Entered, Booked
  <2>2. Moved(d, d)
    BY <1>1, <2>1, StillBooked
  <2> QED BY <1>7, <2>2
<1>8. ASSUME e = f PROVE Moved(d, e)
  <2>1. /\ e.avail = d.avail /\ e.cycle = d.cycle /\ e.active = d.active /\ e.work = d.work
        /\ e.disp = [d.disp EXCEPT ![x] = row]
        /\ Framed(e)
    BY <1>1, <1>8 DEF f, RowsTyped, TableNames, Framed, Booked
  <2>2. e.disp \in [Disps -> DispRow] /\ \A y \in Disps : Past(d, e.disp[y].snap.forced)
    BY <1>5, <1>6, <2>1, DisputeWritten
  <2>3. Entered(d, e)
    BY <1>2, <2>1, <2>2 DEF Entered, Booked, Earned
  <2>4. \A t \in Tasks : e.task[t].escrow = d.task[t].escrow
    BY <1>2
  <2> QED BY <1>1, <1>2, <2>1, <2>3, <2>4, StillBooked
<1>9. Moved(d, e)
  BY <1>3, <1>7, <1>8
<1> QED BY <1>9 DEF e

LEMMA RestoreBanMoved ==
  ASSUME NEW d, NEW X, Good(d, X), Booked(d), NEW x \in Disps,
         NEW alt \in Disps \cup {NoDispute}
  PROVE  Moved(d, RestoreBan(d, x, alt))
<1> DEFINE e == RestoreBan(d, x, alt)
<1>1. RowsTyped(d)
  BY DEF Good
<1>2. RowsTyped(e)
  BY RestoreBanGood DEF Good
<1>3. \E A : e = [d EXCEPT !.ban[DispPublisher(d, x)] = A]
  BY DEF RestoreBan
<1> HIDE DEF e
<1>4. /\ e.avail = d.avail /\ e.cycle = d.cycle /\ e.active = d.active /\ e.work = d.work
      /\ e.disp = d.disp /\ e.task = d.task
      /\ Framed(e)
  BY <1>1, <1>3 DEF RowsTyped, TableNames, Framed, Booked
<1>5. Entered(d, e)
  BY <1>4 DEF Entered, Booked, Earned
<1>6. Moved(d, e)
  BY <1>1, <1>2, <1>4, <1>5, StillBooked
<1> QED BY <1>6 DEF e

LEMMA ReopenedRow ==
  ASSUME NEW old \in DispRow,
         NEW row, row = [old EXCEPT !.status = "OPEN", !.votes = {}, !.source = "NONE",
                                    !.payout = 0, !.snap = NoSnap]
  PROVE  row \in DispRow /\ row.snap = NoSnap
<1>1. row = [status |-> "OPEN", sub |-> old.sub, votes |-> {}, source |-> "NONE",
             payout |-> 0, snap |-> NoSnap, history |-> old.history]
  BY DEF DispRow
<1>2. NoSnap \in SnapRow
  BY DEF NoSnap, SnapRow, TaskStatus
<1>3. old.sub \in Subs \cup {NoSub} /\ old.history \in HistoryRow
  BY DEF DispRow
<1> QED BY <1>1, <1>2, <1>3 DEF DispRow, DispStatus, PayoutSource

LEMMA NewRoundMoved ==
  ASSUME NEW d, NEW x \in Disps, Good(d, Disps \ {x}), Reopenable(d, x), Booked(d)
  PROVE  Moved(d, OpenNewRound(d, x))
<1> DEFINE e == OpenNewRound(d, x)
           row == [d.disp[x] EXCEPT !.status = "OPEN", !.votes = {}, !.source = "NONE",
                                    !.payout = 0, !.snap = NoSnap]
           gone == {r \in DisputeWork(d, x) : r.kind = "VOTE"}
<1>1. RowsTyped(d)
  BY DEF Good
<1>2. RowsTyped(e)
  BY NewRoundGood DEF Good
<1>3. /\ e.avail = d.avail /\ e.cycle = d.cycle /\ e.active = d.active
      /\ e.work = d.work \ gone
      /\ e.task = d.task
      /\ e.disp = [d.disp EXCEPT ![x] = row]
      /\ Framed(e)
  <2>1. DOMAIN d = TableNames /\ DOMAIN d.disp = Disps /\ Framed(d)
    BY <1>1 DEF RowsTyped, Booked
  <2>2. e = [d EXCEPT !.work = d.work \ gone, !.disp = [d.disp EXCEPT ![x] = row]]
    BY <2>1 DEF OpenNewRound, TableNames
  <2> HIDE DEF e, gone, row
  <2> QED BY <2>1, <2>2 DEF TableNames, Framed
<1> HIDE DEF e, gone
<1>4. row \in DispRow /\ row.snap = NoSnap
  <2>1. d.disp[x] \in DispRow
    BY DEF Booked
  <2> QED BY <2>1, ReopenedRow
<1>5. Past(d, row.snap.forced)
  BY <1>4 DEF Past, NoSnap
<1> HIDE DEF row
<1>6. e.disp \in [Disps -> DispRow] /\ \A y \in Disps : Past(d, e.disp[y].snap.forced)
  BY <1>3, <1>4, <1>5, DisputeWritten
<1>7. Earned(e)
  <2>1. e.work \subseteq d.work /\ Earned(d)
    BY <1>3 DEF Booked
  <2> QED BY <2>1, FS_Subset DEF Earned
<1>8. Entered(d, e)
  BY <1>3, <1>6, <1>7 DEF Entered, Booked
<1>9. Moved(d, e)
  BY <1>1, <1>2, <1>3, <1>8, StillBooked
<1> QED BY <1>9 DEF e

LEMMA RollbackBooked ==
  ASSUME NEW d, Good(d, Disps), Booked(d), NEW x \in Disps, d.disp[x].status = "RESOLVED_COMPLETED"
  PROVE  LET e == RollbackResolution(d, x)
         IN Booked(e) /\ e.active = d.active /\ e.disp = d.disp
<1> DEFINE s == d.disp[x].sub
           t == DispTask(d, x)
           row == d.task[t]
           w == d.sub[s].agent
           p == row.publisher
           payout == CASE d.disp[x].source # "NONE" -> d.disp[x].payout
                       [] d.disp[x].source = "NONE" /\ d.sub[s].status = "CONFIRMED" -> row.reward
                       [] OTHER -> 0
           gone == {r \in DisputeWork(d, x) : r.kind = "WORKER"}
           once == [d.avail EXCEPT ![w] = @ - payout]
           twice == [once EXCEPT ![p] = IF d.disp[x].source \in {"NONE", "ESCROW"}
                                        THEN @ ELSE @ + payout]
           e == RollbackResolution(d, x)
<1>1. RowsTyped(d) /\ References(d) /\ Restorable(d)
  BY DEF Good
<1>2. t \in Tasks /\ w \in Agents /\ p \in Agents
  BY <1>1, DisputeRefs DEF DispWorker, DispPublisher
<1>3. payout \in Int
  <2>1. d.disp[x].payout \in Int
    BY DEF Booked, DispRow
  <2>2. row.reward \in Int
    BY <1>1, <1>2 DEF RowsTyped, TaskRow
  <2> QED BY <2>1, <2>2
<1>4. RowsTyped(e) /\ \A u \in Tasks : e.task[u].publisher = d.task[u].publisher
  BY RollbackGood DEF Good
<1>0. DOMAIN d = TableNames
  BY <1>1 DEF RowsTyped
<1>5. e.avail = twice
  <2> DEFINE kept == d.disp[x].source \in {"NONE", "ESCROW"}
             restored == [row EXCEPT
                            !.escrow = IF d.disp[x].source # "NONE"
                                       THEN d.disp[x].snap.escrow ELSE @,
                            !.status = IF d.disp[x].source # "NONE"
                                       THEN d.disp[x].snap.status ELSE "IN_PROGRESS",
                            !.completed = IF OtherCompletion(d, s) THEN @ ELSE @ \ {w}]
  <2>1. e = [d EXCEPT !.sub[s].status = "REJECTED",
                      !.task[t] = restored,
                      !.avail[w] = @ - payout,
                      !.avail[p] = IF kept THEN @ ELSE @ + payout,
                      !.work = @ \ gone]
    BY Zenon DEF RollbackResolution
  <2>2. twice = [once EXCEPT ![p] = IF kept THEN @ ELSE @ + payout]
    OBVIOUS
  <2>3. "avail" \in DOMAIN d
    BY <1>0 DEF TableNames
  <2> HIDE DEF s, t, row, w, p, payout, gone, twice, e, kept, restored
  <2> QED BY <2>1, <2>2, <2>3
<1>6. /\ e.cycle = d.cycle /\ e.active = d.active /\ e.disp = d.disp
      /\ e.work = d.work \ gone
  BY <1>1 DEF RollbackResolution, RowsTyped, TableNames
<1>7. Framed(e)
  <2>1. DOMAIN d = TableNames /\ Framed(d)
    BY <1>1 DEF RowsTyped, Booked
  <2>2. DOMAIN e = DOMAIN d
    BY DEF RollbackResolution
  <2>3. e = [n \in DOMAIN e |-> e[n]]
    BY ZenonT(120) DEF RollbackResolution
  <2> HIDE DEF e
  <2> QED BY <2>1, <2>2, <2>3 DEF Framed
<1>8. /\ e.task[t].status # "NONE"
      /\ \A u \in Tasks \ {t} : e.task[u] = d.task[u]
  <2> DEFINE status == IF d.disp[x].source # "NONE" THEN d.disp[x].snap.status ELSE "IN_PROGRESS"
  <2>1. status # "NONE"
    BY <1>1 DEF Restorable, Payable
  <2> HIDE DEF status
  <2>2. \E A, B : e.task = [d.task EXCEPT ![t] = [row EXCEPT !.escrow = A, !.status = status, !.completed = B]]
    BY <1>1 DEF RollbackResolution, RowsTyped, TableNames, status
  <2>3. row \in TaskRow
    BY <1>1, <1>2 DEF RowsTyped
  <2> HIDE DEF e
  <2> QED BY <1>1, <1>2, <2>1, <2>2, <2>3 DEF RowsTyped, TaskRow
<1> HIDE DEF e, gone, payout
<1>9. e.avail \in [Agents -> Int]
  <2>1. once \in [Agents -> Int]
    BY <1>2, <1>3 DEF Booked
  <2> HIDE DEF once
  <2> QED BY <1>2, <1>3, <1>5, <2>1
<1>10. Earned(e)
  <2>1. e.work \subseteq d.work /\ Earned(d)
    BY <1>6 DEF Booked
  <2> QED BY <2>1, FS_Subset DEF Earned
<1>11. \A u \in Tasks : e.task[u].status = "NONE" => e.task[u].escrow = 0
  BY <1>2, <1>8 DEF Booked
<1>12. Booked(e)
  BY <1>6, <1>7, <1>9, <1>10, <1>11 DEF Booked, Past
<1> QED BY <1>6, <1>12 DEF e

LEMMA UnforceBooked ==
  ASSUME NEW d, NEW X, Good(d, X), X \subseteq Disps, Booked(d),
         NEW entry \in ForcedRow, entry.status \in ActiveTask, entry.cycle <= d.active,
         d.task[entry.task].publisher \in Agents
  PROVE  Booked(RollbackForced(d, entry))
<1> DEFINE e == RollbackForced(d, entry)
           t == entry.task
           c == entry.cycle
           p == d.task[t].publisher
           row == [d.cycle[c] EXCEPT !.penalty = @ - entry.penalty]
           taskAfter == [d.task[t] EXCEPT !.escrow = entry.escrow, !.status = entry.status]
<1>1. RowsTyped(d)
  BY DEF Good
<1>2. /\ t \in Tasks /\ c \in Cycles /\ entry.penalty \in Int /\ entry.refund \in Int
      /\ d.task[t] \in TaskRow /\ d.cycle[c] \in CycleRow
  BY <1>1 DEF ForcedRow, RowsTyped, Booked
<1>3. e.avail = [d.avail EXCEPT ![p] = @ - entry.refund]
  BY <1>1 DEF RollbackForced, RowsTyped, TableNames
<1>4. e.cycle = [d.cycle EXCEPT ![c] = row]
  BY <1>1 DEF RollbackForced, RowsTyped, TableNames
<1>5. e.task = [d.task EXCEPT ![t] = taskAfter]
  BY <1>1, <1>2 DEF RollbackForced, RowsTyped, TableNames
<1>6. e.active = d.active /\ e.disp = d.disp /\ e.work = d.work
  BY <1>1 DEF RollbackForced, RowsTyped, TableNames
<1>7. Framed(e)
  <2>1. \E A, B, C : e = [d EXCEPT !.avail = A, !.cycle = B, !.task = C]
    BY <1>1 DEF RollbackForced, RowsTyped, TableNames
  <2> HIDE DEF e
  <2> QED BY <2>1 DEF Framed, Booked, TableNames
<1> HIDE DEF e
<1>8. row \in CycleRow
  BY <1>2 DEF CycleRow
<1>9. taskAfter.status # "NONE"
  BY <1>2 DEF TaskRow, ActiveTask
<1> HIDE DEF row, taskAfter
<1>10. e.avail \in [Agents -> Int]
  BY <1>2, <1>3 DEF Booked
<1>11. e.cycle \in [Cycles -> CycleRow] /\ \A k \in Cycles \ {c} : e.cycle[k] = d.cycle[k]
  BY <1>2, <1>4, <1>8 DEF Booked
<1>12. \A k \in Cycles : k > e.active => Unopened(e.cycle[k])
  <2>1. d.active \in Nat /\ c \in Nat
    BY <1>1, <1>2, IdsAssumption DEF RowsTyped
  <2> HIDE DEF c
  <2>2. \A k \in Cycles : k > d.active => k # c
    BY <2>1, IdsAssumption DEF c
  <2> QED BY <1>6, <1>11, <2>2 DEF Booked
<1>13. \A u \in Tasks : e.task[u].status = "NONE" => e.task[u].escrow = 0
  BY <1>1, <1>2, <1>5, <1>9 DEF RowsTyped, Booked
<1>14. Booked(e)
  BY <1>6, <1>7, <1>10, <1>11, <1>12, <1>13 DEF Booked, Earned, Past
<1> QED BY <1>14 DEF e

-----------------------------------------------------------------------------
(* What the writes of one step do to the books.                            *)

LEMMA TaxTyped ==
  ASSUME NEW total \in Nat
  PROVE  ComputeTaxAmount(total, TaxRateBps, TaxMin) \in Nat
<1> DEFINE m == total * TaxRateBps
           q == m \div 10000
           tax == ComputeTaxAmount(total, TaxRateBps, TaxMin)
<1>1. m \in Nat /\ TaxMin \in Nat
  BY RulesAssumption DEF Bps
<1> HIDE DEF m
<1>2. q \in Nat
  BY <1>1
<1>3. tax \in {TaxMin, q}
  BY DEF ComputeTaxAmount, Bps, Bigger, m
<1> HIDE DEF q, tax
<1> QED BY <1>1, <1>2, <1>3 DEF tax

\* The publisher pays the escrow and the tax.
LEMMA PublishMoved ==
  ASSUME Good(db, Disps), Booked(db), NEW t \in Tasks, NEW p \in Publishers,
         NEW slots \in SlotCounts, NEW reward \in Rewards, NEW repeat \in RepeatOptions,
         Publish(t, p, slots, reward, repeat)
  PROVE  Moved(db, db')
<1> DEFINE total == slots * reward
           tax == ComputeTaxAmount(total, TaxRateBps, TaxMin)
           c == db.active
           old == db.cycle[c]
           cycle == [old EXCEPT !.tax = @ + tax]
           row == [status |-> "OPEN", publisher |-> p, slots |-> slots,
                   reward |-> reward, repeat |-> repeat, escrow |-> total,
                   intents |-> {}, completed |-> {}]
           e == db'
<1>1. /\ RowsTyped(db) /\ c \in Cycles /\ p \in Agents /\ old \in CycleRow
      /\ total \in Nat
  BY ActorsAssumption DEF Good, RowsTyped, Booked
<1> HIDE DEF total
<1>2. tax \in Nat
  BY <1>1, TaxTyped
<1>3. db.task[t].status = "NONE" /\ db.task[t].escrow = 0
  BY <1>1 DEF Publish, NextId, Existing, RowsTyped, Booked
<1>4. /\ e = [db EXCEPT !.avail[p] = @ - (total + tax), !.cycle[c].tax = @ + tax, !.task[t] = row]
      /\ db.avail[p] >= total + tax
  BY DEF Publish, Write, total
<1>5. RowsTyped(e)
  BY PublishGood DEF Good
<1> HIDE DEF tax, row, e
<1>6. /\ e.avail = [db.avail EXCEPT ![p] = @ + (-(total + tax))]
      /\ e.cycle = [db.cycle EXCEPT ![c] = cycle]
      /\ e.task = [db.task EXCEPT ![t] = row]
      /\ e.active = c /\ e.disp = db.disp /\ e.work = db.work
      /\ Framed(e)
  <2>1. DOMAIN db = TableNames
    BY <1>1 DEF RowsTyped
  <2>2. db.avail \in [Agents -> Int]
    BY DEF Booked
  <2>3. e.avail = [db.avail EXCEPT ![p] = @ + (-(total + tax))]
    <3>1. e.avail = [db.avail EXCEPT ![p] = db.avail[p] - (total + tax)]
      BY <1>4, <2>1 DEF TableNames
    <3>2. db.avail[p] - (total + tax) = db.avail[p] + (-(total + tax))
      BY <1>1, <1>2, <2>2
    <3> QED BY <2>2, <3>1, <3>2
  <2>4. e.cycle = [db.cycle EXCEPT ![c] = cycle]
    BY <1>4, <2>1 DEF TableNames
  <2>5. e.task = [db.task EXCEPT ![t] = row] /\ e.active = c /\ e.disp = db.disp /\ e.work = db.work
    BY <1>4, <2>1 DEF TableNames
  <2>6. \E A, B, C : e = [db EXCEPT !.avail = A, !.cycle = B, !.task = C]
    BY <1>4
  <2> QED BY <2>3, <2>4, <2>5, <2>6 DEF Framed, Booked, TableNames
<1>7. /\ cycle \in CycleRow
      /\ cycle.minted = old.minted /\ cycle.credited = old.credited
      /\ cycle.penalty = old.penalty /\ cycle.tax = old.tax + tax
  BY <1>1, <1>2 DEF CycleRow
<1>8. /\ e.task[t].escrow = total /\ e.task[t].status = "OPEN"
      /\ \A u \in Tasks \ {t} : e.task[u] = db.task[u]
  BY <1>1, <1>6 DEF RowsTyped, row
<1> HIDE DEF cycle
<1>9. Entered(db, e)
  <2>1. \A u \in Tasks : e.task[u].status = "NONE" => e.task[u].escrow = 0
    BY <1>8 DEF Booked
  <2> QED BY <1>6, <2>1 DEF Entered, Booked, Earned
<1> DEFINE n == -(total + tax)
<1>10. n \in Int
  BY <1>1, <1>2
<1>11. e.avail \in [Agents -> Int] /\ SumOver(e.avail, Agents) = SumOver(db.avail, Agents) + n
  BY <1>1, <1>6, <1>10, WalletPaid DEF Booked
<1>12. Prudent(db) => \A a \in Agents : e.avail[a] >= 0
  BY <1>1, <1>2, <1>4, <1>6 DEF Booked, Prudent
<1>13. old.tax \in Int /\ old.penalty \in Int /\ old.credited \in Int
  BY <1>1 DEF CycleRow
<1>14. n + (e.task[t].escrow - db.task[t].escrow) + (Unpaid(cycle) - Unpaid(old)) = 0
  BY <1>1, <1>2, <1>3, <1>7, <1>8, <1>13 DEF Unpaid
<1>15. cycle.tax >= old.tax /\ cycle.penalty >= old.penalty
  BY <1>2, <1>7, <1>13
<1> HIDE DEF n
<1>16. \A u \in Tasks \ {t} : e.task[u].escrow = db.task[u].escrow
  BY <1>8
<1>17. e.cycle = [db.cycle EXCEPT ![db.active] = cycle]
  BY <1>6
<1>18. Moved(db, e)
  BY <1>1, <1>5, <1>7, <1>9, <1>10, <1>11, <1>12, <1>14, <1>15, <1>16, <1>17, Transfer
<1> QED BY <1>18 DEF e

\* A write that leaves every amount as it is.
LEMMA TaskWriteMoved ==
  ASSUME NEW d, RowsTyped(d), Booked(d), NEW e, RowsTyped(e), Framed(e),
         e.avail = d.avail, e.cycle = d.cycle, e.active = d.active, e.work = d.work,
         e.disp = d.disp,
         \A t \in Tasks : /\ e.task[t].escrow = d.task[t].escrow
                          /\ e.task[t].status = "NONE" => d.task[t].status = "NONE"
  PROVE  Moved(d, e)
<1>1. Entered(d, e)
  BY DEF Entered, Booked, Earned
<1> QED BY <1>1, StillBooked

LEMMA IntentionMoved ==
  ASSUME Good(db, Disps), Booked(db), NEW t \in Tasks, NEW a \in Workers, AddIntention(t, a)
  PROVE  Moved(db, db')
<1> DEFINE e == db'
           old == db.task[t]
           row == [old EXCEPT !.intents = @ \cup {a}]
<1>1. RowsTyped(db) /\ RowsTyped(e) /\ old \in TaskRow
  BY IntentionGood DEF Good, RowsTyped
<1>2. \E A : e = [db EXCEPT !.task = A]
  BY DEF AddIntention, Write
<1>3. e.task = [db.task EXCEPT ![t] = row]
  BY <1>1 DEF AddIntention, Write, RowsTyped, TableNames
<1> HIDE DEF e
<1>4. /\ e.avail = db.avail /\ e.cycle = db.cycle /\ e.active = db.active /\ e.work = db.work
      /\ e.disp = db.disp /\ Framed(e)
  BY <1>1, <1>2 DEF RowsTyped, TableNames, Framed, Booked
<1>5. row.escrow = old.escrow /\ row.status = old.status
  BY <1>1 DEF TaskRow
<1> HIDE DEF row
<1>6. \A u \in Tasks : e.task[u].escrow = db.task[u].escrow /\ e.task[u].status = db.task[u].status
  BY <1>1, <1>3, <1>5 DEF RowsTyped
<1>7. Moved(db, e)
  BY <1>1, <1>4, <1>6, TaskWriteMoved
<1> QED BY <1>7 DEF e

\* Only the status of a task is written.
LEMMA StatusMoved ==
  ASSUME NEW d, RowsTyped(d), Booked(d), NEW t \in Tasks, NEW status, status # "NONE",
         NEW e, RowsTyped(e), e = [d EXCEPT !.task[t].status = status]
  PROVE  Moved(d, e)
<1> DEFINE old == d.task[t]
           row == [old EXCEPT !.status = status]
<1>1. DOMAIN d = TableNames /\ old \in TaskRow
  BY DEF RowsTyped
<1>2. e.task = [d.task EXCEPT ![t] = row]
  BY <1>1 DEF TableNames
<1>3. \E A : e = [d EXCEPT !.task = A]
  OBVIOUS
<1>4. /\ e.avail = d.avail /\ e.cycle = d.cycle /\ e.active = d.active /\ e.work = d.work
      /\ e.disp = d.disp /\ Framed(e)
  BY <1>1, <1>3 DEF TableNames, Framed, Booked
<1>5. row.escrow = old.escrow /\ row.status = status
  BY <1>1 DEF TaskRow
<1> HIDE DEF row
<1>6. \A u \in Tasks : /\ e.task[u].escrow = d.task[u].escrow
                       /\ e.task[u].status = "NONE" => d.task[u].status = "NONE"
  BY <1>2, <1>5 DEF RowsTyped
<1> QED BY <1>4, <1>6, TaskWriteMoved

LEMMA SubmitMoved ==
  ASSUME Good(db, Disps), Booked(db), NEW s \in Subs, NEW t \in Tasks, NEW a \in Workers,
         Submit(s, t, a)
  PROVE  Moved(db, db')
<1> DEFINE e == db'
           old == db.task[t]
           row == [old EXCEPT !.status = "IN_PROGRESS"]
<1>1. RowsTyped(db) /\ RowsTyped(e) /\ old \in TaskRow
  BY SubmitGood DEF Good, RowsTyped
<1>2. \E A, B : e = [db EXCEPT !.sub = A, !.task = B]
  BY DEF Submit, Write
<1>3. e.task = [db.task EXCEPT ![t] = row]
  BY <1>1 DEF Submit, Write, RowsTyped, TableNames
<1> HIDE DEF e
<1>4. /\ e.avail = db.avail /\ e.cycle = db.cycle /\ e.active = db.active /\ e.work = db.work
      /\ e.disp = db.disp /\ Framed(e)
  BY <1>1, <1>2 DEF RowsTyped, TableNames, Framed, Booked
<1>5. row.escrow = old.escrow /\ row.status = "IN_PROGRESS"
  BY <1>1 DEF TaskRow
<1> HIDE DEF row
<1>6. \A u \in Tasks : /\ e.task[u].escrow = db.task[u].escrow
                       /\ e.task[u].status = "NONE" => db.task[u].status = "NONE"
  BY <1>1, <1>3, <1>5 DEF RowsTyped
<1>7. Moved(db, e)
  BY <1>1, <1>4, <1>6, TaskWriteMoved
<1> QED BY <1>7 DEF e

LEMMA RejectMoved ==
  ASSUME Good(db, Disps), Booked(db), NEW s \in Subs, Reject(s)
  PROVE  Moved(db, db')
<1> DEFINE e == db'
<1>1. RowsTyped(db) /\ RowsTyped(e)
  BY RejectGood DEF Good
<1>2. \E A : e = [db EXCEPT !.sub = A]
  BY DEF Reject, Write
<1> HIDE DEF e
<1>3. /\ e.avail = db.avail /\ e.cycle = db.cycle /\ e.active = db.active /\ e.work = db.work
      /\ e.disp = db.disp /\ e.task = db.task /\ Framed(e)
  BY <1>1, <1>2 DEF RowsTyped, TableNames, Framed, Booked
<1>4. Moved(db, e)
  BY <1>1, <1>3, TaskWriteMoved
<1> QED BY <1>4 DEF e

LEMMA ConfirmWriteMoved ==
  ASSUME Good(db, Disps), Booked(db), NEW s \in Subs, Confirm(s) \/ ConfirmWithoutSlot(s)
  PROVE  Moved(db, db')
<1>1. RowsTyped(db) /\ References(db) /\ RowsTyped(db')
  BY ConfirmWriteGood DEF Good
<1>2. db.sub[s].status # "NONE"
  BY DEF Confirm, ConfirmWithoutSlot, Confirmable
<1>3. CASE Confirm(s)
  <2>1. db' = ConfirmInternal(db, s, NoDispute)
    BY <1>3 DEF Confirm, Write
  <2> QED BY <1>1, <1>2, <2>1, ConfirmMoved
<1>4. CASE ConfirmWithoutSlot(s)
  <2> DEFINE t == db.sub[s].task
  <2>1. t \in Tasks
    BY <1>1, <1>2 DEF References
  <2>2. db' = [db EXCEPT !.task[t].status = "CLOSED"]
    BY <1>4 DEF ConfirmWithoutSlot, Write
  <2> HIDE DEF t
  <2> QED BY <1>1, <2>1, <2>2, StatusMoved
<1> QED BY <1>3, <1>4

LEMMA TerminateWriteMoved ==
  ASSUME Good(db, Disps), Booked(db), Funded(db), NEW t \in Tasks, Terminate(t)
  PROVE  Moved(db, db')
<1>1. db' = TerminateInternal(db, t, NoDispute) /\ db.task[t].status \in ActiveTask
  BY DEF Terminate, Write
<1> QED BY <1>1, TerminateMoved DEF Good

LEMMA OpenedRow ==
  ASSUME NEW old \in DispRow, NEW s \in Subs,
         NEW row, row = [old EXCEPT !.status = "OPEN", !.sub = s]
  PROVE  row \in DispRow /\ row.snap = old.snap
<1>1. row = [status |-> "OPEN", sub |-> s, votes |-> old.votes, source |-> old.source,
             payout |-> old.payout, snap |-> old.snap, history |-> old.history]
  BY DEF DispRow
<1>2. /\ old.votes \subseteq VoteRow /\ old.source \in PayoutSource /\ old.payout \in Int
      /\ old.snap \in SnapRow /\ old.history \in HistoryRow
  BY DEF DispRow
<1> QED BY <1>1, <1>2 DEF DispRow, DispStatus

LEMMA OpenDisputeMoved ==
  ASSUME Good(db, Disps), Booked(db), NEW x \in Disps, NEW s \in Subs, NEW a \in Agents,
         OpenDispute(x, s, a)
  PROVE  Moved(db, db')
<1> DEFINE e == db'
           old == db.disp[x]
           row == [old EXCEPT !.status = "OPEN", !.sub = s]
<1>1. RowsTyped(db) /\ RowsTyped(e)
  BY OpenDisputeGood DEF Good
<1>2. \E A : e = [db EXCEPT !.disp = A]
  BY ZenonT(30) DEF OpenDispute, Write
<1>3. e.disp = [db.disp EXCEPT ![x] = row]
  BY <1>1 DEF OpenDispute, Write, RowsTyped, TableNames
<1> HIDE DEF e
<1>4. /\ e.avail = db.avail /\ e.cycle = db.cycle /\ e.active = db.active /\ e.work = db.work
      /\ e.task = db.task /\ Framed(e)
  BY <1>1, <1>2 DEF RowsTyped, TableNames, Framed, Booked
<1>5. old \in DispRow /\ Past(db, old.snap.forced)
  BY DEF Booked
<1>6. row \in DispRow /\ row.snap = old.snap
  <2> HIDE DEF old
  <2> QED BY <1>5, OpenedRow
<1> HIDE DEF row, old
<1>7. e.disp = [db.disp EXCEPT ![x] = row]
  BY <1>3 DEF row, old
<1>8. e.disp \in [Disps -> DispRow] /\ \A y \in Disps : Past(db, e.disp[y].snap.forced)
  BY <1>5, <1>6, <1>7, DisputeWritten, ZenonT(30) DEF old
<1>9. Entered(db, e)
  BY <1>4, <1>8 DEF Entered, Booked, Earned
<1>10. Moved(db, e)
  BY <1>1, <1>4, <1>9, StillBooked
<1> QED BY <1>10 DEF e

LEMMA VoteMoved ==
  ASSUME Good(db, Disps), Booked(db), NEW x \in Disps, NEW a \in Supervisors,
         NEW choice \in {"COMPLETED", "NOT_COMPLETED"}, NEW weight \in VoteWeights,
         Vote(x, a, choice, weight)
  PROVE  Moved(db, db')
<1> DEFINE e == db'
           old == db.disp[x]
           cast == [agent |-> a, vote |-> choice, weight |-> weight, cycle |-> db.active]
           work1 == [cycle |-> db.active, agent |-> a, kind |-> "VOTE", disp |-> x, sub |-> NoSub]
           votes == old.votes \cup {cast}
           row == [old EXCEPT !.votes = votes]
<1>1. RowsTyped(db) /\ RowsTyped(e) /\ db.active \in Cycles
  BY VoteGood DEF Good, RowsTyped
<1>2. \E A, B : e = [db EXCEPT !.disp = A, !.work = B]
  BY DEF Vote, Write
<1>3. e.disp = [db.disp EXCEPT ![x] = row] /\ e.work = db.work \cup {work1}
  BY <1>1 DEF Vote, Write, RowsTyped, TableNames
<1> HIDE DEF e
<1>4. /\ e.avail = db.avail /\ e.cycle = db.cycle /\ e.active = db.active
      /\ e.task = db.task /\ Framed(e)
  BY <1>1, <1>2 DEF RowsTyped, TableNames, Framed, Booked
<1>5. old \in DispRow /\ Past(db, old.snap.forced)
  BY DEF Booked
<1>6. cast \in VoteRow /\ work1 \in WorkRow
  BY <1>1, ActorsAssumption DEF VoteRow, WorkRow
<1> HIDE DEF cast, work1
<1>7. votes \subseteq VoteRow
  BY <1>5, <1>6 DEF DispRow
<1> HIDE DEF votes, old
<1>8. row \in DispRow /\ row.snap = old.snap
  BY <1>5, <1>7 DEF DispRow
<1> HIDE DEF row
<1>9. e.disp \in [Disps -> DispRow] /\ \A y \in Disps : Past(db, e.disp[y].snap.forced)
  BY <1>3, <1>5, <1>8, DisputeWritten, ZenonT(30) DEF old
<1>10. Earned(e)
  <2>1. IsFiniteSet(db.work) /\ db.work \subseteq WorkRow
    BY DEF Booked, Earned
  <2>2. IsFiniteSet(e.work)
    BY <1>3, <2>1, FS_AddElement
  <2> QED BY <1>3, <1>6, <2>1, <2>2 DEF Earned
<1>11. Entered(db, e)
  BY <1>4, <1>9, <1>10 DEF Entered, Booked
<1>12. Moved(db, e)
  BY <1>1, <1>4, <1>11, StillBooked
<1> QED BY <1>12 DEF e

LEMMA ApiWriteMoved ==
  ASSUME Good(db, Disps), Booked(db), Funded(db), ApiWrite
  PROVE  Moved(db, db')
<1> DEFINE Goal == Moved(db, db')
<1> HIDE DEF Goal
<1>1. ASSUME NEW t \in Tasks, NEW p \in Publishers, NEW n \in SlotCounts, NEW r \in Rewards,
             NEW q \in RepeatOptions, Publish(t, p, n, r, q)
      PROVE  Goal
  BY ONLY Good(db, Disps), Booked(db), <1>1, PublishMoved DEF Goal
<1>2. ASSUME NEW t \in Tasks, NEW a \in Workers, AddIntention(t, a)
      PROVE  Goal
  BY <1>2, IntentionMoved DEF Goal
<1>3. ASSUME NEW s \in Subs, NEW t \in Tasks, NEW a \in Workers, Submit(s, t, a)
      PROVE  Goal
  BY <1>3, SubmitMoved DEF Goal
<1>4. ASSUME NEW s \in Subs, Reject(s)
      PROVE  Goal
  BY <1>4, RejectMoved DEF Goal
<1>5. ASSUME NEW s \in Subs, Confirm(s) \/ ConfirmWithoutSlot(s)
      PROVE  Goal
  BY <1>5, ConfirmWriteMoved DEF Goal
<1>6. ASSUME NEW t \in Tasks, Terminate(t)
      PROVE  Goal
  BY <1>6, TerminateWriteMoved DEF Goal
<1>7. ASSUME NEW x \in Disps, NEW s \in Subs, NEW a \in Agents, OpenDispute(x, s, a)
      PROVE  Goal
  BY <1>7, OpenDisputeMoved DEF Goal
<1>8. ASSUME NEW x \in Disps, NEW a \in Supervisors, NEW c \in {"COMPLETED", "NOT_COMPLETED"},
             NEW w \in VoteWeights, Vote(x, a, c, w)
      PROVE  Goal
  BY ONLY Good(db, Disps), Booked(db), <1>8, VoteMoved DEF Goal
<1>9. ApiWrite => Goal
  BY <1>1, <1>2, <1>3, <1>4, <1>5, <1>6, <1>7, <1>8 DEF ApiWrite
<1> QED BY <1>9 DEF Goal

-----------------------------------------------------------------------------
(* What the steps of a transaction do to the books.                        *)

LEMMA Unmoved ==
  ASSUME NEW d, RowsTyped(d), Booked(d)
  PROVE  Moved(d, d)
<1>1. Entered(d, d)
  BY DEF Entered, Booked
<1> QED BY <1>1, StillBooked

\* The first of the stale submissions is one that waits, outside a reopening.
LEMMA StaleFirst ==
  ASSUME DisputeIInv, AutoConfirmStale
  PROVE  /\ First(tx.subs) \in Subs
         /\ work.sub[First(tx.subs)].status = "SUBMITTED"
         /\ Good(work, Disps)
<1> DEFINE s == First(tx.subs)
<1>1. /\ TxTyped(tx) /\ Ordered(tx.kind, tx.todo) /\ Prepared(work, tx)
      /\ Good(work, Disps \ Reopening(tx))
  BY DEF DisputeIInv, Ready
<1>2. At(tx, "stale") /\ tx.subs # {}
  BY DEF AutoConfirmStale, InPhase, At
<1>3. 1 \in 1..Len(tx.todo) /\ tx.todo[1] = "stale"
  BY <1>1, <1>2, HeadIsFirst
<1>4. tx.kind # "REOPEN"
  BY <1>1, <1>3 DEF Ordered
<1>5. Good(work, Disps)
  BY <1>1, <1>4 DEF Reopening
<1>6. tx.subs \in SUBSET Nat /\ tx.subs \subseteq Subs
  BY <1>1, IdsAssumption DEF TxTyped
<1>7. s \in tx.subs
  BY <1>2, <1>6, FirstIn
<1> HIDE DEF s
<1>8. s \in Subs /\ work.sub[s].status = "SUBMITTED"
  BY <1>1, <1>2, <1>6, <1>7 DEF Prepared
<1> QED BY <1>5, <1>8 DEF s

LEMMA AutoConfirmMoved ==
  ASSUME DisputeIInv, RowsTyped(work'), Booked(work), AutoConfirmStale
  PROVE  Moved(work, work')
<1> DEFINE s == First(tx.subs)
           t == work.sub[s].task
<1>1. s \in Subs /\ work.sub[s].status = "SUBMITTED" /\ Good(work, Disps)
  BY StaleFirst
<1>2. work' = AutoConfirmed(work, s)
  BY DEF AutoConfirmStale, Step
<1> HIDE DEF s
<1>3. RowsTyped(work) /\ References(work)
  BY <1>1 DEF Good
<1>4. t \in Tasks
  BY <1>1, <1>3 DEF References
<1>5. CASE work.task[t].status \in ActiveTask /\ HasPayableSlot(work.task[t])
  <2>1. work' = ConfirmInternal(work, s, NoDispute)
    BY <1>2, <1>5 DEF AutoConfirmed
  <2> QED BY <1>1, <1>3, <2>1, ConfirmMoved
<1>6. CASE work.task[t].status \notin ActiveTask
  <2>1. work' = work
    BY <1>2, <1>6 DEF AutoConfirmed
  <2> QED BY <1>3, <2>1, Unmoved
<1>7. CASE work.task[t].status \in ActiveTask /\ ~HasPayableSlot(work.task[t])
  <2>1. work' = [work EXCEPT !.task[t].status = "CLOSED"]
    BY <1>2, <1>7 DEF AutoConfirmed
  <2> HIDE DEF t
  <2> QED BY <1>3, <1>4, <2>1, StatusMoved
<1> QED BY <1>5, <1>6, <1>7

LEMMA FinalizeStepMoved ==
  ASSUME DisputeIInv, Booked(work), Finalize
  PROVE  Moved(work, work')
<1>1. /\ TxTyped(tx) /\ Ordered(tx.kind, tx.todo) /\ Prepared(work, tx)
      /\ Good(work, Disps \ Reopening(tx))
  BY DEF DisputeIInv, Ready
<1>2. At(tx, "finalize") /\ work' = FinalizeCompleted(work, tx.disp)
  BY DEF Finalize, InPhase, At, Step
<1>3. 1 \in 1..Len(tx.todo) /\ tx.todo[1] = "finalize"
  BY <1>1, <1>2, HeadIsFirst
<1>4. tx.kind # "REOPEN"
  BY <1>1, <1>3 DEF Ordered
<1>5. Good(work, Disps) /\ tx.disp \in Disps /\ work.disp[tx.disp].status = "OPEN"
  BY <1>1, <1>2, <1>4 DEF Reopening, Prepared
<1> QED BY <1>2, <1>5, FinalizeMoved

LEMMA SweepMoved ==
  ASSUME RowsTyped(work), References(work), Booked(work), Funded(work), expired \subseteq Tasks,
         SweepBanned \/ ExpireClean
  PROVE  Moved(work, work')
<1>1. \E t \in Tasks : \E x : /\ work.task[t].status \in ActiveTask
                              /\ work' = TerminateInternal(work, t, x)
  <2>1. CASE SweepBanned
    <3>1. PICK t \in SweepTargets(work) : work' = SweepOne(work, t)
      BY <2>1 DEF SweepBanned, Step
    <3> QED BY <3>1 DEF SweepTargets, SweepOne, ActiveClean
  <2>2. CASE ExpireClean
    <3>1. PICK t \in expired : ActiveClean(work, t) /\ work' = TerminateInternal(work, t, NoDispute)
      BY <2>2 DEF ExpireClean, Step
    <3> QED BY <3>1 DEF ActiveClean
  <2> QED BY <2>1, <2>2
<1> QED BY <1>1, TerminateMoved

LEMMA NewRoundStepMoved ==
  ASSUME DisputeIInv, Booked(work), StartNewRound
  PROVE  Moved(work, work')
<1>1. /\ TxTyped(tx) /\ Ordered(tx.kind, tx.todo) /\ Prepared(work, tx)
      /\ Good(work, Disps \ Reopening(tx))
  BY DEF DisputeIInv, Ready
<1>2. At(tx, "newRound") /\ work' = OpenNewRound(work, tx.disp)
  BY DEF StartNewRound, InPhase, At, Step
<1>3. 1 \in 1..Len(tx.todo) /\ tx.todo[1] = "newRound"
  BY <1>1, <1>2, HeadIsFirst
<1>4. tx.kind = "REOPEN"
  BY <1>1, <1>3 DEF Ordered
<1>5. Reopening(tx) = {tx.disp}
  BY <1>3, <1>4 DEF Reopening, Ahead
<1>6. tx.disp \in Disps /\ Reopenable(work, tx.disp) /\ Good(work, Disps \ {tx.disp})
  BY <1>1, <1>4, <1>5 DEF Prepared
<1> QED BY <1>2, <1>6, NewRoundMoved

LEMMA RestoreBanStepMoved ==
  ASSUME DisputeIInv, Booked(work), RestorePublisherBan
  PROVE  Moved(work, work')
<1> DEFINE X == Disps \ Reopening(tx)
<1>1. /\ TxTyped(tx) /\ Ordered(tx.kind, tx.todo) /\ Prepared(work, tx)
      /\ Good(work, X)
  BY DEF DisputeIInv, Ready
<1>2. At(tx, "restoreBan")
  BY DEF RestorePublisherBan, InPhase, At
<1>3. 1 \in 1..Len(tx.todo) /\ tx.todo[1] = "restoreBan"
  BY <1>1, <1>2, HeadIsFirst
<1>4. tx.kind = "REOPEN"
  BY <1>1, <1>3 DEF Ordered
<1>5. tx.disp \in Disps
  BY <1>1, <1>4 DEF Prepared
<1>6. PICK alt \in Disps \cup {NoDispute} : work' = RestoreBan(work, tx.disp, alt)
  BY DEF RestorePublisherBan, Step, AlternateBanSources
<1> HIDE DEF X
<1> QED BY <1>1, <1>5, <1>6, RestoreBanMoved

\* The steps that pay between wallets, escrows and the open pool, or nobody.
MovingStep ==
  \/ AutoConfirmStale \/ SweepBanned \/ Evaluate \/ ExpireClean \/ Finalize
  \/ BanNegatives \/ RestorePublisherBan \/ StartNewRound \/ LoopEnds

LEMMA StepMoved ==
  ASSUME RowsIInv, RowsIInv', Booked(work), MovingStep
  PROVE  Moved(work, work')
<1>1. /\ DisputeIInv /\ RowsTyped(work) /\ References(work) /\ Funded(work)
      /\ expired \subseteq Tasks /\ RowsTyped(work')
  BY DEF RowsIInv, DisputeIInv, Ready, Good, Agreeing
<1>2. CASE Evaluate \/ LoopEnds
  <2>1. work' = work
    BY <1>2 DEF Evaluate, LoopEnds, Step
  <2> QED BY <1>1, <2>1, Unmoved
<1>3. CASE BanNegatives
  <2>1. work' = BanAgents(work, NegativeAffected(work, tx.disp), "REOPEN_NEGATIVE_BALANCE", NoDispute)
    BY <1>3 DEF BanNegatives, Step
  <2>2. "REOPEN_NEGATIVE_BALANCE" \in BanReason
    BY DEF BanReason
  <2> QED BY <1>1, <2>1, <2>2, BanMoved
<1>4. CASE AutoConfirmStale
  BY <1>1, <1>4, AutoConfirmMoved
<1>5. CASE SweepBanned \/ ExpireClean
  BY <1>1, <1>5, SweepMoved
<1>6. CASE Finalize
  BY <1>1, <1>6, FinalizeStepMoved
<1>7. CASE RestorePublisherBan
  BY <1>1, <1>7, RestoreBanStepMoved
<1>8. CASE StartNewRound
  BY <1>1, <1>8, NewRoundStepMoved
<1> QED BY <1>2, <1>3, <1>4, <1>5, <1>6, <1>7, <1>8 DEF MovingStep

\* A forced termination is taken back: the penalty leaves the pool it went to.
LEMMA RestoreForcedBooked ==
  ASSUME DisputeIInv, Booked(work), Past(work, tx.forced), RestoreForced
  PROVE  Booked(work') /\ work'.active = work.active /\ Past(work', tx'.forced)
<1> DEFINE X == Disps \ Reopening(tx)
           entry == Head(tx.forced)
           rest == Tail(tx.forced)
<1>1. /\ TxTyped(tx) /\ Prepared(work, tx) /\ Good(work, X) /\ RowsTyped(work)
  BY DEF DisputeIInv, Ready, Good
<1>2. /\ At(tx, "unforce") /\ tx.forced # <<>> /\ work' = RollbackForced(work, entry)
      /\ tx'.forced = rest
  BY <1>1 DEF RestoreForced, InPhase, At, Step, TxTyped, TxFields
<1>3. tx.forced \in Seq(ForcedRow) /\ Revivable(work, tx.forced)
  BY <1>1, <1>2 DEF TxTyped, Prepared
<1>4. /\ Len(rest) = Len(tx.forced) - 1 /\ Len(tx.forced) \in Nat \ {0}
      /\ \A i \in 1..Len(rest) : rest[i] = tx.forced[i + 1]
      /\ entry = tx.forced[1] /\ entry \in ForcedRow
  BY <1>2, <1>3
<1> HIDE DEF entry, rest, X
<1>5. 1 \in 1..Len(tx.forced)
  BY <1>4
<1>6. /\ entry.status \in ActiveTask /\ entry.cycle <= work.active
      /\ work.task[entry.task].publisher \in Agents
  BY <1>3, <1>4, <1>5 DEF Revivable, Past
<1>7. Booked(work')
  <2>1. X \subseteq Disps
    BY DEF X
  <2> QED BY <1>1, <1>2, <1>4, <1>6, <2>1, UnforceBooked
<1>8. work'.active = work.active
  BY <1>1, <1>2 DEF RollbackForced, RowsTyped, TableNames
<1>9. Past(work, rest)
  <2>1. \A i \in 1..Len(rest) : i + 1 \in 1..Len(tx.forced)
    BY <1>4
  <2> QED BY <1>4, <2>1 DEF Past
<1> QED BY <1>2, <1>7, <1>8, <1>9 DEF Past

\* No step reads the pool again or invents a reward split.
LEMMA NotesKept ==
  ASSUME DOMAIN tx = TxFields, TxStep
  PROVE  /\ tx'.kind = tx.kind /\ tx'.pool = tx.pool
         /\ \A c \in DOMAIN tx'.before : c \in DOMAIN tx.before /\ tx'.before[c] = tx.before[c]
<1>1. ASSUME NEW ps
      PROVE  /\ Then(ps).kind = tx.kind
             /\ Then(ps).pool = tx.pool /\ Then(ps).before = tx.before
             /\ DOMAIN Then(ps) = TxFields
  BY DEF Then, TxFields
<1>2. CASE SweepBanned \/ ExpireClean
  BY <1>2 DEF SweepBanned, ExpireClean, Step
<1>3. CASE AutoConfirmStale
  BY <1>3 DEF AutoConfirmStale, Step, TxFields
<1>4. CASE Evaluate
  BY <1>4 DEF Evaluate, Step, TxFields
<1>5. CASE Settle \/ Finalize \/ BanNegatives \/ StartNewRound \/ LoopEnds
  BY <1>1, <1>5 DEF Settle, Finalize, BanNegatives, StartNewRound, LoopEnds, Step
<1>6. CASE RestoreForced
  BY <1>6 DEF RestoreForced, Step, TxFields
<1>7. CASE RestorePublisherBan
  <2> DEFINE rest == Then(<<>>)
  <2>1. PICK alt : tx' = [rest EXCEPT !.todo =
                            IF RemainsBanned(work, tx.disp, alt) THEN @ \o <<"sweep">> ELSE @]
    BY <1>7 DEF RestorePublisherBan, Step
  <2>2. rest.kind = tx.kind /\ rest.pool = tx.pool /\ rest.before = tx.before /\ DOMAIN rest = TxFields
    BY <1>1
  <2> HIDE DEF rest
  <2> QED BY <2>1, <2>2 DEF TxFields
<1>8. CASE Reconcile
  <2>1. PICK c \in DOMAIN tx.before : tx' = [tx EXCEPT !.before = [i \in DOMAIN @ \ {c} |-> @[i]]]
    BY <1>8 DEF Reconcile, Step
  <2>2. /\ tx'.kind = tx.kind /\ tx'.pool = tx.pool
        /\ tx'.before = [i \in DOMAIN tx.before \ {c} |-> tx.before[i]]
    BY <2>1 DEF TxFields
  <2> QED BY <2>2
<1> QED BY <1>2, <1>3, <1>4, <1>5, <1>6, <1>7, <1>8 DEF TxStep

\* No step puts the settlement of the cycle back on the schedule, and a settlement
\* is the last phase.
LEMMA InsertedAhead ==
  ASSUME NEW todo \in Seq(Phases), NEW ps \in Seq(Phases \ {"settle"}),
         \E j \in 1..Len(ps \o todo) : (ps \o todo)[j] = "settle"
  PROVE  \E j \in 1..Len(todo) : todo[j] = "settle"
<1> DEFINE all == ps \o todo
           n == Len(ps)
<1>1. /\ n \in Nat /\ Len(todo) \in Nat /\ Len(all) = n + Len(todo)
      /\ \A j \in 1..Len(all) : all[j] = IF j <= n THEN ps[j] ELSE todo[j - n]
      /\ \A j \in 1..n : ps[j] # "settle"
  OBVIOUS
<1> HIDE DEF all, n
<1>2. PICK j \in 1..Len(all) : all[j] = "settle"
  BY DEF all
<1>3. j \in Nat /\ j > n /\ j - n \in 1..Len(todo) /\ todo[j - n] = "settle"
  BY <1>1, <1>2
<1> QED BY <1>3

LEMMA SettleAhead ==
  ASSUME TxTyped(tx), Ordered(tx.kind, tx.todo), tx.kind # "REOPEN", TxStep,
         Ahead(tx', "settle")
  PROVE  Ahead(tx, "settle") /\ ~Settle
<1>1. tx.todo \in Seq(Phases) /\ DOMAIN tx = TxFields
  BY DEF TxTyped
<1>2. tx.todo # <<>>
  BY DEF TxStep, AutoConfirmStale, SweepBanned, Evaluate, ExpireClean, Settle, Finalize,
         BanNegatives, RestoreForced, RestorePublisherBan, StartNewRound, Reconcile, LoopEnds,
         InPhase
<1>3. /\ 1 \in 1..Len(tx.todo) /\ Head(tx.todo) = tx.todo[1]
      /\ Tail(tx.todo) \in Seq(Phases)
  BY <1>1, <1>2
<1>4. ASSUME NEW ps \in Seq(Phases \ {"settle"}), tx'.todo = ps \o tx.todo
      PROVE  Ahead(tx, "settle")
  BY <1>1, <1>4, InsertedAhead DEF Ahead
<1>5. ASSUME \E j \in 1..Len(Tail(tx.todo)) : Tail(tx.todo)[j] = "settle"
      PROVE  Ahead(tx, "settle")
  <2>1. /\ Len(Tail(tx.todo)) = Len(tx.todo) - 1 /\ Len(tx.todo) \in Nat \ {0}
        /\ \A j \in 1..Len(Tail(tx.todo)) : Tail(tx.todo)[j] = tx.todo[j + 1]
    BY <1>1, <1>2
  <2>2. PICK j \in 1..Len(Tail(tx.todo)) : Tail(tx.todo)[j] = "settle"
    BY <1>5
  <2>3. j + 1 \in 1..Len(tx.todo) /\ tx.todo[j + 1] = "settle"
    BY <2>1, <2>2
  <2> QED BY <2>3 DEF Ahead
<1>6. ASSUME NEW ps \in Seq(Phases \ {"settle"}), tx' = Then(ps)
      PROVE  Ahead(tx, "settle") /\ \E j \in 1..Len(Tail(tx.todo)) : Tail(tx.todo)[j] = "settle"
  <2>1. tx'.todo = ps \o Tail(tx.todo)
    BY <1>1, <1>6 DEF Then, TxFields
  <2>2. \E j \in 1..Len(Tail(tx.todo)) : Tail(tx.todo)[j] = "settle"
    BY <1>3, <2>1, InsertedAhead DEF Ahead
  <2> QED BY <1>5, <2>2
<1>7. <<>> \in Seq(Phases \ {"settle"}) /\ <<"finalize">> \in Seq(Phases \ {"settle"})
      /\ Seq({"sweep", "negatives"}) \subseteq Seq(Phases \ {"settle"})
  <2>1. "finalize" \in Phases \ {"settle"} /\ {"sweep", "negatives"} \subseteq Phases \ {"settle"}
    BY DEF Phases
  <2> QED BY <2>1
<1>8. CASE AutoConfirmStale \/ SweepBanned \/ ExpireClean \/ Reconcile \/ RestoreForced
  <2>1. tx'.todo = tx.todo
    BY <1>1, <1>8 DEF AutoConfirmStale, SweepBanned, ExpireClean, Reconcile, RestoreForced, Step,
                      TxFields
  <2>2. ~Settle
    BY <1>3, <1>8 DEF AutoConfirmStale, SweepBanned, ExpireClean, Reconcile, RestoreForced,
                      Settle, InPhase
  <2> QED BY <2>1, <2>2 DEF Ahead
<1>9. CASE Evaluate
  <2>1. tx'.todo = tx.todo \/ tx'.todo = <<"finalize">> \o tx.todo
    BY <1>1, <1>9 DEF Evaluate, Step, TxFields
  <2>2. ~Settle
    BY <1>9 DEF Evaluate, Settle, InPhase
  <2> QED BY <1>4, <1>7, <2>1, <2>2 DEF Ahead
<1>10. CASE Finalize
  <2>1. PICK a \in {<<>>, <<"sweep">>}, b \in {<<>>, <<"negatives">>} : tx' = Then(a \o b)
    BY <1>10 DEF Finalize, Step
  <2>2. a \o b \in Seq({"sweep", "negatives"})
    BY <2>1, ShortSchedules
  <2>3. ~Settle
    BY <1>10 DEF Finalize, Settle, InPhase
  <2> QED BY <1>6, <1>7, <2>1, <2>2, <2>3
<1>11. CASE BanNegatives
  <2>1. PICK a \in {<<>>, <<"sweep">>} : tx' = Then(a)
    BY <1>11 DEF BanNegatives, Step
  <2>2. a \in Seq({"sweep", "negatives"})
    BY <2>1, ShortSchedules
  <2>3. ~Settle
    BY <1>11 DEF BanNegatives, Settle, InPhase
  <2> QED BY <1>6, <1>7, <2>1, <2>2, <2>3
<1>12. CASE LoopEnds
  <2>1. tx' = Then(<<>>)
    BY <1>12 DEF LoopEnds, Step
  <2>2. ~Settle
    BY <1>12 DEF LoopEnds, Settle, InPhase
  <2> QED BY <1>6, <1>7, <2>1, <2>2
<1>13. CASE Settle
  <2>1. tx' = Then(<<>>) /\ tx.todo[1] = "settle"
    BY <1>3, <1>13 DEF Settle, Step, InPhase
  <2>2. Len(tx.todo) = 1
    BY <1>3, <2>1 DEF Ordered
  <2>3. Len(Tail(tx.todo)) = 0
    BY <1>1, <1>2, <2>2
  <2>4. ~ \E j \in 1..Len(Tail(tx.todo)) : Tail(tx.todo)[j] = "settle"
    BY <2>3
  <2> QED BY <1>6, <1>7, <2>1, <2>4
<1>14. CASE RestorePublisherBan \/ StartNewRound
  BY <1>3, <1>14 DEF RestorePublisherBan, StartNewRound, InPhase, Ordered
<1> QED BY <1>8, <1>9, <1>10, <1>11, <1>12, <1>13, <1>14 DEF TxStep

\* The clocks and counters stand still while the API writes.
LEMMA WriteClocks == ApiWrite => UNCHANGED <<expired, stale, reopens, crashes>>
<1> DEFINE Goal == UNCHANGED <<expired, stale, reopens, crashes>>
<1>0. ASSUME NEW d, Write(d) PROVE Goal
  BY <1>0 DEF Write
<1> HIDE DEF Goal
<1>1. ASSUME NEW t \in Tasks, NEW p \in Publishers, NEW n \in SlotCounts, NEW r \in Rewards,
             NEW q \in RepeatOptions, Publish(t, p, n, r, q)
      PROVE  Goal
  BY <1>0, <1>1 DEF Publish
<1>2. ASSUME NEW t \in Tasks, NEW a \in Workers,
             AddIntention(t, a) \/ \E s \in Subs : Submit(s, t, a)
      PROVE  Goal
  BY <1>0, <1>2 DEF AddIntention, Submit
<1>3. ASSUME NEW s \in Subs, Reject(s) \/ Confirm(s) \/ ConfirmWithoutSlot(s)
      PROVE  Goal
  BY <1>0, <1>3 DEF Reject, Confirm, ConfirmWithoutSlot
<1>4. ASSUME NEW t \in Tasks, Terminate(t)
      PROVE  Goal
  BY <1>0, <1>4 DEF Terminate
<1>5. ASSUME NEW x \in Disps, NEW s \in Subs, NEW a \in Agents, OpenDispute(x, s, a)
      PROVE  Goal
  BY <1>0, <1>5 DEF OpenDispute
<1>6. ASSUME NEW x \in Disps, NEW a \in Supervisors, NEW c, NEW w, Vote(x, a, c, w)
      PROVE  Goal
  BY <1>0, <1>6 DEF Vote
<1>7. ApiWrite => Goal
  BY <1>1, <1>2, <1>3, <1>4, <1>5, <1>6 DEF ApiWrite
<1> QED BY <1>7 DEF Goal

-----------------------------------------------------------------------------
(* The invariants.                                                         *)

\* What the running transaction t has read can be written back to its tables d.
Noted(d, t) ==
  /\ t.pool \in Int
  /\ DOMAIN t.before \subseteq Cycles
  /\ \A c \in DOMAIN t.before : c <= d.active /\ t.before[c] \in [Agents -> Int]
  /\ Past(d, t.forced)
  /\ t.kind # "REOPEN" => DOMAIN t.before = {}

Clocks ==
  /\ stale \in 0..MaxAged
  /\ reopens \in 0..MaxReopens
  /\ tx.kind = "REOPEN" => reopens > 0
  /\ crashes \in 0..MaxCrashes

MoneyIInv ==
  /\ RowsIInv
  /\ Booked(db) /\ Booked(work)
  /\ Noted(work, tx)
  /\ tx.kind # "REOPEN" => Holdings(work) = Holdings(db)
  /\ Clocks

\* As long as no dispute is reopened.
SolventIInv ==
  /\ MoneyIInv
  /\ Conserved(db)
  /\ Prudent(db) /\ Prudent(work)
  /\ Ahead(tx, "settle") => tx.pool <= RewardPool(work.cycle[work.active])

-----------------------------------------------------------------------------
(* The invariants are kept.                                                *)

LEMMA SettleStepBooked ==
  ASSUME RowsIInv, RowsIInv', Booked(work), tx.pool \in Int, Settle
  PROVE  /\ Booked(work')
         /\ Holdings(work') = Holdings(work)
         /\ work'.active = work.active + 1
         /\ Prudent(work) /\ tx.pool <= RewardPool(work.cycle[work.active]) => Prudent(work')
         /\ tx.kind = "CLOSE" /\ Ahead(tx, "settle") /\ work.active + 1 \in Cycles
<1>1. /\ TxTyped(tx) /\ Ordered(tx.kind, tx.todo) /\ Prepared(work, tx)
      /\ RowsTyped(work) /\ RowsTyped(work')
  BY DEF RowsIInv, DisputeIInv, Ready, Good
<1>2. At(tx, "settle") /\ work' = SettleCycle(work, tx.pool)
  BY DEF Settle, InPhase, At, Step
<1>3. 1 \in 1..Len(tx.todo) /\ tx.todo[1] = "settle"
  BY <1>1, <1>2, HeadIsFirst
<1>4. tx.kind = "CLOSE" /\ Ahead(tx, "settle") /\ work.active + 1 \in Cycles
  BY <1>1, <1>3 DEF Ordered, Ahead, Prepared
<1>5. work'.active = work.active + 1
  BY <1>1, <1>2 DEF SettleCycle, RowsTyped, TableNames
<1> QED BY <1>1, <1>2, <1>4, <1>5, SettleBooked

LEMMA ReconcileStepBooked ==
  ASSUME RowsIInv, RowsIInv', Booked(work), Noted(work, tx), Reconcile
  PROVE  Booked(work') /\ work'.active = work.active
<1>1. RowsTyped(work) /\ RowsTyped(work')
  BY DEF RowsIInv, DisputeIInv, Ready, Good
<1>2. PICK c \in DOMAIN tx.before : work' = ReconcileCycle(work, c, tx.before[c])
  BY DEF Reconcile, Step
<1>3. c \in Cycles /\ c <= work.active /\ tx.before[c] \in [Agents -> Int]
  BY DEF Noted
<1>4. Booked(work')
  BY <1>1, <1>2, <1>3, ReconcileBooked
<1>5. work'.active = work.active
  BY <1>1, <1>2 DEF ReconcileCycle, RowsTyped, TableNames
<1> QED BY <1>4, <1>5

\* The steps that belong to a reopening alone.
LEMMA ReopenKind ==
  ASSUME TxTyped(tx), Ordered(tx.kind, tx.todo), RestoreForced
  PROVE  tx.kind = "REOPEN"
<1>1. At(tx, "unforce")
  BY DEF RestoreForced, InPhase, At
<1>2. 1 \in 1..Len(tx.todo) /\ tx.todo[1] = "unforce"
  BY <1>1, HeadIsFirst
<1> QED BY <1>2 DEF Ordered

\* Cycles only advance, so what was noted of earlier ones stays true.
LEMMA NotedLater ==
  ASSUME NEW d, NEW e, d.active \in Cycles, e.active \in Cycles, e.active >= d.active,
         NEW t, Noted(d, t), NEW u, u.forced \in Seq(ForcedRow),
         u.kind = t.kind, u.pool = t.pool,
         \A c \in DOMAIN u.before : c \in DOMAIN t.before /\ u.before[c] = t.before[c],
         Past(d, u.forced)
  PROVE  Noted(e, u)
<1>1. Cycles \subseteq Nat /\ d.active \in Nat /\ e.active \in Nat
  BY IdsAssumption
<1>2. ASSUME NEW c \in DOMAIN u.before
      PROVE  c \in Cycles /\ c <= e.active /\ u.before[c] \in [Agents -> Int]
  <2>1. c \in Cycles /\ c <= d.active /\ u.before[c] \in [Agents -> Int]
    BY DEF Noted
  <2>2. c \in Nat
    BY <1>1, <2>1
  <2> QED BY <1>1, <2>1, <2>2
<1>3. Past(e, u.forced)
  <2> DEFINE forced == u.forced
  <2>1. forced \in Seq(ForcedRow) /\ \A i \in 1..Len(forced) : forced[i].cycle <= d.active
    BY DEF Past
  <2> HIDE DEF forced
  <2>2. \A i \in 1..Len(forced) : forced[i] \in ForcedRow
    BY <2>1
  <2>3. \A i \in 1..Len(forced) : forced[i].cycle \in Nat
    BY <1>1, <2>2 DEF ForcedRow
  <2>4. \A i \in 1..Len(forced) : forced[i].cycle <= e.active
    BY <1>1, <2>1, <2>3
  <2> QED BY <2>4 DEF Past, forced
<1> QED BY <1>2, <1>3 DEF Noted

LEMMA TxStepMoney ==
  ASSUME MoneyIInv, RowsIInv', TxStep
  PROVE  MoneyIInv'
<1>1. /\ RowsIInv /\ DisputeIInv /\ Booked(db) /\ Booked(work) /\ Noted(work, tx)
      /\ TxTyped(tx) /\ TxTyped(tx') /\ Ordered(tx.kind, tx.todo)
      /\ work.active \in Cycles /\ work'.active \in Cycles
      /\ Past(work, tx.forced) /\ tx.pool \in Int
  BY DEF MoneyIInv, RowsIInv, DisputeIInv, Ready, Good, RowsTyped, Noted
<1>2. UNCHANGED <<db, stale, reopens, crashes>>
  BY DEF TxStep, AutoConfirmStale, SweepBanned, Evaluate, ExpireClean, Settle, Finalize,
         BanNegatives, RestoreForced, RestorePublisherBan, StartNewRound, Reconcile,
         LoopEnds, Step
<1>3. /\ tx'.kind = tx.kind /\ tx'.pool = tx.pool
      /\ \A c \in DOMAIN tx'.before : c \in DOMAIN tx.before /\ tx'.before[c] = tx.before[c]
  BY <1>1, NotesKept DEF TxTyped
<1>4. work.active \in Nat
  BY <1>1, IdsAssumption
<1>5. /\ Booked(work') /\ work'.active >= work.active
      /\ Past(work, tx'.forced)
      /\ tx.kind # "REOPEN" => Holdings(work') = Holdings(work)
  <2>1. CASE RestoreForced
    <3>1. Booked(work') /\ work'.active = work.active /\ Past(work', tx'.forced)
      BY <1>1, <2>1, RestoreForcedBooked
    <3>2. tx.kind = "REOPEN"
      BY <1>1, <2>1, ReopenKind
    <3> QED BY <1>4, <3>1, <3>2 DEF Past
  <2>2. CASE ~RestoreForced
    <3>1. tx'.forced = tx.forced
      BY <1>1, <2>2, ForcedKept DEF TxTyped
    <3>2. CASE MovingStep
      <4>1. Moved(work, work')
        BY <1>1, <3>2, StepMoved
      <4> QED BY <1>1, <1>4, <3>1, <4>1 DEF Moved
    <3>3. CASE Settle
      <4>1. Booked(work') /\ Holdings(work') = Holdings(work) /\ work'.active = work.active + 1
        BY <1>1, <3>3, SettleStepBooked
      <4> QED BY <1>1, <1>4, <3>1, <4>1
    <3>4. CASE Reconcile
      <4>1. Booked(work') /\ work'.active = work.active
        BY <1>1, <3>4, ReconcileStepBooked
      <4>2. tx.kind = "REOPEN"
        BY <1>1, <3>4 DEF Noted, Reconcile
      <4> QED BY <1>1, <1>4, <3>1, <4>1, <4>2
    <3> QED BY <2>2, <3>2, <3>3, <3>4 DEF TxStep, MovingStep
  <2> QED BY <2>1, <2>2
<1>6. Noted(work', tx')
  <2>1. tx'.forced \in Seq(ForcedRow)
    BY <1>1 DEF TxTyped
  <2> QED BY <1>1, <1>3, <1>5, <2>1, NotedLater
<1>7. tx'.kind # "REOPEN" => Holdings(work') = Holdings(db')
  BY <1>2, <1>3, <1>5 DEF MoneyIInv
<1>8. Clocks'
  BY <1>2, <1>3 DEF MoneyIInv, Clocks
<1> QED BY <1>1, <1>2, <1>5, <1>6, <1>7, <1>8 DEF MoneyIInv

LEMMA WriteMoney ==
  ASSUME MoneyIInv, RowsIInv', ApiWrite
  PROVE  MoneyIInv' /\ Moved(db, db')
<1>1. /\ Good(db, Disps) /\ Booked(db) /\ Funded(db) /\ Noted(work, tx)
      /\ TxTyped(tx) /\ RowsTyped(db) /\ RowsTyped(db')
  BY DEF MoneyIInv, RowsIInv, DisputeIInv, Ready, Good, Agreeing
<1>2. ~Running /\ work' = db' /\ UNCHANGED tx
  BY WriteAlone
<1>3. work = db
  BY <1>2 DEF MoneyIInv, RowsIInv, DisputeIInv
<1>4. Moved(db, db')
  BY <1>1, ApiWriteMoved
<1>5. Booked(db') /\ db'.active = db.active
  BY <1>4 DEF Moved
<1>6. Noted(db', tx)
  <2>1. tx.forced \in Seq(ForcedRow) /\ Past(db, tx.forced)
    BY <1>1, <1>3 DEF TxTyped, Noted
  <2>2. db.active \in Cycles
    BY <1>1 DEF RowsTyped
  <2>3. db.active \in Nat
    BY <2>2, IdsAssumption
  <2>4. db'.active \in Cycles /\ db'.active >= db.active
    BY <1>5, <2>2, <2>3
  <2> QED BY <1>1, <1>3, <2>1, <2>2, <2>4, NotedLater
<1>7. UNCHANGED <<stale, reopens, crashes>>
  BY WriteClocks
<1> QED BY <1>2, <1>4, <1>5, <1>6, <1>7 DEF MoneyIInv, Clocks

LEMMA BeginReopenMoney ==
  ASSUME MoneyIInv, RowsIInv', NEW x \in Disps, BeginReopen(x)
  PROVE  MoneyIInv'
<1> DEFINE resolved == db.disp[x].status = "RESOLVED_COMPLETED"
           closed == {c \in AffectedCycles(db, x) : db.cycle[c].status = "CLOSED"}
           archived == ArchiveRound(db, x)
           rolled == RollbackResolution(archived, x)
<1>1. /\ UNCHANGED <<db, stale, crashes>> /\ reopens < MaxReopens /\ reopens' = reopens + 1
      /\ work' = IF resolved THEN rolled ELSE archived
      /\ tx'.kind = "REOPEN" /\ tx'.pool = 0
      /\ tx'.before = [c \in closed |-> Distribution(db, c, RewardPool(db.cycle[c]))]
      /\ tx'.forced = db.disp[x].snap.forced
  BY DEF BeginReopen, Idle
<1>2. Good(db, Disps) /\ RowsTyped(db) /\ Booked(db) /\ db.active \in Cycles
  BY DEF MoneyIInv, RowsIInv, DisputeIInv, Good, RowsTyped
<1>3. Good(archived, Disps) /\ archived.disp[x].status = db.disp[x].status
  BY <1>2, ArchiveGood
<1>4. Booked(archived) /\ archived.active = db.active
  BY <1>2, ArchiveMoved DEF Moved
<1> HIDE DEF archived
<1>5. resolved => Booked(rolled) /\ rolled.active = archived.active
  BY <1>3, <1>4, RollbackBooked
<1> HIDE DEF rolled
<1>6. Booked(work') /\ work'.active = db.active
  BY <1>1, <1>4, <1>5
<1>7. ASSUME NEW c \in closed
      PROVE  /\ c \in Cycles /\ c <= db.active
             /\ Distribution(db, c, RewardPool(db.cycle[c])) \in [Agents -> Int]
  <2>1. AffectedCycles(db, x) \subseteq Cycles
    BY <1>2, HistoryTyped DEF HistoryRow
  <2>2. c \in Cycles /\ db.cycle[c].status = "CLOSED"
    BY <2>1
  <2> HIDE DEF closed
  <2>3. c \in Nat /\ db.active \in Nat
    BY <1>2, <2>2, IdsAssumption
  <2>4. c <= db.active
    <3>1. c > db.active => db.cycle[c].status = "NONE"
      BY <1>2, <2>2 DEF Booked, Unopened
    <3> QED BY <2>2, <2>3, <3>1
  <2>5. Distribution(db, c, RewardPool(db.cycle[c])) \in [Agents -> Nat]
    <3>1. RewardPool(db.cycle[c]) \in Int /\ Earned(db)
      BY <1>2, <2>2, PoolTyped DEF Booked
    <3> DEFINE pool == RewardPool(db.cycle[c])
    <3> HIDE DEF pool
    <3>2. Distribution(db, c, pool) \in [Agents -> Nat]
      BY <3>1, DistributionTyped DEF pool
    <3> QED BY <3>2 DEF pool
  <2> QED BY <2>2, <2>4, <2>5
<1>8. Noted(work', tx')
  <2>1. Past(db, tx'.forced)
    BY <1>1, <1>2 DEF Booked
  <2>2. DOMAIN tx'.before = closed
    BY <1>1
  <2>3. \A c \in closed : tx'.before[c] = Distribution(db, c, RewardPool(db.cycle[c]))
    BY <1>1
  <2> HIDE DEF closed
  <2>4. \A c \in DOMAIN tx'.before : c \in Cycles /\ c <= work'.active /\ tx'.before[c] \in [Agents -> Int]
    BY <1>6, <1>7, <2>2, <2>3
  <2> QED BY <1>1, <1>6, <2>1, <2>4 DEF Noted, Past
<1>9. Clocks'
  <2>1. stale \in 0..MaxAged /\ reopens \in 0..MaxReopens /\ crashes \in 0..MaxCrashes
    BY DEF MoneyIInv, Clocks
  <2>2. reopens' \in 0..MaxReopens /\ reopens' > 0
    BY <1>1, <2>1, ActorsAssumption
  <2> QED BY <1>1, <2>1, <2>2 DEF Clocks
<1> QED BY <1>1, <1>2, <1>6, <1>8, <1>9 DEF MoneyIInv

LEMMA BeginMoney ==
  ASSUME MoneyIInv, RowsIInv', BeginClose \/ \E x \in Disps : BeginOverrideCompleted(x)
  PROVE  /\ MoneyIInv'
         /\ UNCHANGED <<db, work>> /\ work = db
         /\ \/ tx'.pool = RewardPool(db.cycle[db.active])
            \/ tx'.todo = <<"finalize">>
<1>1. /\ ~Running /\ UNCHANGED <<db, work, stale, reopens, crashes>>
      /\ tx'.kind \in {"CLOSE", "OVERRIDE_COMPLETED"}
      /\ tx'.before = <<>> /\ tx'.forced = <<>>
      /\ \/ tx'.pool = RewardPool(db.cycle[db.active])
         \/ tx'.pool = 0 /\ tx'.todo = <<"finalize">>
  BY DEF BeginClose, BeginOverrideCompleted, Idle
<1>2. /\ work = db /\ Booked(db) /\ RowsTyped(db)
  BY <1>1 DEF MoneyIInv, RowsIInv, DisputeIInv, Good
<1>3. tx'.pool \in Int
  <2>1. RewardPool(db.cycle[db.active]) \in Int
    BY <1>2, PoolTyped DEF RowsTyped, Booked
  <2> QED BY <1>1, <2>1
<1>4. Noted(work', tx')
  <2>1. DOMAIN tx'.before = {} /\ Len(tx'.forced) = 0
    BY <1>1
  <2> QED BY <1>3, <2>1 DEF Noted, Past
<1>5. Clocks'
  BY <1>1 DEF MoneyIInv, Clocks
<1> QED BY <1>1, <1>2, <1>4, <1>5 DEF MoneyIInv

LEMMA EndMoney ==
  ASSUME MoneyIInv, RowsIInv', Commit \/ Abort \/ Crash
  PROVE  MoneyIInv'
<1>1. /\ work' = db' /\ tx' = Idle /\ db' \in {db, work} /\ UNCHANGED stale
      /\ reopens' \in {reopens, IF tx.kind = "REOPEN" THEN reopens - 1 ELSE reopens}
      /\ crashes' = crashes \/ (crashes < MaxCrashes /\ crashes' = crashes + 1)
  BY DEF Commit, Abort, Crash, RolledBack
<1>2. Noted(work', tx')
  <2>1. Idle.pool = 0 /\ DOMAIN Idle.before = {} /\ Len(Idle.forced) = 0
    BY DEF Idle
  <2> QED BY <1>1, <2>1 DEF Noted, Past
<1>3. Clocks'
  <2>1. /\ stale \in 0..MaxAged /\ reopens \in 0..MaxReopens /\ crashes \in 0..MaxCrashes
        /\ tx.kind = "REOPEN" => reopens > 0
    BY DEF MoneyIInv, Clocks
  <2>2. tx'.kind # "REOPEN"
    BY <1>1 DEF Idle
  <2>3. reopens' \in 0..MaxReopens /\ crashes' \in 0..MaxCrashes
    BY <1>1, <2>1, ActorsAssumption
  <2> QED BY <1>1, <2>1, <2>2, <2>3 DEF Clocks
<1> QED BY <1>1, <1>2, <1>3 DEF MoneyIInv

LEMMA TickMoney ==
  ASSUME MoneyIInv, RowsIInv', Tick \/ UNCHANGED vars
  PROVE  MoneyIInv' /\ UNCHANGED <<db, work, tx>>
<1>1. /\ UNCHANGED <<db, work, tx, reopens, crashes>>
      /\ stale' = stale \/ (stale < MaxAged /\ stale' = stale + 1)
  BY DEF Tick, SubmissionAges, DeadlinePasses, vars
<1>2. Clocks'
  <2>1. stale \in 0..MaxAged
    BY DEF MoneyIInv, Clocks
  <2>2. stale' \in 0..MaxAged
    BY <1>1, <2>1, ActorsAssumption
  <2> QED BY <1>1, <2>2 DEF MoneyIInv, Clocks
<1> QED BY <1>1, <1>2 DEF MoneyIInv

LEMMA NextMoney ==
  ASSUME MoneyIInv, [Next]_vars
  PROVE  MoneyIInv'
<1>1. RowsIInv'
  BY NextRows DEF MoneyIInv
<1> QED BY <1>1, WriteMoney, BeginMoney, BeginReopenMoney, TxStepMoney, EndMoney, TickMoney
        DEF Next, Override

LEMMA EmptyBooked == Booked(EmptyTables)
<1> DEFINE d == EmptyTables
           row == [status |-> "NONE", sub |-> NoSub, votes |-> {}, source |-> "NONE",
                   payout |-> 0, snap |-> NoSnap, history |-> NoHistory]
           first == [status |-> "OPEN", minted |-> MintPerCycle,
                     tax |-> 0, penalty |-> 0, credited |-> 0]
           later == [status |-> "NONE", minted |-> 0, tax |-> 0, penalty |-> 0, credited |-> 0]
<1>1. Framed(d)
  BY DEF Framed, EmptyTables, TableNames
<1>2. d.avail \in [Agents -> Int]
  BY RulesAssumption DEF EmptyTables
<1>3. /\ d.active = 1 /\ DOMAIN d.cycle = Cycles /\ d.cycle = [c \in Cycles |-> d.cycle[c]]
      /\ \A c \in Cycles : d.cycle[c] = IF c = 1 THEN first ELSE later
  BY DEF EmptyTables
<1>4. first \in CycleRow /\ later \in CycleRow
  BY RulesAssumption DEF CycleRow
<1>5. Unopened(later)
  BY DEF Unopened
<1>6. row \in DispRow
  <2>1. <<>> \in Seq(ForcedRow)
    OBVIOUS
  <2>2. NoSnap \in SnapRow
    BY <2>1 DEF NoSnap, SnapRow, TaskStatus
  <2>3. NoHistory \in HistoryRow
    BY DEF NoHistory, HistoryRow
  <2> QED BY <2>2, <2>3 DEF DispRow, DispStatus, PayoutSource
<1>7. /\ d.disp = [x \in Disps |-> row]
      /\ \A x \in Disps : d.disp[x].snap.forced = <<>>
  BY DEF EmptyTables, NoSnap
<1>8. d.work = {} /\ \A t \in Tasks : d.task[t].escrow = 0
  BY DEF EmptyTables
<1> HIDE DEF d, row, first, later
<1>9. d.cycle \in [Cycles -> CycleRow]
  <2>1. \A c \in Cycles : d.cycle[c] \in CycleRow
    BY <1>3, <1>4
  <2> QED BY <1>3, <2>1
<1>10. \A c \in Cycles : c > d.active => Unopened(d.cycle[c])
  BY <1>3, <1>5
<1>11. Earned(d)
  BY <1>8, FS_EmptySet DEF Earned
<1>12. \A x \in Disps : Past(d, d.disp[x].snap.forced)
  BY <1>7 DEF Past
<1>13. d.disp \in [Disps -> DispRow]
  BY <1>6, <1>7
<1>14. Booked(d)
  BY <1>1, <1>2, <1>8, <1>9, <1>10, <1>11, <1>12, <1>13 DEF Booked
<1> QED BY <1>14 DEF d

LEMMA InitMoney == Init => MoneyIInv
<1> SUFFICES ASSUME Init PROVE MoneyIInv
  OBVIOUS
<1>1. db = EmptyTables /\ work = EmptyTables /\ tx = Idle
      /\ stale = 0 /\ reopens = 0 /\ crashes = 0
  BY DEF Init
<1>2. Noted(work, tx)
  <2>1. Idle.pool = 0 /\ DOMAIN Idle.before = {} /\ Len(Idle.forced) = 0
    BY DEF Idle
  <2> QED BY <1>1, <2>1 DEF Noted, Past
<1>3. Clocks
  BY <1>1, ActorsAssumption DEF Clocks, Idle
<1> QED BY <1>1, <1>2, <1>3, InitRows, EmptyBooked DEF MoneyIInv

LEMMA MoneyInvariant == Spec => []MoneyIInv
<1>1. MoneyIInv /\ [Next]_vars => MoneyIInv'
  BY NextMoney
<1> QED BY <1>1, InitMoney, PTL DEF Spec

-----------------------------------------------------------------------------
(* Money is only moved.                                                    *)

LEMMA CommitsConserve ==
  ASSUME MoneyIInv, [Next]_vars
  PROVE  tx.kind # "REOPEN" => Holdings(db') = Holdings(db)
<1>1. RowsIInv'
  BY NextRows DEF MoneyIInv
<1>2. CASE ApiWrite
  BY <1>1, <1>2, WriteMoney DEF Moved
<1>3. CASE Commit
  BY <1>3 DEF Commit, MoneyIInv
<1>4. CASE Abort \/ Crash \/ Override \/ BeginClose \/ TxStep \/ Tick \/ UNCHANGED vars
  <2>1. db' = db
    BY <1>4 DEF Abort, Crash, RolledBack, Override, BeginClose, BeginOverrideCompleted,
                BeginReopen, Tick, SubmissionAges, DeadlinePasses, vars,
                TxStep, AutoConfirmStale, SweepBanned, Evaluate, ExpireClean, Settle, Finalize,
                BanNegatives, RestoreForced, RestorePublisherBan, StartNewRound, Reconcile,
                LoopEnds, Step
  <2> QED BY <2>1
<1> QED BY <1>2, <1>3, <1>4 DEF Next

\* Whatever commits, is refused or is interrupted, other than the reopening of a
\* dispute, moves AGC between balances, escrows and the pools that are not paid out
\* yet: it makes and loses none.
THEOREM MoneyConserved == Spec => [][tx.kind # "REOPEN" => Holdings(db') = Holdings(db)]_vars
<1>1. MoneyIInv /\ [Next]_vars => [tx.kind # "REOPEN" => Holdings(db') = Holdings(db)]_vars
  BY CommitsConserve
<1> QED BY <1>1, MoneyInvariant, PTL DEF Spec

LEMMA TablesTyped ==
  ASSUME NEW d, RowsTyped(d), Booked(d)
  PROVE  d \in Tables
<1>1. /\ d.task \in [Tasks -> TaskRow] /\ d.sub \in [Subs -> SubRow]
      /\ d.disp \in [Disps -> DispRow] /\ d.ban \in [Agents -> BanRow]
      /\ d.avail \in [Agents -> Int] /\ d.cycle \in [Cycles -> CycleRow]
      /\ d.active \in Cycles /\ d.work \in SUBSET WorkRow
  BY DEF RowsTyped, Booked, Earned
<1>2. d = [task |-> d.task, sub |-> d.sub, disp |-> d.disp, ban |-> d.ban,
           avail |-> d.avail, cycle |-> d.cycle, active |-> d.active, work |-> d.work]
  BY DEF Booked, Framed, TableNames
<1> QED BY <1>1, <1>2 DEF Tables

LEMMA MoneyTyped == MoneyIInv => TypeOK
<1> SUFFICES ASSUME MoneyIInv PROVE TypeOK
  OBVIOUS
<1>1. /\ RowsTyped(db) /\ Booked(db) /\ RowsTyped(work) /\ Booked(work)
      /\ TxTyped(tx) /\ Noted(work, tx) /\ expired \subseteq Tasks
  BY DEF MoneyIInv, RowsIInv, DisputeIInv, Ready, Good
<1>2. db \in Tables /\ work \in Tables
  BY <1>1, TablesTyped
<1>3. TxOK
  BY <1>1 DEF TxOK, TxTyped, Noted
<1> QED BY <1>1, <1>2, <1>3 DEF TypeOK, MoneyIInv, Clocks

\* Every table, local variable and clock has the type of its column, half-way
\* through a transaction too.
THEOREM TypesKept == Spec => []TypeOK
<1> QED BY MoneyTyped, MoneyInvariant, PTL
-----------------------------------------------------------------------------
(* Nobody is in debt.                                                      *)

\* The pool a closing has read is still there when it is paid out.
LEMMA TxStepSolvent ==
  ASSUME SolventIInv, MoneyIInv', RowsIInv', tx.kind # "REOPEN", TxStep
  PROVE  SolventIInv'
<1>1. /\ RowsIInv /\ Booked(work) /\ TxTyped(tx) /\ Ordered(tx.kind, tx.todo)
      /\ RowsTyped(work) /\ Prudent(work) /\ tx.pool \in Int /\ Noted(work, tx)
      /\ work.active \in Cycles
  BY DEF SolventIInv, MoneyIInv, RowsIInv, DisputeIInv, Ready, Good, RowsTyped, Noted
<1>2. db' = db
  BY DEF TxStep, AutoConfirmStale, SweepBanned, Evaluate, ExpireClean, Settle, Finalize,
         BanNegatives, RestoreForced, RestorePublisherBan, StartNewRound, Reconcile,
         LoopEnds, Step
<1>3. Conserved(db') /\ Prudent(db')
  BY <1>2 DEF SolventIInv
<1>4. tx'.pool = tx.pool
  BY <1>1, NotesKept DEF TxTyped
<1>5. ~RestoreForced
  BY <1>1, ReopenKind
<1>6. ~Reconcile
  BY <1>1 DEF Noted, Reconcile
<1>7. CASE Settle
  <2>1. Ahead(tx, "settle")
    BY <1>1, <1>7, SettleStepBooked
  <2>2. tx.pool <= RewardPool(work.cycle[work.active])
    BY <2>1 DEF SolventIInv
  <2>3. Prudent(work')
    BY <1>1, <1>7, <2>2, SettleStepBooked
  <2>4. ~Ahead(tx', "settle")
    BY <1>1, <1>7, SettleAhead
  <2> QED BY <1>3, <2>3, <2>4 DEF SolventIInv
<1>8. CASE MovingStep
  <2>1. Moved(work, work')
    BY <1>1, <1>8, StepMoved
  <2>2. Prudent(work') /\ work'.active = work.active
        /\ RewardPool(work'.cycle[work.active]) >= RewardPool(work.cycle[work.active])
    BY <1>1, <2>1 DEF Moved, Grown
  <2>3. ASSUME Ahead(tx', "settle")
        PROVE  tx'.pool <= RewardPool(work'.cycle[work'.active])
    <3>1. Ahead(tx, "settle")
      BY <1>1, <2>3, SettleAhead
    <3>2. tx.pool <= RewardPool(work.cycle[work.active])
      BY <3>1 DEF SolventIInv
    <3>3. /\ RewardPool(work.cycle[work.active]) \in Int
          /\ RewardPool(work'.cycle[work.active]) \in Int
      BY <1>1, <2>1, PoolTyped DEF Booked, Moved
    <3> QED BY <1>1, <1>4, <2>2, <3>2, <3>3
  <2> QED BY <1>3, <2>2, <2>3 DEF SolventIInv
<1> QED BY <1>5, <1>6, <1>7, <1>8 DEF TxStep, MovingStep

LEMMA WriteSolvent ==
  ASSUME SolventIInv, MoneyIInv', RowsIInv', ApiWrite
  PROVE  SolventIInv'
<1>1. MoneyIInv /\ Conserved(db) /\ Prudent(db) /\ DisputeIInv
  BY DEF SolventIInv, MoneyIInv, RowsIInv
<1>2. Moved(db, db')
  BY <1>1, WriteMoney
<1>3. Conserved(db') /\ Prudent(db')
  BY <1>1, <1>2 DEF Moved, Conserved
<1>4. ~Running /\ work' = db' /\ UNCHANGED tx
  BY WriteAlone
<1>5. tx.todo = <<>>
  BY <1>1, <1>4 DEF DisputeIInv
<1>6. ~Ahead(tx', "settle")
  BY <1>4, <1>5 DEF Ahead
<1> QED BY <1>3, <1>4, <1>6 DEF SolventIInv

LEMMA BeginSolvent ==
  ASSUME SolventIInv, MoneyIInv', RowsIInv', BeginClose \/ \E x \in Disps : BeginOverrideCompleted(x)
  PROVE  SolventIInv'
<1>1. MoneyIInv /\ Conserved(db) /\ Prudent(db) /\ Booked(db) /\ RowsTyped(db)
  BY DEF SolventIInv, MoneyIInv, RowsIInv, DisputeIInv, Good
<1>2. /\ UNCHANGED <<db, work>> /\ work = db
      /\ \/ tx'.pool = RewardPool(db.cycle[db.active])
         \/ tx'.todo = <<"finalize">>
  BY <1>1, BeginMoney
<1>3. Ahead(tx', "settle") => tx'.pool <= RewardPool(work'.cycle[work'.active])
  <2>1. RewardPool(db.cycle[db.active]) \in Int
    BY <1>1, PoolTyped DEF RowsTyped, Booked
  <2> QED BY <1>2, <2>1 DEF Ahead
<1> QED BY <1>1, <1>2, <1>3 DEF SolventIInv

LEMMA EndSolvent ==
  ASSUME SolventIInv, MoneyIInv', tx.kind # "REOPEN", Commit \/ Abort \/ Crash
  PROVE  SolventIInv'
<1>1. work' = db' /\ tx' = Idle /\ db' \in {db, work}
  BY DEF Commit, Abort, Crash, RolledBack
<1>2. Conserved(db) /\ Prudent(db) /\ Prudent(work) /\ Holdings(work) = Holdings(db)
  BY DEF SolventIInv, MoneyIInv
<1>3. ~Ahead(tx', "settle")
  BY <1>1 DEF Ahead, Idle
<1> QED BY <1>1, <1>2, <1>3 DEF SolventIInv, Conserved

LEMMA NextSolvent ==
  ASSUME SolventIInv, [Next]_vars, tx.kind # "REOPEN", tx'.kind # "REOPEN"
  PROVE  SolventIInv'
<1>1. MoneyIInv /\ MoneyIInv' /\ RowsIInv'
  BY NextMoney DEF SolventIInv, MoneyIInv
<1>2. ~ \E x \in Disps : BeginReopen(x)
  BY DEF BeginReopen, Idle
<1>3. CASE Tick \/ UNCHANGED vars
  <2>1. UNCHANGED <<db, work, tx>>
    BY <1>1, <1>3, TickMoney
  <2> QED BY <1>1, <2>1 DEF SolventIInv, Ahead
<1> QED BY <1>1, <1>2, <1>3, TxStepSolvent, WriteSolvent, BeginSolvent, EndSolvent
        DEF Next, Override

LEMMA EmptySolvent == Conserved(EmptyTables) /\ Prudent(EmptyTables)
<1> DEFINE d == EmptyTables
           escrows == [t \in Tasks |-> d.task[t].escrow]
           pools == [c \in Cycles |-> d.cycle[c].tax + d.cycle[c].penalty - d.cycle[c].credited]
           avail == d.avail
<1>1. /\ Cardinality(Agents) \in Nat /\ Cardinality(Tasks) \in Nat /\ Cardinality(Cycles) \in Nat
      /\ InitialAgentBalance \in Int /\ 0 \in Int
  BY FiniteAssumption, FS_CardinalityType, RulesAssumption
<1>2. \A a \in Agents : avail[a] = InitialAgentBalance
  BY DEF EmptyTables
<1>3. \A t \in Tasks : escrows[t] = 0
  BY DEF EmptyTables
<1>4. \A c \in Cycles : /\ d.cycle[c].tax = 0 /\ d.cycle[c].penalty = 0 /\ d.cycle[c].credited = 0
                        /\ d.cycle[c].minted \in Nat
  BY RulesAssumption DEF EmptyTables
<1>5. \A c \in Cycles : pools[c] = 0
  BY <1>4
<1>6. Holdings(d) = SumOver(avail, Agents) + SumOver(escrows, Tasks) + SumOver(pools, Cycles)
  BY DEF Holdings
<1>7. d.active = 1 /\ 1 \in Cycles
  BY IdsAssumption DEF EmptyTables
<1> HIDE DEF avail, escrows, pools, d
<1>8. SumOver(avail, Agents) = InitialAgentBalance * Cardinality(Agents)
  BY <1>1, <1>2, FiniteAssumption, SumConstant
<1>9. SumOver(escrows, Tasks) = 0 * Cardinality(Tasks)
  BY <1>1, <1>3, FiniteAssumption, SumConstant
<1>10. SumOver(pools, Cycles) = 0 * Cardinality(Cycles)
  BY <1>1, <1>5, FiniteAssumption, SumConstant
<1>11. Conserved(d)
  BY <1>1, <1>6, <1>8, <1>9, <1>10 DEF Conserved
<1>12. Prudent(d)
  <2>1. \A a \in Agents : d.avail[a] >= 0
    BY <1>2, RulesAssumption DEF avail
  <2> QED BY <1>4, <1>7, <2>1 DEF Prudent, RewardPool
<1> QED BY <1>11, <1>12 DEF d

LEMMA InitSolvent == Init => SolventIInv
<1> SUFFICES ASSUME Init PROVE SolventIInv
  OBVIOUS
<1>1. db = EmptyTables /\ work = EmptyTables /\ tx.todo = <<>>
  BY DEF Init, Idle
<1>2. ~Ahead(tx, "settle")
  BY <1>1 DEF Ahead
<1> QED BY <1>1, <1>2, InitMoney, EmptySolvent DEF SolventIInv

LEMMA SolventKeepsMoney == SolventIInv => MoneyKept
<1> SUFFICES ASSUME SolventIInv PROVE MoneyKept
  OBVIOUS
<1>1. MoneyIInv /\ RowsIInv /\ Conserved(db) /\ Prudent(db) /\ Prudent(work)
  BY DEF SolventIInv, MoneyIInv
<1>2. SolventInv
  BY <1>1 DEF SolventInv, BothTables, Prudent, Solvent
<1>3. PaidOnceInv
  BY <1>1, AgreeingRows DEF RowsIInv, DisputeIInv, Ready, Good, PaidOnceInv, BothTables
<1> QED BY <1>1, <1>2, <1>3, MoneyTyped DEF MoneyKept, ConservedInv

\* No dispute is being reopened.
NoReopening == tx.kind # "REOPEN"

\* While no dispute is reopened, in the committed tables and half-way through a
\* transaction, whatever is refused or interrupted: all AGC that was not minted is
\* in a balance, an escrow or a pool, no balance is below zero, no cycle has paid out
\* more than its pool, and no agent is paid twice for a task.
THEOREM MoneyKeptUnlessReopened == Spec /\ []NoReopening => []MoneyKept
<1>1. SolventIInv /\ [Next]_vars /\ NoReopening /\ NoReopening' => SolventIInv'
  BY NextSolvent DEF NoReopening
<1> QED BY <1>1, InitSolvent, SolventKeepsMoney, PTL DEF Spec

\* A marketplace in which disputes cannot be reopened always keeps its money so.
THEOREM MoneyAlwaysKept ==
  ASSUME MaxReopens = 0
  PROVE  Spec => []MoneyKept
<1>1. MoneyIInv => NoReopening
  BY DEF MoneyIInv, Clocks, NoReopening
<1> QED BY <1>1, MoneyInvariant, MoneyKeptUnlessReopened, PTL

-----------------------------------------------------------------------------
(* How a cycle is closed.                                                  *)
(*                                                                         *)
(* The phases of closing create work for one another: a dispute that is    *)
(* settled can ban a publisher whose tasks have to be swept, and a task is *)
(* only clean once its last dispute is settled.  What a phase has cleared  *)
(* stays clear all the same, because what is left to do tells which phases *)
(* have run for the last time.                                             *)

\* What closing has left to do at each of its stages: finalize, ban and sweep again
\* for a dispute whose votes pass.
ToSettle == <<"settle">>
ToExpire == <<"expire", "settle">>
ToSweep == <<"sweep", "expire", "settle">>
ToEvaluate == <<"evaluate", "sweep", "expire", "settle">>
ToSweepFirst == <<"sweep", "evaluate", "sweep", "expire", "settle">>
ToFinalize == <<"finalize", "evaluate", "sweep", "expire", "settle">>
ToBan == <<"negatives", "evaluate", "sweep", "expire", "settle">>
ToSweepAndBan == <<"sweep", "negatives", "evaluate", "sweep", "expire", "settle">>

Cleared(todo) == todo \in {ToSettle, <<>>}
Swept(todo) == todo = ToExpire \/ Cleared(todo)
Evaluated(todo) == todo = ToSweep \/ Swept(todo)
Evaluating(todo) == todo \in {ToSweepFirst, ToEvaluate, ToFinalize, ToBan, ToSweepAndBan}

\* A submission that waits too long, a dispute whose votes pass.
Overdue(d, s, n) ==
  d.sub[s].status = "SUBMITTED" /\ s <= n /\ TaskOf(d, s).status \in ActiveTask

Undecided(d, x) ==
  d.disp[x].status = "OPEN" /\ VotesPass(d.disp[x].votes, DisputeQuorum, DisputeApprovalBps)

\* The cycle that is open in b is closed in d, and the next one open.
NextOpened(b, d) ==
  /\ d.active = b.active + 1
  /\ d.cycle[b.active].status = "CLOSED"
  /\ d.cycle[d.active].status = "OPEN"

\* How far the closing t of the cycle that is open in b has come in its tables d, n and
\* G being the clocks it has read.
Closing(b, d, t, n, G) ==
  /\ t.todo = ClosePhases \/ Evaluating(t.todo) \/ Evaluated(t.todo)
  /\ t.todo # ClosePhases => t.subs = {}
  /\ Evaluated(t.todo) => t.disps = {}
  /\ \A s \in Subs : Overdue(d, s, n) => s \in t.subs
  /\ \A x \in Disps : Undecided(d, x) => x \in t.disps \/ (t.todo = ToFinalize /\ x = t.disp)
  /\ Swept(t.todo) => SweepTargets(d) = {}
  /\ Cleared(t.todo) => \A g \in G : ~ActiveClean(d, g)
  /\ IF t.todo = <<>> THEN NextOpened(b, d) ELSE d.active = b.active

CloseInv ==
  IF tx.kind = "CLOSE" THEN Closing(db, work, tx, stale, expired) ELSE work.active = db.active

-----------------------------------------------------------------------------
(* Its schedules.                                                          *)

LEMMA StageHeads ==
  /\ ClosePhases # <<>> /\ Head(ClosePhases) = "stale" /\ Tail(ClosePhases) = ToSweepFirst
  /\ ToSweepFirst # <<>> /\ Head(ToSweepFirst) = "sweep" /\ Tail(ToSweepFirst) = ToEvaluate
  /\ ToEvaluate # <<>> /\ Head(ToEvaluate) = "evaluate" /\ Tail(ToEvaluate) = ToSweep
  /\ ToFinalize # <<>> /\ Head(ToFinalize) = "finalize" /\ Tail(ToFinalize) = ToEvaluate
  /\ ToBan # <<>> /\ Head(ToBan) = "negatives" /\ Tail(ToBan) = ToEvaluate
  /\ ToSweepAndBan # <<>> /\ Head(ToSweepAndBan) = "sweep" /\ Tail(ToSweepAndBan) = ToBan
  /\ ToSweep # <<>> /\ Head(ToSweep) = "sweep" /\ Tail(ToSweep) = ToExpire
  /\ ToExpire # <<>> /\ Head(ToExpire) = "expire" /\ Tail(ToExpire) = ToSettle
  /\ ToSettle # <<>> /\ Head(ToSettle) = "settle" /\ Tail(ToSettle) = <<>>
BY DEF ClosePhases, ToSweepFirst, ToEvaluate, ToFinalize, ToBan, ToSweepAndBan, ToSweep,
       ToExpire, ToSettle

LEMMA SameSchedule ==
  ASSUME NEW a \in Seq(Phases), NEW b \in Seq(Phases), Len(a) = Len(b),
         \A i \in 1..Len(a) : a[i] = b[i]
  PROVE  a = b
OBVIOUS

LEMMA Concatenated ==
  ASSUME NEW a \in Seq(Phases), NEW b \in Seq(Phases), NEW c \in Seq(Phases),
         Len(c) = Len(a) + Len(b),
         \A i \in 1..Len(a) : c[i] = a[i],
         \A i \in 1..Len(b) : c[Len(a) + i] = b[i]
  PROVE  a \o b = c
<1> DEFINE e == a \o b
<1>1. /\ e \in Seq(Phases)
      /\ Len(a) \in Nat /\ Len(b) \in Nat
      /\ Len(e) = Len(a) + Len(b)
      /\ \A i \in 1..Len(e) : e[i] = IF i <= Len(a) THEN a[i] ELSE b[i - Len(a)]
  OBVIOUS
<1> HIDE DEF e
<1>2. ASSUME NEW i \in 1..Len(e)
      PROVE  e[i] = c[i]
  <2>1. CASE i <= Len(a)
    BY <1>1, <2>1
  <2>2. CASE i > Len(a)
    <3>1. i - Len(a) \in 1..Len(b) /\ Len(a) + (i - Len(a)) = i
      BY <1>1, <2>2
    <3> QED BY <1>1, <2>2, <3>1
  <2> QED BY <1>1, <2>1, <2>2
<1>3. e = c
  BY <1>1, <1>2, SameSchedule
<1> QED BY <1>3 DEF e

\* What finalizing and banning put in front of what is left to do.
LEMMA StagesInserted ==
  /\ <<"finalize">> \o ToEvaluate = ToFinalize
  /\ (<<>> \o <<>>) \o ToEvaluate = ToEvaluate
  /\ (<<"sweep">> \o <<>>) \o ToEvaluate = ToSweepFirst
  /\ (<<>> \o <<"negatives">>) \o ToEvaluate = ToBan
  /\ (<<"sweep">> \o <<"negatives">>) \o ToEvaluate = ToSweepAndBan
  /\ <<>> \o ToEvaluate = ToEvaluate
  /\ <<"sweep">> \o ToEvaluate = ToSweepFirst
<1>1. /\ <<>> \o <<>> = <<>> /\ <<"sweep">> \o <<>> = <<"sweep">>
      /\ <<>> \o <<"negatives">> = <<"negatives">>
  OBVIOUS
<1>2. /\ ToEvaluate \in Seq(Phases) /\ Len(ToEvaluate) = 4
      /\ ToEvaluate[1] = "evaluate" /\ ToEvaluate[2] = "sweep"
      /\ ToEvaluate[3] = "expire" /\ ToEvaluate[4] = "settle"
  BY DEF ToEvaluate, Phases
<1>3. <<>> \o ToEvaluate = ToEvaluate
  BY <1>2
<1>4. ASSUME NEW p \in Phases, NEW b \in Seq(Phases), Len(b) = 5,
             b[1] = p, b[2] = "evaluate", b[3] = "sweep", b[4] = "expire", b[5] = "settle"
      PROVE  <<p>> \o ToEvaluate = b
  <2> DEFINE a == <<p>>
  <2>1. a \in Seq(Phases) /\ Len(a) = 1 /\ a[1] = p
    OBVIOUS
  <2> HIDE DEF a
  <2>2. \A i \in 1..Len(a) : b[i] = a[i]
    BY <1>4, <2>1
  <2>3. \A i \in 1..Len(ToEvaluate) : b[Len(a) + i] = ToEvaluate[i]
    BY <1>2, <1>4, <2>1
  <2> DEFINE rest == ToEvaluate
  <2>4. rest \in Seq(Phases) /\ Len(b) = Len(a) + Len(rest) /\ a \in Seq(Phases)
    BY <1>2, <1>4, <2>1
  <2> HIDE DEF rest
  <2>5. a \o rest = b
    BY <2>2, <2>3, <2>4, Concatenated DEF rest
  <2> QED BY <2>5 DEF a, rest
<1>5. /\ ToFinalize \in Seq(Phases) /\ Len(ToFinalize) = 5
      /\ ToSweepFirst \in Seq(Phases) /\ Len(ToSweepFirst) = 5
      /\ ToBan \in Seq(Phases) /\ Len(ToBan) = 5
  BY DEF ToFinalize, ToSweepFirst, ToBan, Phases
<1>6. /\ <<"finalize">> \o ToEvaluate = ToFinalize
      /\ <<"sweep">> \o ToEvaluate = ToSweepFirst
      /\ <<"negatives">> \o ToEvaluate = ToBan
  BY <1>4, <1>5 DEF ToFinalize, ToSweepFirst, ToBan, Phases
<1> DEFINE both == <<"sweep", "negatives">>
<1>7. both \in Seq(Phases) /\ Len(both) = 2 /\ both[1] = "sweep" /\ both[2] = "negatives"
  BY DEF Phases
<1>8. <<"sweep">> \o <<"negatives">> = both
  <2>1. <<"sweep">> \in Seq(Phases) /\ Len(<<"sweep">>) = 1 /\ <<"sweep">>[1] = "sweep"
    BY DEF Phases
  <2>2. <<"negatives">> \in Seq(Phases) /\ Len(<<"negatives">>) = 1
        /\ <<"negatives">>[1] = "negatives"
    BY DEF Phases
  <2> DEFINE a == <<"sweep">>
             b == <<"negatives">>
  <2> HIDE DEF both, a, b
  <2>3. a \o b = both
    BY <1>7, <2>1, <2>2, Concatenated DEF a, b
  <2> QED BY <2>3 DEF a, b
<1>9. both \o ToEvaluate = ToSweepAndBan
  <2> DEFINE all == ToSweepAndBan
  <2>1. /\ all \in Seq(Phases) /\ Len(all) = 6 /\ all[1] = "sweep" /\ all[2] = "negatives"
        /\ all[3] = "evaluate" /\ all[4] = "sweep" /\ all[5] = "expire" /\ all[6] = "settle"
    BY DEF ToSweepAndBan, Phases
  <2> HIDE DEF all, both
  <2>2. \A i \in 1..Len(both) : all[i] = both[i]
    BY <1>7, <2>1
  <2>3. \A i \in 1..Len(ToEvaluate) : all[Len(both) + i] = ToEvaluate[i]
    BY <1>2, <1>7, <2>1
  <2> DEFINE rest == ToEvaluate
  <2>4. rest \in Seq(Phases) /\ Len(all) = Len(both) + Len(rest)
    BY <1>2, <1>7, <2>1
  <2> HIDE DEF rest
  <2>5. both \o rest = all
    BY <1>7, <2>1, <2>2, <2>3, <2>4, Concatenated DEF rest
  <2> QED BY <2>5 DEF all, rest
<1> HIDE DEF both
<1> QED BY <1>1, <1>3, <1>6, <1>8, <1>9

LEMMA StagesDiffer ==
  /\ ~Evaluating(ClosePhases) /\ ~Evaluated(ClosePhases)
  /\ \A todo : Evaluating(todo) => ~Evaluated(todo)
  /\ ~Swept(ToSweep) /\ ~Cleared(ToExpire)
  /\ ToFinalize # ClosePhases
  /\ \A todo : Evaluated(todo) => todo # ToFinalize
<1>1. /\ Len(ClosePhases) = 6 /\ Len(ToSweepFirst) = 5 /\ Len(ToEvaluate) = 4
      /\ Len(ToFinalize) = 5 /\ Len(ToBan) = 5 /\ Len(ToSweepAndBan) = 6
      /\ Len(ToSweep) = 3 /\ Len(ToExpire) = 2 /\ Len(ToSettle) = 1
      /\ Len(<<>>) = 0
  BY DEF ClosePhases, ToSweepFirst, ToEvaluate, ToFinalize, ToBan, ToSweepAndBan, ToSweep,
         ToExpire, ToSettle
<1>2. "stale" # "sweep"
  OBVIOUS
<1> QED BY <1>1, <1>2, StageHeads DEF Evaluating, Evaluated, Swept, Cleared

\* What closing has left to do when it comes to phase p.
LEMMA StageAt ==
  ASSUME NEW todo, todo = ClosePhases \/ Evaluating(todo) \/ Evaluated(todo), todo # <<>>
  PROVE  /\ Head(todo) \in {"stale", "sweep", "evaluate", "finalize", "negatives", "expire",
                            "settle"}
         /\ Head(todo) = "stale" => todo = ClosePhases
         /\ Head(todo) = "sweep" => todo \in {ToSweepFirst, ToSweepAndBan, ToSweep}
         /\ Head(todo) = "evaluate" => todo = ToEvaluate
         /\ Head(todo) = "finalize" => todo = ToFinalize
         /\ Head(todo) = "negatives" => todo = ToBan
         /\ Head(todo) = "expire" => todo = ToExpire
         /\ Head(todo) = "settle" => todo = ToSettle
<1>1. todo \in {ClosePhases, ToSweepFirst, ToEvaluate, ToFinalize, ToBan, ToSweepAndBan,
                ToSweep, ToExpire, ToSettle}
  BY DEF Evaluating, Evaluated, Swept, Cleared
<1> QED BY <1>1, StageHeads

-----------------------------------------------------------------------------
(* The tables only come closer to being clean.                             *)

\* No submission, task or dispute is taken up again.
Onwards(d, e) ==
  /\ e.active = d.active
  /\ \A s \in Subs : /\ e.sub[s].task = d.sub[s].task
                     /\ e.sub[s].status = "SUBMITTED" => d.sub[s].status = "SUBMITTED"
  /\ \A t \in Tasks : e.task[t].status \in ActiveTask => d.task[t].status \in ActiveTask
  /\ \A x \in Disps : /\ e.disp[x].votes = d.disp[x].votes
                      /\ e.disp[x].status = "OPEN" => d.disp[x].status = "OPEN"

LEMMA NothingNew ==
  ASSUME NEW d, References(d), NEW e, Onwards(d, e), NEW n
  PROVE  /\ \A s \in Subs : Overdue(e, s, n) => Overdue(d, s, n)
         /\ \A x \in Disps : Undecided(e, x) => Undecided(d, x)
<1>1. ASSUME NEW s \in Subs, Overdue(e, s, n)
      PROVE  Overdue(d, s, n)
  <2>1. /\ d.sub[s].status = "SUBMITTED" /\ e.sub[s].task = d.sub[s].task
        /\ s <= n /\ e.task[d.sub[s].task].status \in ActiveTask
    BY <1>1 DEF Onwards, Overdue, TaskOf
  <2>2. d.sub[s].task \in Tasks
    BY <2>1 DEF References
  <2> QED BY <2>1, <2>2 DEF Onwards, Overdue, TaskOf
<1>2. \A x \in Disps : Undecided(e, x) => Undecided(d, x)
  BY DEF Onwards, Undecided
<1> QED BY <1>1, <1>2

\* A stale submission is confirmed, or its task is closed.
LEMMA AutoConfirmOnwards ==
  ASSUME NEW d, Good(d, Disps), NEW s \in Subs, d.sub[s].status = "SUBMITTED"
  PROVE  /\ Onwards(d, AutoConfirmed(d, s))
         /\ \A n : ~Overdue(AutoConfirmed(d, s), s, n)
<1> DEFINE t == d.sub[s].task
           e == AutoConfirmed(d, s)
<1>1. RowsTyped(d) /\ References(d) /\ t \in Tasks
  BY DEF Good, References
<1>2. CASE d.task[t].status \in ActiveTask /\ HasPayableSlot(d.task[t])
  <2>1. e = ConfirmInternal(d, s, NoDispute)
    BY <1>2 DEF AutoConfirmed
  <2> HIDE DEF e
  <2>2. /\ e.disp = d.disp
        /\ e.sub = [d.sub EXCEPT ![s].status = "CONFIRMED"]
        /\ \A u \in Tasks : \/ e.task[u].status = d.task[u].status
                            \/ e.task[u].status = "CLOSED"
    BY <1>1, <2>1, ConfirmEffect
  <2>3. e.active = d.active
    BY <1>1, <2>1 DEF ConfirmInternal, RowsTyped, TableNames
  <2>4. /\ e.sub[s].status = "CONFIRMED"
        /\ \A o \in Subs : /\ e.sub[o].task = d.sub[o].task
                           /\ e.sub[o].status \in {d.sub[o].status, "CONFIRMED"}
    BY <1>1, <2>2 DEF RowsTyped, SubRow
  <2>5. Onwards(d, e) /\ \A n : ~Overdue(e, s, n)
    BY <2>2, <2>3, <2>4 DEF Onwards, Overdue, ActiveTask
  <2> QED BY <2>5 DEF e
<1>3. CASE d.task[t].status \notin ActiveTask
  <2>1. e = d
    BY <1>3 DEF AutoConfirmed
  <2> QED BY <1>3, <2>1 DEF Onwards, Overdue, TaskOf
<1>4. CASE d.task[t].status \in ActiveTask /\ ~HasPayableSlot(d.task[t])
  <2>1. e = [d EXCEPT !.task[t].status = "CLOSED"]
    BY <1>4 DEF AutoConfirmed
  <2> HIDE DEF e, t
  <2>2. /\ e.sub = d.sub /\ e.disp = d.disp /\ e.active = d.active
        /\ e.task = [d.task EXCEPT ![t].status = "CLOSED"]
    BY <1>1, <2>1 DEF RowsTyped, TableNames
  <2>3. \A u \in Tasks : e.task[u].status = IF u = t THEN "CLOSED" ELSE d.task[u].status
    BY <1>1, <2>2 DEF RowsTyped, TaskRow
  <2>4. Onwards(d, e) /\ \A n : ~Overdue(e, s, n)
    BY <1>1, <2>2, <2>3 DEF Onwards, Overdue, TaskOf, ActiveTask, t
  <2> QED BY <2>4 DEF e
<1> QED BY <1>2, <1>3, <1>4

\* A task is terminated: no other task becomes clean, nobody is banned.
LEMMA TerminateOnwards ==
  ASSUME NEW d, RowsTyped(d), References(d),
         NEW t \in Tasks, d.task[t].status \in ActiveTask, NEW x
  PROVE  LET e == TerminateInternal(d, t, x)
         IN /\ Onwards(d, e)
            /\ SweepTargets(e) \subseteq SweepTargets(d)
<1> DEFINE e == TerminateInternal(d, t, x)
<1>1. /\ e.sub = d.sub
      /\ \A y \in Disps : SameDispute(d, e.disp[y], d.disp[y])
      /\ \A u \in Tasks :
           /\ e.task[u].publisher = d.task[u].publisher
           /\ e.task[u].status = IF u = t THEN "TERMINATED" ELSE d.task[u].status
  BY TerminateEffect
<1>2. \A y \in Disps : DisputeKept(e.disp[y], d.disp[y])
  BY TerminateKeeps DEF ReviewKept
<1>3. e.active = d.active /\ e.ban = d.ban
  BY DEF TerminateInternal, RowsTyped, TableNames
<1> HIDE DEF e
<1>4. Onwards(d, e)
  BY <1>1, <1>2, <1>3 DEF Onwards, DisputeKept, ActiveTask
<1>5. ASSUME NEW u \in SweepTargets(e)
      PROVE  u \in SweepTargets(d)
  <2>1. u \in Tasks /\ ActiveClean(e, u) /\ Banned(e, e.task[u].publisher)
    BY <1>5 DEF SweepTargets
  <2>2. ActiveClean(d, u)
    BY <1>1, <2>1 DEF ActiveClean, SubmittedOnTask, OpenDisputeOnTask, DispTask, SameDispute,
                      ActiveTask
  <2>3. Banned(d, d.task[u].publisher)
    BY <1>1, <1>3, <2>1 DEF Banned
  <2> QED BY <2>1, <2>2, <2>3 DEF SweepTargets
<1>6. Onwards(d, e) /\ SweepTargets(e) \subseteq SweepTargets(d)
  BY <1>4, <1>5
<1> QED BY <1>6 DEF e

LEMMA FinalizeOnwards ==
  ASSUME NEW d, Good(d, Disps), NEW x \in Disps, d.disp[x].status = "OPEN"
  PROVE  /\ Onwards(d, FinalizeCompleted(d, x))
         /\ ~Undecided(FinalizeCompleted(d, x), x)
<1> DEFINE m == [d EXCEPT !.disp[x].status = "RESOLVED_COMPLETED"]
           s == d.disp[x].sub
           e == FinalizeCompleted(d, x)
<1>1. RowsTyped(d) /\ References(d) /\ DisputeBacked(d, Disps)
  BY DEF Good
<1>2. Decided(d, e, x)
  BY FinalizeDecides
<1>3. /\ RowsTyped(m) /\ References(m) /\ m.task = d.task /\ m.sub = d.sub
      /\ m.active = d.active
      /\ m.disp[x].status = "RESOLVED_COMPLETED" /\ m.disp[x].sub = s
  BY <1>1, MarkResolved
<1>4. d.sub[s].status = "REJECTED"
  BY <1>1 DEF DisputeBacked
<1>5. e \in {ResolveFromEscrow(m, x), ResolveFromWallet(m, x)}
  BY <1>4 DEF FinalizeCompleted, PaysFromEscrow, PaysFromWallet, AlreadyCompleted, CompletedSub
<1> HIDE DEF m, e
<1>6. Resolved(m, e, x)
  BY <1>3, <1>5, ResolveFromEscrowEffect, ResolveFromWalletEffect
<1>7. /\ e.active = d.active
      /\ \A t \in Tasks : e.task[t].status \in {d.task[t].status, "CLOSED"}
  BY <1>3, <1>6 DEF Resolved
<1>8. \A o \in Subs : /\ e.sub[o].task = d.sub[o].task
                      /\ e.sub[o].status = "SUBMITTED" => d.sub[o].status = "SUBMITTED"
  BY <1>2 DEF Decided, CompletedSub
<1>9. \A y \in Disps : /\ e.disp[y].votes = d.disp[y].votes
                       /\ e.disp[y].status = "OPEN" => d.disp[y].status = "OPEN"
  BY <1>2 DEF Decided
<1>10. Onwards(d, e)
  BY <1>7, <1>8, <1>9 DEF Onwards, ActiveTask
<1>11. ~Undecided(e, x)
  BY <1>2 DEF Decided, Undecided
<1> QED BY <1>10, <1>11 DEF e

LEMMA BanOnwards ==
  ASSUME NEW d, RowsTyped(d), NEW A, NEW reason, NEW source
  PROVE  Onwards(d, BanAgents(d, A, reason, source))
<1> DEFINE e == BanAgents(d, A, reason, source)
<1>1. /\ e.sub = d.sub /\ e.disp = d.disp /\ e.task = d.task /\ e.active = d.active
  BY DEF BanAgents, RowsTyped, TableNames
<1> HIDE DEF e
<1>2. Onwards(d, e)
  BY <1>1 DEF Onwards
<1> QED BY <1>2 DEF e

\* The cycle is closed; nothing else changes but balances.
LEMMA SettleOpens ==
  ASSUME NEW d, RowsTyped(d), Booked(d), d.active + 1 \in Cycles, NEW pool
  PROVE  LET e == SettleCycle(d, pool)
         IN /\ e.task = d.task /\ e.sub = d.sub /\ e.disp = d.disp /\ e.ban = d.ban
            /\ NextOpened(d, e)
<1> DEFINE c == d.active
           e == SettleCycle(d, pool)
           old == d.cycle[c]
           total == SumOver(Distribution(d, c, pool), Agents)
           row == [old EXCEPT !.status = "CLOSED", !.credited = @ + total]
           next == [status |-> "OPEN", minted |-> MintPerCycle, tax |-> 0,
                    penalty |-> 0, credited |-> 0]
<1>1. c \in Cycles /\ c + 1 \in Cycles /\ c + 1 # c /\ DOMAIN d.cycle = Cycles
      /\ old \in CycleRow
  <2>1. c \in Cycles /\ d.cycle \in [Cycles -> CycleRow]
    BY DEF RowsTyped, Booked
  <2> HIDE DEF c
  <2>2. c \in Nat
    BY <2>1, IdsAssumption
  <2> QED BY <2>1, <2>2 DEF c
<1>2. /\ e.task = d.task /\ e.sub = d.sub /\ e.disp = d.disp /\ e.ban = d.ban
      /\ e.active = c + 1
      /\ e.cycle = [d.cycle EXCEPT ![c] = row, ![c + 1] = next]
  <2> HIDE DEF row, next, total
  <2> QED BY DEF SettleCycle, RowsTyped, TableNames, row, next, total
<1>3. row.status = "CLOSED" /\ next.status = "OPEN"
  <2> HIDE DEF total
  <2> QED BY <1>1 DEF CycleRow
<1> HIDE DEF row, next, e, total
<1>4. e.cycle[c] = row /\ e.cycle[c + 1] = next
  BY <1>1, <1>2
<1>5. NextOpened(d, e)
  BY <1>2, <1>3, <1>4 DEF NextOpened
<1> QED BY <1>2, <1>5 DEF e

-----------------------------------------------------------------------------
(* The steps of closing.                                                   *)

\* What a step of closing that is at phase p can rely on.
LEMMA ClosingAt ==
  ASSUME MoneyIInv, CloseInv, tx.kind = "CLOSE", NEW p, At(tx, p)
  PROVE  /\ Closing(db, work, tx, stale, expired)
         /\ Good(work, Disps) /\ RowsTyped(work) /\ References(work)
         /\ TxTyped(tx) /\ Prepared(work, tx) /\ expired \subseteq Tasks
         /\ p \in {"stale", "sweep", "evaluate", "finalize", "negatives", "expire", "settle"}
         /\ p = "stale" => tx.todo = ClosePhases
         /\ p = "sweep" => tx.todo \in {ToSweepFirst, ToSweepAndBan, ToSweep}
         /\ p = "evaluate" => tx.todo = ToEvaluate
         /\ p = "finalize" => tx.todo = ToFinalize
         /\ p = "negatives" => tx.todo = ToBan
         /\ p = "expire" => tx.todo = ToExpire
         /\ p = "settle" => tx.todo = ToSettle
<1>1. Closing(db, work, tx, stale, expired)
  BY DEF CloseInv
<1>2. /\ Good(work, Disps \ Reopening(tx)) /\ TxTyped(tx) /\ Prepared(work, tx)
      /\ expired \subseteq Tasks
  BY DEF MoneyIInv, RowsIInv, DisputeIInv, Ready
<1>3. Good(work, Disps)
  BY <1>2 DEF Reopening
<1>4. tx.todo = ClosePhases \/ Evaluating(tx.todo) \/ Evaluated(tx.todo)
  BY <1>1 DEF Closing
<1> QED BY <1>1, <1>2, <1>3, <1>4, StageAt DEF At, Good

\* Closing goes on before the last dispute was evaluated: nothing but the submissions
\* and disputes that are still to be looked at has to be accounted for.
LEMMA ClosingGoesOn ==
  ASSUME NEW b, NEW d, NEW t, NEW n, NEW G, Closing(b, d, t, n, G),
         References(d), t.todo # <<>>,
         NEW e, Onwards(d, e),
         NEW u, Evaluating(u.todo), u.subs = {}, t.subs = {},
         \A x \in Disps : Undecided(e, x) =>
           x \in u.disps \/ (u.todo = ToFinalize /\ x = u.disp)
  PROVE  Closing(b, e, u, n, G)
<1>1. /\ \A s \in Subs : ~Overdue(d, s, n)
      /\ d.active = b.active
  BY DEF Closing
<1>2. \A s \in Subs : ~Overdue(e, s, n)
  BY <1>1, NothingNew
<1>3. e.active = b.active
  BY <1>1 DEF Onwards
<1>4. ~Evaluated(u.todo) /\ ~Swept(u.todo) /\ ~Cleared(u.todo) /\ u.todo # <<>>
  BY StagesDiffer DEF Evaluated, Swept, Cleared
<1> QED BY <1>2, <1>3, <1>4 DEF Closing

LEMMA AutoConfirmCloses ==
  ASSUME MoneyIInv, CloseInv, tx.kind = "CLOSE", AutoConfirmStale
  PROVE  Closing(db, work', tx', stale, expired)
<1> DEFINE s == First(tx.subs)
           e == AutoConfirmed(work, s)
           u == [tx EXCEPT !.subs = @ \ {s}]
<1>1. At(tx, "stale") /\ work' = e /\ tx' = u
  BY DEF AutoConfirmStale, InPhase, At, Step
<1>2. /\ Closing(db, work, tx, stale, expired) /\ References(work)
      /\ TxTyped(tx) /\ tx.todo = ClosePhases
  BY <1>1, ClosingAt
<1>3. s \in Subs /\ work.sub[s].status = "SUBMITTED" /\ Good(work, Disps)
  BY StaleFirst DEF MoneyIInv, RowsIInv
<1>4. Onwards(work, e) /\ ~Overdue(e, s, stale)
  BY <1>3, AutoConfirmOnwards
<1>5. u.todo = ClosePhases /\ u.subs = tx.subs \ {s} /\ u.disps = tx.disps
  BY <1>2 DEF TxTyped, TxFields
<1> HIDE DEF u, e
<1>6. /\ \A o \in Subs : Overdue(work, o, stale) => o \in tx.subs
      /\ \A x \in Disps : Undecided(work, x) => x \in tx.disps
      /\ work.active = db.active
  BY <1>2, StagesDiffer, StageHeads DEF Closing
<1>7. /\ \A o \in Subs : Overdue(e, o, stale) => o \in u.subs
      /\ \A x \in Disps : Undecided(e, x) => x \in u.disps
  BY <1>2, <1>4, <1>5, <1>6, NothingNew
<1>8. e.active = db.active
  BY <1>4, <1>6 DEF Onwards
<1>9. ~Evaluated(ClosePhases) /\ ~Swept(ClosePhases) /\ ~Cleared(ClosePhases) /\ ClosePhases # <<>>
  BY StagesDiffer, StageHeads DEF Evaluated, Swept
<1>10. Closing(db, e, u, stale, expired)
  BY <1>5, <1>7, <1>8, <1>9 DEF Closing
<1> QED BY <1>1, <1>10

LEMMA SweepCloses ==
  ASSUME MoneyIInv, CloseInv, tx.kind = "CLOSE", SweepBanned
  PROVE  Closing(db, work', tx', stale, expired)
<1>1. At(tx, "sweep") /\ tx' = tx
  BY DEF SweepBanned, InPhase, At, Step
<1>2. /\ Closing(db, work, tx, stale, expired) /\ RowsTyped(work) /\ References(work)
      /\ tx.todo \in {ToSweepFirst, ToSweepAndBan, ToSweep}
  BY <1>1, ClosingAt
<1>3. PICK t \in SweepTargets(work) : work' = SweepOne(work, t)
  BY DEF SweepBanned, Step
<1>4. t \in Tasks /\ work.task[t].status \in ActiveTask
  BY <1>3 DEF SweepTargets, ActiveClean
<1> DEFINE e == SweepOne(work, t)
<1>5. Onwards(work, e)
  BY <1>2, <1>4, TerminateOnwards DEF SweepOne
<1> HIDE DEF e
<1>6. ~Swept(tx.todo) /\ ~Cleared(tx.todo) /\ tx.todo # <<>> /\ tx.todo # ClosePhases
  BY <1>2, StagesDiffer, StageHeads DEF Evaluating, Evaluated, Swept
<1>7. /\ \A s \in Subs : ~Overdue(work, s, stale)
      /\ \A x \in Disps : Undecided(work, x) => x \in tx.disps
                             \/ (tx.todo = ToFinalize /\ x = tx.disp)
      /\ work.active = db.active
  BY <1>2, <1>6 DEF Closing
<1>8. /\ \A s \in Subs : ~Overdue(e, s, stale)
      /\ \A x \in Disps : Undecided(e, x) => x \in tx.disps
                             \/ (tx.todo = ToFinalize /\ x = tx.disp)
  BY <1>2, <1>5, <1>7, NothingNew
<1>9. e.active = db.active
  BY <1>5, <1>7 DEF Onwards
<1>10. Closing(db, e, tx, stale, expired)
  BY <1>2, <1>6, <1>8, <1>9 DEF Closing
<1> QED BY <1>1, <1>3, <1>10 DEF e

LEMMA EvaluateCloses ==
  ASSUME MoneyIInv, CloseInv, tx.kind = "CLOSE", Evaluate
  PROVE  Closing(db, work', tx', stale, expired)
<1> DEFINE x == First(tx.disps)
           rest == [tx EXCEPT !.disps = @ \ {x}]
           u == [rest EXCEPT !.disp = x, !.todo = <<"finalize">> \o @]
           passes == VotesPass(work.disp[x].votes, DisputeQuorum, DisputeApprovalBps)
<1>1. /\ At(tx, "evaluate") /\ work' = work
      /\ (~passes /\ tx' = rest) \/ (passes /\ tx' = u)
  BY DEF Evaluate, InPhase, At, Step
<1>2. /\ Closing(db, work, tx, stale, expired) /\ References(work)
      /\ TxTyped(tx) /\ tx.todo = ToEvaluate
  BY <1>1, ClosingAt
<1>3. Onwards(work, work)
  BY DEF Onwards
<1>4. /\ rest.todo = ToEvaluate /\ rest.subs = tx.subs /\ rest.disps = tx.disps \ {x}
      /\ u.todo = <<"finalize">> \o ToEvaluate /\ u.subs = tx.subs
      /\ u.disps = tx.disps \ {x} /\ u.disp = x
  BY <1>2 DEF TxTyped, TxFields
<1> HIDE DEF rest, u
<1>5. ToEvaluate # ClosePhases /\ ToEvaluate # ToFinalize /\ ToEvaluate # <<>>
  BY StageHeads
<1>6. /\ tx.subs = {}
      /\ \A y \in Disps : Undecided(work, y) => y \in tx.disps
  BY <1>2, <1>5 DEF Closing
<1>7. CASE ~passes /\ tx' = rest
  <2>1. ~Undecided(work, x)
    BY <1>7 DEF Undecided
  <2>2. Evaluating(rest.todo) /\ rest.subs = {}
    BY <1>4, <1>6 DEF Evaluating
  <2>3. \A y \in Disps : Undecided(work, y) =>
          y \in rest.disps \/ (rest.todo = ToFinalize /\ y = rest.disp)
    BY <1>4, <1>6, <2>1
  <2> HIDE DEF x
  <2>4. Closing(db, work, rest, stale, expired)
    BY <1>2, <1>3, <1>5, <1>6, <2>2, <2>3, ClosingGoesOn
  <2> QED BY <1>1, <1>7, <2>4
<1>8. CASE passes /\ tx' = u
  <2>1. u.todo = ToFinalize
    BY <1>4, StagesInserted
  <2>2. Evaluating(u.todo) /\ u.subs = {}
    BY <1>4, <1>6, <2>1 DEF Evaluating
  <2>3. \A y \in Disps : Undecided(work, y) =>
          y \in u.disps \/ (u.todo = ToFinalize /\ y = u.disp)
    BY <1>4, <1>6, <2>1
  <2> HIDE DEF x
  <2>4. Closing(db, work, u, stale, expired)
    BY <1>2, <1>3, <1>5, <1>6, <2>2, <2>3, ClosingGoesOn
  <2> QED BY <1>1, <1>8, <2>4
<1> QED BY <1>1, <1>7, <1>8

LEMMA ExpireCloses ==
  ASSUME MoneyIInv, CloseInv, tx.kind = "CLOSE", ExpireClean
  PROVE  Closing(db, work', tx', stale, expired)
<1>1. At(tx, "expire") /\ tx' = tx
  BY DEF ExpireClean, InPhase, At, Step
<1>2. /\ Closing(db, work, tx, stale, expired) /\ RowsTyped(work) /\ References(work)
      /\ expired \subseteq Tasks /\ tx.todo = ToExpire
  BY <1>1, ClosingAt
<1>3. PICK t \in expired : ActiveClean(work, t) /\ work' = TerminateInternal(work, t, NoDispute)
  BY DEF ExpireClean, Step
<1>4. t \in Tasks /\ work.task[t].status \in ActiveTask
  BY <1>2, <1>3 DEF ActiveClean
<1> DEFINE e == TerminateInternal(work, t, NoDispute)
<1>5. Onwards(work, e) /\ SweepTargets(e) \subseteq SweepTargets(work)
  BY <1>2, <1>4, TerminateOnwards
<1> HIDE DEF e
<1>6. /\ ~Cleared(ToExpire) /\ Swept(ToExpire) /\ Evaluated(ToExpire)
      /\ ToExpire # <<>> /\ ToExpire # ClosePhases /\ ToExpire # ToFinalize
  BY StagesDiffer, StageHeads DEF Evaluated, Swept
<1>7. /\ \A s \in Subs : ~Overdue(work, s, stale)
      /\ \A x \in Disps : ~Undecided(work, x)
      /\ work.active = db.active /\ SweepTargets(work) = {}
      /\ tx.subs = {} /\ tx.disps = {}
  BY <1>2, <1>6 DEF Closing
<1>8. /\ \A s \in Subs : ~Overdue(e, s, stale)
      /\ \A x \in Disps : ~Undecided(e, x)
  BY <1>2, <1>5, <1>7, NothingNew
<1>9. e.active = db.active /\ SweepTargets(e) = {}
  BY <1>5, <1>7 DEF Onwards
<1>10. Closing(db, e, tx, stale, expired)
  BY <1>2, <1>6, <1>7, <1>8, <1>9 DEF Closing
<1> QED BY <1>1, <1>3, <1>10 DEF e

LEMMA SettleCloses ==
  ASSUME MoneyIInv, CloseInv, tx.kind = "CLOSE", Settle
  PROVE  Closing(db, work', tx', stale, expired)
<1> DEFINE e == SettleCycle(work, tx.pool)
           u == Then(<<>>)
<1>1. At(tx, "settle") /\ work' = e /\ tx' = u
  BY DEF Settle, InPhase, At, Step
<1>2. /\ Closing(db, work, tx, stale, expired) /\ RowsTyped(work)
      /\ TxTyped(tx) /\ Prepared(work, tx) /\ tx.todo = ToSettle
  BY <1>1, ClosingAt
<1>3. work.active + 1 \in Cycles
  <2>1. 1 \in 1..Len(tx.todo) /\ tx.todo[1] = "settle"
    BY <1>1, <1>2, HeadIsFirst
  <2> QED BY <1>2, <2>1 DEF Prepared, Ahead
<1>4. /\ e.task = work.task /\ e.sub = work.sub /\ e.disp = work.disp /\ e.ban = work.ban
      /\ NextOpened(work, e)
  BY <1>2, <1>3, SettleOpens DEF MoneyIInv
<1>5. u.todo = <<>> /\ u.subs = tx.subs /\ u.disps = tx.disps
  <2>1. u.todo = <<>>
    BY <1>2, StageHeads, ThenFields
  <2> QED BY <1>2, <2>1 DEF Then, TxTyped, TxFields
<1> HIDE DEF e, u
<1>6. /\ Cleared(ToSettle) /\ Swept(ToSettle) /\ Evaluated(ToSettle)
      /\ ToSettle # <<>> /\ ToSettle # ClosePhases /\ ToSettle # ToFinalize
      /\ Evaluated(<<>>) /\ <<>> # ClosePhases
  BY StagesDiffer, StageHeads DEF Evaluated, Swept, Cleared
<1>7. /\ \A s \in Subs : ~Overdue(work, s, stale)
      /\ \A x \in Disps : ~Undecided(work, x)
      /\ \A g \in expired : ~ActiveClean(work, g)
      /\ work.active = db.active /\ SweepTargets(work) = {}
      /\ tx.subs = {} /\ tx.disps = {}
  BY <1>2, <1>6 DEF Closing
<1>8. /\ \A s \in Subs : ~Overdue(e, s, stale)
      /\ \A x \in Disps : ~Undecided(e, x)
  BY <1>4, <1>7 DEF Overdue, Undecided, TaskOf
<1>9. \A g : ActiveClean(e, g) <=> ActiveClean(work, g)
  BY <1>4 DEF ActiveClean, SubmittedOnTask, OpenDisputeOnTask, DispTask
<1>10. SweepTargets(e) = {}
  BY <1>4, <1>7, <1>9 DEF SweepTargets, Banned
<1>11. NextOpened(db, e)
  BY <1>4, <1>7 DEF NextOpened
<1>12. Closing(db, e, u, stale, expired)
  BY <1>5, <1>6, <1>7, <1>8, <1>9, <1>10, <1>11 DEF Closing
<1> QED BY <1>1, <1>12

\* What a dispute that is settled adds to what is left to do.
LEMMA ThenCloses ==
  ASSUME MoneyIInv, CloseInv, tx.kind = "CLOSE", At(tx, "finalize") \/ At(tx, "negatives"),
         NEW e, Onwards(work, e),
         At(tx, "finalize") => ~Undecided(e, tx.disp),
         NEW ps, Evaluating(ps \o ToEvaluate)
  PROVE  Closing(db, e, Then(ps), stale, expired)
<1> DEFINE u == Then(ps)
<1>1. /\ Closing(db, work, tx, stale, expired) /\ References(work) /\ TxTyped(tx)
      /\ At(tx, "finalize") => tx.todo = ToFinalize
      /\ At(tx, "negatives") => tx.todo = ToBan
  BY ClosingAt
<1>2. Tail(tx.todo) = ToEvaluate /\ tx.todo # <<>> /\ tx.todo # ClosePhases
  BY <1>1, StageHeads
<1>3. u.todo = ps \o ToEvaluate /\ u.subs = tx.subs /\ u.disps = tx.disps
  BY <1>1, <1>2 DEF Then, TxTyped, TxFields
<1> HIDE DEF u
<1>4. tx.subs = {} /\ \A y \in Disps : Undecided(work, y) =>
                          y \in tx.disps \/ (tx.todo = ToFinalize /\ y = tx.disp)
  BY <1>1, <1>2 DEF Closing
<1>5. tx.todo = ToFinalize => At(tx, "finalize")
  BY StageHeads DEF At
<1>6. \A y \in Disps : Undecided(e, y) => y \in u.disps
  BY <1>1, <1>3, <1>4, <1>5, NothingNew
<1>7. Closing(db, e, u, stale, expired)
  BY <1>1, <1>2, <1>3, <1>4, <1>6, ClosingGoesOn
<1> QED BY <1>7 DEF u

LEMMA FinalizeCloses ==
  ASSUME MoneyIInv, CloseInv, tx.kind = "CLOSE", Finalize
  PROVE  Closing(db, work', tx', stale, expired)
<1> DEFINE x == tx.disp
           e == FinalizeCompleted(work, x)
           sweep == IF PaysFromWallet(work, x) /\ Insolvent(work, x) THEN <<"sweep">> ELSE <<>>
           negatives == IF work.disp[x].history.exists THEN <<"negatives">> ELSE <<>>
           ps == sweep \o negatives
<1>1. At(tx, "finalize") /\ work' = e /\ tx' = Then(ps)
  BY DEF Finalize, InPhase, At, Step
<1>2. Good(work, Disps) /\ Prepared(work, tx)
  BY <1>1, ClosingAt
<1>3. x \in Disps /\ work.disp[x].status = "OPEN"
  BY <1>1, <1>2 DEF Prepared
<1>4. Onwards(work, e) /\ ~Undecided(e, x)
  BY <1>2, <1>3, FinalizeOnwards
<1>5. Evaluating(ps \o ToEvaluate)
  <2>1. sweep \in {<<>>, <<"sweep">>} /\ negatives \in {<<>>, <<"negatives">>}
    OBVIOUS
  <2> HIDE DEF sweep, negatives
  <2> QED BY <2>1, StagesInserted DEF Evaluating
<1> HIDE DEF e, ps
<1>6. Closing(db, e, Then(ps), stale, expired)
  BY <1>1, <1>4, <1>5, ThenCloses
<1> QED BY <1>1, <1>6

LEMMA BanNegativesCloses ==
  ASSUME MoneyIInv, CloseInv, tx.kind = "CLOSE", BanNegatives
  PROVE  Closing(db, work', tx', stale, expired)
<1> DEFINE A == NegativeAffected(work, tx.disp)
           e == BanAgents(work, A, "REOPEN_NEGATIVE_BALANCE", NoDispute)
           ps == IF HasActiveTask(e, A) THEN <<"sweep">> ELSE <<>>
<1>1. At(tx, "negatives") /\ work' = e /\ tx' = Then(ps)
  BY DEF BanNegatives, InPhase, At, Step
<1>2. RowsTyped(work)
  BY <1>1, ClosingAt
<1>3. Onwards(work, e)
  BY <1>2, BanOnwards
<1>4. Evaluating(ps \o ToEvaluate)
  <2>1. ps \in {<<>>, <<"sweep">>}
    OBVIOUS
  <2> HIDE DEF ps
  <2> QED BY <2>1, StagesInserted DEF Evaluating
<1>5. ~At(tx, "finalize")
  BY <1>1 DEF At
<1> HIDE DEF e, ps, A
<1>6. Closing(db, e, Then(ps), stale, expired)
  BY <1>1, <1>3, <1>4, <1>5, ThenCloses
<1> QED BY <1>1, <1>6

\* A loop of closing has nothing left to do: that is what the next stage relies on.
LEMMA LoopEndCloses ==
  ASSUME MoneyIInv, CloseInv, tx.kind = "CLOSE", LoopEnds
  PROVE  Closing(db, work', tx', stale, expired)
<1> DEFINE u == Then(<<>>)
<1>1. /\ work' = work /\ tx' = u
      /\ \/ At(tx, "stale") /\ tx.subs = {}
         \/ At(tx, "sweep") /\ SweepTargets(work) = {}
         \/ At(tx, "evaluate") /\ tx.disps = {}
         \/ At(tx, "expire") /\ \A g \in expired : ~ActiveClean(work, g)
         \/ At(tx, "unforce") \/ At(tx, "reconcile")
  BY DEF LoopEnds, InPhase, At, Step
<1>2. ~At(tx, "unforce") /\ ~At(tx, "reconcile")
  <2>1. ASSUME NEW p, At(tx, p) PROVE p # "unforce" /\ p # "reconcile"
    BY <2>1, ClosingAt
  <2> QED BY <2>1
<1>3. Closing(db, work, tx, stale, expired)
  BY DEF CloseInv
<1>4. TxTyped(tx) /\ tx.todo # <<>> /\ References(work)
  BY <1>1, <1>2, ClosingAt DEF At
<1>5. u.todo = Tail(tx.todo) /\ u.subs = tx.subs /\ u.disps = tx.disps /\ u.disp = tx.disp
  <2>1. u.todo = Tail(tx.todo)
    BY <1>4, ThenFields
  <2> QED BY <1>4, <2>1 DEF Then, TxTyped, TxFields
<1> HIDE DEF u
<1>6. /\ \A s \in Subs : Overdue(work, s, stale) => s \in tx.subs
      /\ \A x \in Disps : Undecided(work, x) =>
           x \in tx.disps \/ (tx.todo = ToFinalize /\ x = tx.disp)
      /\ work.active = db.active
  BY <1>3, <1>4 DEF Closing
<1>7. CASE At(tx, "stale") /\ tx.subs = {}
  <2>1. tx.todo = ClosePhases
    BY <1>7, ClosingAt
  <2>2. u.todo = ToSweepFirst /\ tx.todo # ToFinalize
    BY <1>5, <2>1, StageHeads
  <2>3. Evaluating(u.todo)
    BY <2>2 DEF Evaluating
  <2>4. Onwards(work, work)
    BY DEF Onwards
  <2>5. Closing(db, work, u, stale, expired)
    BY <1>3, <1>4, <1>5, <1>6, <1>7, <2>2, <2>3, <2>4, ClosingGoesOn
  <2> QED BY <1>1, <2>5
<1>8. CASE At(tx, "sweep") /\ SweepTargets(work) = {}
  <2>1. tx.todo \in {ToSweepFirst, ToSweepAndBan, ToSweep}
    BY <1>8, ClosingAt
  <2>2. tx.todo # ClosePhases /\ tx.todo # ToFinalize
    BY <2>1, StageHeads
  <2>3. tx.subs = {}
    BY <1>3, <2>2 DEF Closing
  <2>4. CASE tx.todo \in {ToSweepFirst, ToSweepAndBan}
    <3>1. Evaluating(u.todo)
      BY <1>5, <2>4, StageHeads DEF Evaluating
    <3>2. Onwards(work, work)
      BY DEF Onwards
    <3>3. Closing(db, work, u, stale, expired)
      BY <1>3, <1>4, <1>5, <1>6, <2>2, <2>3, <3>1, <3>2, ClosingGoesOn
    <3> QED BY <1>1, <3>3
  <2>5. CASE tx.todo = ToSweep
    <3>1. u.todo = ToExpire
      BY <1>5, <2>5, StageHeads
    <3>2. tx.disps = {}
      BY <1>3, <2>5 DEF Closing, Evaluated
    <3>3. /\ ~Cleared(ToExpire) /\ Evaluated(ToExpire) /\ ToExpire # <<>>
      BY StagesDiffer, StageHeads DEF Evaluated, Swept
    <3>4. Closing(db, work, u, stale, expired)
      BY <1>5, <1>6, <1>8, <2>2, <2>3, <3>1, <3>2, <3>3 DEF Closing
    <3> QED BY <1>1, <3>4
  <2> QED BY <2>1, <2>4, <2>5
<1>9. CASE At(tx, "evaluate") /\ tx.disps = {}
  <2>1. tx.todo = ToEvaluate
    BY <1>9, ClosingAt
  <2>2. u.todo = ToSweep /\ tx.todo # ClosePhases /\ tx.todo # ToFinalize /\ ToSweep # <<>>
    BY <1>5, <2>1, StageHeads
  <2>3. tx.subs = {}
    BY <1>3, <2>2 DEF Closing
  <2>4. ~Swept(ToSweep) /\ ~Cleared(ToSweep) /\ Evaluated(ToSweep)
    BY StagesDiffer DEF Evaluated, Swept
  <2>5. Closing(db, work, u, stale, expired)
    BY <1>5, <1>6, <1>9, <2>2, <2>3, <2>4 DEF Closing
  <2> QED BY <1>1, <2>5
<1>10. CASE At(tx, "expire") /\ \A g \in expired : ~ActiveClean(work, g)
  <2>1. tx.todo = ToExpire
    BY <1>10, ClosingAt
  <2>2. u.todo = ToSettle /\ tx.todo # ClosePhases /\ tx.todo # ToFinalize /\ ToSettle # <<>>
    BY <1>5, <2>1, StageHeads
  <2>3. tx.subs = {} /\ tx.disps = {} /\ SweepTargets(work) = {}
    BY <1>3, <2>1, <2>2 DEF Closing, Evaluated, Swept
  <2>4. Evaluated(ToSettle)
    BY DEF Evaluated, Swept, Cleared
  <2>5. Closing(db, work, u, stale, expired)
    BY <1>5, <1>6, <1>10, <2>2, <2>3, <2>4 DEF Closing
  <2> QED BY <1>1, <2>5
<1> QED BY <1>1, <1>2, <1>7, <1>8, <1>9, <1>10

-----------------------------------------------------------------------------
(* The invariant of closing.                                               *)

\* Only closing steps to another cycle.
LEMMA ActiveKept ==
  ASSUME MoneyIInv, RowsIInv', TxStep, tx.kind # "CLOSE"
  PROVE  work'.active = work.active
<1>1. /\ RowsIInv /\ DisputeIInv /\ Booked(work) /\ Noted(work, tx)
      /\ Past(work, tx.forced) /\ tx.pool \in Int
  BY DEF MoneyIInv, RowsIInv, Noted
<1>2. CASE RestoreForced
  BY <1>1, <1>2, RestoreForcedBooked
<1>3. CASE MovingStep
  BY <1>1, <1>3, StepMoved DEF Moved
<1>4. CASE Settle
  BY <1>1, <1>4, SettleStepBooked
<1>5. CASE Reconcile
  BY <1>1, <1>5, ReconcileStepBooked
<1> QED BY <1>2, <1>3, <1>4, <1>5 DEF TxStep, MovingStep

LEMMA TxStepCloses ==
  ASSUME MoneyIInv, RowsIInv', CloseInv, TxStep
  PROVE  CloseInv'
<1>1. UNCHANGED <<db, stale, expired>>
  BY DEF TxStep, AutoConfirmStale, SweepBanned, Evaluate, ExpireClean, Settle, Finalize,
         BanNegatives, RestoreForced, RestorePublisherBan, StartNewRound, Reconcile,
         LoopEnds, Step
<1>2. tx'.kind = tx.kind
  <2>1. TxTyped(tx) /\ Ordered(tx.kind, tx.todo)
    BY DEF MoneyIInv, RowsIInv, DisputeIInv, Ready
  <2> QED BY <2>1, NotesKept DEF TxTyped
<1>3. CASE tx.kind # "CLOSE"
  <2>1. work.active = db.active
    BY <1>3 DEF CloseInv
  <2>2. work'.active = work.active
    BY <1>3, ActiveKept
  <2> QED BY <1>1, <1>2, <1>3, <2>1, <2>2 DEF CloseInv
<1>4. CASE tx.kind = "CLOSE"
  <2>1. ASSUME NEW p, At(tx, p)
        PROVE  p \notin {"unforce", "restoreBan", "newRound", "reconcile"}
    BY <1>4, <2>1, ClosingAt
  <2>2. ~RestoreForced /\ ~RestorePublisherBan /\ ~StartNewRound
    BY <2>1 DEF RestoreForced, RestorePublisherBan, StartNewRound, InPhase, At
  <2>3. ~Reconcile
    BY <1>4 DEF Reconcile, MoneyIInv, Noted
  <2>4. Closing(db, work', tx', stale, expired)
    BY <1>4, <2>2, <2>3, AutoConfirmCloses, SweepCloses, EvaluateCloses, ExpireCloses,
       SettleCloses, FinalizeCloses, BanNegativesCloses, LoopEndCloses DEF TxStep
  <2> QED BY <1>1, <1>2, <1>4, <2>4 DEF CloseInv
<1> QED BY <1>3, <1>4

LEMMA BeginCloses ==
  ASSUME MoneyIInv, BeginClose
  PROVE  CloseInv'
<1>1. /\ ~Running /\ UNCHANGED <<db, work, expired, stale>>
      /\ tx'.kind = "CLOSE" /\ tx'.todo = ClosePhases
      /\ tx'.subs = StaleSubs(db) /\ tx'.disps = OpenDisputes(db)
  BY DEF BeginClose, Idle
<1>2. work = db
  BY <1>1 DEF MoneyIInv, RowsIInv, DisputeIInv
<1>3. /\ \A s \in Subs : Overdue(db, s, stale) => s \in StaleSubs(db)
      /\ \A x \in Disps : Undecided(db, x) => x \in OpenDisputes(db)
  BY DEF Overdue, StaleSubs, Undecided, OpenDisputes
<1>4. ~Evaluated(ClosePhases) /\ ~Swept(ClosePhases) /\ ~Cleared(ClosePhases) /\ ClosePhases # <<>>
  BY StagesDiffer, StageHeads DEF Evaluated, Swept
<1>5. Closing(db, work', tx', stale, expired)
  BY <1>1, <1>2, <1>3, <1>4 DEF Closing
<1> QED BY <1>1, <1>5 DEF CloseInv

LEMMA NextCloses ==
  ASSUME MoneyIInv, MoneyIInv', CloseInv, [Next]_vars
  PROVE  CloseInv'
<1>1. CASE ApiWrite
  <2>1. ~Running /\ work' = db' /\ UNCHANGED tx
    BY <1>1, WriteAlone
  <2> QED BY <2>1 DEF CloseInv, Running
<1>2. CASE Override
  <2>1. tx'.kind # "CLOSE"
    BY <1>2 DEF Override, BeginOverrideCompleted, BeginReopen, Idle
  <2>2. CASE \E x \in Disps : BeginOverrideCompleted(x)
    <3>1. work' = work /\ db' = db /\ work = db
      BY <2>2 DEF BeginOverrideCompleted, MoneyIInv, RowsIInv, DisputeIInv
    <3> QED BY <2>1, <3>1 DEF CloseInv
  <2>3. ASSUME NEW x \in Disps, BeginReopen(x)
        PROVE  work'.active = db'.active
    <3> DEFINE archived == ArchiveRound(db, x)
               rolled == RollbackResolution(archived, x)
    <3>1. db' = db /\ work' \in {archived, rolled}
      BY <2>3 DEF BeginReopen
    <3>2. Good(db, Disps) /\ RowsTyped(db) /\ Booked(db)
      BY DEF MoneyIInv, RowsIInv, DisputeIInv, Good
    <3>3. Good(archived, Disps)
      BY <3>2, ArchiveGood
    <3>4. archived.active = db.active
      BY <3>2, ArchiveMoved DEF Moved
    <3> HIDE DEF archived
    <3>5. rolled.active = archived.active
      BY <3>3 DEF RollbackResolution, Good, RowsTyped, TableNames
    <3> HIDE DEF rolled
    <3> QED BY <3>1, <3>4, <3>5
  <2> QED BY <1>2, <2>1, <2>2, <2>3 DEF Override, CloseInv
<1>3. CASE BeginClose
  BY <1>3, BeginCloses
<1>4. CASE TxStep
  BY <1>4, TxStepCloses DEF MoneyIInv
<1>5. CASE Commit \/ Abort \/ Crash
  <2>1. work' = db' /\ tx' = Idle
    BY <1>5 DEF Commit, Abort, Crash, RolledBack
  <2>2. tx'.kind = "IDLE"
    BY <2>1 DEF Idle
  <2> QED BY <2>1, <2>2 DEF CloseInv
<1>6. CASE Tick
  <2>1. ~Running /\ UNCHANGED <<db, work, tx>>
    BY <1>6 DEF Tick, SubmissionAges, DeadlinePasses
  <2> QED BY <2>1 DEF CloseInv, Running
<1>7. CASE UNCHANGED vars
  BY <1>7 DEF vars, CloseInv
<1> QED BY <1>1, <1>2, <1>3, <1>4, <1>5, <1>6, <1>7 DEF Next

LEMMA InitCloses == Init => CloseInv
BY DEF Init, CloseInv, Idle

\* What is committed.
LEMMA CommitCloses ==
  ASSUME MoneyIInv, CloseInv, [Next]_vars, db'.active # db.active
  PROVE  /\ db'.active = db.active + 1
         /\ db'.cycle[db.active].status = "CLOSED"
         /\ db'.cycle[db'.active].status = "OPEN"
         /\ ClosedCleanly(db')
<1>1. CASE ApiWrite
  <2>1. Moved(db, db')
    <3>1. Good(db, Disps) /\ Booked(db) /\ Funded(db)
      BY DEF MoneyIInv, RowsIInv, DisputeIInv, Agreeing
    <3>2. RowsIInv'
      BY NextRows DEF MoneyIInv
    <3> QED BY <1>1, <3>2, WriteMoney
  <2> QED BY <2>1 DEF Moved
<1>2. CASE Commit
  <2>1. db' = work /\ tx.todo = <<>>
    BY <1>2 DEF Commit
  <2>2. Closing(db, work, tx, stale, expired)
    BY <2>1 DEF CloseInv
  <2>3. /\ Evaluated(<<>>) /\ Swept(<<>>) /\ Cleared(<<>>)
        /\ <<>> # ClosePhases /\ <<>> # ToFinalize
    BY StageHeads DEF Evaluated, Swept, Cleared
  <2>4. /\ \A s \in Subs : ~Overdue(work, s, stale)
        /\ \A x \in Disps : ~Undecided(work, x)
        /\ SweepTargets(work) = {}
        /\ \A g \in expired : ~ActiveClean(work, g)
        /\ NextOpened(db, work)
    BY <2>1, <2>2, <2>3 DEF Closing
  <2>5. ClosedCleanly(work)
    BY <2>4 DEF ClosedCleanly, Overdue, Undecided, StaleSubs, OpenDisputes
  <2> QED BY <2>1, <2>4, <2>5 DEF NextOpened
<1>3. CASE Abort \/ Crash \/ Override \/ BeginClose \/ TxStep \/ Tick \/ UNCHANGED vars
  <2>1. db' = db
    BY <1>3 DEF Abort, Crash, RolledBack, Override, BeginClose, BeginOverrideCompleted,
                BeginReopen, Tick, SubmissionAges, DeadlinePasses, vars,
                TxStep, AutoConfirmStale, SweepBanned, Evaluate, ExpireClean, Settle, Finalize,
                BanNegatives, RestoreForced, RestorePublisherBan, StartNewRound, Reconcile,
                LoopEnds, Step
  <2> QED BY <2>1
<1> QED BY <1>1, <1>2, <1>3 DEF Next

\* A cycle is closed once, its successor opens with it, and what closing commits leaves
\* nothing behind that it had to clear: no stale submission on a task that is still
\* active, no dispute whose votes pass, no expired or banned publisher's task that could
\* be terminated, although settling a dispute can make work for the phases before it.
THEOREM CyclesCloseCleanly == Spec => ClosesCleanly
<1>1. CloseInv /\ MoneyIInv /\ MoneyIInv' /\ [Next]_vars => CloseInv'
  BY NextCloses
<1> DEFINE Cleanly == db'.active # db.active => /\ db'.active = db.active + 1
                                                /\ db'.cycle[db.active].status = "CLOSED"
                                                /\ db'.cycle[db'.active].status = "OPEN"
                                                /\ ClosedCleanly(db')
<1>2. MoneyIInv /\ CloseInv /\ [Next]_vars => [Cleanly]_vars
  BY CommitCloses
<1> QED BY <1>1, <1>2, InitCloses, MoneyInvariant, PTL DEF Spec, ClosesCleanly

-----------------------------------------------------------------------------
(* Who is in debt when a reopened dispute is settled again.                *)
(*                                                                         *)
(* The ban comes after the settlement, perhaps after a sweep, and other    *)
(* phases of the same transaction follow it.  None of them can bring       *)
(* anybody into debt: a wallet pays no more than it holds.                 *)

\* What overriding a dispute has left to do.
Overriding(todo) ==
  todo \in {<<"finalize">>, <<>>, <<"sweep">>, <<"negatives">>, <<"sweep", "negatives">>}

\* The ban of whom dispute x has left in debt is still to come.
BanAhead(todo) ==
  todo \in {<<"negatives">>, <<"sweep", "negatives">>, ToBan, ToSweepAndBan}

\* The rows name the same agents, and the disputes have the same history.
SameParties(d, e) ==
  /\ \A x \in Disps : e.disp[x].sub = d.disp[x].sub /\ e.disp[x].history = d.disp[x].history
  /\ \A s \in Subs : e.sub[s].task = d.sub[s].task /\ e.sub[s].agent = d.sub[s].agent
  /\ \A t \in Tasks : e.task[t].publisher = d.task[t].publisher

NoNewDebt(d, e) ==
  \A a \in Agents : /\ e.avail[a] < 0 => d.avail[a] < 0
                    /\ Banned(d, a) => Banned(e, a)

\* Whoever is party to dispute x and in debt is banned.
DebtsFaced(d, x) ==
  \A a \in {DispPublisher(d, x), DispWorker(d, x)} : d.avail[a] < 0 => Banned(d, a)

\* Dispute x was settled by the transaction that turned b into d.
Settled(b, d, x) == b.disp[x].status = "OPEN" /\ d.disp[x].status = "RESOLVED_COMPLETED"

DebtInv ==
  /\ tx.kind = "OVERRIDE_COMPLETED" => Overriding(tx.todo)
  /\ tx.kind # "REOPEN" => SameParties(db, work)
  /\ \A x \in Disps : Settled(db, work, x) =>
       /\ tx.kind # "REOPEN"
       /\ db.disp[x].history.exists => (tx.disp = x /\ BanAhead(tx.todo)) \/ DebtsFaced(work, x)

Harmless(d, e) == SameParties(d, e) /\ NoNewDebt(d, e)

LEMMA HarmlessTwice ==
  ASSUME NEW d, NEW e, NEW f, Harmless(d, e), Harmless(e, f)
  PROVE  Harmless(d, f)
BY DEF Harmless, SameParties, NoNewDebt

LEMMA PartiesSame ==
  ASSUME NEW d, References(d), NEW e, SameParties(d, e), NEW x \in Disps, d.disp[x].status # "NONE"
  PROVE  /\ DispPublisher(e, x) = DispPublisher(d, x)
         /\ DispWorker(e, x) = DispWorker(d, x)
<1>1. d.disp[x].sub \in Subs /\ DispTask(d, x) \in Tasks
  BY DisputeRefs
<1>2. e.disp[x].sub = d.disp[x].sub
  BY DEF SameParties
<1>3. DispTask(e, x) = DispTask(d, x) /\ DispWorker(e, x) = DispWorker(d, x)
  BY <1>1, <1>2 DEF SameParties, DispTask, DispWorker
<1>4. DispPublisher(e, x) = DispPublisher(d, x)
  BY <1>1, <1>3 DEF SameParties, DispPublisher
<1> QED BY <1>3, <1>4

LEMMA HarmlessParties ==
  ASSUME NEW d, References(d), NEW e, Harmless(d, e), NEW x \in Disps, d.disp[x].status # "NONE"
  PROVE  /\ DispPublisher(e, x) = DispPublisher(d, x)
         /\ DispWorker(e, x) = DispWorker(d, x)
         /\ DebtsFaced(d, x) => DebtsFaced(e, x)
<1>1. DispWorker(d, x) \in Agents /\ DispPublisher(d, x) \in Agents
  BY DisputeRefs
<1>2. DispPublisher(e, x) = DispPublisher(d, x) /\ DispWorker(e, x) = DispWorker(d, x)
  BY PartiesSame DEF Harmless
<1>3. DebtsFaced(d, x) => DebtsFaced(e, x)
  BY <1>1, <1>2 DEF Harmless, NoNewDebt, DebtsFaced
<1> QED BY <1>2, <1>3

\* An agent is paid an amount that is not negative.
LEMMA PaidNoDebt ==
  ASSUME NEW v \in [Agents -> Int], NEW p \in Agents, NEW n \in Nat,
         NEW w, w = [v EXCEPT ![p] = @ + n]
  PROVE  \A a \in Agents : w[a] < 0 => v[a] < 0
OBVIOUS

LEMMA ConfirmHarmless ==
  ASSUME NEW d, RowsTyped(d), References(d), d.avail \in [Agents -> Int],
         NEW s \in Subs, d.sub[s].status # "NONE", NEW x
  PROVE  Harmless(d, ConfirmInternal(d, s, x))
<1> DEFINE e == ConfirmInternal(d, s, x)
           t == d.sub[s].task
           p == d.sub[s].agent
           n == d.task[t].reward
<1>1. /\ e.disp = d.disp
      /\ e.sub = [d.sub EXCEPT ![s].status = "CONFIRMED"]
      /\ \A u \in Tasks : e.task[u].publisher = d.task[u].publisher
  BY ConfirmEffect
<1>2. p \in Agents /\ n \in Nat /\ d.avail \in [Agents -> Int]
  BY DEF References, RowsTyped, TaskRow
<1>3. e.avail = [d.avail EXCEPT ![p] = @ + n] /\ e.ban = d.ban
  BY DEF ConfirmInternal, RowsTyped, TableNames
<1> HIDE DEF e, n, p
<1>4. \A o \in Subs : e.sub[o].task = d.sub[o].task /\ e.sub[o].agent = d.sub[o].agent
  BY <1>1 DEF RowsTyped, SubRow
<1>5. SameParties(d, e)
  BY <1>1, <1>4 DEF SameParties
<1>6. \A a \in Agents : e.avail[a] < 0 => d.avail[a] < 0
  BY <1>2, <1>3, PaidNoDebt
<1>7. Harmless(d, e)
  BY <1>3, <1>5, <1>6 DEF Harmless, NoNewDebt, Banned
<1> QED BY <1>7 DEF e

LEMMA AutoConfirmHarmless ==
  ASSUME NEW d, RowsTyped(d), References(d), d.avail \in [Agents -> Int],
         NEW s \in Subs, d.sub[s].status # "NONE"
  PROVE  /\ Harmless(d, AutoConfirmed(d, s))
         /\ AutoConfirmed(d, s).disp = d.disp
<1> DEFINE t == d.sub[s].task
           e == AutoConfirmed(d, s)
<1>1. t \in Tasks
  BY DEF References
<1>2. CASE d.task[t].status \in ActiveTask /\ HasPayableSlot(d.task[t])
  <2>1. e = ConfirmInternal(d, s, NoDispute)
    BY <1>2 DEF AutoConfirmed
  <2>2. ConfirmInternal(d, s, NoDispute).disp = d.disp
    BY ConfirmWork
  <2>3. Harmless(d, ConfirmInternal(d, s, NoDispute))
    BY ConfirmHarmless
  <2> HIDE DEF e
  <2> QED BY <2>1, <2>2, <2>3 DEF e
<1>3. CASE d.task[t].status \notin ActiveTask
  <2>1. e = d
    BY <1>3 DEF AutoConfirmed
  <2> QED BY <2>1 DEF Harmless, SameParties, NoNewDebt
<1>4. CASE d.task[t].status \in ActiveTask /\ ~HasPayableSlot(d.task[t])
  <2>1. e = [d EXCEPT !.task[t].status = "CLOSED"]
    BY <1>4 DEF AutoConfirmed
  <2> HIDE DEF e, t
  <2>2. /\ e.sub = d.sub /\ e.disp = d.disp /\ e.ban = d.ban /\ e.avail = d.avail
        /\ e.task = [d.task EXCEPT ![t].status = "CLOSED"]
    BY <2>1 DEF RowsTyped, TableNames
  <2>3. \A u \in Tasks : e.task[u].publisher = d.task[u].publisher
    BY <1>1, <2>2 DEF RowsTyped, TaskRow
  <2>4. Harmless(d, e)
    BY <2>2, <2>3 DEF Harmless, SameParties, NoNewDebt, Banned
  <2> QED BY <2>2, <2>4 DEF e
<1> QED BY <1>2, <1>3, <1>4

\* A publisher is refunded what the penalty leaves of the escrow.
LEMMA TerminateHarmless ==
  ASSUME NEW d, RowsTyped(d), References(d), Booked(d), Funded(d),
         NEW t \in Tasks, d.task[t].status \in ActiveTask, NEW x
  PROVE  Harmless(d, TerminateInternal(d, t, x))
<1> DEFINE e == TerminateInternal(d, t, x)
           old == d.task[t]
           penalty == ComputeTerminationPenalty(old.escrow, TerminationPenaltyBps)
           refund == RefundAfter(old.escrow, penalty)
           entry == [task |-> t, cycle |-> d.active, status |-> old.status,
                     escrow |-> old.escrow, penalty |-> penalty, refund |-> refund]
           more(y) == [d.disp[y] EXCEPT !.snap.forced = Append(@, entry)]
           p == old.publisher
<1>1. p \in Agents /\ d.avail \in [Agents -> Int]
  BY DEF References, ActiveTask, Booked
<1>2. old.escrow \in Nat
  <2>1. Sized(old) /\ Whole(old, old.status, old.escrow)
    BY DEF Funded, FundedTasks, ActiveTask
  <2>2. PICK k \in 0..old.slots : old.escrow = k * old.reward
    BY <2>1 DEF Whole
  <2> QED BY <2>1, <2>2 DEF Sized
<1>3. refund \in Nat
  BY <1>2, PenaltySplits
<1>4. /\ e.avail = [d.avail EXCEPT ![p] = @ + refund]
      /\ e.sub = d.sub /\ e.ban = d.ban
      /\ e.disp = [y \in Disps |-> IF y = x /\ d.disp[y].source # "NONE" THEN more(y)
                                                                         ELSE d.disp[y]]
  BY DEF TerminateInternal, RowsTyped, TableNames
<1>5. \A u \in Tasks : e.task[u].publisher = d.task[u].publisher
  BY TerminateEffect
<1> HIDE DEF e, entry, refund, p
<1>6. \A y \in Disps : more(y).sub = d.disp[y].sub /\ more(y).history = d.disp[y].history
  BY DEF RowsTyped, DispFields
<1> HIDE DEF more
<1>7. SameParties(d, e)
  BY <1>4, <1>5, <1>6 DEF SameParties
<1>8. \A a \in Agents : e.avail[a] < 0 => d.avail[a] < 0
  BY <1>1, <1>3, <1>4, PaidNoDebt
<1>9. Harmless(d, e)
  BY <1>4, <1>7, <1>8 DEF Harmless, NoNewDebt, Banned
<1> QED BY <1>9 DEF e

LEMMA SettleHarmless ==
  ASSUME NEW d, RowsTyped(d), Booked(d), NEW pool \in Int
  PROVE  Harmless(d, SettleCycle(d, pool)) /\ SettleCycle(d, pool).disp = d.disp
<1> DEFINE e == SettleCycle(d, pool)
           amount == Distribution(d, d.active, pool)
<1>1. amount \in [Agents -> Nat] /\ d.avail \in [Agents -> Int]
  BY DistributionTyped DEF Booked
<1>2. /\ e.disp = d.disp /\ e.sub = d.sub /\ e.ban = d.ban /\ e.task = d.task
  BY DEF SettleCycle, RowsTyped, TableNames
<1>3. e.avail = [a \in Agents |-> d.avail[a] + amount[a]]
  BY DEF SettleCycle, RowsTyped, TableNames
<1> HIDE DEF e, amount
<1>4. \A a \in Agents : e.avail[a] < 0 => d.avail[a] < 0
  BY <1>1, <1>3
<1>5. Harmless(d, e)
  BY <1>2, <1>4 DEF Harmless, SameParties, NoNewDebt, Banned
<1> QED BY <1>2, <1>5 DEF e

\* A ban is never lifted by another one.
LEMMA BanHarmless ==
  ASSUME NEW d, RowsTyped(d), NEW A, NEW reason \in BanReason, NEW source \in Disps \cup {NoDispute}
  PROVE  LET e == BanAgents(d, A, reason, source)
         IN /\ Harmless(d, e)
            /\ e.disp = d.disp
            /\ \A a \in Agents : a \in A => Banned(e, a)
<1> DEFINE e == BanAgents(d, A, reason, source)
<1>1. /\ e.disp = d.disp /\ e.sub = d.sub /\ e.task = d.task /\ e.avail = d.avail
      /\ e.ban = [a \in Agents |->
                    IF a \in A THEN BanRowAfter(d.ban[a], reason, source) ELSE d.ban[a]]
  BY DEF BanAgents, RowsTyped, TableNames
<1>2. ASSUME NEW old \in BanRow
      PROVE  BanRowAfter(old, reason, source).status = "BANNED"
  BY DEF BanRowAfter, BanRow
<1> HIDE DEF e
<1>3. \A a \in Agents : /\ a \in A => Banned(e, a)
                        /\ Banned(d, a) => Banned(e, a)
  BY <1>1, <1>2 DEF Banned, RowsTyped
<1>4. Harmless(d, e)
  BY <1>1, <1>3 DEF Harmless, SameParties, NoNewDebt
<1> QED BY <1>1, <1>3, <1>4 DEF e

\* What a settlement leaves of dispute x: the row it had, paid and resolved.
LEMMA EscrowHarmless ==
  ASSUME NEW d, RowsTyped(d), References(d), d.avail \in [Agents -> Int], NEW x \in Disps,
         d.disp[x].status = "RESOLVED_COMPLETED"
  PROVE  Harmless(d, ResolveFromEscrow(d, x))
<1> DEFINE s == d.disp[x].sub
           c == ConfirmInternal(d, s, x)
           e == ResolveFromEscrow(d, x)
           reward == d.task[DispTask(d, x)].reward
           snap == SnapshotBefore(d, x)
           row == [c.disp[x] EXCEPT !.source = "ESCROW", !.payout = reward, !.snap = snap]
<1>1. e = [c EXCEPT !.disp[x] = row]
  BY DEF ResolveFromEscrow
<1>2. DOMAIN c = TableNames /\ c.disp = d.disp
  BY DEF ConfirmInternal, RowsTyped, TableNames
<1>3. s \in Subs /\ d.sub[s].status # "NONE"
  BY DisputeRefs
<1>4. Harmless(d, c)
  BY <1>3, ConfirmHarmless
<1> HIDE DEF c, e, snap, reward
<1>5. row.sub = d.disp[x].sub /\ row.history = d.disp[x].history
  BY <1>2 DEF RowsTyped, DispFields
<1> HIDE DEF row
<1>6. /\ e.sub = c.sub /\ e.task = c.task /\ e.avail = c.avail /\ e.ban = c.ban
      /\ e.disp = [c.disp EXCEPT ![x] = row]
  BY <1>1, <1>2 DEF TableNames
<1>7. \A y \in Disps : e.disp[y].sub = d.disp[y].sub /\ e.disp[y].history = d.disp[y].history
  BY <1>2, <1>5, <1>6 DEF RowsTyped
<1>8. Harmless(d, e)
  BY <1>4, <1>6, <1>7 DEF Harmless, SameParties, NoNewDebt, Banned
<1> QED BY <1>8 DEF e

\* A wallet pays no more than it holds.
LEMMA PayoutNoDebt ==
  ASSUME NEW v \in [Agents -> Int], NEW p \in Agents, NEW w \in Agents, NEW n \in Int,
         n >= 0, n > 0 => v[p] - n >= 0,
         NEW once, once = [v EXCEPT ![p] = @ - n],
         NEW twice, twice = [once EXCEPT ![w] = @ + n]
  PROVE  \A a \in Agents : twice[a] < 0 => v[a] < 0
<1>1. once \in [Agents -> Int] /\ \A a \in Agents : once[a] < 0 => v[a] < 0
  OBVIOUS
<1>2. \A a \in Agents : twice[a] < 0 => once[a] < 0
  BY <1>1
<1> QED BY <1>1, <1>2

LEMMA WalletHarmless ==
  ASSUME NEW d, RowsTyped(d), References(d), d.avail \in [Agents -> Int], NEW x \in Disps,
         d.disp[x].status = "RESOLVED_COMPLETED"
  PROVE  Harmless(d, ResolveFromWallet(d, x))
<1> DEFINE s == d.disp[x].sub
           t == DispTask(d, x)
           task == d.task[t]
           p == task.publisher
           w == d.sub[s].agent
           paid == WalletPayout(d, x)
           source == IF Insolvent(d, x) THEN "PUBLISHER_WALLET_PARTIAL" ELSE "PUBLISHER_WALLET"
           row == [d.disp[x] EXCEPT !.source = source, !.payout = paid,
                                    !.snap = SnapshotBefore(d, x)]
           taskAfter == [task EXCEPT !.completed = @ \cup {d.sub[s].agent},
                                     !.status = IF HasPayableSlot(task) THEN @ ELSE "CLOSED"]
           settled == [d EXCEPT
             !.avail[task.publisher] = @ - paid,
             !.avail[d.sub[s].agent] = @ + paid,
             !.sub[s].status = "DISPUTE_COMPLETED",
             !.task[t] = taskAfter,
             !.work = @ \cup CompletionWork(d, s, x),
             !.disp[x] = row]
           banned == BanAgents(settled, {task.publisher}, "DISPUTE_INSOLVENCY", x)
           e == ResolveFromWallet(d, x)
<1>1. /\ s \in Subs /\ d.sub[s].status # "NONE" /\ t \in Tasks
      /\ w \in Agents /\ p \in Agents /\ d.task[t].status # "NONE"
  BY DisputeRefs DEF DispWorker, DispPublisher
<1>2. e \in {settled, banned}
  BY DEF ResolveFromWallet
<1>3. paid \in Int /\ paid >= 0 /\ (paid > 0 => d.avail[p] - paid >= 0)
  <2>1. d.avail[p] \in Int /\ task.reward \in Nat
    BY <1>1 DEF RowsTyped, TaskRow
  <2>2. paid = IF d.avail[p] <= 0 THEN 0 ELSE IF d.avail[p] < task.reward THEN d.avail[p] ELSE task.reward
    BY DEF WalletPayout, DispPublisher
  <2> HIDE DEF paid, task
  <2> QED BY <2>1, <2>2
<1>4. row.sub = d.disp[x].sub /\ row.history = d.disp[x].history
  BY DEF RowsTyped, DispFields
<1>5. taskAfter.publisher = p
  BY <1>1 DEF RowsTyped, TaskRow
<1> DEFINE once == [d.avail EXCEPT ![p] = @ - paid]
           twice == [once EXCEPT ![w] = @ + paid]
<1> HIDE DEF paid, source, row, taskAfter
<1>6. DOMAIN d = TableNames
  BY DEF RowsTyped
<1>7. settled.avail = twice
  BY <1>6 DEF TableNames
<1>8. /\ settled.ban = d.ban
      /\ settled.sub = [d.sub EXCEPT ![s].status = "DISPUTE_COMPLETED"]
      /\ settled.task = [d.task EXCEPT ![t] = taskAfter]
      /\ settled.disp = [d.disp EXCEPT ![x] = row]
      /\ DOMAIN settled = TableNames
  BY <1>6 DEF TableNames
<1> HIDE DEF settled, e
<1>9. \A a \in Agents : twice[a] < 0 => d.avail[a] < 0
  <2> HIDE DEF twice, p, w
  <2> DEFINE v == d.avail
  <2>1. v \in [Agents -> Int]
    OBVIOUS
  <2>2. once = [v EXCEPT ![p] = @ - paid] /\ twice = [once EXCEPT ![w] = @ + paid]
    BY DEF twice
  <2>3. paid > 0 => v[p] - paid >= 0
    BY <1>3
  <2> HIDE DEF v, once
  <2>4. \A a \in Agents : twice[a] < 0 => v[a] < 0
    BY <1>1, <1>3, <2>1, <2>2, <2>3, PayoutNoDebt
  <2> QED BY <2>4 DEF v
<1>10. SameParties(d, settled)
  <2>1. \A y \in Disps : settled.disp[y].sub = d.disp[y].sub
                         /\ settled.disp[y].history = d.disp[y].history
    BY <1>4, <1>8 DEF RowsTyped
  <2>2. \A o \in Subs : settled.sub[o].task = d.sub[o].task /\ settled.sub[o].agent = d.sub[o].agent
    BY <1>1, <1>8 DEF RowsTyped, SubRow
  <2>3. \A u \in Tasks : settled.task[u].publisher = d.task[u].publisher
    BY <1>1, <1>5, <1>8 DEF RowsTyped
  <2> QED BY <2>1, <2>2, <2>3 DEF SameParties
<1>11. \A a \in Agents : settled.avail[a] < 0 => d.avail[a] < 0
  BY <1>7, <1>9
<1> HIDE DEF twice
<1>12. Harmless(d, settled)
  BY <1>8, <1>10, <1>11 DEF Harmless, NoNewDebt, Banned
<1>13. /\ banned.disp = settled.disp /\ banned.sub = settled.sub
       /\ banned.task = settled.task /\ banned.avail = settled.avail
       /\ banned.ban = [a \in Agents |->
                          IF a \in {p} THEN BanRowAfter(d.ban[a], "DISPUTE_INSOLVENCY", x)
                                       ELSE d.ban[a]]
  BY <1>8 DEF BanAgents, TableNames
<1>14. \A a \in Agents : Banned(d, a) => Banned(banned, a)
  <2>1. ASSUME NEW old \in BanRow
        PROVE  BanRowAfter(old, "DISPUTE_INSOLVENCY", x).status = "BANNED"
    BY DEF BanRowAfter, BanRow
  <2> HIDE DEF banned
  <2> QED BY <1>13, <2>1 DEF Banned, RowsTyped
<1> HIDE DEF banned
<1>15. Harmless(d, banned)
  BY <1>12, <1>13, <1>14 DEF Harmless, SameParties, NoNewDebt
<1>16. Harmless(d, e)
  BY <1>2, <1>12, <1>15
<1> QED BY <1>16 DEF e

LEMMA FinalizeHarmless ==
  ASSUME NEW d, Good(d, Disps), Booked(d), NEW x \in Disps, d.disp[x].status = "OPEN"
  PROVE  Harmless(d, FinalizeCompleted(d, x))
<1> DEFINE m == [d EXCEPT !.disp[x].status = "RESOLVED_COMPLETED"]
           s == d.disp[x].sub
           e == FinalizeCompleted(d, x)
<1>1. RowsTyped(d) /\ References(d) /\ DisputeBacked(d, Disps)
  BY DEF Good
<1>2. /\ RowsTyped(m) /\ References(m)
      /\ m.disp[x].status = "RESOLVED_COMPLETED"
  BY <1>1, MarkResolved
<1>3. s \in Subs /\ d.sub[s].status = "REJECTED"
  BY <1>1, DisputeRefs DEF DisputeBacked, DispTask
<1>4. e \in {ResolveFromEscrow(m, x), ResolveFromWallet(m, x)}
  BY <1>3 DEF FinalizeCompleted, PaysFromEscrow, PaysFromWallet, AlreadyCompleted, CompletedSub
<1>5. /\ m.task = d.task /\ m.sub = d.sub /\ m.avail = d.avail /\ m.ban = d.ban
      /\ \A y \in Disps : m.disp[y].sub = d.disp[y].sub /\ m.disp[y].history = d.disp[y].history
  BY <1>1 DEF RowsTyped, TableNames, DispFields
<1>6. m.avail \in [Agents -> Int]
  BY <1>5 DEF Booked
<1> HIDE DEF m, e
<1>7. Harmless(d, m)
  BY <1>5 DEF Harmless, SameParties, NoNewDebt, Banned
<1>8. Harmless(m, e)
  BY <1>2, <1>4, <1>6, EscrowHarmless, WalletHarmless
<1>9. Harmless(d, e)
  BY <1>7, <1>8, HarmlessTwice
<1> QED BY <1>9 DEF e

-----------------------------------------------------------------------------
(* The schedules of a settlement.                                          *)

Staged(todo) == todo = ClosePhases \/ Evaluating(todo) \/ Evaluated(todo) \/ Overriding(todo)

LEMMA OverrideStages ==
  /\ (<<>> \o <<>>) \o <<>> = <<>>
  /\ (<<"sweep">> \o <<>>) \o <<>> = <<"sweep">>
  /\ (<<>> \o <<"negatives">>) \o <<>> = <<"negatives">>
  /\ (<<"sweep">> \o <<"negatives">>) \o <<>> = <<"sweep", "negatives">>
  /\ <<>> \o <<>> = <<>>
  /\ <<"sweep">> \o <<>> = <<"sweep">>
<1>1. /\ <<>> \o <<>> = <<>> /\ <<"sweep">> \o <<>> = <<"sweep">>
      /\ <<>> \o <<"negatives">> = <<"negatives">> /\ <<"negatives">> \o <<>> = <<"negatives">>
  OBVIOUS
<1> DEFINE both == <<"sweep", "negatives">>
<1>2. both \in Seq(Phases) /\ Len(both) = 2 /\ both[1] = "sweep" /\ both[2] = "negatives"
  BY DEF Phases
<1>3. <<"sweep">> \o <<"negatives">> = both
  <2>1. <<"sweep">> \in Seq(Phases) /\ Len(<<"sweep">>) = 1 /\ <<"sweep">>[1] = "sweep"
    BY DEF Phases
  <2>2. <<"negatives">> \in Seq(Phases) /\ Len(<<"negatives">>) = 1
        /\ <<"negatives">>[1] = "negatives"
    BY DEF Phases
  <2> DEFINE a == <<"sweep">>
             b == <<"negatives">>
  <2> HIDE DEF both, a, b
  <2>3. a \o b = both
    BY <1>2, <2>1, <2>2, Concatenated DEF a, b
  <2> QED BY <2>3 DEF a, b
<1> HIDE DEF both
<1>4. both \o <<>> = both
  BY <1>2
<1> QED BY <1>1, <1>3, <1>4 DEF both

LEMMA OverrideHeads ==
  /\ Head(<<"finalize">>) = "finalize" /\ Tail(<<"finalize">>) = <<>>
  /\ Head(<<"sweep">>) = "sweep" /\ Tail(<<"sweep">>) = <<>>
  /\ Head(<<"negatives">>) = "negatives" /\ Tail(<<"negatives">>) = <<>>
  /\ Head(<<"sweep", "negatives">>) = "sweep" /\ Tail(<<"sweep", "negatives">>) = <<"negatives">>
OBVIOUS

\* Nothing comes between the settlement of a dispute and the ban but sweeps.
LEMMA StagedAt ==
  ASSUME NEW todo, Staged(todo), todo # <<>>
  PROVE  /\ Head(todo) \in {"stale", "sweep", "evaluate", "finalize", "negatives", "expire",
                            "settle"}
         /\ BanAhead(todo) => Head(todo) \in {"sweep", "negatives"}
         /\ BanAhead(todo) /\ Head(todo) = "sweep" => BanAhead(Tail(todo))
         /\ Head(todo) = "finalize" =>
              \A ps \in {<<>>, <<"sweep">>} : BanAhead((ps \o <<"negatives">>) \o Tail(todo))
<1>1. todo \in {ClosePhases, ToSweepFirst, ToEvaluate, ToFinalize, ToBan, ToSweepAndBan,
                ToSweep, ToExpire, ToSettle,
                <<"finalize">>, <<"sweep">>, <<"negatives">>, <<"sweep", "negatives">>}
  BY DEF Staged, Evaluating, Evaluated, Swept, Cleared, Overriding
<1>2. Head(todo) \in {"stale", "sweep", "evaluate", "finalize", "negatives", "expire", "settle"}
  BY <1>1, StageHeads, OverrideHeads
<1>3. BanAhead(todo) => Head(todo) \in {"sweep", "negatives"}
  BY StageHeads, OverrideHeads DEF BanAhead
<1>4. BanAhead(todo) /\ Head(todo) = "sweep" => BanAhead(Tail(todo))
  BY StageHeads, OverrideHeads DEF BanAhead
<1>5. ASSUME Head(todo) = "finalize", NEW ps \in {<<>>, <<"sweep">>}
      PROVE  BanAhead((ps \o <<"negatives">>) \o Tail(todo))
  <2>1. todo \in {ToFinalize, <<"finalize">>}
    BY <1>1, <1>5, StageHeads, OverrideHeads
  <2>2. CASE todo = ToFinalize
    BY <1>5, <2>2, StageHeads, StagesInserted DEF BanAhead
  <2>3. CASE todo = <<"finalize">>
    BY <1>5, <2>3, OverrideHeads, OverrideStages DEF BanAhead
  <2> QED BY <2>1, <2>2, <2>3
<1> QED BY <1>2, <1>3, <1>4, <1>5

-----------------------------------------------------------------------------
(* The steps of a settlement.                                              *)

\* Where a transaction other than reopening is.
LEMMA SettlingAt ==
  ASSUME MoneyIInv, CloseInv, DebtInv, tx.kind # "REOPEN", tx.todo # <<>>
  PROVE  /\ tx.kind \in {"CLOSE", "OVERRIDE_COMPLETED"}
         /\ Staged(tx.todo)
         /\ Good(work, Disps) /\ RowsTyped(work) /\ References(work)
         /\ Booked(work) /\ Funded(work) /\ work.avail \in [Agents -> Int]
         /\ TxTyped(tx) /\ Prepared(work, tx) /\ expired \subseteq Tasks
<1>1. /\ Good(work, Disps \ Reopening(tx)) /\ TxTyped(tx) /\ Prepared(work, tx)
      /\ expired \subseteq Tasks /\ Running
  BY DEF MoneyIInv, RowsIInv, DisputeIInv, Ready
<1>2. Good(work, Disps)
  BY <1>1 DEF Reopening
<1>3. tx.kind \in {"CLOSE", "OVERRIDE_COMPLETED"}
  BY <1>1 DEF TxTyped, TxKinds, Running
<1>4. Staged(tx.todo)
  BY <1>3 DEF CloseInv, Closing, DebtInv, Staged
<1>5. Booked(work) /\ Funded(work) /\ work.avail \in [Agents -> Int]
  BY DEF MoneyIInv, RowsIInv, Agreeing, Booked
<1> QED BY <1>1, <1>2, <1>3, <1>4, <1>5 DEF Good

\* What a step that settles no dispute has to respect.
DebtsKept(e, u) ==
  /\ SameParties(db, e)
  /\ \A x \in Disps : Settled(db, e, x) /\ db.disp[x].history.exists =>
       (u.disp = x /\ BanAhead(u.todo)) \/ DebtsFaced(e, x)

LEMMA HarmlessDebts ==
  ASSUME MoneyIInv, DebtInv, tx.kind # "REOPEN",
         NEW e, Harmless(work, e),
         \A x \in Disps : e.disp[x].status = work.disp[x].status,
         NEW u, BanAhead(tx.todo) => u.disp = tx.disp /\ BanAhead(u.todo)
  PROVE  DebtsKept(e, u)
<1>1. SameParties(db, work)
  BY DEF DebtInv
<1>2. SameParties(db, e)
  BY <1>1 DEF Harmless, SameParties
<1>3. References(work)
  BY DEF MoneyIInv, RowsIInv, DisputeIInv, Ready, Good
<1>4. ASSUME NEW x \in Disps, Settled(db, e, x), db.disp[x].history.exists
      PROVE  (u.disp = x /\ BanAhead(u.todo)) \/ DebtsFaced(e, x)
  <2>1. Settled(db, work, x) /\ work.disp[x].status # "NONE"
    BY <1>4 DEF Settled
  <2>2. (tx.disp = x /\ BanAhead(tx.todo)) \/ DebtsFaced(work, x)
    BY <1>4, <2>1 DEF DebtInv
  <2>3. DebtsFaced(work, x) => DebtsFaced(e, x)
    BY <1>3, <2>1, HarmlessParties
  <2> QED BY <2>2, <2>3
<1> QED BY <1>2, <1>4 DEF DebtsKept

LEMMA AutoConfirmDebts ==
  ASSUME MoneyIInv, CloseInv, DebtInv, tx.kind # "REOPEN", AutoConfirmStale
  PROVE  DebtsKept(work', tx')
<1> DEFINE s == First(tx.subs)
           e == AutoConfirmed(work, s)
           u == [tx EXCEPT !.subs = @ \ {s}]
<1>1. tx.todo # <<>> /\ work' = e /\ tx' = u
  BY DEF AutoConfirmStale, InPhase, Step
<1>2. /\ RowsTyped(work) /\ References(work) /\ work.avail \in [Agents -> Int] /\ TxTyped(tx)
  BY <1>1, SettlingAt
<1>3. s \in Subs /\ work.sub[s].status = "SUBMITTED"
  BY StaleFirst DEF MoneyIInv, RowsIInv
<1>4. u.disp = tx.disp /\ u.todo = tx.todo
  BY <1>2 DEF TxTyped, TxFields
<1>5. Harmless(work, e) /\ e.disp = work.disp
  BY <1>2, <1>3, AutoConfirmHarmless
<1> HIDE DEF u, e
<1>6. DebtsKept(e, u)
  BY <1>4, <1>5, HarmlessDebts
<1> QED BY <1>1, <1>6

\* A banned publisher's or an expired task is terminated.
LEMMA SweepDebts ==
  ASSUME MoneyIInv, CloseInv, DebtInv, tx.kind # "REOPEN", SweepBanned \/ ExpireClean
  PROVE  DebtsKept(work', tx')
<1>1. tx.todo # <<>> /\ tx' = tx
  BY DEF SweepBanned, ExpireClean, InPhase, Step
<1>2. /\ RowsTyped(work) /\ References(work) /\ Booked(work) /\ Funded(work)
      /\ expired \subseteq Tasks
  BY <1>1, SettlingAt
<1>3. \E t \in Tasks : ActiveClean(work, t) /\ \E x : work' = TerminateInternal(work, t, x)
  <2>1. CASE SweepBanned
    <3>1. PICK t \in SweepTargets(work) : work' = SweepOne(work, t)
      BY <2>1 DEF SweepBanned, Step
    <3>2. t \in Tasks /\ ActiveClean(work, t)
      BY <3>1 DEF SweepTargets
    <3> QED BY <3>1, <3>2 DEF SweepOne
  <2>2. CASE ExpireClean
    BY <1>2, <2>2 DEF ExpireClean, Step
  <2> QED BY <2>1, <2>2
<1> PICK t \in Tasks : ActiveClean(work, t) /\ \E x : work' = TerminateInternal(work, t, x)
  BY <1>3
<1> PICK x : work' = TerminateInternal(work, t, x)
  OBVIOUS
<1> DEFINE e == TerminateInternal(work, t, x)
<1>4. work.task[t].status \in ActiveTask
  BY DEF ActiveClean
<1>5. Harmless(work, e)
  BY <1>2, <1>4, TerminateHarmless
<1>6. \A y \in Disps : e.disp[y].status = work.disp[y].status
  BY <1>2, TerminateKeeps DEF ReviewKept, DisputeKept
<1> HIDE DEF e
<1>7. DebtsKept(e, tx)
  BY <1>5, <1>6, HarmlessDebts
<1> QED BY <1>1, <1>7 DEF e

LEMMA EvaluateDebts ==
  ASSUME MoneyIInv, CloseInv, DebtInv, tx.kind # "REOPEN", Evaluate
  PROVE  DebtsKept(work', tx')
<1>1. tx.todo # <<>> /\ Head(tx.todo) = "evaluate" /\ work' = work
  BY DEF Evaluate, InPhase, Step
<1>2. ~BanAhead(tx.todo)
  BY <1>1, SettlingAt, StagedAt
<1>3. Harmless(work, work)
  BY DEF Harmless, SameParties, NoNewDebt
<1> DEFINE u == tx'
<1> HIDE DEF u
<1>4. DebtsKept(work, u)
  BY <1>2, <1>3, HarmlessDebts
<1> QED BY <1>1, <1>4 DEF u

LEMMA SettleDebts ==
  ASSUME MoneyIInv, CloseInv, DebtInv, tx.kind # "REOPEN", Settle
  PROVE  DebtsKept(work', tx')
<1> DEFINE e == SettleCycle(work, tx.pool)
<1>1. tx.todo # <<>> /\ Head(tx.todo) = "settle" /\ work' = e
  BY DEF Settle, InPhase, Step
<1>2. ~BanAhead(tx.todo) /\ RowsTyped(work) /\ Booked(work)
  BY <1>1, SettlingAt, StagedAt
<1>3. Harmless(work, e) /\ e.disp = work.disp
  BY <1>2, SettleHarmless DEF MoneyIInv, Noted
<1> DEFINE u == tx'
<1> HIDE DEF u, e
<1>4. DebtsKept(e, u)
  BY <1>2, <1>3, HarmlessDebts
<1> QED BY <1>1, <1>4 DEF u

LEMMA LoopEndDebts ==
  ASSUME MoneyIInv, CloseInv, DebtInv, tx.kind # "REOPEN", LoopEnds
  PROVE  DebtsKept(work', tx')
<1>1. tx.todo # <<>> /\ Head(tx.todo) # "negatives" /\ work' = work /\ tx' = Then(<<>>)
  BY DEF LoopEnds, InPhase, Step
<1>2. Staged(tx.todo) /\ TxTyped(tx)
  BY <1>1, SettlingAt
<1>3. Then(<<>>).disp = tx.disp /\ Then(<<>>).todo = Tail(tx.todo)
  BY <1>1, <1>2, ThenFields
<1>4. BanAhead(tx.todo) => BanAhead(Tail(tx.todo))
  BY <1>1, <1>2, StagedAt
<1>5. Harmless(work, work)
  BY DEF Harmless, SameParties, NoNewDebt
<1> DEFINE u == Then(<<>>)
<1> HIDE DEF u
<1>6. DebtsKept(work, u)
  BY <1>3, <1>4, <1>5, HarmlessDebts DEF u
<1> QED BY <1>1, <1>6 DEF u

\* A dispute that has been settled before is settled again: the ban is scheduled.
LEMMA FinalizeDebts ==
  ASSUME MoneyIInv, CloseInv, DebtInv, tx.kind # "REOPEN", Finalize
  PROVE  DebtsKept(work', tx')
<1> DEFINE x == tx.disp
           e == FinalizeCompleted(work, x)
           sweep == IF PaysFromWallet(work, x) /\ Insolvent(work, x) THEN <<"sweep">> ELSE <<>>
           negatives == IF work.disp[x].history.exists THEN <<"negatives">> ELSE <<>>
           u == Then(sweep \o negatives)
<1>1. At(tx, "finalize") /\ tx.todo # <<>> /\ Head(tx.todo) = "finalize" /\ work' = e /\ tx' = u
  BY DEF Finalize, InPhase, At, Step
<1>2. /\ Staged(tx.todo) /\ Good(work, Disps) /\ References(work) /\ Booked(work)
      /\ TxTyped(tx) /\ Prepared(work, tx)
  BY <1>1, SettlingAt
<1>3. x \in Disps /\ work.disp[x].status = "OPEN"
  BY <1>1, <1>2 DEF Prepared
<1>4. Harmless(work, e) /\ Decided(work, e, x)
  BY <1>2, <1>3, FinalizeHarmless, FinalizeDecides
<1>5. ~BanAhead(tx.todo)
  BY <1>1, <1>2, StagedAt
<1>6. SameParties(db, work) /\ SameParties(db, e)
  BY <1>4 DEF DebtInv, Harmless, SameParties
<1>7. u.disp = x /\ u.todo = (sweep \o negatives) \o Tail(tx.todo)
  <2> HIDE DEF sweep, negatives
  <2> QED BY <1>2 DEF Then, TxTyped, TxFields
<1>8. db.disp[x].history.exists => BanAhead(u.todo)
  <2>1. SUFFICES ASSUME db.disp[x].history.exists PROVE BanAhead(u.todo)
    OBVIOUS
  <2>2. negatives = <<"negatives">>
    BY <1>3, <1>6, <2>1 DEF SameParties
  <2>3. sweep \in {<<>>, <<"sweep">>}
    OBVIOUS
  <2> HIDE DEF sweep, negatives, u
  <2>4. BanAhead((sweep \o <<"negatives">>) \o Tail(tx.todo))
    BY <1>1, <1>2, <2>3, StagedAt
  <2> QED BY <1>7, <2>2, <2>4
<1> HIDE DEF e, u
<1>9. ASSUME NEW y \in Disps, Settled(db, e, y), db.disp[y].history.exists
      PROVE  (u.disp = y /\ BanAhead(u.todo)) \/ DebtsFaced(e, y)
  <2>1. CASE y = x
    BY <1>7, <1>8, <1>9, <2>1
  <2>2. CASE y # x
    <3>1. e.disp[y] = work.disp[y]
      BY <1>4, <2>2 DEF Decided
    <3>2. Settled(db, work, y) /\ work.disp[y].status # "NONE"
      BY <1>9, <3>1 DEF Settled
    <3>3. DebtsFaced(work, y)
      BY <1>5, <1>9, <3>2 DEF DebtInv
    <3> QED BY <1>2, <1>4, <3>2, <3>3, HarmlessParties
  <2> QED BY <2>1, <2>2
<1>10. DebtsKept(e, u)
  BY <1>6, <1>9 DEF DebtsKept
<1> QED BY <1>1, <1>10

\* Both parties are among those who are banned if they are in debt.
LEMMA BanNegativesDebts ==
  ASSUME MoneyIInv, CloseInv, DebtInv, tx.kind # "REOPEN", BanNegatives
  PROVE  DebtsKept(work', tx')
<1> DEFINE A == NegativeAffected(work, tx.disp)
           e == BanAgents(work, A, "REOPEN_NEGATIVE_BALANCE", NoDispute)
<1>1. tx.todo # <<>> /\ work' = e
  BY DEF BanNegatives, InPhase, Step
<1>2. RowsTyped(work) /\ References(work)
  BY <1>1, SettlingAt
<1>3. /\ Harmless(work, e) /\ e.disp = work.disp
      /\ \A a \in Agents : a \in A => Banned(e, a)
  <2>1. "REOPEN_NEGATIVE_BALANCE" \in BanReason
    BY DEF BanReason
  <2> HIDE DEF A
  <2> QED BY <1>2, <2>1, BanHarmless
<1>4. \A a \in {DispWorker(work, tx.disp), DispPublisher(work, tx.disp)} :
        work.avail[a] < 0 => a \in A
  BY DEF NegativeAffected
<1>5. SameParties(db, work) /\ SameParties(db, e)
  BY <1>3 DEF DebtInv, Harmless, SameParties
<1>6. e.avail = work.avail
  BY <1>2 DEF BanAgents, RowsTyped, TableNames
<1> DEFINE u == tx'
<1> HIDE DEF A, e, u
<1>7. ASSUME NEW y \in Disps, Settled(db, e, y), db.disp[y].history.exists
      PROVE  (u.disp = y /\ BanAhead(u.todo)) \/ DebtsFaced(e, y)
  <2>1. Settled(db, work, y) /\ work.disp[y].status # "NONE"
    BY <1>3, <1>7 DEF Settled
  <2>2. /\ DispPublisher(e, y) = DispPublisher(work, y) /\ DispWorker(e, y) = DispWorker(work, y)
        /\ DebtsFaced(work, y) => DebtsFaced(e, y)
    BY <1>2, <1>3, <2>1, HarmlessParties
  <2>3. CASE tx.disp = y
    <3>1. DispWorker(work, y) \in Agents /\ DispPublisher(work, y) \in Agents
      BY <1>2, <2>1, DisputeRefs
    <3>2. \A a \in {DispPublisher(work, y), DispWorker(work, y)} :
            work.avail[a] < 0 => Banned(e, a)
      BY <1>3, <1>4, <2>3, <3>1
    <3> QED BY <1>6, <2>2, <3>2 DEF DebtsFaced
  <2>4. CASE tx.disp # y
    BY <1>7, <2>1, <2>2, <2>4 DEF DebtInv
  <2> QED BY <2>3, <2>4
<1>8. DebtsKept(e, u)
  BY <1>5, <1>7 DEF DebtsKept
<1> QED BY <1>1, <1>8 DEF u

-----------------------------------------------------------------------------
(* The invariant of debts.                                                 *)

LEMMA OverridingKept ==
  ASSUME MoneyIInv, CloseInv, DebtInv, tx.kind = "OVERRIDE_COMPLETED", TxStep
  PROVE  Overriding(tx'.todo)
<1>1. tx.todo # <<>>
  BY DEF TxStep, AutoConfirmStale, SweepBanned, Evaluate, ExpireClean, Settle, Finalize,
         BanNegatives, RestoreForced, RestorePublisherBan, StartNewRound, Reconcile,
         LoopEnds, InPhase
<1>2. tx.todo \in {<<"finalize">>, <<"sweep">>, <<"negatives">>, <<"sweep", "negatives">>}
  BY <1>1 DEF DebtInv, Overriding
<1>3. TxTyped(tx)
  BY <1>1, SettlingAt
<1>4. ASSUME NEW ps
      PROVE  Then(ps).todo = ps \o Tail(tx.todo)
  BY <1>3 DEF Then, TxTyped, TxFields
<1>5. CASE SweepBanned
  BY <1>5 DEF SweepBanned, Step, DebtInv
<1>6. CASE LoopEnds
  <2>1. tx'.todo = Tail(tx.todo) /\ Head(tx.todo) \notin {"finalize", "negatives"}
    BY <1>1, <1>3, <1>6, ThenFields DEF LoopEnds, InPhase, Step
  <2>2. tx'.todo \in {<<>>, <<"negatives">>}
    BY <1>2, <2>1, OverrideHeads
  <2> QED BY <2>2 DEF Overriding
<1>7. CASE Finalize
  <2> DEFINE x == tx.disp
             sweep == IF PaysFromWallet(work, x) /\ Insolvent(work, x) THEN <<"sweep">> ELSE <<>>
             negatives == IF work.disp[x].history.exists THEN <<"negatives">> ELSE <<>>
  <2>1. Head(tx.todo) = "finalize" /\ tx' = Then(sweep \o negatives)
    BY <1>7 DEF Finalize, InPhase, Step
  <2>2. sweep \in {<<>>, <<"sweep">>} /\ negatives \in {<<>>, <<"negatives">>}
    OBVIOUS
  <2> HIDE DEF sweep, negatives
  <2>3. Tail(tx.todo) = <<>>
    BY <1>2, <2>1, OverrideHeads
  <2>4. tx'.todo = (sweep \o negatives) \o <<>>
    BY <1>4, <2>1, <2>3
  <2> QED BY <2>2, <2>4, OverrideStages DEF Overriding
<1>8. CASE BanNegatives
  <2>1. PICK ps \in {<<>>, <<"sweep">>} : Head(tx.todo) = "negatives" /\ tx' = Then(ps)
    BY <1>8 DEF BanNegatives, InPhase, Step
  <2>2. Tail(tx.todo) = <<>>
    BY <1>2, <2>1, OverrideHeads
  <2>3. tx'.todo = ps \o <<>>
    BY <1>4, <2>1, <2>2
  <2> QED BY <2>1, <2>3, OverrideStages DEF Overriding
<1>9. Head(tx.todo) \in {"finalize", "sweep", "negatives"}
  BY <1>2, OverrideHeads
<1>10. SweepBanned \/ LoopEnds \/ Finalize \/ BanNegatives
  BY <1>9 DEF TxStep, AutoConfirmStale, Evaluate, ExpireClean, Settle, RestoreForced,
              RestorePublisherBan, StartNewRound, Reconcile, InPhase
<1> QED BY <1>5, <1>6, <1>7, <1>8, <1>10

\* Reopening settles no dispute.
LEMMA ReopenDebts ==
  ASSUME MoneyIInv, DebtInv, tx.kind = "REOPEN", TxStep, NEW x \in Disps
  PROVE  ~Settled(db, work', x)
<1>1. /\ TxTyped(tx) /\ Ordered(tx.kind, tx.todo) /\ RowsTyped(work)
      /\ expired \subseteq Tasks /\ Prepared(work, tx)
  BY DEF MoneyIInv, RowsIInv, DisputeIInv, Ready, Good
<1>2. ~Settled(db, work, x)
  BY DEF DebtInv
<1>3. CASE Quiet
  <2>1. work'.disp[x].status = work.disp[x].status
    BY <1>1, <1>3, QuietKeeps DEF ReviewKept, DisputeKept
  <2> QED BY <1>2, <2>1 DEF Settled
<1>4. CASE StartNewRound
  <2>1. work' = OpenNewRound(work, tx.disp) /\ tx.disp \in Disps
    BY <1>1, <1>4 DEF StartNewRound, Step, Prepared
  <2>2. \/ work'.disp[x] = work.disp[x]
        \/ work'.disp[x].status = "OPEN"
    BY <1>1, <2>1, NewRoundDecides
  <2> QED BY <1>2, <2>2 DEF Settled
<1>5. ~AutoConfirmStale /\ ~Finalize
  <2>1. ASSUME NEW p, At(tx, p)
        PROVE  p \notin {"stale", "finalize"}
    <3>1. 1 \in 1..Len(tx.todo) /\ tx.todo[1] = p
      BY <1>1, <2>1, HeadIsFirst
    <3> QED BY <1>1, <3>1 DEF Ordered
  <2> QED BY <2>1 DEF AutoConfirmStale, Finalize, InPhase, At
<1> QED BY <1>3, <1>4, <1>5 DEF TxStep, Quiet

LEMMA TxStepDebts ==
  ASSUME MoneyIInv, CloseInv, DebtInv, TxStep
  PROVE  DebtInv'
<1>1. db' = db
  BY DEF TxStep, AutoConfirmStale, SweepBanned, Evaluate, ExpireClean, Settle, Finalize,
         BanNegatives, RestoreForced, RestorePublisherBan, StartNewRound, Reconcile,
         LoopEnds, Step
<1>2. TxTyped(tx) /\ Ordered(tx.kind, tx.todo)
  BY DEF MoneyIInv, RowsIInv, DisputeIInv, Ready
<1>3. tx'.kind = tx.kind
  BY <1>2, NotesKept DEF TxTyped
<1>4. CASE tx.kind = "REOPEN"
  <2>1. \A x \in Disps : ~Settled(db, work', x)
    BY <1>4, ReopenDebts
  <2> QED BY <1>1, <1>3, <1>4, <2>1 DEF DebtInv
<1>5. CASE tx.kind # "REOPEN"
  <2>1. ~RestoreForced /\ ~RestorePublisherBan /\ ~StartNewRound
    <3>1. ASSUME NEW p, At(tx, p)
          PROVE  p \notin {"unforce", "restoreBan", "newRound"}
      <4>1. 1 \in 1..Len(tx.todo) /\ tx.todo[1] = p
        BY <1>2, <3>1, HeadIsFirst
      <4> QED BY <1>2, <1>5, <4>1 DEF Ordered
    <3> QED BY <3>1 DEF RestoreForced, RestorePublisherBan, StartNewRound, InPhase, At
  <2>2. ~Reconcile
    BY <1>5 DEF Reconcile, MoneyIInv, Noted
  <2>3. DebtsKept(work', tx')
    BY <1>5, <2>1, <2>2, AutoConfirmDebts, SweepDebts, EvaluateDebts, SettleDebts,
       FinalizeDebts, BanNegativesDebts, LoopEndDebts DEF TxStep
  <2>4. tx.kind = "OVERRIDE_COMPLETED" => Overriding(tx'.todo)
    BY OverridingKept
  <2> QED BY <1>1, <1>3, <1>5, <2>3, <2>4 DEF DebtInv, DebtsKept
<1> QED BY <1>4, <1>5

\* Where nothing is pending the tables are the same.
LEMMA EqualDebts ==
  ASSUME work' = db', tx'.kind = "OVERRIDE_COMPLETED" => Overriding(tx'.todo)
  PROVE  DebtInv'
<1>1. SameParties(db', db') /\ \A x \in Disps : ~Settled(db', db', x)
  BY DEF SameParties, Settled
<1> QED BY <1>1 DEF DebtInv

LEMMA BeginReopenDebts ==
  ASSUME MoneyIInv, NEW x \in Disps, BeginReopen(x)
  PROVE  DebtInv'
<1> DEFINE archived == ArchiveRound(db, x)
           rolled == RollbackResolution(archived, x)
<1>1. db' = db /\ work' \in {archived, rolled} /\ tx'.kind = "REOPEN"
  BY DEF BeginReopen, Idle
<1>2. Good(db, Disps) /\ RowsTyped(db)
  BY DEF MoneyIInv, RowsIInv, DisputeIInv, Good
<1>3. RowsTyped(archived)
  BY <1>2, ArchiveGood DEF Good
<1>4. \A y \in Disps : archived.disp[y].status = db.disp[y].status
  BY <1>2, ArchiveKeeps DEF ReviewKept, DisputeKept
<1> HIDE DEF archived
<1>5. rolled.disp = archived.disp
  BY <1>3, RollbackDecides
<1> HIDE DEF rolled
<1>6. \A y \in Disps : work'.disp[y].status = db.disp[y].status
  BY <1>1, <1>4, <1>5
<1>7. \A y \in Disps : ~Settled(db', work', y)
  BY <1>1, <1>6 DEF Settled
<1> QED BY <1>1, <1>7 DEF DebtInv

LEMMA NextDebts ==
  ASSUME MoneyIInv, CloseInv, DebtInv, [Next]_vars
  PROVE  DebtInv'
<1>1. CASE ApiWrite
  <2>1. ~Running /\ work' = db' /\ UNCHANGED tx
    BY <1>1, WriteAlone
  <2>2. tx'.kind # "OVERRIDE_COMPLETED"
    BY <2>1 DEF Running
  <2> QED BY <2>1, <2>2, EqualDebts
<1>2. CASE BeginClose
  <2>1. db' = db /\ work' = work /\ ~Running /\ tx'.kind = "CLOSE"
    BY <1>2 DEF BeginClose, Idle
  <2>2. work' = db'
    BY <2>1 DEF MoneyIInv, RowsIInv, DisputeIInv
  <2> QED BY <2>1, <2>2, EqualDebts
<1>3. ASSUME NEW x \in Disps, BeginOverrideCompleted(x)
      PROVE  DebtInv'
  <2>1. db' = db /\ work' = work /\ ~Running /\ tx'.todo = <<"finalize">>
    BY <1>3 DEF BeginOverrideCompleted, Idle
  <2>2. work' = db'
    BY <2>1 DEF MoneyIInv, RowsIInv, DisputeIInv
  <2> QED BY <2>1, <2>2, EqualDebts DEF Overriding
<1>4. CASE Override
  BY <1>3, <1>4, BeginReopenDebts DEF Override
<1>5. CASE TxStep
  BY <1>5, TxStepDebts
<1>6. CASE Commit \/ Abort \/ Crash
  <2>1. work' = db' /\ tx' = Idle
    BY <1>6 DEF Commit, Abort, Crash, RolledBack
  <2>2. tx'.kind = "IDLE"
    BY <2>1 DEF Idle
  <2> QED BY <2>1, <2>2, EqualDebts
<1>7. CASE Tick \/ UNCHANGED vars
  <2>1. UNCHANGED <<db, work, tx>>
    BY <1>7 DEF Tick, SubmissionAges, DeadlinePasses, vars
  <2> QED BY <2>1 DEF DebtInv
<1> QED BY <1>1, <1>2, <1>4, <1>5, <1>6, <1>7 DEF Next

LEMMA InitDebts == Init => DebtInv
<1>1. SUFFICES ASSUME Init PROVE DebtInv
  OBVIOUS
<1>2. work = db /\ tx.kind = "IDLE"
  BY <1>1 DEF Init, Idle
<1>3. SameParties(db, db) /\ \A x \in Disps : ~Settled(db, db, x)
  BY DEF SameParties, Settled
<1> QED BY <1>2, <1>3 DEF DebtInv

\* Outside a settlement an open dispute stays open.
LEMMA WriteSettlesNothing ==
  ASSUME RowsTyped(db), ApiWrite, NEW x \in Disps, db.disp[x].status = "OPEN"
  PROVE  db'.disp[x].status = "OPEN"
<1> DEFINE Goal == db'.disp[x].status = "OPEN"
<1>0. ASSUME db'.disp = db.disp
      PROVE  Goal
  BY <1>0
<1> HIDE DEF Goal
<1>1. ASSUME NEW t \in Tasks, NEW p \in Publishers, NEW n \in SlotCounts, NEW r \in Rewards,
             NEW q \in RepeatOptions, Publish(t, p, n, r, q)
      PROVE  Goal
  BY <1>0, <1>1 DEF Publish, Write, RowsTyped, TableNames
<1>2. ASSUME NEW t \in Tasks, NEW a \in Workers, AddIntention(t, a)
      PROVE  Goal
  BY <1>0, <1>2 DEF AddIntention, Write, RowsTyped, TableNames
<1>3. ASSUME NEW s \in Subs, NEW t \in Tasks, NEW a \in Workers, Submit(s, t, a)
      PROVE  Goal
  BY <1>0, <1>3 DEF Submit, Write, RowsTyped, TableNames
<1>4. ASSUME NEW s \in Subs, Reject(s) \/ ConfirmWithoutSlot(s)
      PROVE  Goal
  BY <1>0, <1>4 DEF Reject, ConfirmWithoutSlot, Write, RowsTyped, TableNames
<1>5. ASSUME NEW s \in Subs, Confirm(s)
      PROVE  Goal
  BY <1>0, <1>5, ConfirmWork DEF Confirm, Write
<1>6. ASSUME NEW t \in Tasks, Terminate(t)
      PROVE  Goal
  <2>1. db'.disp[x].status = db.disp[x].status
    BY <1>6, TerminateKeeps DEF Terminate, Write, ReviewKept, DisputeKept
  <2> QED BY <2>1 DEF Goal
<1>7. ASSUME NEW y \in Disps, NEW s \in Subs, NEW a \in Agents, OpenDispute(y, s, a)
      PROVE  Goal
  <2> DEFINE row == [db.disp[y] EXCEPT !.status = "OPEN", !.sub = s]
  <2>1. db'.disp = [db.disp EXCEPT ![y] = row]
    BY <1>7 DEF OpenDispute, Write, RowsTyped, TableNames
  <2>2. row.status = "OPEN"
    BY DEF RowsTyped, DispFields
  <2> HIDE DEF row
  <2> QED BY <2>1, <2>2 DEF Goal, RowsTyped
<1>8. ASSUME NEW y \in Disps, NEW a \in Supervisors, NEW c, NEW w \in VoteWeights, Vote(y, a, c, w)
      PROVE  Goal
  <2>1. PICK votes : db'.disp = [db.disp EXCEPT ![y] = [db.disp[y] EXCEPT !.votes = votes]]
    BY <1>8 DEF Vote, Write, RowsTyped, TableNames
  <2> DEFINE row == [db.disp[y] EXCEPT !.votes = votes]
  <2>2. row.status = db.disp[y].status
    BY DEF RowsTyped, DispFields
  <2> HIDE DEF row
  <2>3. db'.disp = [db.disp EXCEPT ![y] = row]
    BY <2>1 DEF row
  <2> QED BY <2>2, <2>3 DEF Goal, RowsTyped
<1> HIDE DEF Goal
<1>9. Goal
  BY <1>1, <1>2, <1>3, <1>4, <1>5, <1>6, <1>7, <1>8 DEF ApiWrite
<1> QED BY <1>9 DEF Goal

LEMMA CommitDebts ==
  ASSUME MoneyIInv, DebtInv, [Next]_vars, NEW x \in Disps,
         Settled(db, db', x), db.disp[x].history.exists,
         NEW a \in {DispPublisher(db, x), DispWorker(db, x)}, db'.avail[a] < 0
  PROVE  Banned(db', a)
<1>1. RowsTyped(db) /\ References(db)
  BY DEF MoneyIInv, RowsIInv, DisputeIInv, Good
<1>2. ~ApiWrite
  BY <1>1, WriteSettlesNothing DEF Settled
<1>3. CASE Commit
  <2>1. db' = work /\ tx.todo = <<>> /\ Settled(db, work, x)
    BY <1>3 DEF Commit
  <2>2. ~BanAhead(tx.todo)
    <3>1. <<"negatives">> # <<>> /\ <<"sweep", "negatives">> # <<>>
      OBVIOUS
    <3> QED BY <2>1, <3>1, StageHeads DEF BanAhead
  <2>3. DebtsFaced(work, x) /\ SameParties(db, work)
    BY <2>1, <2>2 DEF DebtInv
  <2>4. DispPublisher(work, x) = DispPublisher(db, x) /\ DispWorker(work, x) = DispWorker(db, x)
    BY <1>1, <2>1, <2>3, PartiesSame DEF Settled
  <2> QED BY <2>1, <2>3, <2>4 DEF DebtsFaced
<1>4. CASE Abort \/ Crash \/ Override \/ BeginClose \/ TxStep \/ Tick \/ UNCHANGED vars
  <2>1. db' = db
    BY <1>4 DEF Abort, Crash, RolledBack, Override, BeginClose, BeginOverrideCompleted,
                BeginReopen, Tick, SubmissionAges, DeadlinePasses, vars,
                TxStep, AutoConfirmStale, SweepBanned, Evaluate, ExpireClean, Settle, Finalize,
                BanNegatives, RestoreForced, RestorePublisherBan, StartNewRound, Reconcile,
                LoopEnds, Step
  <2> QED BY <2>1 DEF Settled
<1> QED BY <1>2, <1>3, <1>4 DEF Next

\* When a dispute that was reopened is settled again, by its votes or by an override,
\* whoever of its two parties comes out of it in debt is banned: every phase between the
\* settlement and the commit pays agents and bans them, none takes more from a wallet than
\* it holds, and the ban is scheduled whatever sweep has to run first.
THEOREM DebtorsAreBanned == Spec => DebtorsBanned
<1> DEFINE Faced == \A x \in Disps :
                      /\ db.disp[x].status = "OPEN"
                      /\ db.disp[x].history.exists
                      /\ db'.disp[x].status = "RESOLVED_COMPLETED"
                      => \A a \in {DispPublisher(db, x), DispWorker(db, x)} :
                           db'.avail[a] < 0 => Banned(db', a)
<1>1. MoneyIInv /\ DebtInv /\ [Next]_vars => [Faced]_vars
  BY CommitDebts DEF Settled
<1>2. MoneyIInv /\ MoneyIInv' /\ CloseInv /\ [Next]_vars => CloseInv'
  BY NextCloses
<1>3. MoneyIInv /\ CloseInv /\ DebtInv /\ [Next]_vars => DebtInv'
  BY NextDebts
<1> QED BY <1>1, <1>2, <1>3, InitCloses, InitDebts, MoneyInvariant, PTL DEF Spec, DebtorsBanned
=============================================================================
