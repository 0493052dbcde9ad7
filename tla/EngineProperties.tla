--------------------------- MODULE EngineProperties -------------------------
(***************************************************************************)
(* What the engine keeps true although nothing takes back what a method    *)
(* did before it threw.                                                    *)
(***************************************************************************)
EXTENDS Engine

\* Every table and clock has the type of its column.
TypeOK ==
  /\ db \in Tables
  /\ expired \subseteq Tasks
  /\ stale \in 0..MaxAged
  /\ reopens \in 0..MaxReopens

\* What counts as completed agrees everywhere, whatever a method left undone when
\* it threw: the agents a task lists, the workload that earns a share of the
\* cycle, and one payment out of an escrow that allows no repeats.
CompletionsAgree == CompletionsRecorded(db) /\ WorkEarned(db) /\ PaidOnce(db)

\* The agent of a submission that is still rejected has completed the task with
\* another one (REPEAT_COMPLETION_NOT_ALLOWED).
RepeatRefused(s) ==
  ~TaskOf(db, s).repeat /\ db.sub[s].status = "REJECTED" /\ OtherCompletion(db, s)

\* A dispute is resolved before its settlement is tried.  The settlement was refused
\* as a repeat, and still would be unless another dispute about the task has been
\* reopened; any other resolved dispute has completed its submission.
SettledOrRefused ==
  \A x \in Disps : db.disp[x].status = "RESOLVED_COMPLETED" =>
    LET s == db.disp[x].sub IN
    CASE db.disp[x].source = "NONE" ->
           \/ RepeatRefused(s)
           \/ \E y \in Disps \ {x} : /\ db.disp[y].history.exists
                                     /\ DispTask(db, y) = db.sub[s].task
      [] db.disp[x].source = "ESCROW" -> db.sub[s].status = "CONFIRMED"
      [] OTHER -> db.sub[s].status = "DISPUTE_COMPLETED"

\* The dispute x is resolved, but its settlement threw.
NeverSettled(x) == db.disp[x].status = "RESOLVED_COMPLETED" /\ db.disp[x].source = "NONE"

\* Reopening writes the old escrow back over whatever the tasks have paid since.
OverwritesEscrow(x) ==
  /\ db.disp[x].status = "RESOLVED_COMPLETED"
  /\ ~NeverSettled(x)
  /\ ~UntouchedSince(db, x)

\* Reopening takes a completion back that is not its own: since the settlement of x
\* threw, the submission has been completed by something else.
TakesBackUnpaid(x) == NeverSettled(x) /\ db.sub[db.disp[x].sub].status \in CompletedSub

TakenBackUnpaid == \E x \in Disps : TakesBackUnpaid(x) /\ db'.disp[x].status = "OPEN"

\* Value is conserved by every method, also by one that throws half-way and by the
\* reopening of a dispute that was never settled.  The exceptions are the reopening
\* of a dispute whose tasks have changed since, and of one that was never settled
\* when its submission has been confirmed since: then exactly one reward is lost.
ValueKept ==
  [][db' # db =>
       \/ Holdings(db') = Holdings(db)
       \/ \E x \in Disps :
            /\ db'.disp[x].status = "OPEN"
            /\ \/ OverwritesEscrow(x)
               \/ /\ TakesBackUnpaid(x)
                  /\ Holdings(db') = Holdings(db) - db.task[DispTask(db, x)].reward]_engineVars

\* Nothing else breaks what is true of completions and disputes; what is taken back
\* unpaid leaves the workload of the confirmation behind.
AgreementKept ==
  /\ CompletionsAgree /\ SettledOrRefused
  /\ [][\/ CompletionsAgree' /\ SettledOrRefused'
        \/ TakenBackUnpaid
        \/ ~(CompletionsAgree /\ SettledOrRefused)]_engineVars

\* rules, "rewardPool = mintedAmount + taxPool + penaltyPool": when anybody worked
\* in a cycle, closing credits its whole pool, with the penalties that closing
\* itself has levied.
PoolPaid ==
  [][db'.active # db.active =>
       LET row == db'.cycle[db.active]
       IN (\E r \in db'.work : r.cycle = db.active)
            => row.credited = Bigger(0, RewardPool(row))]_engineVars

\* The engine's arrays stay sound although no method is a transaction.
EngineSound == []TypeOK /\ AgreementKept /\ ValueKept /\ PoolPaid
=============================================================================
