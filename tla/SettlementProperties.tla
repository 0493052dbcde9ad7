------------------------ MODULE SettlementProperties ------------------------
(***************************************************************************)
(* What the transactions of Settlement have to keep true.                  *)
(*                                                                         *)
(* An invariant that speaks of tables d is asserted of the committed       *)
(* tables and of those the running transaction works on: later steps of a  *)
(* transaction read what its earlier steps left behind.                    *)
(***************************************************************************)
EXTENDS Settlement, TableInvariants

BothTables(P(_)) == P(db) /\ P(work)

-----------------------------------------------------------------------------
(* The type invariant.                                                     *)

TxKinds == {"IDLE", "CLOSE", "OVERRIDE_COMPLETED", "REOPEN"}

TxFields == {"kind", "todo", "disp", "subs", "disps", "pool", "before", "forced"}

TxOK ==
  /\ DOMAIN tx = TxFields
  /\ tx.kind \in TxKinds
  /\ tx.todo \in Seq(Phases)
  /\ tx.disp \in Disps \cup {NoDispute}
  /\ tx.subs \subseteq Subs
  /\ tx.disps \subseteq Disps
  /\ tx.pool \in Int
  /\ DOMAIN tx.before \subseteq Cycles
  /\ \A c \in DOMAIN tx.before : tx.before[c] \in [Agents -> Int]
  /\ tx.forced \in Seq(ForcedRow)

\* Every table, local variable and clock has the type of its column.
TypeOK ==
  /\ db \in Tables
  /\ work \in Tables
  /\ TxOK
  /\ expired \subseteq Tasks
  /\ stale \in 0..MaxAged
  /\ reopens \in 0..MaxReopens
  /\ crashes \in 0..MaxCrashes

-----------------------------------------------------------------------------
(* Rows that have to agree with each other.                                *)

\* The escrow of a task is a whole number of rewards, no more than its slots,
\* and the task is active exactly while one is left: getConfirmedSlots never
\* throws TASK_SETTLEMENT_INVARIANT_BROKEN and no money stays behind in a task
\* that nobody can complete any more.
EscrowBackedInv == BothTables(EscrowBacked)

\* The dispute whose resolution the running transaction has taken back but
\* which it has not opened again yet.
InReopening ==
  IF tx.kind = "REOPEN" /\ \E i \in DOMAIN tx.todo : tx.todo[i] = "newRound"
  THEN {tx.disp} ELSE {}

\* An open dispute is about a rejected submission of a task that was not
\* terminated, so its outcome can still be paid; a resolved one has completed
\* the submission and remembers out of whose money; and a submission is
\* disputed once at most.
DisputeBacked(d, X) ==
  /\ \A x \in X :
       /\ d.disp[x].status = "OPEN" =>
            /\ d.sub[d.disp[x].sub].status = "REJECTED"
            /\ d.task[DispTask(d, x)].status \notin {"NONE", "TERMINATED"}
            /\ d.disp[x].source = "NONE"
       /\ d.disp[x].status = "RESOLVED_COMPLETED" =>
            /\ d.disp[x].source # "NONE"
            /\ d.sub[d.disp[x].sub].status =
                 IF d.disp[x].source = "ESCROW" THEN "CONFIRMED" ELSE "DISPUTE_COMPLETED"
  /\ \A x, y \in Existing(d.disp) : d.disp[x].sub = d.disp[y].sub => x = y

DisputeBackedInv == DisputeBacked(db, Disps) /\ DisputeBacked(work, Disps \ InReopening)

\* completedAgents of a task lists exactly the agents of its completed
\* submissions, also after a reopened dispute took a completion back.
CompletionsRecordedInv == BothTables(CompletionsRecorded)

\* The workload that earns a share of a cycle is the work that stands: one
\* WORKER row per completed submission, none for a completion that was taken
\* back, and for each vote that counts one VOTE row of the same cycle.
WorkEarnedInv == BothTables(WorkEarned)

\* An agent is paid out of the escrow of a task that allows no repeats once at
\* most (REPEAT_COMPLETION_NOT_ALLOWED), across confirmations, automatic
\* confirmations and disputes.
PaidOnceInv == BothTables(PaidOnce)

\* Rows that tell of the same thing agree in every table: the escrow of a task with
\* the slots that are left, the agents it lists with the submissions completed, and
\* the workload of a cycle with the completions and the votes that count.
RowsAgree == EscrowBackedInv /\ CompletionsRecordedInv /\ WorkEarnedInv

-----------------------------------------------------------------------------
(* Money.                                                                  *)

\* Value is conserved: AGC only moves between balances, escrows and pools, and
\* the only new AGC is what a cycle mints.
ConservedInv == Conserved(db)

\* As long as no dispute is reopened nobody is ever in debt, and no cycle pays
\* out more than its pool.
SolventInv == BothTables(Solvent)

\* No money is made, lost, owed or paid twice: not by a commit, nor by a transaction
\* that is interrupted, nor half-way through one.
MoneyKept == TypeOK /\ ConservedInv /\ SolventInv /\ PaidOnceInv

-----------------------------------------------------------------------------
(* What a transaction leaves behind.                                       *)

\* The state right after a cycle was closed: nothing that closing has to clear
\* is left, although each of its phases can create work for another one.
ClosedCleanly(d) ==
  /\ SweepTargets(d) = {}
  /\ \A t \in expired : ~ActiveClean(d, t)
  /\ \A s \in StaleSubs(d) : TaskOf(d, s).status \notin ActiveTask
  /\ \A x \in OpenDisputes(d) :
       ~VotesPass(d.disp[x].votes, DisputeQuorum, DisputeApprovalBps)

\* Closing advances the active cycle by one and leaves the tables clean.
ClosesCleanly ==
  [][db'.active # db.active => /\ db'.active = db.active + 1
                               /\ db'.cycle[db.active].status = "CLOSED"
                               /\ db'.cycle[db'.active].status = "OPEN"
                               /\ ClosedCleanly(db')]_vars

\* Reopening a dispute moves money back without making or losing any, whatever
\* cycles were closed in between, provided nothing else happened to the tasks
\* it gives back.
ReopenConserves ==
  tx.kind = "REOPEN" /\ tx'.kind = "IDLE" /\ UntouchedSince(db, tx.disp)
    => Holdings(db') = Holdings(db)

\* A vote or a resolution is changed by nothing but a reopening of the dispute,
\* which takes the votes of the round back with their workload.
ResolutionStands ==
  \A x \in Disps :
    db.disp[x].status = "RESOLVED_COMPLETED" =>
      \/ /\ db'.disp[x].status = "RESOLVED_COMPLETED"
         /\ db'.disp[x].votes = db.disp[x].votes
         /\ db'.disp[x].payout = db.disp[x].payout
      \/ /\ db'.disp[x].status = "OPEN"
         /\ db'.disp[x].votes = {}
         /\ \A r \in db'.work : r.disp # x

\* What is known about a dispute stands until it is reopened: it can be settled while
\* it is open, and its outcome is kept once it is resolved.
DisputesStand == []DisputeBackedInv /\ [][ResolutionStands]_vars

\* Reopening a dispute undoes what its resolution did to the balances, to the
\* escrows and to the pools of the cycles.
RoundsUndone == [][ReopenConserves]_vars

\* Whoever is party to a dispute that was reopened and is in debt when it is
\* settled again is banned, whether or not somebody else was banned with them.
DebtorsBanned ==
  [][\A x \in Disps :
       /\ db.disp[x].status = "OPEN"
       /\ db.disp[x].history.exists
       /\ db'.disp[x].status = "RESOLVED_COMPLETED"
       => \A a \in {DispPublisher(db, x), DispWorker(db, x)} :
            db'.avail[a] < 0 => Banned(db', a)]_vars

-----------------------------------------------------------------------------
(* The review of a submission, as ReviewLifecycle promises it.             *)

StageOf(d, s) ==
  LET disputedAs(status) == \E x \in Disps : d.disp[x].status = status /\ d.disp[x].sub = s
  IN CASE d.sub[s].status \in CompletedSub ->
            IF disputedAs("RESOLVED_COMPLETED") THEN "OVERTURNED" ELSE "CONFIRMED"
       [] d.sub[s].status = "REJECTED" ->
            IF disputedAs("OPEN") THEN "DISPUTED" ELSE "REJECTED"
       [] OTHER -> d.sub[s].status

Review == INSTANCE ReviewLifecycle WITH stage <- [s \in Subs |-> StageOf(db, s)]

\* The committed submissions and disputes implement the review lifecycle.
ReviewImplemented == Review!Spec

-----------------------------------------------------------------------------
(* Liveness.                                                               *)

\* The runtime closes every cycle: no cycle that has a successor stays active.
CyclesClose ==
  \A c \in Cycles : c + 1 \in Cycles => (db.active = c ~> db.active > c)
=============================================================================
