-------------------------- MODULE SettlementProofs --------------------------
(***************************************************************************)
(* Proofs about the transactions of Settlement, for every set of agents,   *)
(* tasks, submissions, disputes and cycles and all economic parameters.    *)
(*                                                                         *)
(* DisputeBackedInv is not inductive.  A transaction publishes its private *)
(* tables in the end, so these must be as good as the committed ones; they *)
(* are, but for the one dispute whose resolution is being taken back.  Why *)
(* that dispute can be opened again, and why the loops only meet the rows  *)
(* they were started for, depends on the order of the phases and on what   *)
(* the transaction read when it began: that is what DisputeIInv adds.      *)
(*                                                                         *)
(* The balances and the amounts that come out of a reward split are sums   *)
(* over sets.  They are left untyped here: nothing below depends on them.  *)
(***************************************************************************)
EXTENDS SettlementProperties, WellFoundedInduction, TLAPS

-----------------------------------------------------------------------------
(* The inductive invariant.                                                *)

TableNames == {"task", "sub", "disp", "ban", "avail", "cycle", "active", "work"}
DispFields == {"status", "sub", "votes", "source", "payout", "snap", "history"}

RowsTyped(d) ==
  /\ DOMAIN d = TableNames
  /\ d.task \in [Tasks -> TaskRow]
  /\ d.sub \in [Subs -> SubRow]
  /\ d.ban \in [Agents -> BanRow]
  /\ d.active \in Cycles
  /\ DOMAIN d.disp = Disps
  /\ \A x \in Disps :
       LET row == d.disp[x]
       IN /\ DOMAIN row = DispFields
          /\ row.status \in DispStatus
          /\ row.sub \in Subs \cup {NoSub}
          /\ row.source \in PayoutSource
          /\ row.snap \in SnapRow

\* A task that an open or reopened dispute can still be settled on.
Payable(status) == status \notin {"NONE", "TERMINATED"}

\* Foreign keys lead to rows that exist.
References(d) ==
  /\ \A t \in Tasks : d.task[t].status # "NONE" => d.task[t].publisher \in Agents
  /\ \A s \in Subs : d.sub[s].status # "NONE" =>
       /\ d.sub[s].task \in Tasks
       /\ d.sub[s].agent \in Agents
       /\ d.task[d.sub[s].task].status # "NONE"
  /\ \A x \in Disps : d.disp[x].status # "NONE" =>
       /\ d.disp[x].sub \in Subs
       /\ d.sub[d.disp[x].sub].status # "NONE"

\* Forced terminations that can be taken back in the tables d.
Revivable(d, forced) ==
  \A i \in 1..Len(forced) : /\ forced[i].status \in ActiveTask
                            /\ d.task[forced[i].task].publisher \in Agents

\* What a rollback will write back is fit for an open dispute.
Restorable(d) ==
  \A x \in Disps :
    /\ d.disp[x].status = "NONE" => d.disp[x].source = "NONE"
    /\ d.disp[x].source # "NONE" => Payable(d.disp[x].snap.status)
    /\ Revivable(d, d.disp[x].snap.forced)

Good(d, X) == RowsTyped(d) /\ References(d) /\ Restorable(d) /\ DisputeBacked(d, X)

TxTyped(t) ==
  /\ DOMAIN t = TxFields
  /\ t.kind \in TxKinds
  /\ t.todo \in Seq(Phases)
  /\ t.disp \in Disps \cup {NoDispute}
  /\ t.subs \subseteq Subs
  /\ t.disps \subseteq Disps
  /\ t.forced \in Seq(ForcedRow)

\* The order in which phases may stand in a schedule.
Ordered(kind, todo) ==
  \A j \in 1..Len(todo) :
    /\ todo[j] \in {"stale", "finalize", "unforce"} => j = 1
    /\ todo[j] \in {"stale", "finalize", "evaluate", "expire", "negatives"} => kind # "REOPEN"
    /\ todo[j] = "settle" => j = Len(todo) /\ kind = "CLOSE"
    /\ todo[j] \in {"unforce", "restoreBan"} => kind = "REOPEN"
    /\ todo[j] = "newRound" =>
         /\ kind = "REOPEN"
         /\ \A i \in 1..(j - 1) : todo[i] \in {"unforce", "restoreBan"}

At(t, p) == t.todo # <<>> /\ Head(t.todo) = p
Ahead(t, p) == \E j \in 1..Len(t.todo) : t.todo[j] = p

Reopening(t) == IF t.kind = "REOPEN" /\ Ahead(t, "newRound") THEN {t.disp} ELSE {}

\* Dispute x can be opened again in the tables d.
Reopenable(d, x) ==
  /\ d.disp[x].status # "NONE"
  /\ d.sub[d.disp[x].sub].status = "REJECTED"
  /\ Payable(d.task[DispTask(d, x)].status)

\* What the remaining phases of transaction t rely on in its tables d.
Prepared(d, t) ==
  /\ At(t, "stale") => \A s \in t.subs : d.sub[s].status = "SUBMITTED"
  /\ \A x \in t.disps : d.disp[x].status = "OPEN"
  /\ At(t, "finalize") => /\ t.disp \in Disps \ t.disps
                          /\ d.disp[t.disp].status = "OPEN"
  /\ t.kind = "REOPEN" => t.disp \in Disps /\ t.disps = {}
  /\ \A x \in Reopening(t) : Reopenable(d, x)
  /\ At(t, "unforce") => Revivable(d, t.forced)
  /\ Ahead(t, "settle") => d.active + 1 \in Cycles

Ready(d, t) ==
  /\ Good(d, Disps \ Reopening(t))
  /\ TxTyped(t)
  /\ Ordered(t.kind, t.todo)
  /\ Prepared(d, t)

DisputeIInv ==
  /\ Good(db, Disps)
  /\ Ready(work, tx)
  /\ expired \subseteq Tasks
  /\ ~Running => work = db /\ tx.todo = <<>> /\ tx.disps = {}

-----------------------------------------------------------------------------
(* What the helpers do to the rows, whatever the amounts are.              *)

\* Only the status of one submission is written.
LEMMA StatusWritten ==
  ASSUME NEW f \in [Subs -> SubRow], NEW s \in Subs, NEW v,
         NEW g, g = [f EXCEPT ![s].status = v]
  PROVE  \A o \in Subs : /\ g[o].task = f[o].task
                         /\ g[o].agent = f[o].agent
                         /\ g[o].status = IF o = s THEN v ELSE f[o].status
                         /\ o # s => g[o] = f[o]
<1>1. \A o \in Subs : o # s => g[o] = f[o]
  OBVIOUS
<1>2. g[s] = [f[s] EXCEPT !.status = v] /\ f[s] \in SubRow
  OBVIOUS
<1>3. g[s].status = v /\ g[s].task = f[s].task /\ g[s].agent = f[s].agent
  BY <1>2 DEF SubRow
<1> QED BY <1>1, <1>3

LEMMA ConfirmEffect ==
  ASSUME NEW d, RowsTyped(d), References(d),
         NEW s \in Subs, d.sub[s].status # "NONE", NEW x
  PROVE  LET e == ConfirmInternal(d, s, x)
         IN /\ RowsTyped(e)
            /\ e.disp = d.disp
            /\ e.sub = [d.sub EXCEPT ![s].status = "CONFIRMED"]
            /\ \A t \in Tasks :
                 /\ e.task[t].publisher = d.task[t].publisher
                 /\ \/ e.task[t].status = d.task[t].status
                    \/ t = d.sub[s].task /\ e.task[t].status = "CLOSED"
<1> DEFINE e == ConfirmInternal(d, s, x)
           t == d.sub[s].task
           row == d.task[t]
           paid == [row EXCEPT !.escrow = @ - row.reward,
                               !.completed = @ \cup {d.sub[s].agent}]
           after == [paid EXCEPT !.status =
                       IF ConfirmedSlots(paid) >= paid.slots THEN "CLOSED" ELSE @]
<1>1. t \in Tasks /\ d.sub[s].agent \in Agents
  BY DEF References
<1>2. /\ DOMAIN e = TableNames
      /\ e.sub = [d.sub EXCEPT ![s].status = "CONFIRMED"]
      /\ e.task = [d.task EXCEPT ![t] = after]
      /\ e.disp = d.disp
      /\ e.ban = d.ban
      /\ e.active = d.active
  BY DEF ConfirmInternal, RowsTyped, TableNames
<1>3. e.sub \in [Subs -> SubRow]
  BY <1>2 DEF RowsTyped, SubRow, SubStatus
<1>4. /\ after \in TaskRow
      /\ after.publisher = row.publisher
      /\ after.status \in {row.status, "CLOSED"}
  <2>1. row \in TaskRow
    BY <1>1 DEF RowsTyped
  <2> DEFINE status == IF ConfirmedSlots(paid) >= paid.slots THEN "CLOSED" ELSE row.status
             left == row.escrow - row.reward
             completed == row.completed \cup {d.sub[s].agent}
  <2>2. status \in {row.status, "CLOSED"}
    OBVIOUS
  <2>3. after = [row EXCEPT !.status = status, !.escrow = left, !.completed = completed]
    BY <2>1 DEF TaskRow
  <2>4. left \in Int /\ completed \subseteq Agents
    BY <1>1, <2>1 DEF TaskRow
  <2> HIDE DEF row, paid, after, status, left, completed
  <2>5. status \in TaskStatus
    BY <2>1, <2>2 DEF TaskRow, TaskStatus
  <2> QED BY <2>1, <2>2, <2>3, <2>4, <2>5 DEF TaskRow
<1> HIDE DEF after
<1>5. e.task \in [Tasks -> TaskRow]
  BY <1>1, <1>2, <1>4 DEF RowsTyped
<1>6. \A u \in Tasks : /\ e.task[u].publisher = d.task[u].publisher
                       /\ \/ e.task[u].status = d.task[u].status
                          \/ u = t /\ e.task[u].status = "CLOSED"
  BY <1>1, <1>2, <1>4 DEF RowsTyped
<1> QED
  BY <1>2, <1>3, <1>5, <1>6 DEF RowsTyped

LEMMA PenaltyTyped ==
  ASSUME NEW escrow \in Int
  PROVE  LET penalty == ComputeTerminationPenalty(escrow, TerminationPenaltyBps)
         IN penalty \in Int /\ RefundAfter(escrow, penalty) \in Int
<1> DEFINE penalty == ComputeTerminationPenalty(escrow, TerminationPenaltyBps)
<1>1. TerminationPenaltyBps \in Int
  BY RulesAssumption DEF Bps
<1>2. escrow * TerminationPenaltyBps \in Int
  BY <1>1
<1>3. (escrow * TerminationPenaltyBps) \div Bps \in Int
  BY <1>2 DEF Bps
<1>4. penalty \in Int
  BY <1>3 DEF ComputeTerminationPenalty, Bigger
<1> HIDE DEF penalty
<1>5. RefundAfter(escrow, penalty) \in Int
  BY <1>4 DEF RefundAfter
<1> QED BY <1>4, <1>5 DEF penalty

\* A dispute's row apart from what a rollback snapshot has gained.
SameDispute(d, row, old) ==
  /\ row.status = old.status
  /\ row.sub = old.sub
  /\ row.source = old.source
  /\ row.snap.status = old.snap.status
  /\ Revivable(d, old.snap.forced) => Revivable(d, row.snap.forced)

LEMMA TerminateEffect ==
  ASSUME NEW d, RowsTyped(d), References(d),
         NEW t \in Tasks, d.task[t].status \in ActiveTask, NEW x
  PROVE  LET e == TerminateInternal(d, t, x)
         IN /\ RowsTyped(e)
            /\ e.sub = d.sub
            /\ \A y \in Disps : SameDispute(d, e.disp[y], d.disp[y])
            /\ \A u \in Tasks :
                 /\ e.task[u].publisher = d.task[u].publisher
                 /\ e.task[u].status = IF u = t THEN "TERMINATED" ELSE d.task[u].status
<1> DEFINE e == TerminateInternal(d, t, x)
           row == d.task[t]
           penalty == ComputeTerminationPenalty(row.escrow, TerminationPenaltyBps)
           refund == RefundAfter(row.escrow, penalty)
           entry == [task |-> t, cycle |-> d.active, status |-> row.status,
                     escrow |-> row.escrow, penalty |-> penalty, refund |-> refund]
           after == [row EXCEPT !.escrow = 0, !.status = "TERMINATED"]
           more(y) == [d.disp[y] EXCEPT !.snap.forced = Append(@, entry)]
           chosen(y) == y = x /\ d.disp[y].source # "NONE"
<1>1. row \in TaskRow
  BY DEF RowsTyped
<1>2. penalty \in Int /\ refund \in Int
  BY <1>1, PenaltyTyped DEF TaskRow
<1>3. /\ DOMAIN e = TableNames
      /\ e.sub = d.sub
      /\ e.ban = d.ban
      /\ e.active = d.active
      /\ e.task = [d.task EXCEPT ![t] = after]
      /\ e.disp = [y \in Disps |-> IF chosen(y) THEN more(y) ELSE d.disp[y]]
  <2>1. DOMAIN d = TableNames
    BY DEF RowsTyped
  <2> USE <2>1 DEF TerminateInternal, TableNames
  <2>2. DOMAIN e = TableNames
    OBVIOUS
  <2>3. e.sub = d.sub /\ e.ban = d.ban /\ e.active = d.active
    OBVIOUS
  <2>4. e.task = [d.task EXCEPT ![t] = after]
    OBVIOUS
  <2>5. e.disp = [y \in Disps |-> IF chosen(y) THEN more(y) ELSE d.disp[y]]
    OBVIOUS
  <2> QED BY <2>2, <2>3, <2>4, <2>5
<1>4. /\ after \in TaskRow
      /\ after.publisher = row.publisher
      /\ after.status = "TERMINATED"
  <2> HIDE DEF row
  <2> DEFINE status == "TERMINATED"
             left == 0
  <2>1. after = [row EXCEPT !.escrow = left, !.status = status]
    OBVIOUS
  <2>2. status \in TaskStatus /\ left \in Int
    BY DEF TaskStatus
  <2> HIDE DEF after, status, left
  <2>3. /\ after \in TaskRow
        /\ after.publisher = row.publisher
        /\ after.status = status
    BY <1>1, <2>1, <2>2 DEF TaskRow
  <2> QED BY <2>3 DEF status
<1>5. /\ entry \in ForcedRow
      /\ entry.status \in ActiveTask
      /\ d.task[entry.task].publisher \in Agents
  <2> HIDE DEF penalty, refund
  <2>1. entry \in ForcedRow
    BY <1>1, <1>2 DEF ForcedRow, TaskRow, RowsTyped
  <2>2. d.task[t].publisher \in Agents
    BY DEF References, ActiveTask
  <2> QED BY <2>1, <2>2
<1> HIDE DEF entry, after, penalty, refund
<1>6. ASSUME NEW y \in Disps
      PROVE  /\ DOMAIN more(y) = DispFields
             /\ SameDispute(d, more(y), d.disp[y])
             /\ more(y).snap \in SnapRow
  <2> DEFINE snap == d.disp[y].snap
  <2>1. snap \in SnapRow /\ snap.forced \in Seq(ForcedRow)
    BY DEF RowsTyped, SnapRow
  <2>2. DOMAIN d.disp[y] = DispFields
    BY DEF RowsTyped
  <2>3. /\ DOMAIN more(y) = DispFields
        /\ more(y).snap = [snap EXCEPT !.forced = Append(@, entry)]
        /\ more(y).status = d.disp[y].status
        /\ more(y).sub = d.disp[y].sub
        /\ more(y).source = d.disp[y].source
    BY <2>2 DEF DispFields
  <2>4. /\ Append(snap.forced, entry) \in Seq(ForcedRow)
        /\ Revivable(d, snap.forced) => Revivable(d, Append(snap.forced, entry))
    <3> DEFINE s == snap.forced
    <3>1. s \in Seq(ForcedRow)
      BY <2>1
    <3> HIDE DEF s, snap
    <3>2. /\ Append(s, entry) \in Seq(ForcedRow) /\ Len(Append(s, entry)) = Len(s) + 1
          /\ Len(s) \in Nat
          /\ \A i \in 1..Len(s) : Append(s, entry)[i] = s[i]
          /\ Append(s, entry)[Len(s) + 1] = entry
      BY <1>5, <3>1
    <3>3. ASSUME Revivable(d, s) PROVE Revivable(d, Append(s, entry))
      <4>1. \A i \in 1..(Len(s) + 1) : i \in 1..Len(s) \/ i = Len(s) + 1
        BY <3>2
      <4> QED BY <1>5, <3>2, <3>3, <4>1 DEF Revivable
    <3> QED BY <3>2, <3>3 DEF s
  <2> HIDE DEF snap
  <2>5. more(y).snap \in SnapRow
    BY <2>1, <2>3, <2>4, SMTT(30) DEF SnapRow
  <2>6. /\ more(y).snap.forced = Append(snap.forced, entry)
        /\ more(y).snap.status = snap.status
    BY <2>1, <2>3 DEF SnapRow
  <2> QED BY <2>3, <2>4, <2>5, <2>6 DEF SameDispute, snap
<1>7. e.task \in [Tasks -> TaskRow]
  BY <1>3, <1>4 DEF RowsTyped
<1>8. \A u \in Tasks :
        /\ e.task[u].publisher = d.task[u].publisher
        /\ e.task[u].status = IF u = t THEN "TERMINATED" ELSE d.task[u].status
  BY <1>3, <1>4 DEF RowsTyped
<1> HIDE DEF more
<1>9. \A y \in Disps : SameDispute(d, e.disp[y], d.disp[y])
  BY <1>3, <1>6 DEF SameDispute
<1>10. DOMAIN e.disp = Disps /\ \A y \in Disps : e.disp[y] \in {more(y), d.disp[y]}
  BY <1>3
<1>11. \A y \in Disps : /\ DOMAIN e.disp[y] = DispFields
                        /\ e.disp[y].status \in DispStatus
                        /\ e.disp[y].sub \in Subs \cup {NoSub}
                        /\ e.disp[y].source \in PayoutSource
                        /\ e.disp[y].snap \in SnapRow
  BY <1>6, <1>10 DEF RowsTyped, SameDispute
<1>12. RowsTyped(e)
  <2> HIDE DEF e
  <2> QED BY <1>3, <1>7, <1>10, <1>11 DEF RowsTyped
<1> QED
  BY <1>3, <1>8, <1>9, <1>12

LEMMA BanEffect ==
  ASSUME NEW d, RowsTyped(d), NEW A,
         NEW reason \in BanReason, NEW source \in Disps \cup {NoDispute}
  PROVE  LET e == BanAgents(d, A, reason, source)
         IN /\ RowsTyped(e)
            /\ e.task = d.task
            /\ e.sub = d.sub
            /\ e.disp = d.disp
            /\ e.active = d.active
<1> DEFINE e == BanAgents(d, A, reason, source)
<1>1. /\ DOMAIN e = TableNames
      /\ e.task = d.task
      /\ e.sub = d.sub
      /\ e.disp = d.disp
      /\ e.active = d.active
      /\ e.ban = [a \in Agents |->
                    IF a \in A THEN BanRowAfter(d.ban[a], reason, source) ELSE d.ban[a]]
  BY DEF BanAgents, RowsTyped, TableNames
<1>2. ASSUME NEW old \in BanRow
      PROVE  BanRowAfter(old, reason, source) \in BanRow
  <2> DEFINE reasonAfter == IF old.reason = "NONE" THEN reason ELSE old.reason
             sourceAfter == IF source # NoDispute THEN source ELSE old.source
  <2>1. reasonAfter \in BanReason /\ sourceAfter \in Disps \cup {NoDispute}
    BY DEF BanRow
  <2>2. CASE old.status = "ACTIVE"
    BY <2>2 DEF BanRowAfter, BanRow
  <2>3. CASE old.status = "BANNED"
    <3>1. BanRowAfter(old, reason, source)
            \in {old, [old EXCEPT !.reason = reasonAfter, !.source = sourceAfter]}
      BY <2>3 DEF BanRowAfter, BanRow
    <3> HIDE DEF reasonAfter, sourceAfter
    <3> QED BY <2>1, <3>1 DEF BanRow
  <2> QED BY <2>2, <2>3 DEF BanRow
<1>3. e.ban \in [Agents -> BanRow]
  BY <1>1, <1>2 DEF RowsTyped
<1> HIDE DEF e
<1>4. RowsTyped(e)
  BY <1>1, <1>3 DEF RowsTyped
<1> QED BY <1>1, <1>4 DEF e

-----------------------------------------------------------------------------
(* What the helpers keep true.                                             *)

LEMMA RevivableKept ==
  ASSUME NEW d, NEW e,
         \A t \in Tasks : d.task[t].publisher \in Agents => e.task[t].publisher \in Agents,
         NEW forced \in Seq(ForcedRow), Revivable(d, forced)
  PROVE  Revivable(e, forced)
<1>1. \A i \in 1..Len(forced) : forced[i].task \in Tasks
  <2>1. \A i \in 1..Len(forced) : forced[i] \in ForcedRow
    OBVIOUS
  <2> QED BY <2>1 DEF ForcedRow
<1> QED BY <1>1 DEF Revivable

LEMMA RestorableKept ==
  ASSUME NEW d, RowsTyped(d), Restorable(d), NEW e, e.disp = d.disp,
         \A t \in Tasks : d.task[t].publisher \in Agents => e.task[t].publisher \in Agents
  PROVE  Restorable(e)
<1>1. \A x \in Disps : d.disp[x].snap.forced \in Seq(ForcedRow)
  BY DEF RowsTyped, SnapRow
<1> QED BY <1>1, RevivableKept DEF Restorable

\* Only the rows of tasks, submissions and disputes matter.
LEMMA SameRows ==
  ASSUME NEW d, NEW X, Good(d, X), NEW e, RowsTyped(e),
         e.task = d.task, e.sub = d.sub, e.disp = d.disp
  PROVE  Good(e, X)
<1>1. References(e)
  BY DEF Good, References
<1>2. Restorable(e)
  BY RestorableKept DEF Good
<1>3. DisputeBacked(e, X)
  BY ZenonT(30) DEF Good, DisputeBacked, DispTask, Existing
<1> QED BY <1>1, <1>2, <1>3 DEF Good

\* Rows keep their foreign keys, and no row goes away.
SameKeys(d, e) ==
  /\ \A t \in Tasks :
       /\ e.task[t].publisher = d.task[t].publisher
       /\ d.task[t].status # "NONE" => e.task[t].status # "NONE"
       /\ e.task[t].status # "NONE" => \/ d.task[t].status # "NONE"
                                      \/ d.task[t].publisher \in Agents
  /\ \A s \in Subs : /\ e.sub[s].task = d.sub[s].task
                     /\ e.sub[s].agent = d.sub[s].agent
                     /\ e.sub[s].status # "NONE" <=> d.sub[s].status # "NONE"
  /\ \A x \in Disps : /\ e.disp[x].sub = d.disp[x].sub
                      /\ e.disp[x].status # "NONE" <=> d.disp[x].status # "NONE"

LEMMA KeysKept ==
  ASSUME NEW d, References(d), NEW e, SameKeys(d, e)
  PROVE  /\ References(e)
         /\ \A x \in Disps : d.disp[x].status # "NONE" => DispTask(e, x) = DispTask(d, x)
<1>1. ASSUME NEW s \in Subs, e.sub[s].status # "NONE"
      PROVE  /\ e.sub[s].task \in Tasks
             /\ e.sub[s].agent \in Agents
             /\ e.task[e.sub[s].task].status # "NONE"
  <2>1. /\ d.sub[s].task \in Tasks
        /\ d.sub[s].agent \in Agents
        /\ d.task[d.sub[s].task].status # "NONE"
    BY <1>1 DEF References, SameKeys
  <2>2. e.sub[s].task = d.sub[s].task /\ e.sub[s].agent = d.sub[s].agent
    BY DEF SameKeys
  <2> QED BY <2>1, <2>2 DEF SameKeys
<1>2. ASSUME NEW x \in Disps, e.disp[x].status # "NONE"
      PROVE  e.disp[x].sub \in Subs /\ e.sub[e.disp[x].sub].status # "NONE"
  BY <1>2 DEF References, SameKeys
<1>3. ASSUME NEW x \in Disps, d.disp[x].status # "NONE"
      PROVE  DispTask(e, x) = DispTask(d, x)
  BY <1>3 DEF References, SameKeys, DispTask
<1>4. ASSUME NEW t \in Tasks, e.task[t].status # "NONE"
      PROVE  e.task[t].publisher \in Agents
  BY <1>4 DEF References, SameKeys
<1> QED BY <1>1, <1>2, <1>3, <1>4 DEF References

LEMMA ConfirmGood ==
  ASSUME NEW d, Good(d, Disps), NEW s \in Subs, NEW x,
         \/ d.sub[s].status = "SUBMITTED"
         \/ d.sub[s].status = "REJECTED" /\ ~OpenDisputeOnSub(d, s)
  PROVE  LET e == ConfirmInternal(d, s, x)
         IN /\ Good(e, Disps)
            /\ e.disp = d.disp
            /\ e.active = d.active
            /\ \A o \in Subs \ {s} : e.sub[o].status = d.sub[o].status
<1> DEFINE e == ConfirmInternal(d, s, x)
<1>1. RowsTyped(d) /\ References(d) /\ Restorable(d) /\ DisputeBacked(d, Disps)
  BY DEF Good
<1>2. d.sub[s].status # "NONE"
  OBVIOUS
<1>3. /\ RowsTyped(e)
      /\ e.disp = d.disp
      /\ e.sub = [d.sub EXCEPT ![s].status = "CONFIRMED"]
      /\ \A t \in Tasks :
           /\ e.task[t].publisher = d.task[t].publisher
           /\ \/ e.task[t].status = d.task[t].status
              \/ t = d.sub[s].task /\ e.task[t].status = "CLOSED"
  BY <1>1, <1>2, ConfirmEffect
<1>4. e.active = d.active
  BY <1>1 DEF ConfirmInternal, RowsTyped, TableNames
<1> HIDE DEF e
<1>5. \A o \in Subs : /\ e.sub[o].task = d.sub[o].task
                      /\ e.sub[o].agent = d.sub[o].agent
                      /\ e.sub[o].status = IF o = s THEN "CONFIRMED" ELSE d.sub[o].status
  BY <1>1, <1>3 DEF RowsTyped, SubRow
<1>6. References(e)
  BY <1>1, <1>2, <1>3, <1>5 DEF References
<1>7. Restorable(e)
  BY <1>1, <1>3, RestorableKept
<1>8. DisputeBacked(e, Disps)
  <2>1. ASSUME NEW y \in Disps, d.disp[y].status = "OPEN"
        PROVE  d.disp[y].sub \in Subs \ {s} /\ DispTask(d, y) \in Tasks
    BY <1>1, <2>1 DEF References, DisputeBacked, OpenDisputeOnSub, DispTask
  <2>2. ASSUME NEW y \in Disps, d.disp[y].status = "RESOLVED_COMPLETED"
        PROVE  d.disp[y].sub \in Subs \ {s}
    BY <1>1, <2>2 DEF References, DisputeBacked
  <2>3. ASSUME NEW y \in Disps, d.disp[y].status = "OPEN"
        PROVE  /\ e.sub[d.disp[y].sub].status = "REJECTED"
               /\ DispTask(e, y) = DispTask(d, y)
               /\ e.task[DispTask(d, y)].status \notin {"NONE", "TERMINATED"}
               /\ d.disp[y].source = "NONE"
    <3>1. /\ d.sub[d.disp[y].sub].status = "REJECTED"
          /\ d.task[DispTask(d, y)].status \notin {"NONE", "TERMINATED"}
          /\ d.disp[y].source = "NONE"
      BY <1>1, <2>3 DEF DisputeBacked
    <3> QED BY <1>3, <1>5, <2>1, <2>3, <3>1, ZenonT(30) DEF DispTask
  <2>4. ASSUME NEW y \in Disps, d.disp[y].status = "RESOLVED_COMPLETED"
        PROVE  e.sub[d.disp[y].sub].status = d.sub[d.disp[y].sub].status
    BY <1>5, <2>2, <2>4
  <2> QED
    BY <1>1, <1>3, <2>3, <2>4 DEF DisputeBacked, Existing
<1>9. Good(e, Disps)
  BY <1>3, <1>6, <1>7, <1>8 DEF Good
<1> QED BY <1>3, <1>4, <1>5, <1>9 DEF e

LEMMA TerminateGood ==
  ASSUME NEW d, Good(d, Disps), NEW t \in Tasks,
         d.task[t].status \in ActiveTask, ~OpenDisputeOnTask(d, t), NEW x
  PROVE  LET e == TerminateInternal(d, t, x)
         IN /\ Good(e, Disps)
            /\ e.active = d.active
            /\ e.sub = d.sub
            /\ \A y \in Disps : e.disp[y].status = d.disp[y].status
<1> DEFINE e == TerminateInternal(d, t, x)
<1>1. RowsTyped(d) /\ References(d) /\ Restorable(d) /\ DisputeBacked(d, Disps)
  BY DEF Good
<1>2. /\ RowsTyped(e)
      /\ e.sub = d.sub
      /\ \A y \in Disps : SameDispute(d, e.disp[y], d.disp[y])
      /\ \A u \in Tasks :
           /\ e.task[u].publisher = d.task[u].publisher
           /\ e.task[u].status = IF u = t THEN "TERMINATED" ELSE d.task[u].status
  BY <1>1, TerminateEffect
<1>3. e.active = d.active
  BY <1>1 DEF TerminateInternal, RowsTyped, TableNames
<1> HIDE DEF e
<1>4. References(e)
  BY <1>1, <1>2 DEF References, SameDispute, ActiveTask
<1>5. Restorable(e)
  <2>1. \A y \in Disps : e.disp[y].snap.forced \in Seq(ForcedRow)
    BY <1>2 DEF RowsTyped, SnapRow
  <2>2. \A y \in Disps : Revivable(d, e.disp[y].snap.forced)
    BY <1>1, <1>2 DEF Restorable, SameDispute
  <2>3. \A y \in Disps : Revivable(e, e.disp[y].snap.forced)
    BY <1>2, <2>1, <2>2, RevivableKept, ZenonT(30)
  <2> QED BY <1>1, <1>2, <2>3 DEF Restorable, SameDispute
<1>6. DisputeBacked(e, Disps)
  <2>1. ASSUME NEW y \in Disps, d.disp[y].status = "OPEN"
        PROVE  DispTask(d, y) \in Tasks \ {t}
    BY <1>1, <2>1 DEF References, OpenDisputeOnTask, DispTask
  <2>2. \A y \in Disps : DispTask(e, y) = DispTask(d, y)
    BY <1>2 DEF DispTask, SameDispute
  <2>3. DOMAIN e.disp = Disps /\ DOMAIN d.disp = Disps
    BY <1>1, <1>2 DEF RowsTyped
  <2> QED
    BY <1>1, <1>2, <2>1, <2>2, <2>3 DEF DisputeBacked, Existing, SameDispute
<1>7. Good(e, Disps)
  BY <1>2, <1>4, <1>5, <1>6 DEF Good
<1> QED BY <1>2, <1>3, <1>7 DEF e, SameDispute

-----------------------------------------------------------------------------
(* Resolution of a dispute.                                                *)

LEMMA DisputeRefs ==
  ASSUME NEW d, References(d), NEW x \in Disps, d.disp[x].status # "NONE"
  PROVE  /\ d.disp[x].sub \in Subs
         /\ d.sub[d.disp[x].sub].status # "NONE"
         /\ DispTask(d, x) \in Tasks
         /\ DispWorker(d, x) \in Agents
         /\ DispPublisher(d, x) \in Agents
         /\ d.task[DispTask(d, x)].status # "NONE"
  BY DEF References, DispTask, DispWorker, DispPublisher

LEMMA SnapshotTyped ==
  ASSUME NEW d, RowsTyped(d), References(d), NEW x \in Disps, d.disp[x].status # "NONE"
  PROVE  /\ SnapshotBefore(d, x) \in SnapRow
         /\ SnapshotBefore(d, x).status = d.task[DispTask(d, x)].status
         /\ SnapshotBefore(d, x).forced = <<>>
<1> DEFINE row == d.task[DispTask(d, x)]
           ban == d.ban[row.publisher]
<1>1. DispTask(d, x) \in Tasks /\ row.publisher \in Agents
  BY DisputeRefs DEF DispPublisher
<1>2. row.status \in TaskStatus /\ row.escrow \in Int
  BY <1>1 DEF RowsTyped, TaskRow
<1>3. ban.source \in Disps \cup {NoDispute}
  BY <1>1 DEF RowsTyped, BanRow
<1>4. (ban.status = "BANNED") \in BOOLEAN
  OBVIOUS
<1>5. <<>> \in Seq(ForcedRow)
  OBVIOUS
<1> HIDE DEF row, ban
<1>6. SnapshotBefore(d, x) = [status |-> row.status, escrow |-> row.escrow,
                             wasBanned |-> ban.status = "BANNED",
                             banSource |-> ban.source, forced |-> <<>>]
  BY DEF SnapshotBefore, row, ban
<1>7. SnapshotBefore(d, x) \in SnapRow
  BY <1>2, <1>3, <1>4, <1>5, <1>6 DEF SnapRow
<1> QED BY <1>6, <1>7 DEF row

\* e is d after dispute x was resolved as completed.
Resolved(d, e, x) ==
  LET s == d.disp[x].sub
      done == IF e.disp[x].source = "ESCROW" THEN "CONFIRMED" ELSE "DISPUTE_COMPLETED"
  IN /\ RowsTyped(e)
     /\ e.active = d.active
     /\ e.sub = [d.sub EXCEPT ![s].status = done]
     /\ \A t \in Tasks :
          /\ e.task[t].publisher = d.task[t].publisher
          /\ \/ e.task[t].status = d.task[t].status
             \/ t = DispTask(d, x) /\ e.task[t].status = "CLOSED"
     /\ \A y \in Disps \ {x} : e.disp[y] = d.disp[y]
     /\ e.disp[x].status = "RESOLVED_COMPLETED"
     /\ e.disp[x].sub = s
     /\ e.disp[x].source # "NONE"
     /\ e.disp[x].snap.status = d.task[DispTask(d, x)].status
     /\ e.disp[x].snap.forced = <<>>

\* The dispute's status changes before anything is paid.
LEMMA MarkResolved ==
  ASSUME NEW d, RowsTyped(d), References(d), NEW x \in Disps, d.disp[x].status = "OPEN"
  PROVE  LET e == [d EXCEPT !.disp[x].status = "RESOLVED_COMPLETED"]
         IN /\ RowsTyped(e)
            /\ References(e)
            /\ e.task = d.task /\ e.sub = d.sub /\ e.ban = d.ban /\ e.active = d.active
            /\ \A y \in Disps \ {x} : e.disp[y] = d.disp[y]
            /\ e.disp[x].status = "RESOLVED_COMPLETED"
            /\ e.disp[x].sub = d.disp[x].sub
<1> DEFINE e == [d EXCEPT !.disp[x].status = "RESOLVED_COMPLETED"]
<1>1. /\ DOMAIN e = TableNames
      /\ e.task = d.task /\ e.sub = d.sub /\ e.ban = d.ban /\ e.active = d.active
      /\ e.disp = [d.disp EXCEPT ![x] = [d.disp[x] EXCEPT !.status = "RESOLVED_COMPLETED"]]
  BY DEF RowsTyped, TableNames
<1> HIDE DEF e
<1>2. /\ DOMAIN e.disp = Disps
      /\ \A y \in Disps \ {x} : e.disp[y] = d.disp[y]
      /\ e.disp[x] = [d.disp[x] EXCEPT !.status = "RESOLVED_COMPLETED"]
  BY <1>1 DEF RowsTyped
<1>3. /\ DOMAIN e.disp[x] = DispFields
      /\ e.disp[x].status = "RESOLVED_COMPLETED"
      /\ e.disp[x].sub = d.disp[x].sub
      /\ e.disp[x].source = d.disp[x].source
      /\ e.disp[x].snap = d.disp[x].snap
  BY <1>2 DEF RowsTyped, DispFields
<1>4. RowsTyped(e)
  BY <1>1, <1>2, <1>3 DEF RowsTyped, DispStatus
<1>5. References(e)
  BY <1>1, <1>2, <1>3 DEF References
<1> QED BY <1>1, <1>2, <1>3, <1>4, <1>5 DEF e

LEMMA ResolveFromEscrowEffect ==
  ASSUME NEW d, RowsTyped(d), References(d), NEW x \in Disps,
         d.disp[x].status = "RESOLVED_COMPLETED"
  PROVE  Resolved(d, ResolveFromEscrow(d, x), x)
<1> DEFINE s == d.disp[x].sub
           c == ConfirmInternal(d, s, x)
           e == ResolveFromEscrow(d, x)
           snap == SnapshotBefore(d, x)
           row == [d.disp[x] EXCEPT !.source = "ESCROW",
                                    !.payout = d.task[DispTask(d, x)].reward,
                                    !.snap = snap]
<1>1. s \in Subs /\ d.sub[s].status # "NONE"
  BY DisputeRefs
<1>2. /\ RowsTyped(c)
      /\ c.disp = d.disp
      /\ c.sub = [d.sub EXCEPT ![s].status = "CONFIRMED"]
      /\ \A t \in Tasks :
           /\ c.task[t].publisher = d.task[t].publisher
           /\ \/ c.task[t].status = d.task[t].status
              \/ t = d.sub[s].task /\ c.task[t].status = "CLOSED"
  BY <1>1, ConfirmEffect
<1>3. c.active = d.active
  BY DEF ConfirmInternal, RowsTyped, TableNames
<1>4. /\ snap \in SnapRow
      /\ snap.status = d.task[DispTask(d, x)].status
      /\ snap.forced = <<>>
  BY SnapshotTyped
<1>5. e = [c EXCEPT !.disp[x] = [c.disp[x] EXCEPT !.source = "ESCROW",
                                    !.payout = d.task[DispTask(d, x)].reward,
                                    !.snap = snap]]
  BY DEF ResolveFromEscrow
<1> HIDE DEF c, snap, e
<1>6. /\ DOMAIN e = TableNames
      /\ e.task = c.task /\ e.sub = c.sub /\ e.ban = c.ban /\ e.active = c.active
      /\ e.disp = [d.disp EXCEPT ![x] = row]
  BY <1>2, <1>5 DEF RowsTyped, TableNames
<1>7. /\ DOMAIN row = DispFields
      /\ row.status = "RESOLVED_COMPLETED"
      /\ row.sub = s
      /\ row.source = "ESCROW"
      /\ row.snap = snap
  BY DEF RowsTyped, DispFields
<1> HIDE DEF row
<1>8. /\ DOMAIN e.disp = Disps
      /\ e.disp[x] = row
      /\ \A y \in Disps \ {x} : e.disp[y] = d.disp[y]
  BY <1>6 DEF RowsTyped
<1>9. /\ row.status \in DispStatus
      /\ row.sub \in Subs \cup {NoSub}
      /\ row.source \in PayoutSource
  BY <1>1, <1>7 DEF DispStatus, PayoutSource
<1>10. RowsTyped(e)
  BY <1>2, <1>4, <1>6, <1>7, <1>8, <1>9 DEF RowsTyped
<1>11. DispTask(d, x) = d.sub[s].task
  BY DEF DispTask
<1>12. \A t \in Tasks :
         /\ e.task[t].publisher = d.task[t].publisher
         /\ \/ e.task[t].status = d.task[t].status
            \/ t = DispTask(d, x) /\ e.task[t].status = "CLOSED"
  BY <1>2, <1>6, <1>11
<1>13. Resolved(d, e, x)
  BY <1>2, <1>3, <1>4, <1>6, <1>7, <1>8, <1>10, <1>12 DEF Resolved
<1> QED BY <1>13 DEF e

LEMMA ResolveFromWalletEffect ==
  ASSUME NEW d, RowsTyped(d), References(d), NEW x \in Disps,
         d.disp[x].status = "RESOLVED_COMPLETED"
  PROVE  Resolved(d, ResolveFromWallet(d, x), x)
<1> DEFINE s == d.disp[x].sub
           t == DispTask(d, x)
           task == d.task[t]
           paid == WalletPayout(d, x)
           snap == SnapshotBefore(d, x)
           source == IF Insolvent(d, x) THEN "PUBLISHER_WALLET_PARTIAL" ELSE "PUBLISHER_WALLET"
           row == [d.disp[x] EXCEPT !.source = source, !.payout = paid, !.snap = snap]
           taskAfter == [task EXCEPT !.completed = @ \cup {d.sub[s].agent},
                                     !.status = IF HasPayableSlot(task) THEN @ ELSE "CLOSED"]
           settled == [d EXCEPT
             !.avail[task.publisher] = @ - paid,
             !.avail[d.sub[s].agent] = @ + paid,
             !.sub[s].status = "DISPUTE_COMPLETED",
             !.task[t] = taskAfter,
             !.work = @ \cup CompletionWork(d, s, x),
             !.disp[x] = row]
<1>1. /\ s \in Subs /\ d.sub[s].status # "NONE"
      /\ t \in Tasks
      /\ d.sub[s].agent \in Agents
  BY DisputeRefs DEF DispWorker
<1>2. /\ snap \in SnapRow
      /\ snap.status = task.status
      /\ snap.forced = <<>>
  BY SnapshotTyped
<1>3. source \in PayoutSource \ {"NONE", "ESCROW"}
  BY DEF PayoutSource
<1>4. ResolveFromWallet(d, x) \in
        {settled, BanAgents(settled, {task.publisher}, "DISPUTE_INSOLVENCY", x)}
  BY DEF ResolveFromWallet
<1> HIDE DEF snap, source, paid
<1>5. /\ DOMAIN settled = TableNames
      /\ settled.task = [d.task EXCEPT ![t] = taskAfter]
      /\ settled.sub = [d.sub EXCEPT ![s].status = "DISPUTE_COMPLETED"]
      /\ settled.ban = d.ban
      /\ settled.active = d.active
      /\ settled.disp = [d.disp EXCEPT ![x] = row]
  BY DEF RowsTyped, TableNames
<1>6. /\ DOMAIN row = DispFields
      /\ row.status = "RESOLVED_COMPLETED"
      /\ row.sub = s
      /\ row.source = source
      /\ row.snap = snap
  BY DEF RowsTyped, DispFields
<1>7. /\ taskAfter \in TaskRow
      /\ taskAfter.publisher = task.publisher
      /\ taskAfter.status \in {task.status, "CLOSED"}
  <2> DEFINE completed == task.completed \cup {d.sub[s].agent}
             status == IF HasPayableSlot(task) THEN task.status ELSE "CLOSED"
  <2>1. task \in TaskRow
    BY <1>1 DEF RowsTyped
  <2> HIDE DEF task
  <2>2. completed \subseteq Agents
    BY <1>1, <2>1 DEF TaskRow
  <2>3. status \in {task.status, "CLOSED"} /\ status \in TaskStatus
    BY <2>1 DEF TaskRow, TaskStatus
  <2>4. taskAfter = [task EXCEPT !.completed = completed, !.status = status]
    BY <2>1 DEF TaskRow
  <2> HIDE DEF completed, status, taskAfter
  <2> QED BY <2>1, <2>2, <2>3, <2>4 DEF TaskRow
<1> HIDE DEF row, settled, taskAfter
<1>8. settled.sub \in [Subs -> SubRow]
  BY <1>1, <1>5 DEF RowsTyped, SubRow, SubStatus
<1>9. settled.task \in [Tasks -> TaskRow]
  BY <1>5, <1>7 DEF RowsTyped
<1>10. /\ DOMAIN settled.disp = Disps
       /\ settled.disp[x] = row
       /\ \A y \in Disps \ {x} : settled.disp[y] = d.disp[y]
  BY <1>5 DEF RowsTyped
<1>11. RowsTyped(settled)
  <2>1. /\ row.status \in DispStatus
        /\ row.sub \in Subs \cup {NoSub}
        /\ row.source \in PayoutSource
        /\ row.snap \in SnapRow
    BY <1>1, <1>2, <1>3, <1>6 DEF DispStatus
  <2> QED BY <1>5, <1>6, <1>8, <1>9, <1>10, <2>1 DEF RowsTyped
<1>12. \A u \in Tasks :
         /\ settled.task[u].publisher = d.task[u].publisher
         /\ \/ settled.task[u].status = d.task[u].status
            \/ u = t /\ settled.task[u].status = "CLOSED"
  BY <1>1, <1>5, <1>7 DEF RowsTyped
<1>13. Resolved(d, settled, x)
  BY <1>2, <1>3, <1>5, <1>6, <1>10, <1>11, <1>12 DEF Resolved
<1>14. ASSUME NEW e, RowsTyped(e), e.task = settled.task, e.sub = settled.sub,
              e.disp = settled.disp, e.active = settled.active
       PROVE  Resolved(d, e, x)
  BY <1>13, <1>14 DEF Resolved
<1>15. "DISPUTE_INSOLVENCY" \in BanReason /\ x \in Disps \cup {NoDispute}
  BY DEF BanReason
<1>16. Resolved(d, BanAgents(settled, {task.publisher}, "DISPUTE_INSOLVENCY", x), x)
  BY <1>11, <1>14, <1>15, BanEffect
<1> QED BY <1>4, <1>13, <1>16

LEMMA FinalizeGood ==
  ASSUME NEW d, Good(d, Disps), NEW x \in Disps, d.disp[x].status = "OPEN"
  PROVE  LET e == FinalizeCompleted(d, x)
         IN /\ Good(e, Disps)
            /\ e.active = d.active
            /\ \A y \in Disps \ {x} : e.disp[y] = d.disp[y]
<1> DEFINE m == [d EXCEPT !.disp[x].status = "RESOLVED_COMPLETED"]
           s == d.disp[x].sub
           e == FinalizeCompleted(d, x)
<1>1. RowsTyped(d) /\ References(d) /\ Restorable(d) /\ DisputeBacked(d, Disps)
  BY DEF Good
<1>2. /\ RowsTyped(m)
      /\ References(m)
      /\ m.task = d.task /\ m.sub = d.sub /\ m.ban = d.ban /\ m.active = d.active
      /\ \A y \in Disps \ {x} : m.disp[y] = d.disp[y]
      /\ m.disp[x].status = "RESOLVED_COMPLETED"
      /\ m.disp[x].sub = s
  BY <1>1, MarkResolved
<1>3. /\ s \in Subs
      /\ d.sub[s].status = "REJECTED"
      /\ DispTask(d, x) \in Tasks
      /\ Payable(d.task[DispTask(d, x)].status)
  BY <1>1, DisputeRefs DEF DisputeBacked, Payable
<1>4. e \in {ResolveFromEscrow(m, x), ResolveFromWallet(m, x)}
  BY <1>3 DEF FinalizeCompleted, PaysFromEscrow, PaysFromWallet, AlreadyCompleted, CompletedSub
<1> HIDE DEF m, e
<1>5. Resolved(m, e, x)
  BY <1>2, <1>4, ResolveFromEscrowEffect, ResolveFromWalletEffect
<1> DEFINE done == IF e.disp[x].source = "ESCROW" THEN "CONFIRMED" ELSE "DISPUTE_COMPLETED"
<1>6. DispTask(m, x) = DispTask(d, x)
  BY <1>2 DEF DispTask
<1>7. /\ RowsTyped(e)
      /\ e.active = d.active
      /\ e.sub = [d.sub EXCEPT ![s].status = done]
      /\ \A t \in Tasks :
           /\ e.task[t].publisher = d.task[t].publisher
           /\ \/ e.task[t].status = d.task[t].status
              \/ t = DispTask(d, x) /\ e.task[t].status = "CLOSED"
      /\ \A y \in Disps \ {x} : e.disp[y] = d.disp[y]
      /\ e.disp[x].status = "RESOLVED_COMPLETED"
      /\ e.disp[x].sub = s
      /\ e.disp[x].source # "NONE"
      /\ e.disp[x].snap.status = d.task[DispTask(d, x)].status
      /\ e.disp[x].snap.forced = <<>>
  BY <1>2, <1>5, <1>6 DEF Resolved
<1> HIDE DEF done
<1>8. \A o \in Subs : /\ e.sub[o].task = d.sub[o].task
                      /\ e.sub[o].agent = d.sub[o].agent
                      /\ e.sub[o].status = IF o = s THEN done ELSE d.sub[o].status
  <2>1. d.sub \in [Subs -> SubRow] /\ s \in Subs /\ e.sub = [d.sub EXCEPT ![s].status = done]
    BY <1>1, <1>3, <1>7 DEF RowsTyped
  <2> QED BY <2>1, StatusWritten
<1>9. done \in CompletedSub
  BY DEF done, CompletedSub
<1>10. References(e)
  <2>2. \A t \in Tasks : d.task[t].status # "NONE" => e.task[t].status # "NONE"
    BY <1>7
  <2>3. \A o \in Subs : e.sub[o].status # "NONE" <=> d.sub[o].status # "NONE"
    BY <1>3, <1>8, <1>9 DEF CompletedSub
  <2>4. \A y \in Disps : /\ e.disp[y].sub = d.disp[y].sub
                         /\ e.disp[y].status # "NONE" <=> d.disp[y].status # "NONE"
    BY <1>7
  <2>5. SameKeys(d, e)
    BY <1>3, <1>7, <1>8, <2>2, <2>3, <2>4 DEF SameKeys, Payable
  <2> QED BY <1>1, <2>5, KeysKept
<1>11. Restorable(e)
  <2>1. Revivable(e, <<>>)
    BY DEF Revivable
  <2>2. \A y \in Disps : d.disp[y].snap.forced \in Seq(ForcedRow)
    BY <1>1 DEF RowsTyped, SnapRow
  <2>3. \A y \in Disps : Revivable(d, d.disp[y].snap.forced)
    BY <1>1 DEF Restorable
  <2>4. \A y \in Disps : Revivable(e, d.disp[y].snap.forced)
    <3>1. \A t \in Tasks : d.task[t].publisher \in Agents => e.task[t].publisher \in Agents
      BY <1>7
    <3> QED BY ONLY <2>2, <2>3, <3>1, RevivableKept
  <2> QED BY <1>1, <1>3, <1>7, <2>1, <2>4 DEF Restorable
<1>12. DisputeBacked(e, Disps)
  <2>1. ASSUME NEW y \in Disps \ {x}, d.disp[y].status # "NONE"
        PROVE  /\ d.disp[y].sub \in Subs \ {s}
               /\ DispTask(d, y) \in Tasks
               /\ DispTask(e, y) = DispTask(d, y)
               /\ e.sub[d.disp[y].sub].status = d.sub[d.disp[y].sub].status
    <3>1. d.disp[y].sub \in Subs /\ DispTask(d, y) \in Tasks
      BY <1>1, <2>1, DisputeRefs
    <3>2. d.disp[y].sub # s
      BY <1>1, <2>1 DEF DisputeBacked, Existing, RowsTyped
    <3> QED BY <1>7, <1>8, <3>1, <3>2 DEF DispTask
  <2>2. ASSUME NEW y \in Disps \ {x}, d.disp[y].status = "OPEN"
        PROVE  /\ e.sub[e.disp[y].sub].status = "REJECTED"
               /\ e.task[DispTask(e, y)].status \notin {"NONE", "TERMINATED"}
               /\ e.disp[y].source = "NONE"
    BY <1>1, <1>7, <2>1, <2>2 DEF DisputeBacked
  <2>3. ASSUME NEW y \in Disps \ {x}, d.disp[y].status = "RESOLVED_COMPLETED"
        PROVE  /\ e.disp[y].source # "NONE"
               /\ e.sub[e.disp[y].sub].status =
                    IF e.disp[y].source = "ESCROW" THEN "CONFIRMED" ELSE "DISPUTE_COMPLETED"
    <3>1. /\ d.disp[y].source # "NONE"
          /\ d.sub[d.disp[y].sub].status =
               IF d.disp[y].source = "ESCROW" THEN "CONFIRMED" ELSE "DISPUTE_COMPLETED"
      BY <1>1, <2>3 DEF DisputeBacked
    <3>2. e.disp[y] = d.disp[y]
      BY <1>7
    <3> QED BY <2>1, <2>3, <3>1, <3>2
  <2>4. e.sub[e.disp[x].sub].status = done
    BY <1>3, <1>7, <1>8
  <2>5. DOMAIN e.disp = Disps /\ DOMAIN d.disp = Disps
    BY <1>1, <1>7 DEF RowsTyped
  <2>6. \A y, z \in Existing(e.disp) : e.disp[y].sub = e.disp[z].sub => y = z
    <3>1. \A y \in Disps : /\ e.disp[y].sub = d.disp[y].sub
                           /\ e.disp[y].status # "NONE" <=> d.disp[y].status # "NONE"
      BY <1>7
    <3> QED BY <1>1, <2>5, <3>1 DEF DisputeBacked, Existing
  <2>7. /\ \A y \in Disps \ {x} : e.disp[y] = d.disp[y]
        /\ e.disp[x].status = "RESOLVED_COMPLETED" /\ e.disp[x].source # "NONE"
    BY <1>7
  <2>8. e.sub[e.disp[x].sub].status =
          IF e.disp[x].source = "ESCROW" THEN "CONFIRMED" ELSE "DISPUTE_COMPLETED"
    BY <2>4 DEF done
  <2> QED
    BY <2>2, <2>3, <2>6, <2>7, <2>8 DEF DisputeBacked
<1>13. Good(e, Disps)
  BY <1>7, <1>10, <1>11, <1>12 DEF Good
<1> QED BY <1>7, <1>13 DEF e

-----------------------------------------------------------------------------
(* Reopening of a dispute.                                                 *)

\* A write that touches no more than the votes or the history of a dispute.
LEMMA DisputeKeptGood ==
  ASSUME NEW d, Good(d, Disps), NEW x \in Disps,
         NEW row, DOMAIN row = DispFields,
         row.status = d.disp[x].status, row.sub = d.disp[x].sub,
         row.source = d.disp[x].source, row.snap = d.disp[x].snap,
         NEW e, DOMAIN e = TableNames, e.disp = [d.disp EXCEPT ![x] = row],
         e.task = d.task, e.sub = d.sub, e.ban = d.ban, e.active = d.active
  PROVE  Good(e, Disps)
<1>1. RowsTyped(d) /\ References(d) /\ Restorable(d) /\ DisputeBacked(d, Disps)
  BY DEF Good
<1>2. /\ DOMAIN e.disp = Disps
      /\ \A y \in Disps : /\ DOMAIN e.disp[y] = DispFields
                          /\ e.disp[y].status = d.disp[y].status
                          /\ e.disp[y].sub = d.disp[y].sub
                          /\ e.disp[y].source = d.disp[y].source
                          /\ e.disp[y].snap = d.disp[y].snap
  BY <1>1 DEF RowsTyped
<1>3. RowsTyped(e)
  BY <1>1, <1>2 DEF RowsTyped
<1>4. References(e)
  BY <1>1, <1>2 DEF References
<1>5. Restorable(e)
  <2>1. \A y \in Disps : d.disp[y].snap.forced \in Seq(ForcedRow)
    BY <1>1 DEF RowsTyped, SnapRow
  <2>2. \A y \in Disps : Revivable(d, d.disp[y].snap.forced)
    BY <1>1 DEF Restorable
  <2>3. \A y \in Disps : Revivable(e, d.disp[y].snap.forced)
    <3>1. \A t \in Tasks : d.task[t].publisher \in Agents => e.task[t].publisher \in Agents
      OBVIOUS
    <3> QED BY ONLY <2>1, <2>2, <3>1, RevivableKept
  <2> QED BY <1>1, <1>2, <2>3 DEF Restorable
<1>6. DisputeBacked(e, Disps)
  <2>1. Existing(e.disp) = Existing(d.disp)
    BY <1>1, <1>2 DEF Existing, RowsTyped
  <2>2. \A y \in Disps : DispTask(e, y) = DispTask(d, y)
    BY <1>2 DEF DispTask
  <2>3. ASSUME NEW y \in Disps, d.disp[y].status = "OPEN"
        PROVE  /\ e.sub[e.disp[y].sub].status = "REJECTED"
               /\ e.task[DispTask(e, y)].status \notin {"NONE", "TERMINATED"}
               /\ e.disp[y].source = "NONE"
    BY <1>1, <1>2, <2>2, <2>3 DEF DisputeBacked
  <2>4. ASSUME NEW y \in Disps, d.disp[y].status = "RESOLVED_COMPLETED"
        PROVE  /\ e.disp[y].source # "NONE"
               /\ e.sub[e.disp[y].sub].status =
                    IF e.disp[y].source = "ESCROW" THEN "CONFIRMED" ELSE "DISPUTE_COMPLETED"
    BY <1>1, <1>2, <2>4 DEF DisputeBacked
  <2>5. \A y, z \in Existing(e.disp) : e.disp[y].sub = e.disp[z].sub => y = z
    BY <1>1, <1>2, <2>1 DEF DisputeBacked, Existing, RowsTyped
  <2> QED BY <1>2, <2>3, <2>4, <2>5 DEF DisputeBacked
<1> QED BY <1>3, <1>4, <1>5, <1>6 DEF Good

LEMMA ArchiveGood ==
  ASSUME NEW d, Good(d, Disps), NEW x \in Disps
  PROVE  LET e == ArchiveRound(d, x)
         IN /\ Good(e, Disps)
            /\ e.task = d.task /\ e.sub = d.sub /\ e.active = d.active
            /\ e.disp[x].status = d.disp[x].status
            /\ e.disp[x].sub = d.disp[x].sub
<1> DEFINE e == ArchiveRound(d, x)
           h == [exists |-> TRUE,
                 cycles |-> d.disp[x].history.cycles \cup AffectedCycles(d, x),
                 agents |-> d.disp[x].history.agents \cup {r.agent : r \in DisputeWork(d, x)}]
           row == [d.disp[x] EXCEPT !.history = h]
<1>1. CASE e = d
  BY <1>1
<1>2. CASE e = [d EXCEPT !.disp[x] = row]
  <2>1. RowsTyped(d)
    BY DEF Good
  <2> HIDE DEF e, h
  <2>2. /\ DOMAIN e = TableNames
        /\ e.task = d.task /\ e.sub = d.sub /\ e.ban = d.ban /\ e.active = d.active
        /\ e.disp = [d.disp EXCEPT ![x] = row]
    BY <1>2, <2>1 DEF RowsTyped, TableNames
  <2>3. /\ DOMAIN row = DispFields
        /\ row.status = d.disp[x].status
        /\ row.sub = d.disp[x].sub
        /\ row.source = d.disp[x].source
        /\ row.snap = d.disp[x].snap
    BY <2>1 DEF RowsTyped, DispFields
  <2>4. e.disp[x] = row
    BY <2>1, <2>2 DEF RowsTyped
  <2> HIDE DEF row
  <2>5. Good(e, Disps)
    BY <2>2, <2>3, DisputeKeptGood
  <2> QED BY <2>2, <2>3, <2>4, <2>5 DEF e
<1> QED BY <1>1, <1>2 DEF ArchiveRound

LEMMA RollbackGood ==
  ASSUME NEW d, Good(d, Disps), NEW x \in Disps,
         d.disp[x].status = "RESOLVED_COMPLETED"
  PROVE  LET e == RollbackResolution(d, x)
         IN /\ Good(e, Disps \ {x})
            /\ Reopenable(e, x)
            /\ \A u \in Tasks : e.task[u].publisher = d.task[u].publisher
<1> DEFINE e == RollbackResolution(d, x)
           s == d.disp[x].sub
           t == DispTask(d, x)
           task == d.task[t]
           snap == d.disp[x].snap
           completed == IF OtherCompletion(d, s) THEN task.completed
                        ELSE task.completed \ {d.sub[s].agent}
           after == [task EXCEPT !.escrow = snap.escrow, !.status = snap.status,
                                 !.completed = completed]
<1>1. RowsTyped(d) /\ References(d) /\ Restorable(d) /\ DisputeBacked(d, Disps)
  BY DEF Good
<1>2. /\ s \in Subs /\ d.sub[s].status # "NONE" /\ t \in Tasks
      /\ d.disp[x].source # "NONE"
  BY <1>1, DisputeRefs DEF DisputeBacked
<1>3. Payable(snap.status)
  BY <1>1, <1>2 DEF Restorable
<1>4. task \in TaskRow /\ snap \in SnapRow
  BY <1>1, <1>2 DEF RowsTyped
<1>5. /\ DOMAIN e = TableNames
      /\ e.sub = [d.sub EXCEPT ![s].status = "REJECTED"]
      /\ e.ban = d.ban
      /\ e.active = d.active
      /\ e.disp = d.disp
  BY <1>1 DEF RollbackResolution, RowsTyped, TableNames
<1>6. e.task = [d.task EXCEPT ![t] = after]
  BY <1>1, <1>2, <1>4 DEF RollbackResolution, RowsTyped, TableNames
<1>7. completed \subseteq Agents
  BY <1>4 DEF TaskRow
<1>8. snap.escrow \in Int /\ snap.status \in TaskStatus
  BY <1>4 DEF SnapRow
<1> HIDE DEF e, task, snap, completed
<1>9. /\ after \in TaskRow
      /\ after.publisher = task.publisher
      /\ after.status = snap.status
  BY <1>4, <1>7, <1>8 DEF TaskRow
<1> HIDE DEF after
<1>10. RowsTyped(e)
  <2>1. e.sub \in [Subs -> SubRow]
    BY <1>1, <1>2, <1>5 DEF RowsTyped, SubRow, SubStatus
  <2>2. e.task \in [Tasks -> TaskRow]
    BY <1>1, <1>6, <1>9 DEF RowsTyped
  <2> QED BY <1>1, <1>5, <2>1, <2>2 DEF RowsTyped
<1>11. \A o \in Subs : /\ e.sub[o].task = d.sub[o].task
                       /\ e.sub[o].agent = d.sub[o].agent
                       /\ e.sub[o].status = IF o = s THEN "REJECTED" ELSE d.sub[o].status
  BY <1>1, <1>2, <1>5 DEF RowsTyped, SubRow
<1>12. \A u \in Tasks :
         /\ e.task[u].publisher = d.task[u].publisher
         /\ e.task[u].status = IF u = t THEN snap.status ELSE d.task[u].status
  BY <1>1, <1>2, <1>6, <1>9 DEF RowsTyped, task
<1>13. d.task[t].publisher \in Agents
  BY <1>1, <1>2, DisputeRefs DEF DispPublisher
<1>14. References(e)
  <2>1. SameKeys(d, e)
    BY <1>2, <1>3, <1>5, <1>11, <1>12, <1>13 DEF SameKeys, Payable
  <2> QED BY <1>1, <2>1, KeysKept
<1>15. Restorable(e)
  BY <1>1, <1>5, <1>12, RestorableKept
<1>16. \A y \in Disps : d.disp[y].status # "NONE" =>
         /\ d.disp[y].sub \in Subs
         /\ DispTask(d, y) \in Tasks
         /\ DispTask(e, y) = DispTask(d, y)
  BY <1>1, <1>5, <1>11, DisputeRefs DEF DispTask
<1>17. DisputeBacked(e, Disps \ {x})
  <2>1. ASSUME NEW y \in Disps \ {x}, d.disp[y].status # "NONE"
        PROVE  e.sub[d.disp[y].sub].status = d.sub[d.disp[y].sub].status
    BY <1>1, <1>11, <1>16, <2>1 DEF DisputeBacked, Existing, RowsTyped
  <2>2. ASSUME NEW y \in Disps \ {x}, d.disp[y].status = "OPEN"
        PROVE  /\ e.sub[e.disp[y].sub].status = "REJECTED"
               /\ e.task[DispTask(e, y)].status \notin {"NONE", "TERMINATED"}
               /\ e.disp[y].source = "NONE"
    BY <1>1, <1>3, <1>5, <1>12, <1>16, <2>1, <2>2, SMTT(30) DEF DisputeBacked, Payable
  <2>3. ASSUME NEW y \in Disps \ {x}, d.disp[y].status = "RESOLVED_COMPLETED"
        PROVE  /\ e.disp[y].source # "NONE"
               /\ e.sub[e.disp[y].sub].status =
                    IF e.disp[y].source = "ESCROW" THEN "CONFIRMED" ELSE "DISPUTE_COMPLETED"
    BY <1>1, <1>5, <2>1, <2>3 DEF DisputeBacked
  <2>4. \A y, z \in Existing(e.disp) : e.disp[y].sub = e.disp[z].sub => y = z
    BY <1>1, <1>5 DEF DisputeBacked
  <2> QED BY <1>5, <2>2, <2>3, <2>4 DEF DisputeBacked
<1>18. Reopenable(e, x)
  BY <1>2, <1>3, <1>5, <1>11, <1>12, <1>16 DEF Reopenable
<1> QED BY <1>10, <1>12, <1>14, <1>15, <1>17, <1>18 DEF Good, e

LEMMA UnforceGood ==
  ASSUME NEW d, NEW X, Good(d, X), X \subseteq Disps,
         NEW entry \in ForcedRow, entry.status \in ActiveTask,
         d.task[entry.task].publisher \in Agents
  PROVE  LET e == RollbackForced(d, entry)
         IN /\ Good(e, X)
            /\ e.active = d.active
            /\ \A x \in Disps : Reopenable(d, x) => Reopenable(e, x)
            /\ \A u \in Tasks : e.task[u].publisher = d.task[u].publisher
<1> DEFINE e == RollbackForced(d, entry)
           t == entry.task
           after == [d.task[t] EXCEPT !.escrow = entry.escrow, !.status = entry.status]
<1>1. RowsTyped(d) /\ References(d) /\ Restorable(d) /\ DisputeBacked(d, X)
  BY DEF Good
<1>2. t \in Tasks /\ entry.escrow \in Int /\ entry.status \in TaskStatus
  BY DEF ForcedRow
<1>3. /\ DOMAIN e = TableNames
      /\ e.task = [d.task EXCEPT ![t] = after]
      /\ e.sub = d.sub /\ e.ban = d.ban /\ e.disp = d.disp /\ e.active = d.active
  BY <1>1 DEF RollbackForced, RowsTyped, TableNames
<1>4. /\ after \in TaskRow
      /\ after.publisher = d.task[t].publisher
      /\ after.status = entry.status
  <2> DEFINE row == d.task[t]
  <2>1. row \in TaskRow
    BY <1>1, <1>2 DEF RowsTyped
  <2> HIDE DEF row
  <2>2. after = [row EXCEPT !.escrow = entry.escrow, !.status = entry.status]
    BY DEF row
  <2> HIDE DEF after
  <2>3. after \in TaskRow /\ after.publisher = row.publisher /\ after.status = entry.status
    BY <1>2, <2>1, <2>2 DEF TaskRow
  <2> QED BY <2>3 DEF row
<1> HIDE DEF e, after
<1>5. RowsTyped(e)
  <2>1. e.task \in [Tasks -> TaskRow]
    BY <1>1, <1>2, <1>3, <1>4 DEF RowsTyped
  <2> QED BY <1>1, <1>3, <2>1 DEF RowsTyped
<1>6. \A u \in Tasks :
        /\ e.task[u].publisher = d.task[u].publisher
        /\ e.task[u].status = IF u = t THEN entry.status ELSE d.task[u].status
  BY <1>1, <1>2, <1>3, <1>4 DEF RowsTyped
<1>7. SameKeys(d, e)
  BY <1>3, <1>6 DEF SameKeys, ActiveTask
<1>8. References(e)
  BY <1>1, <1>7, KeysKept
<1>9. Restorable(e)
  BY <1>1, <1>3, <1>6, RestorableKept
<1>10. ASSUME NEW x \in Disps, d.disp[x].status # "NONE",
              Payable(d.task[DispTask(d, x)].status)
       PROVE  Payable(e.task[DispTask(e, x)].status)
  <2>1. DispTask(d, x) \in Tasks /\ DispTask(e, x) = DispTask(d, x)
    BY <1>1, <1>3, <1>10, DisputeRefs DEF DispTask
  <2> QED BY <1>6, <1>10, <2>1 DEF Payable, ActiveTask
<1>11. DisputeBacked(e, X)
  <2>1. ASSUME NEW y \in X, d.disp[y].status = "OPEN"
        PROVE  e.task[DispTask(e, y)].status \notin {"NONE", "TERMINATED"}
    BY <1>1, <1>10, <2>1 DEF DisputeBacked, Payable
  <2> QED BY <1>1, <1>3, <2>1 DEF DisputeBacked
<1>12. \A x \in Disps : Reopenable(d, x) => Reopenable(e, x)
  BY <1>3, <1>10 DEF Reopenable
<1> QED BY <1>3, <1>5, <1>6, <1>8, <1>9, <1>11, <1>12 DEF Good, e

LEMMA RestoreBanGood ==
  ASSUME NEW d, NEW X, Good(d, X), NEW x \in Disps,
         NEW alt \in Disps \cup {NoDispute}
  PROVE  LET e == RestoreBan(d, x, alt)
         IN /\ Good(e, X)
            /\ e.active = d.active
            /\ \A y \in Disps : Reopenable(d, y) => Reopenable(e, y)
<1> DEFINE e == RestoreBan(d, x, alt)
           p == DispPublisher(d, x)
           snap == d.disp[x].snap
           source == IF snap.banSource # NoDispute THEN snap.banSource ELSE alt
           kept == [d.ban[p] EXCEPT !.source = source]
           anew == [status |-> "BANNED", reason |-> "DISPUTE_INSOLVENCY", source |-> alt]
<1>1. RowsTyped(d)
  BY DEF Good
<1>2. snap.banSource \in Disps \cup {NoDispute}
  BY <1>1 DEF RowsTyped, SnapRow
<1>3. p \in Agents => d.ban[p] \in BanRow
  BY <1>1 DEF RowsTyped
<1>4. p \in Agents => {kept, anew, d.ban[p], NoBan} \subseteq BanRow
  <2> HIDE DEF p
  <2>1. source \in Disps \cup {NoDispute}
    BY <1>2
  <2> HIDE DEF source
  <2> QED BY <1>3, <2>1 DEF BanRow, BanReason, NoBan
<1>5. \E row \in {kept, anew, d.ban[p], NoBan} : e = [d EXCEPT !.ban[p] = row]
  BY DEF RestoreBan
<1> HIDE DEF e, p, kept, anew
<1>6. /\ DOMAIN e = TableNames
      /\ e.task = d.task /\ e.sub = d.sub /\ e.disp = d.disp /\ e.active = d.active
  BY <1>1, <1>5 DEF RowsTyped, TableNames
<1>7. e.ban \in [Agents -> BanRow]
  BY <1>1, <1>4, <1>5 DEF RowsTyped, TableNames
<1>8. RowsTyped(e)
  BY <1>1, <1>6, <1>7 DEF RowsTyped
<1>9. Good(e, X)
  BY <1>6, <1>8, SameRows
<1> QED BY <1>6, <1>9 DEF Reopenable, DispTask, e

LEMMA NewRoundGood ==
  ASSUME NEW d, NEW x \in Disps, Good(d, Disps \ {x}), Reopenable(d, x)
  PROVE  LET e == OpenNewRound(d, x)
         IN Good(e, Disps) /\ e.active = d.active
<1> DEFINE e == OpenNewRound(d, x)
           row == [d.disp[x] EXCEPT !.status = "OPEN", !.votes = {}, !.source = "NONE",
                                    !.payout = 0, !.snap = NoSnap]
<1>1. RowsTyped(d) /\ References(d) /\ Restorable(d) /\ DisputeBacked(d, Disps \ {x})
  BY DEF Good
<1>2. /\ DOMAIN e = TableNames
      /\ e.task = d.task /\ e.sub = d.sub /\ e.ban = d.ban /\ e.active = d.active
      /\ e.disp = [d.disp EXCEPT ![x] = row]
  BY <1>1 DEF OpenNewRound, RowsTyped, TableNames
<1>3. /\ DOMAIN row = DispFields
      /\ row.status = "OPEN"
      /\ row.sub = d.disp[x].sub
      /\ row.source = "NONE"
      /\ row.snap = NoSnap
  BY <1>1 DEF RowsTyped, DispFields
<1>4. NoSnap \in SnapRow /\ Revivable(e, NoSnap.forced)
  BY DEF NoSnap, SnapRow, TaskStatus, Revivable
<1> HIDE DEF e, row
<1>5. /\ DOMAIN e.disp = Disps
      /\ e.disp[x] = row
      /\ \A y \in Disps \ {x} : e.disp[y] = d.disp[y]
  BY <1>1, <1>2 DEF RowsTyped
<1>6. RowsTyped(e)
  <2>1. row.sub \in Subs \cup {NoSub}
    BY <1>1, <1>3 DEF RowsTyped
  <2> QED BY <1>1, <1>2, <1>3, <1>4, <1>5, <2>1 DEF RowsTyped, DispStatus, PayoutSource
<1>7. SameKeys(d, e)
  BY <1>2, <1>3, <1>5 DEF SameKeys, Reopenable
<1>8. References(e) /\ \A y \in Disps : d.disp[y].status # "NONE" => DispTask(e, y) = DispTask(d, y)
  BY <1>1, <1>7, KeysKept
<1>9. Restorable(e)
  <2>1. \A y \in Disps : d.disp[y].snap.forced \in Seq(ForcedRow)
    BY <1>1 DEF RowsTyped, SnapRow
  <2>2. \A y \in Disps : Revivable(d, d.disp[y].snap.forced)
    BY <1>1 DEF Restorable
  <2>3. \A y \in Disps : Revivable(e, d.disp[y].snap.forced)
    <3>1. \A t \in Tasks : d.task[t].publisher \in Agents => e.task[t].publisher \in Agents
      BY <1>2
    <3> QED BY ONLY <2>1, <2>2, <3>1, RevivableKept
  <2> QED BY <1>1, <1>3, <1>4, <1>5, <2>3 DEF Restorable
<1>10. DisputeBacked(e, Disps)
  <2>1. \A y \in Disps \ {x} : d.disp[y].status = "OPEN" =>
          /\ e.sub[e.disp[y].sub].status = "REJECTED"
          /\ e.task[DispTask(e, y)].status \notin {"NONE", "TERMINATED"}
          /\ e.disp[y].source = "NONE"
    BY <1>1, <1>2, <1>5, <1>8 DEF DisputeBacked
  <2>2. \A y \in Disps \ {x} : d.disp[y].status = "RESOLVED_COMPLETED" =>
          /\ e.disp[y].source # "NONE"
          /\ e.sub[e.disp[y].sub].status =
               IF e.disp[y].source = "ESCROW" THEN "CONFIRMED" ELSE "DISPUTE_COMPLETED"
    BY <1>1, <1>2, <1>5 DEF DisputeBacked
  <2>3. /\ e.sub[e.disp[x].sub].status = "REJECTED"
        /\ e.task[DispTask(e, x)].status \notin {"NONE", "TERMINATED"}
    BY <1>2, <1>3, <1>5, <1>8 DEF Reopenable, Payable
  <2>4. \A y, z \in Existing(e.disp) : e.disp[y].sub = e.disp[z].sub => y = z
    BY <1>1, <1>5, <1>7 DEF DisputeBacked, Existing, SameKeys, RowsTyped
  <2> QED BY <1>3, <1>5, <2>1, <2>2, <2>3, <2>4 DEF DisputeBacked
<1> QED BY <1>2, <1>6, <1>8, <1>9, <1>10 DEF Good, e

-----------------------------------------------------------------------------
(* The writes of one step.                                                 *)

LEMMA PublishGood ==
  ASSUME Good(db, Disps), NEW t \in Tasks, NEW p \in Publishers, NEW slots \in SlotCounts,
         NEW reward \in Rewards, NEW repeat \in RepeatOptions,
         Publish(t, p, slots, reward, repeat)
  PROVE  Good(db', Disps)
<1> DEFINE row == [status |-> "OPEN", publisher |-> p, slots |-> slots,
                   reward |-> reward, repeat |-> repeat, escrow |-> slots * reward,
                   intents |-> {}, completed |-> {}]
<1>1. RowsTyped(db) /\ References(db) /\ Restorable(db) /\ DisputeBacked(db, Disps)
  BY DEF Good
<1>2. db.task[t].status = "NONE"
  BY <1>1 DEF Publish, NextId, Existing, RowsTyped
<1>3. /\ DOMAIN db' = TableNames
      /\ db'.task = [db.task EXCEPT ![t] = row]
      /\ db'.sub = db.sub /\ db'.ban = db.ban /\ db'.active = db.active
      /\ db'.disp = db.disp
  BY <1>1 DEF Publish, Write, RowsTyped, TableNames
<1>4. row \in TaskRow
  <2> DEFINE total == slots * reward
  <2>1. slots \in Nat /\ reward \in Nat /\ total \in Int /\ p \in Agents /\ repeat \in BOOLEAN
    BY ActorsAssumption
  <2> HIDE DEF total
  <2>2. row = [status |-> "OPEN", publisher |-> p, slots |-> slots,
               reward |-> reward, repeat |-> repeat, escrow |-> total,
               intents |-> {}, completed |-> {}]
    BY DEF total
  <2> QED BY <2>1, <2>2 DEF TaskRow, TaskStatus
<1>5. row.publisher = p /\ row.status = "OPEN"
  OBVIOUS
<1> HIDE DEF row
<1>6. RowsTyped(db')
  <2>1. db'.task \in [Tasks -> TaskRow]
    BY <1>1, <1>3, <1>4 DEF RowsTyped
  <2> QED BY <1>1, <1>3, <2>1 DEF RowsTyped
<1>7. \A u \in Tasks \ {t} : db'.task[u] = db.task[u]
  BY <1>1, <1>3 DEF RowsTyped
<1>8. \A s \in Subs : db.sub[s].status # "NONE" => db.sub[s].task \in Tasks \ {t}
  BY <1>1, <1>2 DEF References
<1>9. db'.task[t] = row /\ p \in Agents
  BY <1>1, <1>3, ActorsAssumption DEF RowsTyped
<1>10. References(db')
  BY <1>1, <1>3, <1>5, <1>7, <1>8, <1>9 DEF References
<1>11. Restorable(db')
  BY <1>1, <1>3, <1>5, <1>7, <1>9, RestorableKept, ZenonT(30)
<1>12. ASSUME NEW x \in Disps, db.disp[x].status # "NONE"
       PROVE  /\ DispTask(db', x) = DispTask(db, x)
              /\ db'.task[DispTask(db, x)] = db.task[DispTask(db, x)]
  <2>1. db.disp[x].sub \in Subs /\ db.sub[db.disp[x].sub].status # "NONE"
    BY <1>1, <1>12, DisputeRefs
  <2> QED BY <1>3, <1>7, <1>8, <2>1 DEF DispTask
<1>13. DisputeBacked(db', Disps)
  <2>1. ASSUME NEW y \in Disps, db.disp[y].status = "OPEN"
        PROVE  db'.task[DispTask(db', y)].status \notin {"NONE", "TERMINATED"}
    BY <1>1, <1>12, <2>1 DEF DisputeBacked
  <2> QED BY <1>1, <1>3, <2>1 DEF DisputeBacked, Existing
<1> QED BY <1>6, <1>10, <1>11, <1>13 DEF Good

\* A write that touches no more than a task's row, and that harmlessly.
LEMMA TaskWriteGood ==
  ASSUME NEW d, NEW X, Good(d, X), X \subseteq Disps,
         NEW t \in Tasks, d.task[t].status # "NONE",
         NEW row \in TaskRow, row.publisher = d.task[t].publisher, Payable(row.status),
         NEW e, DOMAIN e = TableNames, e.task = [d.task EXCEPT ![t] = row],
         e.sub = d.sub, e.disp = d.disp, e.ban = d.ban, e.active = d.active
  PROVE  Good(e, X)
<1>1. RowsTyped(d) /\ References(d) /\ Restorable(d) /\ DisputeBacked(d, X)
  BY DEF Good
<1>2. RowsTyped(e)
  <2>1. e.task \in [Tasks -> TaskRow]
    BY <1>1 DEF RowsTyped
  <2> QED BY <1>1, <2>1 DEF RowsTyped
<1>3. \A u \in Tasks : /\ e.task[u].publisher = d.task[u].publisher
                       /\ e.task[u].status = IF u = t THEN row.status ELSE d.task[u].status
  BY <1>1 DEF RowsTyped
<1>4. SameKeys(d, e)
  BY <1>3 DEF SameKeys, Payable
<1>5. References(e) /\ \A x \in Disps : d.disp[x].status # "NONE" => DispTask(e, x) = DispTask(d, x)
  BY <1>1, <1>4, KeysKept
<1>6. Restorable(e)
  BY <1>1, <1>3, RestorableKept
<1>7. DisputeBacked(e, X)
  <2>1. ASSUME NEW y \in X, d.disp[y].status = "OPEN"
        PROVE  e.task[DispTask(e, y)].status \notin {"NONE", "TERMINATED"}
    <3>1. DispTask(d, y) \in Tasks /\ DispTask(e, y) = DispTask(d, y)
      BY <1>1, <1>5, <2>1, DisputeRefs
    <3>2. d.task[DispTask(d, y)].status \notin {"NONE", "TERMINATED"}
      BY <1>1, <2>1 DEF DisputeBacked
    <3> QED BY <1>3, <3>1, <3>2 DEF Payable
  <2> QED BY <1>1, <2>1 DEF DisputeBacked, Existing
<1> QED BY <1>2, <1>5, <1>6, <1>7 DEF Good

LEMMA IntentionGood ==
  ASSUME Good(db, Disps), NEW t \in Tasks, NEW a \in Workers, AddIntention(t, a)
  PROVE  Good(db', Disps)
<1> DEFINE task == db.task[t]
           intents == task.intents \cup {a}
           row == [task EXCEPT !.intents = intents]
<1>1. RowsTyped(db) /\ task \in TaskRow
  BY DEF Good, RowsTyped
<1>2. /\ DOMAIN db' = TableNames
      /\ db'.task = [db.task EXCEPT ![t] = row]
      /\ db'.sub = db.sub /\ db'.disp = db.disp /\ db'.ban = db.ban /\ db'.active = db.active
  BY <1>1 DEF AddIntention, Write, RowsTyped, TableNames
<1>3. task.status \in ActiveTask
  BY DEF AddIntention
<1>4. intents \subseteq Agents
  BY <1>1, ActorsAssumption DEF TaskRow
<1> HIDE DEF task, intents
<1>5. row \in TaskRow /\ row.publisher = task.publisher /\ row.status = task.status
  BY <1>1, <1>4 DEF TaskRow
<1> HIDE DEF row
<1>6. Payable(row.status) /\ task.status # "NONE"
  BY <1>3, <1>5 DEF Payable, ActiveTask
<1> QED BY <1>2, <1>5, <1>6, TaskWriteGood DEF task

\* The status of a task's row is written and nothing else of it.
LEMMA TaskStatusGood ==
  ASSUME NEW d, Good(d, Disps), NEW t \in Tasks, d.task[t].status # "NONE",
         NEW status \in {"IN_PROGRESS", "CLOSED"},
         NEW e, DOMAIN e = TableNames,
         e.task = [d.task EXCEPT ![t] = [d.task[t] EXCEPT !.status = status]],
         e.sub = d.sub, e.disp = d.disp, e.ban = d.ban, e.active = d.active
  PROVE  Good(e, Disps)
<1> DEFINE task == d.task[t]
           row == [task EXCEPT !.status = status]
<1>1. task \in TaskRow
  BY DEF Good, RowsTyped
<1>2. status \in TaskStatus /\ Payable(status)
  BY DEF TaskStatus, Payable
<1>3. e.task = [d.task EXCEPT ![t] = row]
  OBVIOUS
<1> HIDE DEF task
<1>4. row \in TaskRow /\ row.publisher = task.publisher /\ row.status = status
  BY <1>1, <1>2 DEF TaskRow
<1> HIDE DEF row
<1> QED BY <1>2, <1>3, <1>4, TaskWriteGood DEF task

\* A submission that no dispute is about is written.
LEMMA SubWriteGood ==
  ASSUME NEW d, Good(d, Disps), NEW s \in Subs,
         \A x \in Disps : d.disp[x].status # "NONE" => d.disp[x].sub # s,
         NEW row \in SubRow, row.status # "NONE",
         row.task \in Tasks, row.agent \in Agents, d.task[row.task].status # "NONE",
         NEW e, DOMAIN e = TableNames, e.sub = [d.sub EXCEPT ![s] = row],
         e.task = d.task, e.disp = d.disp, e.ban = d.ban, e.active = d.active
  PROVE  Good(e, Disps)
<1>1. RowsTyped(d) /\ References(d) /\ Restorable(d) /\ DisputeBacked(d, Disps)
  BY DEF Good
<1>2. /\ e.sub \in [Subs -> SubRow]
      /\ e.sub[s] = row
      /\ \A o \in Subs \ {s} : e.sub[o] = d.sub[o]
  BY <1>1 DEF RowsTyped
<1>3. RowsTyped(e)
  BY <1>1, <1>2 DEF RowsTyped
<1>4. References(e)
  BY <1>1, <1>2 DEF References
<1>5. Restorable(e)
  BY <1>1, RestorableKept
<1>6. \A x \in Disps : d.disp[x].status # "NONE" =>
        /\ e.sub[d.disp[x].sub] = d.sub[d.disp[x].sub]
        /\ DispTask(e, x) = DispTask(d, x)
  BY <1>1, <1>2 DEF References, DispTask
<1>7. DisputeBacked(e, Disps)
  <2>1. ASSUME NEW y \in Disps, d.disp[y].status = "OPEN"
        PROVE  /\ e.sub[d.disp[y].sub].status = "REJECTED"
               /\ e.task[DispTask(e, y)].status \notin {"NONE", "TERMINATED"}
               /\ d.disp[y].source = "NONE"
    BY <1>1, <1>6, <2>1 DEF DisputeBacked
  <2>2. ASSUME NEW y \in Disps, d.disp[y].status = "RESOLVED_COMPLETED"
        PROVE  /\ d.disp[y].source # "NONE"
               /\ e.sub[d.disp[y].sub].status =
                    IF d.disp[y].source = "ESCROW" THEN "CONFIRMED" ELSE "DISPUTE_COMPLETED"
    BY <1>1, <1>6, <2>2 DEF DisputeBacked
  <2> QED BY <1>1, <2>1, <2>2 DEF DisputeBacked
<1> QED BY <1>3, <1>4, <1>5, <1>7 DEF Good

LEMMA SubmitGood ==
  ASSUME Good(db, Disps), NEW s \in Subs, NEW t \in Tasks, NEW a \in Workers, Submit(s, t, a)
  PROVE  Good(db', Disps)
<1> DEFINE d == [db EXCEPT !.task[t].status = "IN_PROGRESS"]
           row == [status |-> "SUBMITTED", task |-> t, agent |-> a]
<1>1. RowsTyped(db) /\ References(db)
  BY DEF Good
<1>2. db.task[t].status \in ActiveTask
  BY DEF Submit, Submittable
<1>3. db.sub[s].status = "NONE"
  BY <1>1 DEF Submit, NextId, Existing, RowsTyped
<1>4. /\ DOMAIN d = TableNames
      /\ d.task = [db.task EXCEPT ![t] = [db.task[t] EXCEPT !.status = "IN_PROGRESS"]]
      /\ d.sub = db.sub /\ d.disp = db.disp /\ d.ban = db.ban /\ d.active = db.active
  BY <1>1 DEF RowsTyped, TableNames
<1>5. /\ DOMAIN db' = TableNames
      /\ db'.sub = [d.sub EXCEPT ![s] = row]
      /\ db'.task = d.task /\ db'.disp = d.disp /\ db'.ban = d.ban /\ db'.active = d.active
  BY <1>1 DEF Submit, Write, RowsTyped, TableNames
<1>6. d.task[t].status = "IN_PROGRESS"
  BY <1>1, <1>4 DEF RowsTyped, TaskRow
<1> HIDE DEF d
<1>7. Good(d, Disps)
  BY <1>2, <1>4, TaskStatusGood DEF ActiveTask
<1>8. /\ row \in SubRow
      /\ row.status = "SUBMITTED" /\ row.task = t /\ row.agent = a /\ a \in Agents
  BY ActorsAssumption DEF SubRow, SubStatus
<1>9. \A x \in Disps : d.disp[x].status # "NONE" => d.disp[x].sub # s
  BY <1>1, <1>3, <1>4 DEF References
<1> HIDE DEF row
<1> QED BY <1>5, <1>6, <1>7, <1>8, <1>9, SubWriteGood

LEMMA RejectGood ==
  ASSUME Good(db, Disps), NEW s \in Subs, Reject(s)
  PROVE  Good(db', Disps)
<1> DEFINE old == db.sub[s]
           row == [old EXCEPT !.status = "REJECTED"]
<1>1. RowsTyped(db) /\ References(db) /\ DisputeBacked(db, Disps)
  BY DEF Good
<1>2. old.status = "SUBMITTED" /\ old \in SubRow
  BY <1>1 DEF Reject, RowsTyped
<1>3. /\ DOMAIN db' = TableNames
      /\ db'.sub = [db.sub EXCEPT ![s] = row]
      /\ db'.task = db.task /\ db'.disp = db.disp /\ db'.ban = db.ban /\ db'.active = db.active
  BY <1>1 DEF Reject, Write, RowsTyped, TableNames
<1>4. /\ row \in SubRow
      /\ row.status = "REJECTED" /\ row.task = old.task /\ row.agent = old.agent
  BY <1>2 DEF SubRow, SubStatus
<1>5. \A x \in Disps : db.disp[x].status # "NONE" => db.disp[x].sub # s
  BY <1>1, <1>2 DEF DisputeBacked, RowsTyped, DispStatus
<1>6. row.task \in Tasks /\ row.agent \in Agents /\ db.task[row.task].status # "NONE"
  BY <1>1, <1>2, <1>4 DEF References
<1> HIDE DEF row
<1> QED BY <1>3, <1>4, <1>5, <1>6, SubWriteGood

LEMMA ConfirmWriteGood ==
  ASSUME Good(db, Disps), NEW s \in Subs, Confirm(s) \/ ConfirmWithoutSlot(s)
  PROVE  Good(db', Disps)
<1>1. RowsTyped(db) /\ References(db)
  BY DEF Good
<1>2. db.sub[s].status \in {"SUBMITTED", "REJECTED"} /\ ~OpenDisputeOnSub(db, s)
  BY DEF Confirm, ConfirmWithoutSlot, Confirmable
<1>3. CASE Confirm(s)
  <2>1. db' = ConfirmInternal(db, s, NoDispute)
    BY <1>3 DEF Confirm, Write
  <2> QED BY <1>2, <2>1, ConfirmGood
<1>4. CASE ConfirmWithoutSlot(s)
  <2> DEFINE t == db.sub[s].task
  <2>1. t \in Tasks /\ db.task[t].status # "NONE"
    BY <1>1, <1>2 DEF References
  <2>2. /\ DOMAIN db' = TableNames
        /\ db'.task = [db.task EXCEPT ![t] = [db.task[t] EXCEPT !.status = "CLOSED"]]
        /\ db'.sub = db.sub /\ db'.disp = db.disp /\ db'.ban = db.ban /\ db'.active = db.active
    BY <1>1, <1>4 DEF ConfirmWithoutSlot, Write, RowsTyped, TableNames
  <2> HIDE DEF t
  <2> QED BY <2>1, <2>2, TaskStatusGood
<1> QED BY <1>3, <1>4

LEMMA TerminateWriteGood ==
  ASSUME Good(db, Disps), NEW t \in Tasks, Terminate(t)
  PROVE  Good(db', Disps)
<1>1. db' = TerminateInternal(db, t, NoDispute)
  BY DEF Terminate, Write
<1>2. db.task[t].status \in ActiveTask /\ ~OpenDisputeOnTask(db, t)
  BY DEF Terminate
<1> QED BY <1>1, <1>2, TerminateGood

LEMMA OpenDisputeGood ==
  ASSUME Good(db, Disps), NEW x \in Disps, NEW s \in Subs, NEW a \in Agents,
         OpenDispute(x, s, a)
  PROVE  Good(db', Disps)
<1> DEFINE row == [db.disp[x] EXCEPT !.status = "OPEN", !.sub = s]
<1>1. RowsTyped(db) /\ References(db) /\ Restorable(db) /\ DisputeBacked(db, Disps)
  BY DEF Good
<1>2. /\ db.disp[x].status = "NONE"
      /\ db.sub[s].status = "REJECTED"
      /\ TaskOf(db, s).status # "TERMINATED"
      /\ ~OpenDisputeOnSub(db, s)
  BY <1>1 DEF OpenDispute, NextId, Existing, RowsTyped
<1>3. /\ DOMAIN db' = TableNames
      /\ db'.disp = [db.disp EXCEPT ![x] = row]
      /\ db'.task = db.task /\ db'.sub = db.sub /\ db'.ban = db.ban /\ db'.active = db.active
  BY <1>1 DEF OpenDispute, Write, RowsTyped, TableNames
<1>4. /\ DOMAIN row = DispFields
      /\ row.status = "OPEN"
      /\ row.sub = s
      /\ row.source = db.disp[x].source
      /\ row.snap = db.disp[x].snap
  BY <1>1 DEF RowsTyped, DispFields
<1> HIDE DEF row
<1>5. /\ DOMAIN db'.disp = Disps
      /\ db'.disp[x] = row
      /\ \A y \in Disps \ {x} : db'.disp[y] = db.disp[y]
  BY <1>1, <1>3 DEF RowsTyped
<1>6. RowsTyped(db')
  <2>1. /\ row.status \in DispStatus
        /\ row.sub \in Subs \cup {NoSub}
        /\ row.source \in PayoutSource
        /\ row.snap \in SnapRow
    BY <1>1, <1>4 DEF RowsTyped, DispStatus
  <2> QED BY <1>1, <1>3, <1>4, <1>5, <2>1 DEF RowsTyped
<1>7. References(db')
  BY <1>1, <1>2, <1>3, <1>4, <1>5 DEF References
<1>8. row.source = "NONE"
  BY <1>1, <1>2, <1>4 DEF Restorable
<1>9. Restorable(db')
  <2>1. \A y \in Disps : /\ db'.disp[y].snap = db.disp[y].snap
                         /\ db'.disp[y].source = db.disp[y].source
    BY <1>4, <1>5
  <2>2. \A y \in Disps : Revivable(db, db.disp[y].snap.forced)
    BY <1>1 DEF Restorable
  <2>3. \A y \in Disps : Revivable(db', db.disp[y].snap.forced)
    BY <1>3, <2>2 DEF Revivable
  <2> QED BY <1>1, <1>4, <1>5, <2>1, <2>3 DEF Restorable
<1>10. DisputeBacked(db', Disps)
  <2>1. ASSUME NEW y \in Disps \ {x}
        PROVE  DispTask(db', y) = DispTask(db, y)
    BY <1>3, <1>5 DEF DispTask
  <2>2. db'.task[DispTask(db', x)].status \notin {"NONE", "TERMINATED"}
    BY <1>1, <1>2, <1>3, <1>4, <1>5 DEF References, DispTask, TaskOf
  <2>3. ASSUME NEW y \in Disps \ {x}, db.disp[y].status = "OPEN"
        PROVE  /\ db'.sub[db'.disp[y].sub].status = "REJECTED"
               /\ db'.task[DispTask(db', y)].status \notin {"NONE", "TERMINATED"}
               /\ db'.disp[y].source = "NONE"
    BY <1>1, <1>3, <1>5, <2>1, <2>3 DEF DisputeBacked
  <2>4. ASSUME NEW y \in Disps \ {x}, db.disp[y].status = "RESOLVED_COMPLETED"
        PROVE  /\ db'.disp[y].source # "NONE"
               /\ db'.sub[db'.disp[y].sub].status =
                    IF db'.disp[y].source = "ESCROW" THEN "CONFIRMED" ELSE "DISPUTE_COMPLETED"
    BY <1>1, <1>3, <1>5, <2>4 DEF DisputeBacked
  <2>5. \A y \in Disps \ {x} : db.disp[y].status # "NONE" => db.disp[y].sub # s
    BY <1>1, <1>2 DEF DisputeBacked, OpenDisputeOnSub, RowsTyped, DispStatus
  <2>6. \A y, z \in Existing(db'.disp) : db'.disp[y].sub = db'.disp[z].sub => y = z
    BY <1>1, <1>4, <1>5, <2>5 DEF DisputeBacked, Existing, RowsTyped
  <2> QED BY <1>2, <1>3, <1>4, <1>5, <1>8, <2>2, <2>3, <2>4, <2>6 DEF DisputeBacked
<1> QED BY <1>6, <1>7, <1>9, <1>10 DEF Good

LEMMA VoteGood ==
  ASSUME Good(db, Disps), NEW x \in Disps, NEW a, NEW choice, NEW weight,
         Vote(x, a, choice, weight)
  PROVE  Good(db', Disps)
<1> DEFINE votes == db.disp[x].votes \cup
                      {[agent |-> a, vote |-> choice, weight |-> weight, cycle |-> db.active]}
           row == [db.disp[x] EXCEPT !.votes = votes]
<1>1. RowsTyped(db)
  BY DEF Good
<1>2. /\ DOMAIN db' = TableNames
      /\ db'.disp = [db.disp EXCEPT ![x] = row]
      /\ db'.task = db.task /\ db'.sub = db.sub /\ db'.ban = db.ban /\ db'.active = db.active
  BY <1>1 DEF Vote, Write, RowsTyped, TableNames
<1> HIDE DEF votes
<1>3. /\ DOMAIN row = DispFields
      /\ row.status = db.disp[x].status
      /\ row.sub = db.disp[x].sub
      /\ row.source = db.disp[x].source
      /\ row.snap = db.disp[x].snap
  BY <1>1 DEF RowsTyped, DispFields
<1> HIDE DEF row
<1> QED BY <1>2, <1>3, DisputeKeptGood

-----------------------------------------------------------------------------
(* Schedules.                                                              *)

LEMMA TailOrdered ==
  ASSUME NEW kind, NEW todo \in Seq(Phases), todo # <<>>, Ordered(kind, todo)
  PROVE  /\ Tail(todo) \in Seq(Phases)
         /\ Ordered(kind, Tail(todo))
         /\ \A j \in 1..Len(Tail(todo)) : /\ Tail(todo)[j] = todo[j + 1]
                                          /\ Tail(todo)[j] \notin {"stale", "finalize", "unforce"}
<1> DEFINE rest == Tail(todo)
<1>1. /\ rest \in Seq(Phases)
      /\ Len(todo) \in Nat \ {0}
      /\ Len(rest) = Len(todo) - 1
      /\ \A j \in 1..Len(rest) : rest[j] = todo[j + 1]
  OBVIOUS
<1> HIDE DEF rest
<1>2. \A j \in 1..Len(rest) : j + 1 \in 1..Len(todo) /\ j + 1 # 1
  BY <1>1
<1>3. \A j \in 1..Len(rest) : rest[j] \notin {"stale", "finalize", "unforce"}
  BY <1>1, <1>2 DEF Ordered
<1>4. ASSUME NEW j \in 1..Len(rest)
      PROVE  /\ rest[j] \in {"evaluate", "expire", "negatives"} => kind # "REOPEN"
             /\ rest[j] = "settle" => j = Len(rest) /\ kind = "CLOSE"
             /\ rest[j] \in {"unforce", "restoreBan"} => kind = "REOPEN"
             /\ rest[j] = "newRound" => kind = "REOPEN"
  BY <1>1, <1>2 DEF Ordered
<1>5. ASSUME NEW j \in 1..Len(rest), rest[j] = "newRound", NEW i \in 1..(j - 1)
      PROVE  rest[i] \in {"unforce", "restoreBan"}
  <2>1. /\ todo[j + 1] = "newRound"
        /\ i + 1 \in 1..((j + 1) - 1)
        /\ rest[i] = todo[i + 1]
    BY <1>1, <1>5
  <2> QED BY <1>2, <2>1 DEF Ordered
<1>6. Ordered(kind, rest)
  BY <1>3, <1>4, <1>5 DEF Ordered
<1> QED BY <1>1, <1>3, <1>6 DEF rest

\* Sweeps and bans may be put in front of any schedule but that of a reopening.
LEMMA InsertOrdered ==
  ASSUME NEW kind, kind # "REOPEN",
         NEW todo \in Seq(Phases), todo # <<>>, Ordered(kind, todo),
         NEW ps \in Seq({"sweep", "negatives"})
  PROVE  /\ ps \o Tail(todo) \in Seq(Phases)
         /\ Ordered(kind, ps \o Tail(todo))
         /\ \A j \in 1..Len(ps \o Tail(todo)) : (ps \o Tail(todo))[j] \notin {"stale", "finalize", "unforce"}
<1> DEFINE rest == Tail(todo)
           all == ps \o rest
           n == Len(ps)
<1>1. /\ rest \in Seq(Phases)
      /\ Ordered(kind, rest)
      /\ \A j \in 1..Len(rest) : rest[j] \notin {"stale", "finalize", "unforce"}
  BY TailOrdered
<1>2. ps \in Seq(Phases) /\ n \in Nat /\ \A j \in 1..n : ps[j] \in {"sweep", "negatives"}
  BY DEF Phases
<1> HIDE DEF rest
<1>3. /\ all \in Seq(Phases)
      /\ Len(rest) \in Nat
      /\ Len(all) = n + Len(rest)
      /\ \A j \in 1..Len(all) : all[j] = IF j <= n THEN ps[j] ELSE rest[j - n]
  BY <1>1, <1>2
<1> HIDE DEF all, n
<1>4. ASSUME NEW j \in 1..Len(all)
      PROVE  \/ all[j] \in {"sweep", "negatives"}
             \/ j - n \in 1..Len(rest) /\ all[j] = rest[j - n]
  BY <1>2, <1>3
<1>5. \A j \in 1..Len(all) : all[j] \notin {"stale", "finalize", "unforce"}
  BY <1>1, <1>4
<1>6. ASSUME NEW j \in 1..Len(all)
      PROVE  /\ all[j] = "settle" => j = Len(all) /\ kind = "CLOSE"
             /\ all[j] \notin {"unforce", "restoreBan", "newRound"}
  <2>1. CASE all[j] \in {"sweep", "negatives"}
    BY <2>1
  <2>2. CASE j - n \in 1..Len(rest) /\ all[j] = rest[j - n]
    BY <1>1, <1>2, <1>3, <2>2 DEF Ordered
  <2> QED BY <1>4, <2>1, <2>2
<1>7. Ordered(kind, all)
  BY <1>5, <1>6 DEF Ordered
<1> QED BY <1>3, <1>5, <1>7 DEF all, rest

LEMMA FinalizeOrdered ==
  ASSUME NEW kind, NEW todo \in Seq(Phases), todo # <<>>, Head(todo) = "evaluate",
         Ordered(kind, todo)
  PROVE  /\ <<"finalize">> \o todo \in Seq(Phases)
         /\ <<"finalize">> \o todo # <<>>
         /\ Head(<<"finalize">> \o todo) = "finalize"
         /\ kind # "REOPEN"
         /\ Ordered(kind, <<"finalize">> \o todo)
<1> DEFINE all == <<"finalize">> \o todo
<1>1. "finalize" \in Phases
  BY DEF Phases
<1>2. /\ all \in Seq(Phases)
      /\ all # <<>>
      /\ Head(all) = "finalize"
      /\ Len(todo) \in Nat \ {0}
      /\ Len(all) = Len(todo) + 1
      /\ \A j \in 1..Len(all) : all[j] = IF j = 1 THEN "finalize" ELSE todo[j - 1]
  BY <1>1
<1>3. todo[1] = "evaluate" /\ kind # "REOPEN"
  BY <1>2 DEF Ordered
<1> HIDE DEF all
<1>4. ASSUME NEW j \in 1..Len(all), j # 1
      PROVE  j - 1 \in 1..Len(todo) /\ all[j] = todo[j - 1]
  BY <1>2, <1>4
<1>5. ASSUME NEW j \in 1..Len(all)
      PROVE  /\ all[j] \in {"stale", "finalize", "unforce"} => j = 1
             /\ all[j] = "settle" => j = Len(all) /\ kind = "CLOSE"
             /\ all[j] \notin {"unforce", "restoreBan", "newRound"}
  <2>1. CASE j = 1
    BY <1>2, <2>1
  <2>2. CASE j # 1
    BY <1>2, <1>3, <1>4, <2>2 DEF Ordered
  <2> QED BY <2>1, <2>2
<1>6. Ordered(kind, all)
  BY <1>3, <1>5 DEF Ordered
<1> QED BY <1>2, <1>3, <1>6 DEF all

LEMMA SweepLastOrdered ==
  ASSUME NEW todo \in Seq(Phases), todo # <<>>, Ordered("REOPEN", todo)
  PROVE  /\ Tail(todo) \o <<"sweep">> \in Seq(Phases)
         /\ Ordered("REOPEN", Tail(todo) \o <<"sweep">>)
         /\ \A j \in 1..Len(Tail(todo) \o <<"sweep">>) :
              \/ j \in 1..Len(Tail(todo)) /\ (Tail(todo) \o <<"sweep">>)[j] = Tail(todo)[j]
              \/ (Tail(todo) \o <<"sweep">>)[j] = "sweep"
         /\ Len(Tail(todo) \o <<"sweep">>) >= Len(Tail(todo))
         /\ \A j \in 1..Len(Tail(todo)) : (Tail(todo) \o <<"sweep">>)[j] = Tail(todo)[j]
<1> DEFINE rest == Tail(todo)
           all == rest \o <<"sweep">>
<1>1. /\ rest \in Seq(Phases)
      /\ Ordered("REOPEN", rest)
      /\ \A j \in 1..Len(rest) : rest[j] \notin {"stale", "finalize", "unforce"}
  BY TailOrdered
<1>2. "sweep" \in Phases
  BY DEF Phases
<1> HIDE DEF rest
<1>3. /\ all \in Seq(Phases)
      /\ Len(rest) \in Nat
      /\ Len(all) = Len(rest) + 1
      /\ \A j \in 1..Len(all) : all[j] = IF j <= Len(rest) THEN rest[j] ELSE "sweep"
  BY <1>1, <1>2
<1> HIDE DEF all
<1>4. \A j \in 1..Len(rest) : j \in 1..Len(all) /\ all[j] = rest[j]
  BY <1>3
<1>5. \A j \in 1..Len(all) : \/ j \in 1..Len(rest) /\ all[j] = rest[j]
                             \/ all[j] = "sweep"
  BY <1>3
<1>6. ASSUME NEW j \in 1..Len(all), all[j] # "sweep"
      PROVE  /\ all[j] \in {"stale", "finalize", "unforce"} => j = 1
             /\ all[j] \notin {"stale", "finalize", "unforce", "evaluate", "expire", "negatives", "settle"}
             /\ all[j] = "newRound" => \A i \in 1..(j - 1) : all[i] \in {"unforce", "restoreBan"}
  BY <1>1, <1>3, <1>5, <1>6, SMTT(30) DEF Ordered
<1>7. Ordered("REOPEN", all)
  BY <1>6 DEF Ordered
<1> QED BY <1>3, <1>4, <1>5, <1>7 DEF all, rest

\* The loops take the rows in the order of their ids.
LEMMA FirstIn ==
  ASSUME NEW S \in SUBSET Nat, S # {}
  PROVE  First(S) \in S
<1> DEFINE Less == {p \in Nat \X Nat : p[1] < p[2]}
<1>1. IsWellFoundedOn(Less, Nat)
  BY NatLessThanWellFounded DEF OpToRel
<1>2. \A i, j \in S : j < i => <<j, i>> \in Less
  OBVIOUS
<1> HIDE DEF Less
<1>3. PICK i \in S : \A j \in S : ~ (<<j, i>> \in Less)
  BY <1>1, WFMin
<1>4. ASSUME NEW j \in S
      PROVE  i <= j
  <2>1. <<j, i>> \notin Less
    BY <1>3
  <2>2. ~(j < i)
    BY <1>2, <2>1
  <2>3. i \in Nat /\ j \in Nat
    OBVIOUS
  <2> QED BY <2>2, <2>3
<1> QED BY <1>4 DEF First

-----------------------------------------------------------------------------
(* The steps of a transaction.                                             *)

\* Only a rollback in progress stands between a transaction and its new round.
LEMMA NotReopening ==
  ASSUME NEW t, TxTyped(t), Ordered(t.kind, t.todo),
         t.todo # <<>>, Head(t.todo) \notin {"unforce", "restoreBan", "newRound"}
  PROVE  Reopening(t) = {} /\ ~Ahead(t, "newRound")
<1>1. t.todo \in Seq(Phases)
  BY DEF TxTyped
<1>2. Len(t.todo) \in Nat \ {0} /\ t.todo[1] = Head(t.todo)
  BY <1>1
<1>3. SUFFICES ASSUME Ahead(t, "newRound")
               PROVE  FALSE
  BY DEF Reopening
<1>4. PICK j \in 1..Len(t.todo) : t.todo[j] = "newRound"
  BY <1>3 DEF Ahead
<1>5. CASE j = 1
  BY <1>2, <1>4, <1>5
<1>6. CASE j # 1
  <2>1. 1 \in 1..(j - 1)
    BY <1>2, <1>6
  <2> QED BY <1>2, <1>4, <2>1 DEF Ordered
<1> QED BY <1>5, <1>6

LEMMA HeadIsFirst ==
  ASSUME NEW t, TxTyped(t), NEW p, At(t, p)
  PROVE  /\ t.todo \in Seq(Phases) /\ t.todo # <<>>
         /\ Len(t.todo) \in Nat \ {0}
         /\ 1 \in 1..Len(t.todo)
         /\ t.todo[1] = p
  BY DEF TxTyped, At

\* A step that leaves open disputes open and goes on with no phase that needs
\* more than that.
LEMMA StepReady ==
  ASSUME NEW d, NEW t, Ready(d, t),
         NEW e, NEW u,
         TxTyped(u), Ordered(u.kind, u.todo),
         u.kind = t.kind, u.disp = t.disp, u.disps \subseteq t.disps,
         Good(e, Disps \ Reopening(u)),
         \A x \in u.disps : e.disp[x].status = d.disp[x].status,
         \A x \in Reopening(u) : Reopenable(e, x),
         ~At(u, "stale"), ~At(u, "finalize"), ~At(u, "unforce"),
         Ahead(u, "settle") => Ahead(t, "settle") /\ e.active = d.active
  PROVE  Ready(e, u)
<1>1. Prepared(d, t)
  BY DEF Ready
<1>2. Prepared(e, u)
  BY <1>1 DEF Prepared
<1> QED BY <1>2 DEF Ready

\* The current phase is over and ps is put in its place.
LEMMA ThenReady ==
  ASSUME Ready(work, tx), tx.todo # <<>>, tx.kind # "REOPEN",
         NEW ps \in Seq({"sweep", "negatives"}),
         NEW e, Good(e, Disps), e.active = work.active,
         \A x \in tx.disps : e.disp[x].status = work.disp[x].status
  PROVE  Ready(e, Then(ps))
<1> DEFINE todo == ps \o Tail(tx.todo)
           u == Then(ps)
<1>1. TxTyped(tx) /\ Ordered(tx.kind, tx.todo)
  BY DEF Ready
<1>2. tx.todo \in Seq(Phases)
  BY <1>1 DEF TxTyped
<1>3. /\ todo \in Seq(Phases)
      /\ Ordered(tx.kind, todo)
      /\ \A j \in 1..Len(todo) : todo[j] \notin {"stale", "finalize", "unforce"}
  BY <1>1, <1>2, InsertOrdered
<1>4. /\ DOMAIN u = TxFields
      /\ u.todo = todo
      /\ u.kind = tx.kind /\ u.disp = tx.disp /\ u.disps = tx.disps
      /\ u.subs = tx.subs /\ u.forced = tx.forced
  BY <1>1 DEF Then, TxTyped, TxFields
<1>5. Ahead(u, "settle") => Ahead(tx, "settle")
  <2>1. /\ Len(ps) \in Nat /\ Len(Tail(tx.todo)) \in Nat
        /\ Len(todo) = Len(ps) + Len(Tail(tx.todo))
        /\ \A j \in 1..Len(todo) :
             \/ j <= Len(ps) /\ todo[j] \in {"sweep", "negatives"}
             \/ j > Len(ps) /\ todo[j] = Tail(tx.todo)[j - Len(ps)]
    BY <1>2
  <2>2. /\ Len(tx.todo) = Len(Tail(tx.todo)) + 1
        /\ \A j \in 1..Len(Tail(tx.todo)) : Tail(tx.todo)[j] = tx.todo[j + 1]
    BY <1>2
  <2> HIDE DEF todo
  <2>3. ASSUME NEW j \in 1..Len(todo), todo[j] = "settle"
        PROVE  /\ (j - Len(ps)) + 1 \in 1..Len(tx.todo)
               /\ tx.todo[(j - Len(ps)) + 1] = "settle"
    <3>1. j > Len(ps) /\ Tail(tx.todo)[j - Len(ps)] = "settle"
      BY <2>1, <2>3
    <3>2. j - Len(ps) \in 1..Len(Tail(tx.todo))
      BY <2>1, <3>1
    <3> QED BY <2>2, <3>1, <3>2
  <2> QED BY <1>4, <2>3 DEF Ahead
<1> HIDE DEF todo, u
<1>6. TxTyped(u)
  BY <1>1, <1>3, <1>4 DEF TxTyped
<1>7. Reopening(u) = {}
  BY <1>4 DEF Reopening
<1>8. ~At(u, "stale") /\ ~At(u, "finalize") /\ ~At(u, "unforce")
  <2>1. u.todo # <<>> => Len(u.todo) \in Nat \ {0} /\ Head(u.todo) = u.todo[1]
    BY <1>3, <1>4
  <2> QED BY <1>3, <1>4, <2>1 DEF At
<1>9. Ready(e, u)
  BY <1>3, <1>4, <1>5, <1>6, <1>7, <1>8, StepReady
<1> QED BY <1>9 DEF u

-----------------------------------------------------------------------------
(* The writes of one step and the clocks.                                  *)

\* Between transactions nothing is left to run.
LEMMA AtRest ==
  ASSUME DisputeIInv, ~Running
  PROVE  /\ tx.todo = <<>> /\ tx.disps = {} /\ work = db
         /\ \A p : ~At(tx, p) /\ ~Ahead(tx, p)
         /\ Reopening(tx) = {}
<1>1. tx.todo = <<>> /\ tx.disps = {} /\ work = db
  BY DEF DisputeIInv
<1>2. Len(tx.todo) = 0
  BY <1>1
<1>3. \A p : ~At(tx, p) /\ ~Ahead(tx, p)
  BY <1>1, <1>2 DEF At, Ahead
<1> QED BY <1>1, <1>3 DEF Reopening

LEMMA WriteKeeps ==
  ASSUME DisputeIInv, ~Running, Good(db', Disps), work' = db', UNCHANGED <<tx, expired>>
  PROVE  DisputeIInv'
<1>1. Ready(work, tx)
  BY DEF DisputeIInv
<1> DEFINE e == db'
<1>2. Good(e, Disps)
  OBVIOUS
<1> HIDE DEF e
<1>3. Ready(e, tx)
  BY <1>1, <1>2, AtRest, StepReady DEF Ready
<1>4. Good(db, Disps)' /\ Ready(work, tx)'
  BY <1>2, <1>3 DEF e
<1> QED BY <1>4, AtRest DEF DisputeIInv, Running

LEMMA ApiWriteKeeps ==
  ASSUME DisputeIInv, ApiWrite
  PROVE  DisputeIInv'
<1> SUFFICES /\ ~Running /\ work' = db' /\ UNCHANGED <<tx, expired>>
             /\ Good(db', Disps)
  BY WriteKeeps
<1>1. Good(db, Disps)
  BY DEF DisputeIInv
<1> USE DEF Write
<1>2. CASE \E t \in Tasks, p \in Publishers, n \in SlotCounts, r \in Rewards, q \in RepeatOptions :
             Publish(t, p, n, r, q)
  <2>1. PICK t \in Tasks, p \in Publishers, n \in SlotCounts, r \in Rewards, q \in RepeatOptions :
          Publish(t, p, n, r, q)
    BY <1>2
  <2>2. Good(db', Disps)
    BY ONLY <1>1, <2>1, PublishGood
  <2> QED BY <2>1, <2>2 DEF Publish
<1>3. CASE \E t \in Tasks, a \in Workers : AddIntention(t, a)
  <2>1. PICK t \in Tasks, a \in Workers : AddIntention(t, a)
    BY <1>3
  <2> QED BY <1>1, <2>1, IntentionGood DEF AddIntention
<1>4. CASE \E s \in Subs, t \in Tasks, a \in Workers : Submit(s, t, a)
  <2>1. PICK s \in Subs, t \in Tasks, a \in Workers : Submit(s, t, a)
    BY <1>4
  <2> QED BY <1>1, <2>1, SubmitGood DEF Submit
<1>5. CASE \E s \in Subs : Reject(s) \/ Confirm(s) \/ ConfirmWithoutSlot(s)
  <2>1. PICK s \in Subs : Reject(s) \/ Confirm(s) \/ ConfirmWithoutSlot(s)
    BY <1>5
  <2>2. Good(db', Disps)
    BY <1>1, <2>1, RejectGood, ConfirmWriteGood
  <2> QED BY <2>1, <2>2 DEF Reject, Confirm, ConfirmWithoutSlot
<1>6. CASE \E t \in Tasks : Terminate(t)
  <2>1. PICK t \in Tasks : Terminate(t)
    BY <1>6
  <2> QED BY <1>1, <2>1, TerminateWriteGood DEF Terminate
<1>7. CASE \E x \in Disps, s \in Subs, a \in Agents : OpenDispute(x, s, a)
  <2>1. PICK x \in Disps, s \in Subs, a \in Agents : OpenDispute(x, s, a)
    BY <1>7
  <2> QED BY <1>1, <2>1, OpenDisputeGood DEF OpenDispute
<1>8. CASE \E x \in Disps, a \in Supervisors, c \in {"COMPLETED", "NOT_COMPLETED"}, w \in VoteWeights :
             Vote(x, a, c, w)
  <2>1. PICK x \in Disps, a \in Supervisors, c \in {"COMPLETED", "NOT_COMPLETED"}, w \in VoteWeights :
          Vote(x, a, c, w)
    BY <1>8
  <2>2. Good(db', Disps)
    BY ONLY <1>1, <2>1, VoteGood
  <2> QED BY <2>1, <2>2 DEF Vote
<1> QED BY <1>2, <1>3, <1>4, <1>5, <1>6, <1>7, <1>8 DEF ApiWrite

LEMMA TickKeeps ==
  ASSUME DisputeIInv, Tick
  PROVE  DisputeIInv'
<1>1. UNCHANGED <<db, work, tx>>
  BY DEF Tick, SubmissionAges, DeadlinePasses
<1>2. Good(db, Disps)' /\ Ready(work, tx)'
  BY <1>1 DEF DisputeIInv
<1>3. Existing(db.task) \subseteq Tasks
  BY DEF DisputeIInv, Good, RowsTyped, Existing
<1>4. expired' \subseteq Tasks
  BY <1>3 DEF Tick, SubmissionAges, DeadlinePasses, DisputeIInv
<1> QED BY <1>1, <1>2, <1>4 DEF DisputeIInv, Running

-----------------------------------------------------------------------------
(* The steps of closing.                                                   *)

LEMMA LoopStepReady ==
  ASSUME Ready(work, tx), NEW p \in {"sweep", "expire"}, At(tx, p),
         NEW e, Good(e, Disps), e.active = work.active,
         \A x \in Disps : e.disp[x].status = work.disp[x].status
  PROVE  Ready(e, tx)
<1>1. TxTyped(tx) /\ Ordered(tx.kind, tx.todo)
  BY DEF Ready
<1>2. Reopening(tx) = {}
  BY <1>1, NotReopening DEF At
<1>3. ~At(tx, "stale") /\ ~At(tx, "finalize") /\ ~At(tx, "unforce")
  BY DEF At
<1>4. \A x \in tx.disps : e.disp[x].status = work.disp[x].status
  BY <1>1 DEF TxTyped
<1> QED BY <1>1, <1>2, <1>3, <1>4, StepReady

LEMMA CleanTerminated ==
  ASSUME Ready(work, tx), NEW p \in {"sweep", "expire"}, At(tx, p),
         NEW t \in Tasks, ActiveClean(work, t), NEW x
  PROVE  Ready(TerminateInternal(work, t, x), tx)
<1> DEFINE e == TerminateInternal(work, t, x)
<1>1. TxTyped(tx) /\ Ordered(tx.kind, tx.todo) /\ Good(work, Disps \ Reopening(tx))
  BY DEF Ready
<1>2. Reopening(tx) = {}
  BY <1>1, NotReopening DEF At
<1>3. Good(work, Disps)
  BY <1>1, <1>2
<1>4. work.task[t].status \in ActiveTask /\ ~OpenDisputeOnTask(work, t)
  BY DEF ActiveClean
<1>5. /\ Good(e, Disps)
      /\ e.active = work.active
      /\ \A y \in Disps : e.disp[y].status = work.disp[y].status
  BY <1>3, <1>4, TerminateGood
<1> HIDE DEF e
<1>6. Ready(e, tx)
  BY <1>5, LoopStepReady
<1> QED BY <1>6 DEF e

LEMMA SweepReady ==
  ASSUME Ready(work, tx), SweepBanned
  PROVE  Ready(work, tx)' /\ tx'.kind = tx.kind
<1>1. At(tx, "sweep")
  BY DEF SweepBanned, InPhase, At
<1>2. PICK t \in SweepTargets(work) : Step(SweepOne(work, t), tx)
  BY DEF SweepBanned
<1>3. t \in Tasks /\ ActiveClean(work, t)
  BY DEF SweepTargets
<1> DEFINE e == SweepOne(work, t)
<1>4. Ready(e, tx)
  BY <1>1, <1>3, CleanTerminated DEF SweepOne
<1> HIDE DEF e
<1>5. work' = e /\ tx' = tx
  BY <1>2 DEF Step, e
<1> QED BY <1>4, <1>5

LEMMA ExpireReady ==
  ASSUME Ready(work, tx), expired \subseteq Tasks, ExpireClean
  PROVE  Ready(work, tx)' /\ tx'.kind = tx.kind
<1>1. At(tx, "expire")
  BY DEF ExpireClean, InPhase, At
<1>2. PICK t \in expired : ActiveClean(work, t) /\ Step(TerminateInternal(work, t, NoDispute), tx)
  BY DEF ExpireClean
<1> DEFINE e == TerminateInternal(work, t, NoDispute)
<1>3. Ready(e, tx)
  BY <1>1, <1>2, CleanTerminated
<1> HIDE DEF e
<1>4. work' = e /\ tx' = tx
  BY <1>2 DEF Step, e
<1> QED BY <1>3, <1>4

LEMMA AutoConfirmedGood ==
  ASSUME NEW d, Good(d, Disps), NEW s \in Subs, d.sub[s].status = "SUBMITTED"
  PROVE  LET e == AutoConfirmed(d, s)
         IN /\ Good(e, Disps)
            /\ e.active = d.active
            /\ \A x \in Disps : e.disp[x].status = d.disp[x].status
            /\ \A o \in Subs \ {s} : e.sub[o].status = d.sub[o].status
<1> DEFINE t == d.sub[s].task
           e == AutoConfirmed(d, s)
           confirmed == ConfirmInternal(d, s, NoDispute)
           closed == [d EXCEPT !.task[t].status = "CLOSED"]
<1>1. t \in Tasks /\ d.task[t].status # "NONE"
  BY DEF Good, References
<1>2. e \in {d, confirmed, closed}
  BY DEF AutoConfirmed
<1>3. /\ Good(confirmed, Disps)
      /\ confirmed.disp = d.disp
      /\ confirmed.active = d.active
      /\ \A o \in Subs \ {s} : confirmed.sub[o].status = d.sub[o].status
  BY ConfirmGood
<1>4. /\ DOMAIN closed = TableNames
      /\ closed.task = [d.task EXCEPT ![t] = [d.task[t] EXCEPT !.status = "CLOSED"]]
      /\ closed.sub = d.sub /\ closed.disp = d.disp
      /\ closed.ban = d.ban /\ closed.active = d.active
  <2>1. DOMAIN d = TableNames
    BY DEF Good, RowsTyped
  <2> QED BY <1>1, <2>1 DEF TableNames
<1> HIDE DEF e, confirmed, closed, t
<1>5. Good(closed, Disps)
  BY <1>1, <1>4, TaskStatusGood
<1>6. CASE e = d
  BY <1>6 DEF e
<1>7. CASE e = confirmed
  BY <1>3, <1>7 DEF e
<1>8. CASE e = closed
  BY <1>4, <1>5, <1>8 DEF e
<1> QED BY <1>2, <1>6, <1>7, <1>8

LEMMA AutoConfirmReady ==
  ASSUME Ready(work, tx), AutoConfirmStale
  PROVE  Ready(work, tx)' /\ tx'.kind = tx.kind
<1> DEFINE s == First(tx.subs)
           e == AutoConfirmed(work, s)
           u == [tx EXCEPT !.subs = @ \ {s}]
<1>1. /\ At(tx, "stale") /\ tx.subs # {}
      /\ work' = e /\ tx' = u
  BY DEF AutoConfirmStale, InPhase, At, Step
<1>2. /\ TxTyped(tx) /\ Ordered(tx.kind, tx.todo) /\ Prepared(work, tx)
      /\ Good(work, Disps \ Reopening(tx))
  BY DEF Ready
<1>3. Reopening(tx) = {} /\ ~Ahead(tx, "newRound")
  BY <1>1, <1>2, NotReopening DEF At
<1>4. s \in tx.subs
  <2>1. tx.subs \in SUBSET Nat
    BY <1>2, IdsAssumption DEF TxTyped
  <2> QED BY <1>1, <2>1, FirstIn
<1>5. s \in Subs /\ work.sub[s].status = "SUBMITTED"
  BY <1>1, <1>2, <1>4 DEF Prepared, TxTyped
<1> HIDE DEF s
<1>6. /\ DOMAIN u = TxFields
      /\ u.subs = tx.subs \ {s}
      /\ u.kind = tx.kind /\ u.todo = tx.todo /\ u.disp = tx.disp
      /\ u.disps = tx.disps /\ u.forced = tx.forced
  BY <1>2 DEF TxTyped, TxFields
<1>7. /\ Good(e, Disps)
      /\ e.active = work.active
      /\ \A x \in Disps : e.disp[x].status = work.disp[x].status
      /\ \A o \in Subs \ {s} : e.sub[o].status = work.sub[o].status
  <2>1. Good(work, Disps)
    BY <1>2, <1>3
  <2> QED BY <1>5, <2>1, AutoConfirmedGood
<1> HIDE DEF e, u
<1>8. TxTyped(u)
  BY <1>2, <1>6 DEF TxTyped
<1>9. Reopening(u) = {}
  BY <1>3, <1>6 DEF Reopening, Ahead
<1>10. Prepared(e, u)
  <2>1. \A o \in u.subs : e.sub[o].status = "SUBMITTED"
    BY <1>1, <1>2, <1>6, <1>7 DEF Prepared, TxTyped
  <2>2. \A x \in u.disps : e.disp[x].status = "OPEN"
    BY <1>2, <1>6, <1>7 DEF Prepared, TxTyped
  <2>3. ~At(u, "finalize") /\ ~At(u, "unforce")
    BY <1>1, <1>6 DEF At
  <2>4. Ahead(u, "settle") => e.active + 1 \in Cycles
    BY <1>2, <1>6, <1>7 DEF Prepared, Ahead
  <2>5. u.kind = "REOPEN" => u.disp \in Disps /\ u.disps = {}
    BY <1>2, <1>6 DEF Prepared
  <2> QED BY <1>9, <2>1, <2>2, <2>3, <2>4, <2>5 DEF Prepared
<1>11. Ready(e, u)
  BY <1>2, <1>6, <1>7, <1>8, <1>9, <1>10 DEF Ready
<1> QED BY <1>1, <1>6, <1>11

LEMMA EvaluateReady ==
  ASSUME Ready(work, tx), Evaluate
  PROVE  Ready(work, tx)' /\ tx'.kind = tx.kind
<1> DEFINE x == First(tx.disps)
           rest == [tx EXCEPT !.disps = @ \ {x}]
           next == [rest EXCEPT !.disp = x, !.todo = <<"finalize">> \o @]
<1>1. /\ At(tx, "evaluate") /\ tx.disps # {}
      /\ work' = work /\ tx' \in {rest, next}
  BY DEF Evaluate, InPhase, At, Step
<1>2. /\ TxTyped(tx) /\ Ordered(tx.kind, tx.todo) /\ Prepared(work, tx)
      /\ Good(work, Disps \ Reopening(tx))
  BY DEF Ready
<1>3. Reopening(tx) = {} /\ ~Ahead(tx, "newRound")
  BY <1>1, <1>2, NotReopening DEF At
<1>4. x \in tx.disps /\ x \in Disps
  <2>1. tx.disps \in SUBSET Nat
    BY <1>2, IdsAssumption DEF TxTyped
  <2>2. x \in tx.disps
    BY <1>1, <2>1, FirstIn
  <2> QED BY <1>2, <2>2 DEF TxTyped
<1> HIDE DEF x
<1>5. /\ DOMAIN rest = TxFields
      /\ rest.disps = tx.disps \ {x}
      /\ rest.kind = tx.kind /\ rest.todo = tx.todo /\ rest.disp = tx.disp
      /\ rest.subs = tx.subs /\ rest.forced = tx.forced
  BY <1>2 DEF TxTyped, TxFields
<1> DEFINE todo == <<"finalize">> \o tx.todo
<1>6. /\ DOMAIN next = TxFields
      /\ next.disps = tx.disps \ {x}
      /\ next.kind = tx.kind /\ next.todo = todo /\ next.disp = x
      /\ next.subs = tx.subs /\ next.forced = tx.forced
  BY <1>2 DEF TxTyped, TxFields
<1>7. /\ todo \in Seq(Phases)
      /\ todo # <<>>
      /\ Head(todo) = "finalize"
      /\ tx.kind # "REOPEN"
      /\ Ordered(tx.kind, todo)
  <2>1. tx.todo \in Seq(Phases) /\ tx.todo # <<>> /\ Head(tx.todo) = "evaluate"
    BY <1>1, <1>2 DEF At, TxTyped
  <2> QED BY ONLY <1>2, <2>1, FinalizeOrdered
<1>8. Ready(work, rest)
  <2> HIDE DEF rest, next, todo
  <2>1. TxTyped(rest)
    BY <1>2, <1>5 DEF TxTyped
  <2>2. Reopening(rest) = {}
    BY <1>3, <1>5 DEF Reopening, Ahead
  <2>3. ~At(rest, "stale") /\ ~At(rest, "finalize") /\ ~At(rest, "unforce")
    BY <1>1, <1>5 DEF At
  <2>4. Ahead(rest, "settle") => Ahead(tx, "settle")
    BY <1>5 DEF Ahead
  <2> QED BY <1>2, <1>3, <1>5, <2>1, <2>2, <2>3, <2>4, StepReady
<1>9. Ready(work, next)
  <2>1. Ahead(next, "settle") => Ahead(tx, "settle")
    <3>1. /\ Len(tx.todo) \in Nat
          /\ Len(todo) = Len(tx.todo) + 1
          /\ \A j \in 1..Len(todo) : todo[j] = IF j = 1 THEN "finalize" ELSE tx.todo[j - 1]
      BY <1>2 DEF TxTyped
    <3> HIDE DEF todo
    <3>2. ASSUME NEW j \in 1..Len(todo), todo[j] = "settle"
          PROVE  j - 1 \in 1..Len(tx.todo) /\ tx.todo[j - 1] = "settle"
      BY <3>1, <3>2
    <3> QED BY <1>6, <3>2 DEF Ahead
  <2> HIDE DEF rest, next, todo
  <2>2. TxTyped(next)
    BY <1>2, <1>4, <1>6, <1>7 DEF TxTyped
  <2>3. Reopening(next) = {}
    BY <1>6, <1>7 DEF Reopening
  <2>4. work.disp[x].status = "OPEN"
    BY <1>2, <1>4 DEF Prepared
  <2>5. Prepared(work, next)
    BY <1>2, <1>4, <1>6, <1>7, <2>1, <2>3, <2>4 DEF Prepared, At
  <2> QED BY <1>2, <1>3, <1>6, <1>7, <2>2, <2>3, <2>5 DEF Ready
<1> HIDE DEF rest, next
<1> QED BY <1>1, <1>5, <1>6, <1>8, <1>9

\* The phase "settle" is the last one.
LEMMA SettleReady ==
  ASSUME Ready(work, tx), Settle
  PROVE  Ready(work, tx)' /\ tx'.kind = tx.kind
<1> DEFINE e == SettleCycle(work, tx.pool)
           u == Then(<<>>)
<1>1. At(tx, "settle") /\ work' = e /\ tx' = u
  BY DEF Settle, InPhase, At, Step
<1>2. /\ TxTyped(tx) /\ Ordered(tx.kind, tx.todo) /\ Prepared(work, tx)
      /\ Good(work, Disps \ Reopening(tx))
  BY DEF Ready
<1>3. Reopening(tx) = {}
  BY <1>1, <1>2, NotReopening DEF At
<1>4. /\ tx.todo \in Seq(Phases) /\ tx.todo # <<>>
      /\ 1 \in 1..Len(tx.todo) /\ tx.todo[1] = "settle"
  BY <1>1, <1>2, HeadIsFirst
<1>5. Len(tx.todo) = 1
  BY <1>2, <1>4 DEF Ordered
<1>6. <<>> \o Tail(tx.todo) = <<>>
  <2> DEFINE rest == Tail(tx.todo)
  <2>1. rest \in Seq(Phases) /\ Len(rest) = 0
    BY <1>4, <1>5
  <2> HIDE DEF rest
  <2>2. rest = <<>>
    BY <2>1
  <2> QED BY <2>2 DEF rest
<1>7. /\ DOMAIN u = TxFields
      /\ u.todo = <<>>
      /\ u.kind = tx.kind /\ u.disp = tx.disp /\ u.disps = tx.disps
      /\ u.subs = tx.subs /\ u.forced = tx.forced
  BY <1>2, <1>6 DEF Then, TxTyped, TxFields
<1>8. work.active + 1 \in Cycles
  BY <1>2, <1>4 DEF Prepared, Ahead
<1>9. /\ DOMAIN e = TableNames
      /\ e.task = work.task /\ e.sub = work.sub /\ e.disp = work.disp
      /\ e.ban = work.ban /\ e.active = work.active + 1
  <2>1. DOMAIN work = TableNames
    BY <1>2 DEF Good, RowsTyped
  <2> QED BY <2>1 DEF SettleCycle, TableNames
<1> HIDE DEF e, u
<1>10. RowsTyped(e)
  BY <1>2, <1>8, <1>9 DEF Good, RowsTyped
<1>11. Good(e, Disps)
  <2>1. Good(work, Disps)
    BY <1>2, <1>3
  <2> QED BY <1>9, <1>10, <2>1, SameRows
<1>12. /\ TxTyped(u) /\ Ordered(u.kind, u.todo)
       /\ Reopening(u) = {} /\ ~Ahead(u, "settle")
       /\ ~At(u, "stale") /\ ~At(u, "finalize") /\ ~At(u, "unforce")
  <2>1. <<>> \in Seq(Phases) /\ Len(<<>>) = 0
    OBVIOUS
  <2>2. TxTyped(u)
    BY <1>2, <1>7, <2>1 DEF TxTyped
  <2> QED BY <1>7, <2>1, <2>2 DEF Ordered, Reopening, Ahead, At
<1>13. Ready(e, u)
  BY <1>7, <1>9, <1>11, <1>12, StepReady
<1> QED BY <1>1, <1>7, <1>13

-----------------------------------------------------------------------------
(* The steps that closing and overriding share.                            *)

LEMMA ShortSchedules ==
  /\ <<>> \in Seq({"sweep", "negatives"})
  /\ <<"sweep">> \in Seq({"sweep", "negatives"})
  /\ <<>> \o <<>> \in Seq({"sweep", "negatives"})
  /\ <<"sweep">> \o <<>> \in Seq({"sweep", "negatives"})
  /\ <<>> \o <<"negatives">> \in Seq({"sweep", "negatives"})
  /\ <<"sweep">> \o <<"negatives">> \in Seq({"sweep", "negatives"})
  OBVIOUS

LEMMA ThenKind ==
  ASSUME TxTyped(tx), NEW ps
  PROVE  Then(ps).kind = tx.kind
  BY DEF TxTyped, TxFields, Then

LEMMA FinalizeReady ==
  ASSUME Ready(work, tx), Finalize
  PROVE  Ready(work, tx)' /\ tx'.kind = tx.kind
<1> DEFINE x == tx.disp
           e == FinalizeCompleted(work, x)
           sweep == IF PaysFromWallet(work, x) /\ Insolvent(work, x) THEN <<"sweep">> ELSE <<>>
           negatives == IF work.disp[x].history.exists THEN <<"negatives">> ELSE <<>>
           ps == sweep \o negatives
<1>1. At(tx, "finalize") /\ work' = e /\ tx' = Then(ps)
  BY DEF Finalize, InPhase, At, Step
<1>2. /\ TxTyped(tx) /\ Ordered(tx.kind, tx.todo) /\ Prepared(work, tx)
      /\ Good(work, Disps \ Reopening(tx))
  BY DEF Ready
<1>3. Reopening(tx) = {}
  BY <1>1, <1>2, NotReopening DEF At
<1>4. x \in Disps \ tx.disps /\ work.disp[x].status = "OPEN"
  BY <1>1, <1>2 DEF Prepared
<1>5. tx.todo # <<>> /\ tx.kind # "REOPEN"
  <2>1. 1 \in 1..Len(tx.todo) /\ tx.todo[1] = "finalize" /\ tx.todo # <<>>
    BY <1>1, <1>2, HeadIsFirst
  <2> QED BY <1>2, <2>1 DEF Ordered
<1>6. /\ Good(e, Disps)
      /\ e.active = work.active
      /\ \A y \in Disps \ {x} : e.disp[y] = work.disp[y]
  <2>1. Good(work, Disps)
    BY <1>2, <1>3
  <2> QED BY <1>4, <2>1, FinalizeGood
<1>7. ps \in Seq({"sweep", "negatives"})
  <2>1. sweep \in {<<>>, <<"sweep">>} /\ negatives \in {<<>>, <<"negatives">>}
    OBVIOUS
  <2> HIDE DEF sweep, negatives
  <2> QED BY <2>1, ShortSchedules
<1> HIDE DEF e, ps
<1>8. \A y \in tx.disps : e.disp[y].status = work.disp[y].status
  BY <1>2, <1>4, <1>6 DEF TxTyped
<1>9. Ready(e, Then(ps))
  BY <1>5, <1>6, <1>7, <1>8, ThenReady
<1> QED BY <1>1, <1>2, <1>9, ThenKind

LEMMA BanNegativesReady ==
  ASSUME Ready(work, tx), BanNegatives
  PROVE  Ready(work, tx)' /\ tx'.kind = tx.kind
<1> DEFINE A == NegativeAffected(work, tx.disp)
           e == BanAgents(work, A, "REOPEN_NEGATIVE_BALANCE", NoDispute)
           ps == IF HasActiveTask(e, A) THEN <<"sweep">> ELSE <<>>
<1>1. At(tx, "negatives") /\ work' = e /\ tx' = Then(ps)
  BY DEF BanNegatives, InPhase, At, Step
<1>2. /\ TxTyped(tx) /\ Ordered(tx.kind, tx.todo)
      /\ Good(work, Disps \ Reopening(tx))
  BY DEF Ready
<1>3. Reopening(tx) = {}
  BY <1>1, <1>2, NotReopening DEF At
<1>4. tx.todo # <<>> /\ tx.kind # "REOPEN"
  <2>1. 1 \in 1..Len(tx.todo) /\ tx.todo[1] = "negatives" /\ tx.todo # <<>>
    BY <1>1, <1>2, HeadIsFirst
  <2> QED BY <1>2, <2>1 DEF Ordered
<1>5. Good(work, Disps)
  BY <1>2, <1>3
<1>6. ps \in Seq({"sweep", "negatives"})
  <2>1. ps \in {<<>>, <<"sweep">>}
    OBVIOUS
  <2> HIDE DEF ps
  <2> QED BY <2>1, ShortSchedules
<1> HIDE DEF A, ps
<1>7. /\ RowsTyped(e) /\ e.task = work.task /\ e.sub = work.sub
      /\ e.disp = work.disp /\ e.active = work.active
  <2>1. "REOPEN_NEGATIVE_BALANCE" \in BanReason /\ RowsTyped(work)
    BY <1>5 DEF BanReason, Good
  <2> QED BY <2>1, BanEffect
<1> HIDE DEF e
<1>8. Good(e, Disps)
  BY <1>5, <1>7, SameRows
<1>9. Ready(e, Then(ps))
  BY <1>4, <1>6, <1>7, <1>8, ThenReady
<1> QED BY <1>1, <1>2, <1>9, ThenKind

\* The current phase is over and nothing is put in its place.
LEMMA TailReady ==
  ASSUME Ready(work, tx), tx.todo # <<>>, Head(tx.todo) # "newRound",
         NEW e, Good(e, Disps \ Reopening(tx)), e.active = work.active,
         \A x \in Disps : e.disp[x].status = work.disp[x].status,
         \A x \in Reopening(tx) : Reopenable(e, x)
  PROVE  Ready(e, Then(<<>>))
<1> DEFINE todo == Tail(tx.todo)
           u == Then(<<>>)
<1>1. TxTyped(tx) /\ Ordered(tx.kind, tx.todo) /\ Prepared(work, tx)
  BY DEF Ready
<1>2. tx.todo \in Seq(Phases)
  BY <1>1 DEF TxTyped
<1>3. /\ todo \in Seq(Phases)
      /\ Ordered(tx.kind, todo)
      /\ \A j \in 1..Len(todo) : /\ todo[j] = tx.todo[j + 1]
                                 /\ todo[j] \notin {"stale", "finalize", "unforce"}
  BY <1>1, <1>2, TailOrdered
<1>4. <<>> \o todo = todo
  BY <1>3
<1>5. /\ DOMAIN u = TxFields
      /\ u.todo = todo
      /\ u.kind = tx.kind /\ u.disp = tx.disp /\ u.disps = tx.disps
      /\ u.subs = tx.subs /\ u.forced = tx.forced
  BY <1>1, <1>4 DEF Then, TxTyped, TxFields
<1>6. Len(tx.todo) = Len(todo) + 1 /\ Len(todo) \in Nat /\ tx.todo[1] = Head(tx.todo)
  BY <1>2
<1> HIDE DEF todo, u
<1>7. ASSUME NEW p, p # Head(tx.todo)
      PROVE  Ahead(u, p) <=> Ahead(tx, p)
  <2>1. ASSUME NEW j \in 1..Len(todo), todo[j] = p
        PROVE  j + 1 \in 1..Len(tx.todo) /\ tx.todo[j + 1] = p
    BY <1>3, <1>6, <2>1
  <2>2. ASSUME NEW j \in 1..Len(tx.todo), tx.todo[j] = p
        PROVE  j - 1 \in 1..Len(todo) /\ todo[j - 1] = p
    <3>1. j # 1
      BY <1>6, <1>7, <2>2
    <3>2. j - 1 \in 1..Len(todo) /\ (j - 1) + 1 = j
      BY <1>6, <3>1
    <3> QED BY <1>3, <2>2, <3>2
  <2> QED BY <1>5, <2>1, <2>2 DEF Ahead
<1>8. Reopening(u) = Reopening(tx)
  BY <1>5, <1>7 DEF Reopening
<1>9. Ahead(u, "settle") => Ahead(tx, "settle")
  <2>1. CASE Head(tx.todo) = "settle"
    <3>1. 1 \in 1..Len(tx.todo)
      BY <1>6
    <3> QED BY <1>6, <2>1, <3>1 DEF Ahead
  <2> QED BY <1>7, <2>1
<1>10. TxTyped(u)
  BY <1>1, <1>3, <1>5 DEF TxTyped
<1>11. ~At(u, "stale") /\ ~At(u, "finalize") /\ ~At(u, "unforce")
  <2>1. u.todo # <<>> => 1 \in 1..Len(u.todo) /\ Head(u.todo) = u.todo[1]
    BY <1>3, <1>5
  <2> QED BY <1>3, <1>5, <2>1 DEF At
<1>12. \A x \in u.disps : e.disp[x].status = work.disp[x].status
  BY <1>1, <1>5 DEF TxTyped
<1>13. Ready(e, u)
  BY <1>3, <1>5, <1>8, <1>9, <1>10, <1>11, <1>12, StepReady
<1> QED BY <1>13 DEF u

LEMMA LoopEndsReady ==
  ASSUME Ready(work, tx), LoopEnds
  PROVE  Ready(work, tx)' /\ tx'.kind = tx.kind
<1>1. /\ tx.todo # <<>> /\ Head(tx.todo) # "newRound"
      /\ work' = work /\ tx' = Then(<<>>)
  BY DEF LoopEnds, InPhase, Step
<1>2. /\ TxTyped(tx) /\ Good(work, Disps \ Reopening(tx))
      /\ \A x \in Reopening(tx) : Reopenable(work, x)
  BY DEF Ready, Prepared
<1>3. Ready(work, Then(<<>>))
  BY <1>1, <1>2, TailReady
<1> QED BY <1>1, <1>2, <1>3, ThenKind

-----------------------------------------------------------------------------
(* The steps of a reopening.                                               *)

LEMMA UnforceReady ==
  ASSUME Ready(work, tx), RestoreForced
  PROVE  Ready(work, tx)' /\ tx'.kind = tx.kind
<1> DEFINE entry == Head(tx.forced)
           e == RollbackForced(work, entry)
           u == [tx EXCEPT !.forced = Tail(@)]
<1>1. /\ At(tx, "unforce") /\ tx.forced # <<>>
      /\ work' = e /\ tx' = u
  BY DEF RestoreForced, InPhase, At, Step
<1>2. /\ TxTyped(tx) /\ Ordered(tx.kind, tx.todo) /\ Prepared(work, tx)
      /\ Good(work, Disps \ Reopening(tx))
  BY DEF Ready
<1>3. tx.forced \in Seq(ForcedRow) /\ Revivable(work, tx.forced)
  BY <1>1, <1>2 DEF TxTyped, Prepared
<1>4. /\ 1 \in 1..Len(tx.forced) /\ entry = tx.forced[1] /\ entry \in ForcedRow
      /\ Tail(tx.forced) \in Seq(ForcedRow)
      /\ \A i \in 1..Len(Tail(tx.forced)) : /\ i + 1 \in 1..Len(tx.forced)
                                            /\ Tail(tx.forced)[i] = tx.forced[i + 1]
  BY <1>1, <1>3
<1>5. entry.status \in ActiveTask /\ work.task[entry.task].publisher \in Agents
  BY <1>3, <1>4 DEF Revivable
<1>6. Revivable(work, Tail(tx.forced))
  BY <1>3, <1>4 DEF Revivable
<1>7. /\ DOMAIN u = TxFields
      /\ u.forced = Tail(tx.forced)
      /\ u.kind = tx.kind /\ u.todo = tx.todo /\ u.disp = tx.disp
      /\ u.disps = tx.disps /\ u.subs = tx.subs
  BY <1>2 DEF TxTyped, TxFields
<1> HIDE DEF entry, u
<1>8. /\ Good(e, Disps \ Reopening(tx))
      /\ e.active = work.active
      /\ \A x \in Disps : Reopenable(work, x) => Reopenable(e, x)
      /\ \A t \in Tasks : e.task[t].publisher = work.task[t].publisher
  BY <1>2, <1>4, <1>5, UnforceGood
<1> HIDE DEF e
<1>9. TxTyped(u)
  BY <1>2, <1>4, <1>7 DEF TxTyped
<1>10. Reopening(u) = Reopening(tx) /\ Reopening(tx) \subseteq Disps
  BY <1>2, <1>7 DEF Reopening, Ahead, Prepared
<1>11. Revivable(e, u.forced)
  <2> DEFINE forced == Tail(tx.forced)
  <2>1. forced \in Seq(ForcedRow) /\ Revivable(work, forced)
    BY <1>4, <1>6
  <2>2. \A t \in Tasks : work.task[t].publisher \in Agents => e.task[t].publisher \in Agents
    BY <1>8
  <2> HIDE DEF forced
  <2>3. Revivable(e, forced)
    BY ONLY <2>1, <2>2, RevivableKept
  <2> QED BY <1>7, <2>3 DEF forced
<1>12. Prepared(e, u)
  <2>1. tx.kind = "REOPEN"
    <3>1. 1 \in 1..Len(tx.todo) /\ tx.todo[1] = "unforce"
      BY <1>1, <1>2, HeadIsFirst
    <3> QED BY <1>2, <3>1 DEF Ordered
  <2>2. u.disp \in Disps /\ u.disps = {}
    BY <1>2, <1>7, <2>1 DEF Prepared
  <2>3. ~At(u, "stale") /\ ~At(u, "finalize")
    BY <1>1, <1>7 DEF At
  <2>4. \A x \in Reopening(u) : Reopenable(e, x)
    BY <1>2, <1>8, <1>10 DEF Prepared
  <2>5. Ahead(u, "settle") => e.active + 1 \in Cycles
    BY <1>2, <1>7, <1>8 DEF Prepared, Ahead
  <2> QED BY <1>11, <2>2, <2>3, <2>4, <2>5 DEF Prepared
<1>13. Ready(e, u)
  BY <1>2, <1>7, <1>8, <1>9, <1>10, <1>12 DEF Ready
<1> QED BY <1>1, <1>7, <1>13

LEMMA RestoreBanReady ==
  ASSUME Ready(work, tx), RestorePublisherBan
  PROVE  Ready(work, tx)' /\ tx'.kind = tx.kind
<1> DEFINE x == tx.disp
           all == Tail(tx.todo) \o <<"sweep">>
           u == [Then(<<>>) EXCEPT !.todo = @ \o <<"sweep">>]
<1>1. At(tx, "restoreBan")
  BY DEF RestorePublisherBan, InPhase, At
<1>2. /\ TxTyped(tx) /\ Ordered(tx.kind, tx.todo) /\ Prepared(work, tx)
      /\ Good(work, Disps \ Reopening(tx))
  BY DEF Ready
<1>3. /\ tx.todo \in Seq(Phases) /\ tx.todo # <<>>
      /\ 1 \in 1..Len(tx.todo) /\ tx.todo[1] = "restoreBan"
      /\ Head(tx.todo) = "restoreBan"
  BY <1>1, <1>2, HeadIsFirst DEF At
<1>4. tx.kind = "REOPEN"
  BY <1>2, <1>3 DEF Ordered
<1>5. x \in Disps /\ tx.disps = {}
  BY <1>2, <1>4 DEF Prepared
<1>6. /\ DOMAIN Then(<<>>) = TxFields
      /\ Then(<<>>).todo = <<>> \o Tail(tx.todo)
      /\ Then(<<>>).kind = tx.kind /\ Then(<<>>).disp = tx.disp
      /\ Then(<<>>).disps = tx.disps
      /\ Then(<<>>).subs = tx.subs /\ Then(<<>>).forced = tx.forced
  BY <1>2 DEF Then, TxTyped, TxFields
<1>7. <<>> \o Tail(tx.todo) = Tail(tx.todo) /\ Tail(tx.todo) \in Seq(Phases)
  BY <1>3
<1>8. PICK alt \in Disps \cup {NoDispute} :
        /\ work' = RestoreBan(work, x, alt)
        /\ tx' \in {Then(<<>>), u}
  <2>1. AlternateBanSources(work, x) \subseteq Disps
    BY DEF AlternateBanSources
  <2>2. Then(<<>>) = [Then(<<>>) EXCEPT !.todo = @]
    BY <1>2 DEF Then, TxTyped, TxFields
  <2> QED BY <2>1, <2>2 DEF RestorePublisherBan, Step
<1> DEFINE e == RestoreBan(work, x, alt)
<1>9. /\ Good(e, Disps \ Reopening(tx))
      /\ e.active = work.active
      /\ \A y \in Disps : Reopenable(work, y) => Reopenable(e, y)
  BY <1>2, <1>5, RestoreBanGood
<1>10. e.disp = work.disp
  BY <1>2 DEF RestoreBan, Good, RowsTyped, TableNames
<1>11. Reopening(tx) \subseteq Disps
  BY <1>5 DEF Reopening
<1>12. \A y \in Reopening(tx) : Reopenable(e, y)
  BY <1>2, <1>9, <1>11 DEF Prepared
<1> HIDE DEF e
<1>13. Ready(e, Then(<<>>))
  BY <1>3, <1>9, <1>10, <1>12, TailReady
<1>14. /\ DOMAIN u = TxFields
       /\ u.todo = all
       /\ u.kind = tx.kind /\ u.disp = tx.disp /\ u.disps = tx.disps
       /\ u.subs = tx.subs /\ u.forced = tx.forced
  BY <1>6, <1>7 DEF TxFields
<1>15. /\ all \in Seq(Phases)
       /\ Ordered("REOPEN", all)
       /\ \A j \in 1..Len(all) : \/ j \in 1..Len(Tail(tx.todo)) /\ all[j] = Tail(tx.todo)[j]
                                 \/ all[j] = "sweep"
       /\ Len(all) >= Len(Tail(tx.todo))
       /\ \A j \in 1..Len(Tail(tx.todo)) : all[j] = Tail(tx.todo)[j]
  BY <1>2, <1>3, <1>4, SweepLastOrdered
<1>16. Ready(e, u)
  <2> DEFINE t == Then(<<>>)
             rest == Tail(tx.todo)
  <2>1. /\ t.todo = rest /\ t.kind = tx.kind /\ t.disp = tx.disp /\ t.disps = tx.disps
        /\ rest \in Seq(Phases)
        /\ \A j \in 1..Len(rest) : rest[j] \notin {"stale", "finalize", "unforce"}
    BY <1>2, <1>3, <1>6, <1>7, TailOrdered
  <2>2. Good(e, Disps \ Reopening(t)) /\ \A y \in Reopening(t) : Reopenable(e, y)
    BY <1>13 DEF Ready, Prepared
  <2> HIDE DEF t, rest, all, u
  <2>3. \A p : p # "sweep" => (Ahead(u, p) <=> Ahead(t, p))
    <3>1. Len(rest) \in Nat /\ Len(all) \in Nat
      BY <1>15, <2>1
    <3>2. \A j \in 1..Len(rest) : j \in 1..Len(all) /\ all[j] = rest[j]
      BY <1>15, <3>1 DEF rest
    <3>3. \A j \in 1..Len(all) : (j \in 1..Len(rest) /\ all[j] = rest[j]) \/ all[j] = "sweep"
      BY <1>15 DEF rest
    <3> QED BY <1>14, <2>1, <3>2, <3>3 DEF Ahead
  <2>4. Reopening(u) = Reopening(t)
    BY <1>14, <2>1, <2>3 DEF Reopening
  <2>5. TxTyped(u)
    BY <1>2, <1>14, <1>15 DEF TxTyped
  <2>6. ~At(u, "stale") /\ ~At(u, "finalize") /\ ~At(u, "unforce")
    <3>1. u.todo # <<>> => 1 \in 1..Len(u.todo) /\ Head(u.todo) = u.todo[1]
      BY <1>14, <1>15
    <3>2. \A j \in 1..Len(all) : all[j] \notin {"stale", "finalize", "unforce"}
      BY <1>15, <2>1 DEF rest
    <3> QED BY <1>14, <3>1, <3>2 DEF At
  <2>7. Ordered(u.kind, u.todo)
    BY <1>4, <1>14, <1>15
  <2>8. Ready(e, t)
    BY <1>13 DEF t
  <2> QED BY <1>14, <2>1, <2>2, <2>3, <2>4, <2>5, <2>6, <2>7, <2>8, StepReady
<1>17. CASE tx' = Then(<<>>)
  BY <1>6, <1>8, <1>13, <1>17 DEF e
<1>18. CASE tx' = u
  BY <1>8, <1>14, <1>16, <1>18 DEF e
<1> QED BY <1>8, <1>17, <1>18

\* The new round is the last thing the rollback waits for.
LEMMA NewRoundReady ==
  ASSUME Ready(work, tx), StartNewRound
  PROVE  Ready(work, tx)' /\ tx'.kind = tx.kind
<1> DEFINE x == tx.disp
           e == OpenNewRound(work, x)
           u == Then(<<>>)
<1>1. At(tx, "newRound") /\ work' = e /\ tx' = u
  BY DEF StartNewRound, InPhase, At, Step
<1>2. /\ TxTyped(tx) /\ Ordered(tx.kind, tx.todo) /\ Prepared(work, tx)
      /\ Good(work, Disps \ Reopening(tx))
  BY DEF Ready
<1>3. /\ tx.todo \in Seq(Phases) /\ tx.todo # <<>>
      /\ 1 \in 1..Len(tx.todo) /\ tx.todo[1] = "newRound"
  BY <1>1, <1>2, HeadIsFirst
<1>4. tx.kind = "REOPEN"
  BY <1>2, <1>3 DEF Ordered
<1>5. Reopening(tx) = {x}
  BY <1>3, <1>4 DEF Reopening, Ahead
<1>6. x \in Disps /\ tx.disps = {} /\ Reopenable(work, x)
  BY <1>2, <1>4, <1>5 DEF Prepared
<1>7. Good(e, Disps) /\ e.active = work.active
  BY <1>2, <1>5, <1>6, NewRoundGood
<1> DEFINE todo == Tail(tx.todo)
<1>8. /\ todo \in Seq(Phases)
      /\ Ordered(tx.kind, todo)
      /\ \A j \in 1..Len(todo) : /\ todo[j] = tx.todo[j + 1]
                                 /\ todo[j] \notin {"stale", "finalize", "unforce"}
  BY <1>2, <1>3, TailOrdered
<1>9. /\ DOMAIN u = TxFields
      /\ u.todo = todo
      /\ u.kind = tx.kind /\ u.disp = tx.disp /\ u.disps = tx.disps
      /\ u.subs = tx.subs /\ u.forced = tx.forced
  <2>1. <<>> \o todo = todo
    BY <1>8
  <2> QED BY <1>2, <2>1 DEF Then, TxTyped, TxFields
<1>10. Len(tx.todo) = Len(todo) + 1 /\ Len(todo) \in Nat
  BY <1>3
<1> HIDE DEF e, u, todo
<1>11. ~Ahead(u, "newRound") /\ ~Ahead(u, "settle")
  <2> SUFFICES ASSUME NEW j \in 1..Len(todo), todo[j] \in {"newRound", "settle"}
               PROVE  FALSE
    BY <1>9 DEF Ahead
  <2>1. j + 1 \in 1..Len(tx.todo) /\ tx.todo[j + 1] = todo[j] /\ 1 \in 1..((j + 1) - 1)
    BY <1>8, <1>10
  <2> QED BY <1>2, <1>3, <1>4, <2>1 DEF Ordered
<1>12. TxTyped(u)
  BY <1>2, <1>8, <1>9 DEF TxTyped
<1>13. ~At(u, "stale") /\ ~At(u, "finalize") /\ ~At(u, "unforce")
  <2>1. u.todo # <<>> => 1 \in 1..Len(u.todo) /\ Head(u.todo) = u.todo[1]
    BY <1>8, <1>9
  <2> QED BY <1>8, <1>9, <2>1 DEF At
<1>14. Reopening(u) = {}
  BY <1>11 DEF Reopening
<1>15. Ready(e, u)
  BY <1>6, <1>7, <1>8, <1>9, <1>11, <1>12, <1>13, <1>14, StepReady
<1> QED BY <1>1, <1>9, <1>15

LEMMA ReconcileReady ==
  ASSUME Ready(work, tx), Reconcile
  PROVE  Ready(work, tx)' /\ tx'.kind = tx.kind
<1>1. At(tx, "reconcile")
  BY DEF Reconcile, InPhase, At
<1>2. PICK c : Step(ReconcileCycle(work, c, tx.before[c]),
                    [tx EXCEPT !.before = [i \in DOMAIN @ \ {c} |-> @[i]]])
  BY DEF Reconcile
<1> DEFINE e == ReconcileCycle(work, c, tx.before[c])
           u == [tx EXCEPT !.before = [i \in DOMAIN @ \ {c} |-> @[i]]]
<1>3. work' = e /\ tx' = u
  BY <1>2 DEF Step
<1>4. /\ TxTyped(tx) /\ Ordered(tx.kind, tx.todo)
      /\ Good(work, Disps \ Reopening(tx))
  BY DEF Ready
<1>5. Reopening(tx) = {} /\ ~Ahead(tx, "newRound")
  BY <1>1, <1>4, NotReopening DEF At
<1>6. /\ DOMAIN u = TxFields
      /\ u.kind = tx.kind /\ u.todo = tx.todo /\ u.disp = tx.disp
      /\ u.disps = tx.disps /\ u.subs = tx.subs /\ u.forced = tx.forced
  BY <1>4 DEF TxTyped, TxFields
<1>7. /\ DOMAIN e = TableNames
      /\ e.task = work.task /\ e.sub = work.sub /\ e.disp = work.disp
      /\ e.ban = work.ban /\ e.active = work.active
  <2>1. DOMAIN work = TableNames
    BY <1>4 DEF Good, RowsTyped
  <2> QED BY <2>1 DEF ReconcileCycle, TableNames
<1> HIDE DEF e, u
<1>8. Good(e, Disps)
  <2>1. Good(work, Disps)
    BY <1>4, <1>5
  <2>2. RowsTyped(e)
    BY <1>7, <2>1 DEF Good, RowsTyped
  <2> QED BY <1>7, <2>1, <2>2, SameRows
<1>9. /\ TxTyped(u)
      /\ Reopening(u) = {}
      /\ ~At(u, "stale") /\ ~At(u, "finalize") /\ ~At(u, "unforce")
      /\ Ahead(u, "settle") => Ahead(tx, "settle")
  BY <1>1, <1>4, <1>5, <1>6 DEF TxTyped, Reopening, Ahead, At
<1>10. Ready(e, u)
  BY <1>4, <1>6, <1>7, <1>8, <1>9, StepReady
<1> QED BY <1>3, <1>6, <1>10

-----------------------------------------------------------------------------
(* The beginning and the end of a transaction.                             *)

LEMMA IdleReady ==
  ASSUME NEW d, Good(d, Disps)
  PROVE  Ready(d, Idle)
<1>1. TxTyped(Idle)
  BY DEF Idle, TxTyped, TxFields, TxKinds
<1>2. Idle.todo = <<>> /\ Len(<<>>) = 0 /\ Idle.disps = {} /\ Idle.kind = "IDLE"
  BY DEF Idle
<1>3. \A p : ~At(Idle, p) /\ ~Ahead(Idle, p)
  BY <1>2 DEF At, Ahead
<1>4. Ordered(Idle.kind, Idle.todo)
  BY <1>2 DEF Ordered
<1>5. Reopening(Idle) = {}
  BY <1>2 DEF Reopening
<1>6. Prepared(d, Idle)
  BY <1>2, <1>3, <1>5 DEF Prepared
<1> QED BY <1>1, <1>4, <1>5, <1>6 DEF Ready

LEMMA CloseOrdered ==
  /\ ClosePhases \in Seq(Phases)
  /\ Ordered("CLOSE", ClosePhases)
<1> DEFINE todo == ClosePhases
<1>1. /\ Len(todo) = 6
      /\ todo[1] = "stale" /\ todo[2] = "sweep" /\ todo[3] = "evaluate"
      /\ todo[4] = "sweep" /\ todo[5] = "expire" /\ todo[6] = "settle"
      /\ todo \in Seq(Phases)
  BY DEF ClosePhases, Phases
<1> HIDE DEF todo
<1>2. \A j \in 1..Len(todo) : j \in {1, 2, 3, 4, 5, 6}
  BY <1>1
<1>3. Ordered("CLOSE", todo)
  BY <1>1, <1>2 DEF Ordered
<1> QED BY <1>1, <1>3 DEF todo

LEMMA BeginCloseKeeps ==
  ASSUME DisputeIInv, BeginClose
  PROVE  DisputeIInv'
<1> DEFINE u == [Idle EXCEPT
                   !.kind = "CLOSE",
                   !.todo = ClosePhases,
                   !.subs = StaleSubs(db),
                   !.disps = OpenDisputes(db),
                   !.pool = RewardPool(db.cycle[db.active])]
<1>1. ~Running /\ db.active + 1 \in Cycles /\ tx' = u /\ UNCHANGED <<db, work, expired>>
  BY DEF BeginClose
<1>2. Good(db, Disps) /\ work = db
  BY <1>1, AtRest DEF DisputeIInv
<1>3. /\ DOMAIN u = TxFields
      /\ u.kind = "CLOSE" /\ u.todo = ClosePhases /\ u.disp = NoDispute
      /\ u.subs = StaleSubs(db) /\ u.disps = OpenDisputes(db) /\ u.forced = <<>>
  BY DEF Idle, TxFields
<1> HIDE DEF u
<1>4. TxTyped(u)
  <2>1. StaleSubs(db) \subseteq Subs /\ OpenDisputes(db) \subseteq Disps
    BY DEF StaleSubs, OpenDisputes
  <2> QED BY <1>3, <2>1, CloseOrdered DEF TxTyped, TxKinds
<1>5. Reopening(u) = {}
  BY <1>3 DEF Reopening
<1>6. Prepared(db, u)
  <2>1. Head(u.todo) = "stale"
    BY <1>3 DEF ClosePhases
  <2> QED BY <1>1, <1>3, <1>5, <2>1 DEF Prepared, At, StaleSubs, OpenDisputes
<1>7. Ready(db, u)
  BY <1>2, <1>3, <1>4, <1>5, <1>6, CloseOrdered DEF Ready
<1>8. Good(db, Disps)' /\ Ready(work, tx)'
  BY <1>1, <1>2, <1>7
<1>9. Running'
  BY <1>1, <1>3 DEF Running
<1> QED BY <1>1, <1>8, <1>9 DEF DisputeIInv

LEMMA BeginOverrideKeeps ==
  ASSUME DisputeIInv, NEW x \in Disps, BeginOverrideCompleted(x)
  PROVE  DisputeIInv'
<1> DEFINE u == [Idle EXCEPT !.kind = "OVERRIDE_COMPLETED", !.disp = x, !.todo = <<"finalize">>]
<1>1. ~Running /\ db.disp[x].status = "OPEN" /\ tx' = u /\ UNCHANGED <<db, work, expired>>
  BY DEF BeginOverrideCompleted
<1>2. Good(db, Disps) /\ work = db
  BY <1>1, AtRest DEF DisputeIInv
<1>3. /\ DOMAIN u = TxFields
      /\ u.kind = "OVERRIDE_COMPLETED" /\ u.todo = <<"finalize">> /\ u.disp = x
      /\ u.subs = {} /\ u.disps = {} /\ u.forced = <<>>
  BY DEF Idle, TxFields
<1> HIDE DEF u
<1>4. /\ u.todo \in Seq(Phases) /\ Len(u.todo) = 1
      /\ u.todo[1] = "finalize" /\ Head(u.todo) = "finalize"
  BY <1>3 DEF Phases
<1>5. \A j \in 1..Len(u.todo) : j = 1
  BY <1>4
<1>6. TxTyped(u) /\ Ordered(u.kind, u.todo) /\ ~Ahead(u, "settle") /\ Reopening(u) = {}
  BY <1>3, <1>4, <1>5 DEF TxTyped, TxKinds, Ordered, Ahead, Reopening
<1>7. Prepared(db, u)
  BY <1>1, <1>3, <1>4, <1>6 DEF Prepared, At
<1>8. Ready(db, u)
  BY <1>2, <1>6, <1>7 DEF Ready
<1>9. Good(db, Disps)' /\ Ready(work, tx)'
  BY <1>1, <1>2, <1>8
<1>10. Running'
  BY <1>1, <1>3 DEF Running
<1> QED BY <1>1, <1>9, <1>10 DEF DisputeIInv

LEMMA ReopenOrdered ==
  LET long == <<"unforce", "restoreBan", "newRound", "reconcile">>
      short == <<"newRound", "reconcile">>
  IN \A todo \in {long, short} :
       /\ todo \in Seq(Phases)
       /\ Ordered("REOPEN", todo)
       /\ \E j \in 1..Len(todo) : todo[j] = "newRound"
       /\ \A j \in 1..Len(todo) : todo[j] # "settle"
       /\ Head(todo) \in {"unforce", "newRound"}
<1> DEFINE long == <<"unforce", "restoreBan", "newRound", "reconcile">>
           short == <<"newRound", "reconcile">>
<1>1. /\ long \in Seq(Phases) /\ Len(long) = 4 /\ Head(long) = "unforce"
      /\ long[1] = "unforce" /\ long[2] = "restoreBan"
      /\ long[3] = "newRound" /\ long[4] = "reconcile"
  BY DEF Phases
<1>2. /\ short \in Seq(Phases) /\ Len(short) = 2 /\ Head(short) = "newRound"
      /\ short[1] = "newRound" /\ short[2] = "reconcile"
  BY DEF Phases
<1> HIDE DEF long, short
<1>3. /\ \A j \in 1..Len(long) : j \in {1, 2, 3, 4}
      /\ 3 \in 1..Len(long)
      /\ \A i \in 1..(3 - 1) : i \in {1, 2}
  BY <1>1
<1>4. /\ \A j \in 1..Len(short) : j \in {1, 2}
      /\ 1 \in 1..Len(short)
      /\ \A i \in 1..(1 - 1) : FALSE
  BY <1>2
<1>5. Ordered("REOPEN", long)
  BY <1>1, <1>3 DEF Ordered
<1>6. Ordered("REOPEN", short)
  BY <1>2, <1>4 DEF Ordered
<1>7. \A j \in 1..Len(long) : long[j] # "settle"
  BY <1>1, <1>3
<1>8. \A j \in 1..Len(short) : short[j] # "settle"
  BY <1>2, <1>4
<1>9. /\ \E j \in 1..Len(long) : long[j] = "newRound"
      /\ \E j \in 1..Len(short) : short[j] = "newRound"
  BY <1>1, <1>2, <1>3, <1>4
<1> QED BY <1>1, <1>2, <1>5, <1>6, <1>7, <1>8, <1>9 DEF long, short

LEMMA BeginReopenKeeps ==
  ASSUME DisputeIInv, NEW x \in Disps, BeginReopen(x)
  PROVE  DisputeIInv'
<1> DEFINE resolved == db.disp[x].status = "RESOLVED_COMPLETED"
           archived == ArchiveRound(db, x)
           e == IF resolved THEN RollbackResolution(archived, x) ELSE archived
           todo == IF resolved THEN <<"unforce", "restoreBan", "newRound", "reconcile">>
                               ELSE <<"newRound", "reconcile">>
           closed == {c \in AffectedCycles(db, x) : db.cycle[c].status = "CLOSED"}
           before == [c \in closed |-> Distribution(db, c, RewardPool(db.cycle[c]))]
           forced == db.disp[x].snap.forced
           u == [Idle EXCEPT !.kind = "REOPEN", !.disp = x, !.todo = todo,
                             !.before = before, !.forced = forced]
<1>1. /\ ~Running /\ db.disp[x].status # "NONE"
      /\ work' = e /\ tx' = u /\ UNCHANGED <<db, expired>>
  BY DEF BeginReopen
<1>2. Good(db, Disps)
  BY DEF DisputeIInv
<1> HIDE DEF before, forced, todo, closed
<1>3. /\ DOMAIN u = TxFields
      /\ u.kind = "REOPEN" /\ u.todo = todo /\ u.disp = x
      /\ u.subs = {} /\ u.disps = {} /\ u.forced = forced
  BY DEF Idle, TxFields
<1> HIDE DEF u
<1>4. /\ todo \in Seq(Phases) /\ Ordered("REOPEN", todo)
      /\ Ahead(u, "newRound") /\ ~Ahead(u, "settle")
      /\ Head(todo) \in {"unforce", "newRound"}
  BY <1>3, ReopenOrdered DEF todo, Ahead
<1>5. Reopening(u) = {x}
  BY <1>3, <1>4 DEF Reopening
<1>6. forced \in Seq(ForcedRow) /\ Revivable(db, forced)
  BY <1>2 DEF Good, RowsTyped, Restorable, SnapRow, forced
<1>7. /\ Good(archived, Disps)
      /\ archived.task = db.task /\ archived.sub = db.sub
      /\ archived.disp[x].status = db.disp[x].status
      /\ archived.disp[x].sub = db.disp[x].sub
  BY <1>2, ArchiveGood
<1> HIDE DEF archived
<1>8. Good(e, Disps \ {x}) /\ Reopenable(e, x)
  <2>1. CASE resolved
    <3> DEFINE rolled == RollbackResolution(archived, x)
    <3>1. Good(rolled, Disps \ {x}) /\ Reopenable(rolled, x)
      BY <1>7, <2>1, RollbackGood
    <3> HIDE DEF rolled
    <3>2. e = rolled
      BY <2>1 DEF rolled
    <3> HIDE DEF e
    <3> QED BY <3>1, <3>2
  <2>2. CASE ~resolved
    <3>1. e = archived
      BY <2>2
    <3>2. db.disp[x].status = "OPEN"
      BY <1>1, <1>2, <2>2 DEF Good, RowsTyped, DispStatus
    <3> HIDE DEF e
    <3>3. Good(e, Disps \ {x})
      BY <1>7, <3>1 DEF Good, DisputeBacked
    <3>4. Reopenable(e, x)
      BY <1>7, <3>1, <3>2 DEF Good, DisputeBacked, Reopenable, Payable, DispTask
    <3> QED BY <3>3, <3>4
  <2> QED BY <2>1, <2>2
<1>9. Head(todo) = "unforce" => Revivable(e, forced)
  <2> SUFFICES ASSUME resolved
               PROVE  Revivable(e, forced)
    BY DEF todo
  <2>1. \A t \in Tasks : e.task[t].publisher = db.task[t].publisher
    <3> DEFINE rolled == RollbackResolution(archived, x)
    <3>1. \A t \in Tasks : rolled.task[t].publisher = archived.task[t].publisher
      BY <1>7, RollbackGood
    <3> HIDE DEF rolled
    <3>2. e = rolled
      BY DEF rolled
    <3> HIDE DEF e
    <3> QED BY <1>7, <3>1, <3>2
  <2> HIDE DEF e
  <2>2. \A t \in Tasks : db.task[t].publisher \in Agents => e.task[t].publisher \in Agents
    BY <2>1
  <2> QED BY ONLY <1>6, <2>2, RevivableKept
<1> HIDE DEF e
<1>10. TxTyped(u)
  BY <1>3, <1>4, <1>6 DEF TxTyped, TxKinds
<1>11. Prepared(e, u)
  BY <1>3, <1>4, <1>5, <1>8, <1>9 DEF Prepared, At
<1>12. Ready(e, u)
  BY <1>3, <1>4, <1>5, <1>8, <1>10, <1>11 DEF Ready
<1>13. Good(db, Disps)' /\ Ready(work, tx)'
  BY <1>1, <1>2, <1>12
<1>14. Running'
  BY <1>1, <1>3 DEF Running
<1> QED BY <1>1, <1>13, <1>14 DEF DisputeIInv

LEMMA TxStepKeeps ==
  ASSUME DisputeIInv, TxStep
  PROVE  DisputeIInv'
<1>1. Good(db, Disps) /\ Ready(work, tx) /\ expired \subseteq Tasks
  BY DEF DisputeIInv
<1>2. Ready(work, tx)' /\ tx'.kind = tx.kind
  BY <1>1, AutoConfirmReady, SweepReady, EvaluateReady, ExpireReady, SettleReady,
     FinalizeReady, BanNegativesReady, UnforceReady, RestoreBanReady, NewRoundReady,
     ReconcileReady, LoopEndsReady DEF TxStep
<1>3. tx.todo # <<>> /\ UNCHANGED <<db, expired>>
  BY DEF TxStep, AutoConfirmStale, SweepBanned, Evaluate, ExpireClean, Settle, Finalize,
         BanNegatives, RestoreForced, RestorePublisherBan, StartNewRound, Reconcile,
         LoopEnds, InPhase, Step
<1>4. Running
  BY <1>3, AtRest
<1>5. Running'
  BY <1>2, <1>4 DEF Running
<1>6. Good(db, Disps)'
  BY <1>1, <1>3
<1> QED BY <1>1, <1>2, <1>3, <1>5, <1>6 DEF DisputeIInv

LEMMA IdleKeeps ==
  ASSUME Good(db', Disps), work' = db', tx' = Idle, expired' \subseteq Tasks
  PROVE  DisputeIInv'
<1> DEFINE d == db'
<1>1. Good(d, Disps)
  OBVIOUS
<1> HIDE DEF d
<1>2. Ready(d, Idle)
  BY <1>1, IdleReady
<1>3. Good(db, Disps)' /\ Ready(work, tx)'
  BY <1>1, <1>2 DEF d
<1> QED BY <1>3 DEF DisputeIInv, Idle

LEMMA EndKeeps ==
  ASSUME DisputeIInv, Commit \/ Abort \/ Crash
  PROVE  DisputeIInv'
<1>1. Good(db, Disps) /\ expired \subseteq Tasks
  BY DEF DisputeIInv
<1>2. CASE Commit
  <2>1. tx.todo = <<>> /\ Len(tx.todo) = 0
    BY <1>2 DEF Commit
  <2>2. Reopening(tx) = {}
    BY <2>1 DEF Reopening, Ahead
  <2>3. Good(work, Disps)
    BY <2>2 DEF DisputeIInv, Ready
  <2>4. db' = work /\ work' = work /\ tx' = Idle /\ expired' = expired
    BY <1>2 DEF Commit
  <2>5. Good(db', Disps)
    BY <2>3, <2>4
  <2> QED BY <1>1, <2>4, <2>5, IdleKeeps
<1>3. CASE Abort \/ Crash
  <2>1. db' = db /\ work' = db /\ tx' = Idle /\ expired' = expired
    BY <1>3 DEF Abort, Crash, RolledBack
  <2>2. Good(db', Disps)
    BY <1>1, <2>1
  <2> QED BY <1>1, <2>1, <2>2, IdleKeeps
<1> QED BY <1>2, <1>3

-----------------------------------------------------------------------------
(* The theorem.                                                            *)

LEMMA InitIInv == Init => DisputeIInv
<1> SUFFICES ASSUME Init PROVE DisputeIInv
  OBVIOUS
<1> DEFINE d == EmptyTables
<1>1. /\ DOMAIN d = TableNames
      /\ d.active = 1
      /\ d.ban = [a \in Agents |-> NoBan]
  BY DEF EmptyTables, TableNames
<1>2. d.task \in [Tasks -> TaskRow] /\ \A t \in Tasks : d.task[t].status = "NONE"
  BY DEF EmptyTables, TaskRow, TaskStatus
<1>3. d.sub \in [Subs -> SubRow] /\ \A s \in Subs : d.sub[s].status = "NONE"
  BY DEF EmptyTables, SubRow, SubStatus
<1>4. /\ DOMAIN d.disp = Disps
      /\ \A x \in Disps :
           /\ DOMAIN d.disp[x] = DispFields
           /\ d.disp[x].status = "NONE" /\ d.disp[x].sub = NoSub
           /\ d.disp[x].source = "NONE" /\ d.disp[x].snap = NoSnap
  BY DEF EmptyTables, DispFields
<1> HIDE DEF d
<1>5. NoBan \in BanRow
  BY DEF NoBan, BanRow, BanReason
<1>6. NoSnap \in SnapRow /\ NoSnap.forced = <<>> /\ Len(<<>>) = 0
  BY DEF NoSnap, SnapRow, TaskStatus
<1>7. RowsTyped(d)
  BY <1>1, <1>2, <1>3, <1>4, <1>5, <1>6, IdsAssumption DEF RowsTyped, DispStatus, PayoutSource
<1>8. References(d)
  BY <1>2, <1>3, <1>4 DEF References
<1>9. Restorable(d)
  BY <1>4, <1>6 DEF Restorable, Revivable
<1>10. DisputeBacked(d, Disps)
  BY <1>4 DEF DisputeBacked, Existing
<1>11. Good(d, Disps)
  BY <1>7, <1>8, <1>9, <1>10 DEF Good
<1>12. db = d /\ work = d /\ tx = Idle /\ expired = {}
  BY DEF Init, d
<1>13. Ready(work, tx)
  BY <1>11, <1>12, IdleReady
<1> QED BY <1>11, <1>12, <1>13 DEF DisputeIInv, Idle

LEMMA NextIInv == DisputeIInv /\ [Next]_vars => DisputeIInv'
<1> SUFFICES ASSUME DisputeIInv, [Next]_vars PROVE DisputeIInv'
  OBVIOUS
<1>1. CASE Next
  <2>1. ASSUME Override PROVE DisputeIInv'
    BY <2>1, BeginOverrideKeeps, BeginReopenKeeps DEF Override
  <2> QED BY <1>1, <2>1, ApiWriteKeeps, BeginCloseKeeps, TxStepKeeps, EndKeeps, TickKeeps DEF Next
<1>2. CASE UNCHANGED vars
  <2>1. UNCHANGED <<db, work, tx, expired>>
    BY <1>2 DEF vars
  <2>2. Good(db, Disps)' /\ Ready(work, tx)'
    BY <2>1 DEF DisputeIInv
  <2> QED BY <2>1, <2>2 DEF DisputeIInv, Running
<1> QED BY <1>1, <1>2

\* InReopening names the dispute that the invariant leaves out.
LEMMA IInvBacks == DisputeIInv => DisputeBackedInv
<1> SUFFICES ASSUME DisputeIInv PROVE DisputeBackedInv
  OBVIOUS
<1>1. tx.todo \in Seq(Phases)
  BY DEF DisputeIInv, Ready, TxTyped
<1>2. DOMAIN tx.todo = 1..Len(tx.todo)
  BY <1>1
<1>3. InReopening = Reopening(tx)
  BY <1>2 DEF InReopening, Reopening, Ahead
<1>4. DisputeBacked(db, Disps) /\ DisputeBacked(work, Disps \ Reopening(tx))
  BY DEF DisputeIInv, Ready, Good
<1> QED BY <1>3, <1>4 DEF DisputeBackedInv

\* Whatever interleaving of writes, closings, overrides, failures and crashes:
\* an open dispute can still be paid (its submission is rejected, its task was
\* not terminated), a resolved one has completed its submission and remembers
\* out of whose money, and no submission is disputed twice.
THEOREM DisputesBacked == Spec => []DisputeBackedInv
<1>1. Spec => []DisputeIInv
  BY InitIInv, NextIInv, PTL DEF Spec
<1> QED BY <1>1, IInvBacks, PTL

-----------------------------------------------------------------------------
(***************************************************************************)
(* The transactions implement ReviewLifecycle, and the votes and the       *)
(* outcome of a resolved dispute stand until it is reopened.               *)
(*                                                                         *)
(* Both are about what a commit may change, so both compare the private    *)
(* tables of the running transaction with the committed ones.  While a     *)
(* cycle is closed or a dispute overridden, a submission only moves        *)
(* forward; while a dispute is reopened, only that dispute and its         *)
(* submission move, and they have arrived before anything can be           *)
(* committed.  The invariant rests on DisputeIInv.                         *)
(***************************************************************************)

-----------------------------------------------------------------------------
(* Steps that leave submissions, votes and workload alone.                 *)

DisputeKept(row, old) ==
  /\ row.status = old.status
  /\ row.sub = old.sub
  /\ row.votes = old.votes
  /\ row.payout = old.payout

ReviewKept(d, e) ==
  /\ e.sub = d.sub
  /\ \A x \in Disps : DisputeKept(e.disp[x], d.disp[x])
  /\ e.work = d.work

LEMMA TerminateKeeps ==
  ASSUME NEW d, RowsTyped(d), NEW t \in Tasks, NEW x
  PROVE  ReviewKept(d, TerminateInternal(d, t, x))
<1> DEFINE e == TerminateInternal(d, t, x)
           row == d.task[t]
           penalty == ComputeTerminationPenalty(row.escrow, TerminationPenaltyBps)
           refund == RefundAfter(row.escrow, penalty)
           entry == [task |-> t, cycle |-> d.active, status |-> row.status,
                     escrow |-> row.escrow, penalty |-> penalty, refund |-> refund]
           more(y) == [d.disp[y] EXCEPT !.snap.forced = Append(@, entry)]
<1>1. DOMAIN d = TableNames
  BY DEF RowsTyped
<1>2. e.sub = d.sub /\ e.work = d.work
  BY <1>1 DEF TerminateInternal, TableNames
<1>3. e.disp = [y \in Disps |-> IF y = x /\ d.disp[y].source # "NONE" THEN more(y)
                                                                    ELSE d.disp[y]]
  BY <1>1 DEF TerminateInternal, TableNames
<1> HIDE DEF entry, e
<1>4. ASSUME NEW y \in Disps PROVE DisputeKept(more(y), d.disp[y])
  BY DEF RowsTyped, DispFields, DisputeKept
<1> HIDE DEF more
<1>5. \A y \in Disps : DisputeKept(e.disp[y], d.disp[y])
  BY <1>3, <1>4 DEF DisputeKept
<1> QED BY <1>2, <1>5 DEF ReviewKept, e

LEMMA SameKept ==
  ASSUME NEW d, NEW e, e.sub = d.sub, e.disp = d.disp, e.work = d.work
  PROVE  ReviewKept(d, e)
BY DEF ReviewKept, DisputeKept

LEMMA BanKeeps ==
  ASSUME NEW d, RowsTyped(d), NEW A, NEW reason, NEW source
  PROVE  ReviewKept(d, BanAgents(d, A, reason, source))
<1> DEFINE e == BanAgents(d, A, reason, source)
<1>1. e.sub = d.sub /\ e.disp = d.disp /\ e.work = d.work
  BY DEF BanAgents, RowsTyped, TableNames
<1> HIDE DEF e
<1>2. ReviewKept(d, e)
  BY <1>1, SameKept
<1> QED BY <1>2 DEF e

LEMMA SettleKeeps ==
  ASSUME NEW d, RowsTyped(d), NEW pool
  PROVE  ReviewKept(d, SettleCycle(d, pool))
<1> DEFINE e == SettleCycle(d, pool)
<1>1. e.sub = d.sub /\ e.disp = d.disp /\ e.work = d.work
  BY DEF SettleCycle, RowsTyped, TableNames
<1> HIDE DEF e
<1>2. ReviewKept(d, e)
  BY <1>1, SameKept
<1> QED BY <1>2 DEF e

LEMMA UnforceKeeps ==
  ASSUME NEW d, RowsTyped(d), NEW entry
  PROVE  ReviewKept(d, RollbackForced(d, entry))
<1> DEFINE e == RollbackForced(d, entry)
<1>1. e.sub = d.sub /\ e.disp = d.disp /\ e.work = d.work
  BY DEF RollbackForced, RowsTyped, TableNames
<1> HIDE DEF e
<1>2. ReviewKept(d, e)
  BY <1>1, SameKept
<1> QED BY <1>2 DEF e

LEMMA RestoreBanKeeps ==
  ASSUME NEW d, RowsTyped(d), NEW x, NEW alt
  PROVE  ReviewKept(d, RestoreBan(d, x, alt))
<1> DEFINE e == RestoreBan(d, x, alt)
<1>1. e.sub = d.sub /\ e.disp = d.disp /\ e.work = d.work
  BY DEF RestoreBan, RowsTyped, TableNames
<1> HIDE DEF e
<1>2. ReviewKept(d, e)
  BY <1>1, SameKept
<1> QED BY <1>2 DEF e

LEMMA ReconcileKeeps ==
  ASSUME NEW d, RowsTyped(d), NEW c, NEW before
  PROVE  ReviewKept(d, ReconcileCycle(d, c, before))
<1> DEFINE e == ReconcileCycle(d, c, before)
<1>1. e.sub = d.sub /\ e.disp = d.disp /\ e.work = d.work
  BY DEF ReconcileCycle, RowsTyped, TableNames
<1> HIDE DEF e
<1>2. ReviewKept(d, e)
  BY <1>1, SameKept
<1> QED BY <1>2 DEF e


\* The steps of a transaction that decide nothing about a submission.
Quiet ==
  \/ SweepBanned \/ Evaluate \/ ExpireClean \/ Settle \/ BanNegatives
  \/ RestoreForced \/ RestorePublisherBan \/ Reconcile \/ LoopEnds

LEMMA QuietKeeps ==
  ASSUME RowsTyped(work), expired \subseteq Tasks, Quiet
  PROVE  ReviewKept(work, work')
<1>1. CASE SweepBanned
  <2>1. PICK t \in SweepTargets(work) : work' = SweepOne(work, t)
    BY <1>1 DEF SweepBanned, Step
  <2>2. t \in Tasks
    BY <2>1 DEF SweepTargets
  <2> QED BY <2>1, <2>2, TerminateKeeps DEF SweepOne
<1>2. CASE ExpireClean
  <2>1. PICK t \in expired : work' = TerminateInternal(work, t, NoDispute)
    BY <1>2 DEF ExpireClean, Step
  <2> QED BY <2>1, TerminateKeeps
<1>3. CASE Evaluate \/ LoopEnds
  <2>1. work' = work
    BY <1>3 DEF Evaluate, LoopEnds, Step
  <2> QED BY <2>1, SameKept
<1>4. CASE Settle
  BY <1>4, SettleKeeps DEF Settle, Step
<1>5. CASE BanNegatives
  BY <1>5, BanKeeps DEF BanNegatives, Step
<1>6. CASE RestoreForced
  BY <1>6, UnforceKeeps DEF RestoreForced, Step
<1>7. CASE RestorePublisherBan
  <2>1. PICK alt : work' = RestoreBan(work, tx.disp, alt)
    BY <1>7 DEF RestorePublisherBan, Step
  <2> QED BY <2>1, RestoreBanKeeps
<1>8. CASE Reconcile
  <2>1. PICK c \in DOMAIN tx.before : work' = ReconcileCycle(work, c, tx.before[c])
    BY <1>8 DEF Reconcile, Step
  <2> QED BY <2>1, ReconcileKeeps
<1> QED BY <1>1, <1>2, <1>3, <1>4, <1>5, <1>6, <1>7, <1>8 DEF Quiet

\* Dropping the current phase leaves every other phase ahead.
LEMMA TailAhead ==
  ASSUME NEW todo \in Seq(Phases), todo # <<>>, NEW p, Head(todo) # p
  PROVE  (\E j \in 1..Len(Tail(todo)) : Tail(todo)[j] = p)
           <=> (\E j \in 1..Len(todo) : todo[j] = p)
<1>1. /\ Len(Tail(todo)) = Len(todo) - 1 /\ Len(todo) \in Nat \ {0}
      /\ \A j \in 1..Len(Tail(todo)) : Tail(todo)[j] = todo[j + 1]
      /\ todo[1] # p
  OBVIOUS
<1>2. ASSUME NEW j \in 1..Len(Tail(todo)), Tail(todo)[j] = p
      PROVE  \E i \in 1..Len(todo) : todo[i] = p
  <2>1. j + 1 \in 1..Len(todo)
    BY <1>1
  <2> QED BY <1>1, <1>2, <2>1
<1>3. ASSUME NEW j \in 1..Len(todo), todo[j] = p
      PROVE  \E i \in 1..Len(Tail(todo)) : Tail(todo)[i] = p
  <2>1. j - 1 \in 1..Len(Tail(todo)) /\ (j - 1) + 1 = j
    BY <1>1, <1>3
  <2>2. Tail(todo)[j - 1] = p
    BY <1>1, <1>3, <2>1
  <2> QED BY <2>1, <2>2
<1> QED BY <1>2, <1>3

LEMMA ThenFields ==
  ASSUME TxTyped(tx), tx.todo # <<>>
  PROVE  /\ Then(<<>>).kind = tx.kind
         /\ Then(<<>>).disp = tx.disp
         /\ Then(<<>>).todo = Tail(tx.todo)
<1>1. Tail(tx.todo) \in Seq(Phases)
  BY DEF TxTyped
<1>2. <<>> \o Tail(tx.todo) = Tail(tx.todo)
  BY <1>1
<1> QED BY <1>2 DEF Then, TxTyped, TxFields

LEMMA QuietSchedule ==
  ASSUME TxTyped(tx), Ordered(tx.kind, tx.todo), Quiet
  PROVE  /\ tx'.kind = tx.kind
         /\ tx.kind = "REOPEN" =>
              /\ tx'.disp = tx.disp
              /\ Ahead(tx', "newRound") <=> Ahead(tx, "newRound")
<1> DEFINE Goal == /\ tx'.kind = tx.kind
                   /\ tx.kind = "REOPEN" =>
                        /\ tx'.disp = tx.disp
                        /\ Ahead(tx', "newRound") <=> Ahead(tx, "newRound")
<1>1. tx.todo \in Seq(Phases) /\ DOMAIN tx = TxFields
  BY DEF TxTyped
<1>2. tx.todo # <<>>
  BY DEF Quiet, SweepBanned, Evaluate, ExpireClean, Settle, BanNegatives, RestoreForced,
         RestorePublisherBan, Reconcile, LoopEnds, InPhase
<1>3. /\ 1 \in 1..Len(tx.todo) /\ Head(tx.todo) = tx.todo[1]
  BY <1>1, <1>2
<1>4. tx.kind = "REOPEN" => Head(tx.todo) \notin {"evaluate", "settle", "negatives"}
  BY <1>3 DEF Ordered
<1>5. CASE SweepBanned \/ ExpireClean
  BY <1>5 DEF SweepBanned, ExpireClean, Step
<1>6. CASE Evaluate
  <2>1. tx.kind # "REOPEN"
    BY <1>4, <1>6 DEF Evaluate, InPhase
  <2>2. tx'.kind = tx.kind
    BY <1>1, <1>6 DEF Evaluate, Step, TxFields
  <2> QED BY <2>1, <2>2
<1>7. CASE BanNegatives
  <2>1. tx.kind # "REOPEN"
    BY <1>4, <1>7 DEF BanNegatives, InPhase
  <2>2. tx'.kind = tx.kind
    BY <1>1, <1>7 DEF BanNegatives, Step, Then, TxFields
  <2> QED BY <2>1, <2>2
<1>8. CASE RestoreForced
  <2>1. /\ tx'.kind = tx.kind /\ tx'.disp = tx.disp /\ tx'.todo = tx.todo
    BY <1>1, <1>8 DEF RestoreForced, Step, TxFields
  <2> QED BY <2>1 DEF Ahead
<1>9. CASE Reconcile
  <2>1. PICK c \in DOMAIN tx.before : tx' = [tx EXCEPT !.before = [e \in DOMAIN @ \ {c} |-> @[e]]]
    BY <1>9 DEF Reconcile, Step
  <2>2. /\ tx'.kind = tx.kind /\ tx'.disp = tx.disp /\ tx'.todo = tx.todo
    BY <1>1, <2>1 DEF TxFields
  <2> QED BY <2>2 DEF Ahead
<1>10. CASE Settle \/ LoopEnds
  <2>1. tx' = Then(<<>>) /\ Head(tx.todo) # "newRound"
    BY <1>10 DEF Settle, LoopEnds, Step, InPhase
  <2>2. /\ tx'.kind = tx.kind /\ tx'.disp = tx.disp /\ tx'.todo = Tail(tx.todo)
    BY <1>2, <2>1, ThenFields
  <2>3. (\E j \in 1..Len(Tail(tx.todo)) : Tail(tx.todo)[j] = "newRound")
          <=> (\E j \in 1..Len(tx.todo) : tx.todo[j] = "newRound")
    BY <1>1, <1>2, <2>1, TailAhead
  <2> QED BY ONLY <2>2, <2>3 DEF Ahead
<1>11. CASE RestorePublisherBan
  <2> DEFINE rest == Then(<<>>)
             longer == Tail(tx.todo) \o <<"sweep">>
  <2>1. Head(tx.todo) = "restoreBan"
    BY <1>11 DEF RestorePublisherBan, InPhase
  <2>2. PICK alt : tx' = [rest EXCEPT !.todo =
                            IF RemainsBanned(work, tx.disp, alt) THEN @ \o <<"sweep">> ELSE @]
    BY <1>11 DEF RestorePublisherBan, Step
  <2>3. /\ rest.kind = tx.kind /\ rest.disp = tx.disp /\ rest.todo = Tail(tx.todo)
    BY <1>2, ThenFields
  <2>4. DOMAIN rest = TxFields
    BY <1>1 DEF Then
  <2> HIDE DEF rest
  <2>5. /\ tx'.kind = tx.kind /\ tx'.disp = tx.disp
        /\ tx'.todo \in {longer, Tail(tx.todo)}
    BY <2>2, <2>3, <2>4 DEF TxFields
  <2>6. tx.kind = "REOPEN"
    BY <1>3, <2>1 DEF Ordered
  <2>7. /\ \A j \in 1..Len(longer) : \/ j \in 1..Len(Tail(tx.todo)) /\ longer[j] = Tail(tx.todo)[j]
                                     \/ longer[j] = "sweep"
        /\ Len(longer) >= Len(Tail(tx.todo))
        /\ \A j \in 1..Len(Tail(tx.todo)) : longer[j] = Tail(tx.todo)[j]
    BY <1>1, <1>2, <2>6, SweepLastOrdered
  <2>8. Len(longer) \in Nat /\ Len(Tail(tx.todo)) \in Nat
    BY <1>1, <1>2
  <2> HIDE DEF longer
  <2>9. (\E j \in 1..Len(longer) : longer[j] = "newRound")
          <=> (\E j \in 1..Len(Tail(tx.todo)) : Tail(tx.todo)[j] = "newRound")
    <3>1. 1..Len(Tail(tx.todo)) \subseteq 1..Len(longer)
      BY <2>7, <2>8
    <3> QED BY <2>7, <3>1
  <2> QED BY <1>1, <1>2, <2>1, <2>5, <2>9, TailAhead DEF Ahead
<1> QED BY <1>5, <1>6, <1>7, <1>8, <1>9, <1>10, <1>11 DEF Quiet

-----------------------------------------------------------------------------
(* Steps that decide.                                                      *)

\* The rows a completion adds are its own.
LEMMA CompletionRows ==
  ASSUME NEW d, NEW s, NEW x
  PROVE  \A r \in CompletionWork(d, s, x) :
           /\ r.disp = x /\ r.sub = s
           /\ r.kind = "WORKER" \/ (r.kind = "PUBLISHER" /\ x = NoDispute)
<1> DEFINE row(agent, kind) == [cycle |-> d.active, agent |-> agent, kind |-> kind,
                                disp |-> x, sub |-> s]
           worker == row(d.sub[s].agent, "WORKER")
           publisher == row(TaskOf(d, s).publisher, "PUBLISHER")
<1>1. \A r \in CompletionWork(d, s, x) : r = worker \/ (r = publisher /\ x = NoDispute)
  BY DEF CompletionWork, Recorded
<1>2. /\ worker.disp = x /\ worker.sub = s /\ worker.kind = "WORKER"
      /\ publisher.disp = x /\ publisher.sub = s /\ publisher.kind = "PUBLISHER"
  OBVIOUS
<1> HIDE DEF worker, publisher
<1> QED BY <1>1, <1>2

LEMMA ConfirmWork ==
  ASSUME NEW d, RowsTyped(d), NEW s, NEW x
  PROVE  /\ ConfirmInternal(d, s, x).work = d.work \cup CompletionWork(d, s, x)
         /\ ConfirmInternal(d, s, x).disp = d.disp
BY DEF ConfirmInternal, RowsTyped, TableNames

\* What finalizing dispute x leaves of the review, d being the tables before.
Decided(d, e, x) ==
  LET s == d.disp[x].sub
  IN /\ \A o \in Subs \ {s} : e.sub[o] = d.sub[o]
     /\ e.sub[s].status \in CompletedSub
     /\ e.sub[s].task = d.sub[s].task
     /\ e.sub[s].agent = d.sub[s].agent
     /\ \A y \in Disps \ {x} : e.disp[y] = d.disp[y]
     /\ e.disp[x].status = "RESOLVED_COMPLETED"
     /\ e.disp[x].sub = s
     /\ e.disp[x].votes = d.disp[x].votes
     /\ e.work = d.work \cup CompletionWork(d, s, x)

LEMMA EscrowDecides ==
  ASSUME NEW d, RowsTyped(d), References(d), NEW x \in Disps,
         d.disp[x].status = "RESOLVED_COMPLETED"
  PROVE  LET e == ResolveFromEscrow(d, x)
         IN /\ e.disp[x].votes = d.disp[x].votes
            /\ e.disp[x].snap = SnapshotBefore(d, x)
            /\ e.task = ConfirmInternal(d, d.disp[x].sub, x).task
            /\ e.work = d.work \cup CompletionWork(d, d.disp[x].sub, x)
<1> DEFINE s == d.disp[x].sub
           c == ConfirmInternal(d, s, x)
           e == ResolveFromEscrow(d, x)
           reward == d.task[DispTask(d, x)].reward
           snap == SnapshotBefore(d, x)
           row == [c.disp[x] EXCEPT !.source = "ESCROW", !.payout = reward, !.snap = snap]
<1>1. e = [c EXCEPT !.disp[x] = row]
  BY DEF ResolveFromEscrow
<1>2. DOMAIN c = TableNames /\ c.disp = d.disp
  BY DEF ConfirmInternal, RowsTyped, TableNames
<1>3. c.work = d.work \cup CompletionWork(d, s, x)
  BY ConfirmWork
<1> HIDE DEF c, e, snap, reward
<1>4. row.votes = d.disp[x].votes /\ row.snap = snap
  BY <1>2 DEF RowsTyped, DispFields
<1> HIDE DEF row
<1>5. e.work = c.work /\ e.task = c.task /\ e.disp = [c.disp EXCEPT ![x] = row]
  BY <1>1, <1>2 DEF TableNames
<1>6. e.disp[x] = row
  BY <1>2, <1>5 DEF RowsTyped
<1> QED BY <1>3, <1>4, <1>5, <1>6 DEF e, c, snap

\* What is left when dispute x was paid out of the publisher's wallet.
PaidFromWallet(d, e, x) ==
  LET t == DispTask(d, x)
      completed == d.task[t].completed \cup {DispWorker(d, x)}
      status == IF HasPayableSlot(d.task[t]) THEN d.task[t].status ELSE "CLOSED"
  IN /\ e.disp[x].votes = d.disp[x].votes
     /\ e.disp[x].snap = SnapshotBefore(d, x)
     /\ e.task = [d.task EXCEPT ![t] = [d.task[t] EXCEPT !.completed = completed,
                                                       !.status = status]]
     /\ e.sub = [d.sub EXCEPT ![d.disp[x].sub].status = "DISPUTE_COMPLETED"]
     /\ e.work = d.work \cup CompletionWork(d, d.disp[x].sub, x)

LEMMA WalletDecides ==
  ASSUME NEW d, RowsTyped(d), References(d), NEW x \in Disps,
         d.disp[x].status = "RESOLVED_COMPLETED"
  PROVE  PaidFromWallet(d, ResolveFromWallet(d, x), x)
<1> DEFINE s == d.disp[x].sub
           t == DispTask(d, x)
           task == d.task[t]
           paid == WalletPayout(d, x)
           snap == SnapshotBefore(d, x)
           source == IF Insolvent(d, x) THEN "PUBLISHER_WALLET_PARTIAL" ELSE "PUBLISHER_WALLET"
           row == [d.disp[x] EXCEPT !.source = source, !.payout = paid, !.snap = snap]
           completed == task.completed \cup {DispWorker(d, x)}
           status == IF HasPayableSlot(task) THEN task.status ELSE "CLOSED"
           taskAfter == [task EXCEPT !.completed = completed, !.status = status]
           settled == [d EXCEPT
             !.avail[task.publisher] = @ - paid,
             !.avail[d.sub[s].agent] = @ + paid,
             !.sub[s].status = "DISPUTE_COMPLETED",
             !.task[t] = taskAfter,
             !.work = @ \cup CompletionWork(d, s, x),
             !.disp[x] = row]
           e == ResolveFromWallet(d, x)
           banned == BanAgents(settled, {task.publisher}, "DISPUTE_INSOLVENCY", x)
<1>1. e \in {settled, banned}
  <2>1. t \in Tasks /\ DOMAIN task = {"status", "publisher", "slots", "reward", "repeat",
                                     "escrow", "intents", "completed"}
    BY DisputeRefs DEF RowsTyped, TaskRow
  <2>2. taskAfter = [task EXCEPT !.completed = @ \cup {d.sub[s].agent},
                                 !.status = IF HasPayableSlot(task) THEN @ ELSE "CLOSED"]
    BY <2>1 DEF DispWorker
  <2> HIDE DEF taskAfter, snap, source, paid, row
  <2> QED BY <2>2 DEF ResolveFromWallet, snap, source, paid, row
<1> HIDE DEF snap, source, paid, taskAfter
<1>2. /\ DOMAIN settled = TableNames
      /\ settled.disp = [d.disp EXCEPT ![x] = row]
      /\ settled.task = [d.task EXCEPT ![t] = taskAfter]
      /\ settled.sub = [d.sub EXCEPT ![s].status = "DISPUTE_COMPLETED"]
      /\ settled.work = d.work \cup CompletionWork(d, s, x)
  BY DEF RowsTyped, TableNames
<1>3. row.votes = d.disp[x].votes /\ row.snap = snap
  BY DEF RowsTyped, DispFields
<1> HIDE DEF row, settled, e
<1>4. /\ banned.disp = settled.disp /\ banned.work = settled.work
      /\ banned.task = settled.task /\ banned.sub = settled.sub
  BY <1>2 DEF BanAgents, TableNames
<1> HIDE DEF banned
<1>5. settled.disp[x] = row
  BY <1>2 DEF RowsTyped
<1>6. /\ e.disp = settled.disp /\ e.work = settled.work
      /\ e.task = settled.task /\ e.sub = settled.sub
  BY <1>1, <1>4
<1>7. PaidFromWallet(d, e, x)
  BY <1>2, <1>3, <1>5, <1>6 DEF PaidFromWallet, snap, taskAfter
<1> QED BY <1>7 DEF e

LEMMA FinalizeDecides ==
  ASSUME NEW d, Good(d, Disps), NEW x \in Disps, d.disp[x].status = "OPEN"
  PROVE  Decided(d, FinalizeCompleted(d, x), x)
<1> DEFINE m == [d EXCEPT !.disp[x].status = "RESOLVED_COMPLETED"]
           s == d.disp[x].sub
           e == FinalizeCompleted(d, x)
<1>1. RowsTyped(d) /\ References(d) /\ DisputeBacked(d, Disps)
  BY DEF Good
<1>2. /\ RowsTyped(m)
      /\ References(m)
      /\ m.task = d.task /\ m.sub = d.sub /\ m.active = d.active
      /\ \A y \in Disps \ {x} : m.disp[y] = d.disp[y]
      /\ m.disp[x].status = "RESOLVED_COMPLETED"
      /\ m.disp[x].sub = s
  BY <1>1, MarkResolved
<1>3. m.work = d.work
  BY <1>1 DEF RowsTyped, TableNames
<1>4. m.disp[x].votes = d.disp[x].votes
  BY <1>1 DEF RowsTyped, TableNames, DispFields
<1>5. s \in Subs /\ d.sub[s].status = "REJECTED" /\ d.sub[s].task \in Tasks
  BY <1>1, DisputeRefs DEF DisputeBacked, DispTask
<1>6. e \in {ResolveFromEscrow(m, x), ResolveFromWallet(m, x)}
  BY <1>5 DEF FinalizeCompleted, PaysFromEscrow, PaysFromWallet, AlreadyCompleted, CompletedSub
<1> HIDE DEF m, e
<1>7. Resolved(m, e, x)
  BY <1>2, <1>6, ResolveFromEscrowEffect, ResolveFromWalletEffect
<1>8. e.disp[x].votes = m.disp[x].votes /\ e.work = m.work \cup CompletionWork(m, s, x)
  <2>1. CASE e = ResolveFromEscrow(m, x)
    BY <1>2, <2>1, EscrowDecides
  <2>2. CASE e = ResolveFromWallet(m, x)
    <3>1. PaidFromWallet(m, e, x)
      BY <1>2, <2>2, WalletDecides
    <3> QED BY <1>2, <3>1 DEF PaidFromWallet
  <2> QED BY <1>6, <2>1, <2>2
<1>9. CompletionWork(m, s, x) = CompletionWork(d, s, x)
  BY <1>2 DEF CompletionWork, TaskOf
<1> DEFINE done == IF e.disp[x].source = "ESCROW" THEN "CONFIRMED" ELSE "DISPUTE_COMPLETED"
<1>10. done \in CompletedSub
  BY DEF CompletedSub
<1> HIDE DEF done
<1>11. /\ e.sub = [d.sub EXCEPT ![s].status = done]
       /\ \A y \in Disps \ {x} : e.disp[y] = m.disp[y]
       /\ e.disp[x].status = "RESOLVED_COMPLETED"
       /\ e.disp[x].sub = s
  BY <1>2, <1>7 DEF Resolved, done
<1>12. /\ \A o \in Subs \ {s} : e.sub[o] = d.sub[o]
       /\ e.sub[s].status = done
       /\ e.sub[s].task = d.sub[s].task /\ e.sub[s].agent = d.sub[s].agent
  BY <1>1, <1>5, <1>11 DEF RowsTyped, SubRow
<1>13. Decided(d, e, x)
  BY <1>2, <1>3, <1>4, <1>8, <1>9, <1>10, <1>11, <1>12 DEF Decided
<1> QED BY <1>13 DEF e

LEMMA ArchiveKeeps ==
  ASSUME NEW d, RowsTyped(d), NEW x \in Disps
  PROVE  ReviewKept(d, ArchiveRound(d, x))
<1> DEFINE e == ArchiveRound(d, x)
           old == d.disp[x]
           history == [exists |-> TRUE,
                       cycles |-> old.history.cycles \cup AffectedCycles(d, x),
                       agents |-> old.history.agents \cup {r.agent : r \in DisputeWork(d, x)}]
           row == [old EXCEPT !.history = history]
           anything == old.source # "NONE" \/ old.votes # {} \/ DisputeWork(d, x) # {}
<1>1. CASE ~anything
  BY <1>1, SameKept DEF ArchiveRound
<1>2. CASE anything
  <2>1. DOMAIN old = DispFields /\ DOMAIN d = TableNames
    BY DEF RowsTyped
  <2>2. e = [d EXCEPT !.disp[x].history =
               [exists |-> TRUE,
                cycles |-> @.cycles \cup AffectedCycles(d, x),
                agents |-> @.agents \cup {r.agent : r \in DisputeWork(d, x)}]]
    BY <1>2 DEF ArchiveRound
  <2>3. e.sub = d.sub /\ e.work = d.work /\ e.disp = [d.disp EXCEPT ![x] = row]
    BY <2>1, <2>2 DEF TableNames, DispFields
  <2> HIDE DEF history, anything, e
  <2>4. DisputeKept(row, d.disp[x])
    BY <2>1 DEF DispFields, DisputeKept
  <2> HIDE DEF row
  <2>5. \A y \in Disps : DisputeKept(e.disp[y], d.disp[y])
    BY <2>3, <2>4 DEF RowsTyped, DisputeKept
  <2>6. ReviewKept(d, e)
    BY <2>3, <2>5 DEF ReviewKept
  <2> QED BY <2>6 DEF e
<1> QED BY <1>1, <1>2

LEMMA RollbackDecides ==
  ASSUME NEW d, RowsTyped(d), NEW x
  PROVE  LET e == RollbackResolution(d, x)
         IN /\ e.disp = d.disp
            /\ e.sub = [d.sub EXCEPT ![d.disp[x].sub].status = "REJECTED"]
            /\ e.work = d.work \ {r \in DisputeWork(d, x) : r.kind = "WORKER"}
BY DEF RollbackResolution, RowsTyped, TableNames

LEMMA NewRoundDecides ==
  ASSUME NEW d, RowsTyped(d), NEW x \in Disps
  PROVE  LET e == OpenNewRound(d, x)
         IN /\ e.sub = d.sub
            /\ \A y \in Disps \ {x} : e.disp[y] = d.disp[y]
            /\ e.disp[x].status = "OPEN"
            /\ e.disp[x].sub = d.disp[x].sub
            /\ e.disp[x].votes = {}
            /\ e.work = d.work \ {r \in DisputeWork(d, x) : r.kind = "VOTE"}
<1> DEFINE e == OpenNewRound(d, x)
           row == [d.disp[x] EXCEPT !.status = "OPEN", !.votes = {}, !.source = "NONE",
                                    !.payout = 0, !.snap = NoSnap]
<1>1. /\ e.sub = d.sub /\ e.disp = [d.disp EXCEPT ![x] = row]
      /\ e.work = d.work \ {r \in DisputeWork(d, x) : r.kind = "VOTE"}
  BY DEF OpenNewRound, RowsTyped, TableNames
<1> HIDE DEF e
<1>2. row.status = "OPEN" /\ row.sub = d.disp[x].sub /\ row.votes = {}
  BY DEF RowsTyped, DispFields
<1> HIDE DEF row
<1>3. e.disp[x] = row /\ \A y \in Disps \ {x} : e.disp[y] = d.disp[y]
  BY <1>1 DEF RowsTyped
<1> QED BY <1>1, <1>2, <1>3 DEF e

-----------------------------------------------------------------------------
(* The stage of a submission.                                              *)

LEMMA StageIs ==
  ASSUME NEW d, NEW s
  PROVE  /\ d.sub[s].status \in CompletedSub =>
              StageOf(d, s) = IF ResolvedDisputeOnSub(d, s) THEN "OVERTURNED" ELSE "CONFIRMED"
         /\ d.sub[s].status = "REJECTED" =>
              StageOf(d, s) = IF OpenDisputeOnSub(d, s) THEN "DISPUTED" ELSE "REJECTED"
         /\ d.sub[s].status \notin CompletedSub \cup {"REJECTED"} =>
              StageOf(d, s) = d.sub[s].status
<1>1. CASE d.sub[s].status \in CompletedSub
  <2>1. d.sub[s].status # "REJECTED"
    BY <1>1 DEF CompletedSub
  <2> QED BY <1>1, <2>1 DEF StageOf, ResolvedDisputeOnSub
<1>2. CASE d.sub[s].status = "REJECTED"
  <2>1. d.sub[s].status \notin CompletedSub
    BY <1>2 DEF CompletedSub
  <2> QED BY <1>2, <2>1 DEF StageOf, OpenDisputeOnSub
<1>3. CASE d.sub[s].status \notin CompletedSub \cup {"REJECTED"}
  BY <1>3 DEF StageOf
<1> QED BY <1>1, <1>2, <1>3

LEMMA StageTyped ==
  ASSUME NEW d, RowsTyped(d), NEW s \in Subs
  PROVE  StageOf(d, s) \in Review!Stages
<1>1. d.sub[s].status \in SubStatus
  BY DEF RowsTyped, SubRow
<1> QED BY <1>1, StageIs DEF SubStatus, CompletedSub, Review!Stages

\* The stage depends on the submission's status and on the disputes about it.
LEMMA StageSame ==
  ASSUME NEW d, NEW e, NEW s, e.sub[s].status = d.sub[s].status,
         \A x \in Disps : \/ /\ e.disp[x].status = d.disp[x].status
                             /\ e.disp[x].sub = d.disp[x].sub
                          \/ /\ e.disp[x].status = "NONE" \/ e.disp[x].sub # s
                             /\ d.disp[x].status = "NONE" \/ d.disp[x].sub # s
  PROVE  StageOf(e, s) = StageOf(d, s)
<1>1. ResolvedDisputeOnSub(e, s) <=> ResolvedDisputeOnSub(d, s)
  BY DEF ResolvedDisputeOnSub
<1>2. OpenDisputeOnSub(e, s) <=> OpenDisputeOnSub(d, s)
  BY DEF OpenDisputeOnSub
<1>3. CASE d.sub[s].status \in CompletedSub
  BY <1>1, <1>3, StageIs
<1>4. CASE d.sub[s].status = "REJECTED"
  BY <1>2, <1>4, StageIs
<1>5. CASE d.sub[s].status \notin CompletedSub \cup {"REJECTED"}
  BY <1>5, StageIs
<1> QED BY <1>3, <1>4, <1>5

LEMMA KeptStage ==
  ASSUME NEW d, NEW e, ReviewKept(d, e), NEW s \in Subs
  PROVE  StageOf(e, s) = StageOf(d, s)
<1>1. /\ e.sub[s].status = d.sub[s].status
      /\ \A x \in Disps : /\ e.disp[x].status = d.disp[x].status
                          /\ e.disp[x].sub = d.disp[x].sub
  BY DEF ReviewKept, DisputeKept
<1> QED BY <1>1, StageSame

\* What an open and what a resolved dispute makes of its submission, and that
\* nobody else disputes it.
LEMMA DisputedStage ==
  ASSUME NEW d, NEW X, Good(d, X), X \subseteq Disps, NEW x \in X
  PROVE  /\ d.disp[x].status = "OPEN" => StageOf(d, d.disp[x].sub) = "DISPUTED"
         /\ d.disp[x].status = "RESOLVED_COMPLETED" => StageOf(d, d.disp[x].sub) = "OVERTURNED"
<1>1. CASE d.disp[x].status = "OPEN"
  <2>1. d.sub[d.disp[x].sub].status = "REJECTED" /\ OpenDisputeOnSub(d, d.disp[x].sub)
    BY <1>1 DEF Good, DisputeBacked, OpenDisputeOnSub
  <2> QED BY <1>1, <2>1, StageIs
<1>2. CASE d.disp[x].status = "RESOLVED_COMPLETED"
  <2>1. /\ d.sub[d.disp[x].sub].status \in CompletedSub
        /\ ResolvedDisputeOnSub(d, d.disp[x].sub)
    BY <1>2 DEF Good, DisputeBacked, ResolvedDisputeOnSub, CompletedSub
  <2> QED BY <1>2, <2>1, StageIs
<1> QED BY <1>1, <1>2

LEMMA DisputedOnce ==
  ASSUME NEW d, NEW X, Good(d, X), NEW x \in Disps, NEW y \in Disps \ {x},
         d.disp[x].status # "NONE", d.disp[y].status # "NONE"
  PROVE  d.disp[x].sub # d.disp[y].sub
BY DEF Good, DisputeBacked, Existing, RowsTyped

LEMMA ConfirmStage ==
  ASSUME NEW d, Good(d, Disps), NEW s \in Subs,
         \/ d.sub[s].status = "SUBMITTED"
         \/ d.sub[s].status = "REJECTED" /\ ~OpenDisputeOnSub(d, s)
  PROVE  LET e == ConfirmInternal(d, s, NoDispute)
         IN /\ StageOf(d, s) = d.sub[s].status
            /\ StageOf(e, s) = "CONFIRMED"
            /\ \A o \in Subs \ {s} : StageOf(e, o) = StageOf(d, o)
<1> DEFINE e == ConfirmInternal(d, s, NoDispute)
<1>1. RowsTyped(d) /\ References(d) /\ d.sub[s].status # "NONE"
  BY DEF Good
<1>2. e.disp = d.disp /\ e.sub = [d.sub EXCEPT ![s].status = "CONFIRMED"]
  BY <1>1, ConfirmEffect
<1> HIDE DEF e
<1>3. StageOf(d, s) = d.sub[s].status
  BY StageIs DEF CompletedSub
<1>4. /\ e.sub[s].status = "CONFIRMED"
      /\ \A o \in Subs \ {s} : e.sub[o].status = d.sub[o].status
  BY <1>1, <1>2 DEF RowsTyped, SubRow
<1>5. ~ResolvedDisputeOnSub(e, s)
  BY <1>2 DEF ResolvedDisputeOnSub, Good, DisputeBacked
<1>6. StageOf(e, s) = "CONFIRMED"
  BY <1>4, <1>5, StageIs DEF CompletedSub
<1>7. ASSUME NEW o \in Subs \ {s} PROVE StageOf(e, o) = StageOf(d, o)
  <2>1. e.sub[o].status = d.sub[o].status
    BY <1>4
  <2>2. \A x \in Disps : /\ e.disp[x].status = d.disp[x].status
                         /\ e.disp[x].sub = d.disp[x].sub
    BY <1>2
  <2> QED BY ONLY <2>1, <2>2, StageSame
<1> QED BY <1>3, <1>6, <1>7 DEF e

LEMMA DecidedStage ==
  ASSUME NEW d, Good(d, Disps), NEW x \in Disps, d.disp[x].status = "OPEN",
         NEW e, Decided(d, e, x)
  PROVE  /\ StageOf(d, d.disp[x].sub) = "DISPUTED"
         /\ StageOf(e, d.disp[x].sub) = "OVERTURNED"
         /\ \A o \in Subs \ {d.disp[x].sub} : StageOf(e, o) = StageOf(d, o)
<1> DEFINE s == d.disp[x].sub
<1>1. StageOf(d, s) = "DISPUTED"
  BY DisputedStage
<1>2. /\ e.sub[s].status \in CompletedSub
      /\ e.disp[x].status = "RESOLVED_COMPLETED" /\ e.disp[x].sub = s
      /\ \A o \in Subs \ {s} : e.sub[o] = d.sub[o]
      /\ \A y \in Disps \ {x} : e.disp[y] = d.disp[y]
  BY DEF Decided
<1>3. StageOf(e, s) = "OVERTURNED"
  BY <1>2, StageIs DEF ResolvedDisputeOnSub
<1>4. ASSUME NEW o \in Subs \ {s} PROVE StageOf(e, o) = StageOf(d, o)
  <2>1. e.sub[o].status = d.sub[o].status
    BY <1>2
  <2>2. \A y \in Disps : \/ /\ e.disp[y].status = d.disp[y].status
                            /\ e.disp[y].sub = d.disp[y].sub
                         \/ /\ e.disp[y].status = "NONE" \/ e.disp[y].sub # o
                            /\ d.disp[y].status = "NONE" \/ d.disp[y].sub # o
    BY <1>2
  <2> QED BY ONLY <2>1, <2>2, StageSame
<1> QED BY <1>1, <1>3, <1>4

LEMMA NewRoundStage ==
  ASSUME NEW d, NEW x \in Disps, Good(d, Disps \ {x}), Reopenable(d, x)
  PROVE  LET e == OpenNewRound(d, x)
         IN /\ StageOf(e, d.disp[x].sub) = "DISPUTED"
            /\ \A o \in Subs \ {d.disp[x].sub} : StageOf(e, o) = StageOf(d, o)
<1> DEFINE e == OpenNewRound(d, x)
           s == d.disp[x].sub
<1>1. RowsTyped(d)
  BY DEF Good
<1>2. /\ e.sub = d.sub
      /\ \A y \in Disps \ {x} : e.disp[y] = d.disp[y]
      /\ e.disp[x].status = "OPEN"
      /\ e.disp[x].sub = s
  BY <1>1, NewRoundDecides
<1> HIDE DEF e
<1>3. e.sub[s].status = "REJECTED" /\ OpenDisputeOnSub(e, s)
  BY <1>2 DEF Reopenable, OpenDisputeOnSub
<1>4. StageOf(e, s) = "DISPUTED"
  BY <1>3, StageIs
<1>5. ASSUME NEW o \in Subs \ {s} PROVE StageOf(e, o) = StageOf(d, o)
  <2>1. e.sub[o].status = d.sub[o].status
    BY <1>2
  <2>2. \A y \in Disps : \/ /\ e.disp[y].status = d.disp[y].status
                            /\ e.disp[y].sub = d.disp[y].sub
                         \/ /\ e.disp[y].status = "NONE" \/ e.disp[y].sub # o
                            /\ d.disp[y].status = "NONE" \/ d.disp[y].sub # o
    BY <1>2
  <2> QED BY ONLY <2>1, <2>2, StageSame
<1> QED BY <1>4, <1>5 DEF e

-----------------------------------------------------------------------------
(* The invariant.                                                          *)

\* Closing and completing only ever take a submission from a to b.
Forward(a, b) == a = b \/ <<a, b>> \in {<<"SUBMITTED", "CONFIRMED">>, <<"DISPUTED", "OVERTURNED">>}

Advanced == \A s \in Subs : Forward(StageOf(db, s), StageOf(work, s))

\* The submission whose dispute is being reopened is the only one that moves, and
\* it is disputed again as soon as the new round is open.
Reverting ==
  /\ db.disp[tx.disp].status # "NONE"
  /\ \A x \in Disps : work.disp[x].sub = db.disp[x].sub
  /\ \A s \in Subs \ {db.disp[tx.disp].sub} : StageOf(work, s) = StageOf(db, s)
  /\ ~Ahead(tx, "newRound") => StageOf(work, db.disp[tx.disp].sub) = "DISPUTED"

\* Only completions and votes earn on account of a dispute.
DisputeRows(d) == \A r \in d.work : r.disp \in Disps => r.kind \in {"WORKER", "VOTE"}

\* A resolution that is not being taken back stands in the private tables.
Standing ==
  \A x \in Disps :
    /\ db.disp[x].status = "RESOLVED_COMPLETED"
    /\ ~(tx.kind = "REOPEN" /\ tx.disp = x)
    => /\ work.disp[x].status = "RESOLVED_COMPLETED"
       /\ work.disp[x].votes = db.disp[x].votes
       /\ work.disp[x].payout = db.disp[x].payout

\* Taking back goes in two steps: the completion's row first, then the votes.
Undoing ==
  IF Ahead(tx, "newRound")
  THEN \A r \in work.work : r.disp = tx.disp => r.kind # "WORKER"
  ELSE /\ work.disp[tx.disp].status = "OPEN"
       /\ work.disp[tx.disp].votes = {}
       /\ \A r \in work.work : r.disp # tx.disp

ReviewIInv ==
  /\ DisputeIInv
  /\ DisputeRows(db) /\ DisputeRows(work)
  /\ Standing
  /\ tx.kind # "REOPEN" => Advanced
  /\ tx.kind = "REOPEN" => Reverting
  /\ tx.kind = "REOPEN" /\ db.disp[tx.disp].status = "RESOLVED_COMPLETED" => Undoing

-----------------------------------------------------------------------------
(* The writes of one step.                                                 *)

Moves(d, e) ==
  \A s \in Subs : \/ StageOf(e, s) = StageOf(d, s)
                  \/ <<StageOf(d, s), StageOf(e, s)>> \in Review!Arrows

Stands(d, e) ==
  \A x \in Disps :
    d.disp[x].status = "RESOLVED_COMPLETED" =>
      /\ e.disp[x].status = "RESOLVED_COMPLETED"
      /\ e.disp[x].votes = d.disp[x].votes
      /\ e.disp[x].payout = d.disp[x].payout

Lawful(d, e) ==
  /\ Moves(d, e)
  /\ Stands(d, e)
  /\ DisputeRows(d) => DisputeRows(e)

LEMMA KeptLawful ==
  ASSUME NEW d, NEW e, ReviewKept(d, e)
  PROVE  Lawful(d, e)
<1>1. Moves(d, e)
  BY KeptStage DEF Moves
<1>2. Stands(d, e)
  BY DEF Stands, ReviewKept, DisputeKept
<1>3. DisputeRows(d) => DisputeRows(e)
  BY DEF DisputeRows, ReviewKept
<1> QED BY <1>1, <1>2, <1>3 DEF Lawful

LEMMA TaskWriteLawful ==
  ASSUME RowsTyped(db),
         \/ \E t \in Tasks, p \in Publishers, n \in SlotCounts, r \in Rewards, q \in RepeatOptions :
              Publish(t, p, n, r, q)
         \/ \E t \in Tasks, a \in Workers : AddIntention(t, a)
         \/ \E s \in Subs : ConfirmWithoutSlot(s)
         \/ \E t \in Tasks : Terminate(t)
  PROVE  Lawful(db, db')
<1>1. CASE \E t \in Tasks : Terminate(t)
  BY <1>1, TerminateKeeps, KeptLawful DEF Terminate, Write
<1>2. ASSUME NEW t \in Tasks, NEW p \in Publishers, NEW n \in SlotCounts, NEW r \in Rewards,
             NEW q \in RepeatOptions, Publish(t, p, n, r, q)
      PROVE  ReviewKept(db, db')
  <2>1. db'.sub = db.sub /\ db'.disp = db.disp /\ db'.work = db.work
    BY <1>2 DEF Publish, Write, RowsTyped, TableNames
  <2> QED BY <2>1, SameKept
<1>3. ASSUME NEW t \in Tasks, NEW a \in Workers, AddIntention(t, a)
      PROVE  ReviewKept(db, db')
  <2>1. db'.sub = db.sub /\ db'.disp = db.disp /\ db'.work = db.work
    BY <1>3 DEF AddIntention, Write, RowsTyped, TableNames
  <2> QED BY <2>1, SameKept
<1>4. ASSUME NEW s \in Subs, ConfirmWithoutSlot(s)
      PROVE  ReviewKept(db, db')
  <2>1. db'.sub = db.sub /\ db'.disp = db.disp /\ db'.work = db.work
    BY <1>4 DEF ConfirmWithoutSlot, Write, RowsTyped, TableNames
  <2> QED BY <2>1, SameKept
<1> QED BY <1>1, <1>2, <1>3, <1>4, KeptLawful

\* A submission that is not disputed moves along an arrow; the disputes and the
\* workload stay.
LEMMA SubWriteLawful ==
  ASSUME RowsTyped(db), NEW s \in Subs, NEW row, db'.sub = [db.sub EXCEPT ![s] = row],
         db'.disp = db.disp, db'.work = db.work,
         StageOf(db', s) = StageOf(db, s)
           \/ <<StageOf(db, s), StageOf(db', s)>> \in Review!Arrows
  PROVE  Lawful(db, db')
<1> DEFINE e == db'
<1>1. ASSUME NEW o \in Subs \ {s} PROVE StageOf(e, o) = StageOf(db, o)
  <2>1. e.sub[o].status = db.sub[o].status
    BY DEF RowsTyped
  <2>2. \A x \in Disps : /\ e.disp[x].status = db.disp[x].status
                         /\ e.disp[x].sub = db.disp[x].sub
    OBVIOUS
  <2> HIDE DEF e
  <2> QED BY ONLY <2>1, <2>2, StageSame
<1>2. Moves(db, e)
  BY <1>1 DEF Moves
<1>3. Stands(db, e) /\ (DisputeRows(db) => DisputeRows(e))
  BY DEF Stands, DisputeRows
<1> QED BY <1>2, <1>3 DEF Lawful

LEMMA SubmitLawful ==
  ASSUME Good(db, Disps), NEW s \in Subs, NEW t \in Tasks, NEW a \in Workers, Submit(s, t, a)
  PROVE  Lawful(db, db')
<1> DEFINE row == [status |-> "SUBMITTED", task |-> t, agent |-> a]
           e == db'
<1>1. RowsTyped(db) /\ db.sub[s].status = "NONE"
  BY DEF Good, Submit, NextId, Existing, RowsTyped
<1>2. e.sub = [db.sub EXCEPT ![s] = row] /\ e.disp = db.disp /\ e.work = db.work
  BY <1>1 DEF Submit, Write, RowsTyped, TableNames
<1>3. e.sub[s].status = "SUBMITTED"
  BY <1>1, <1>2 DEF RowsTyped
<1> HIDE DEF e, row
<1>4. StageOf(db, s) = "NONE" /\ StageOf(e, s) = "SUBMITTED"
  BY <1>1, <1>3, StageIs DEF CompletedSub
<1>5. <<StageOf(db, s), StageOf(db', s)>> \in Review!Arrows
  BY <1>4 DEF Review!Arrows, e
<1> QED BY <1>1, <1>2, <1>5, SubWriteLawful DEF e

LEMMA RejectLawful ==
  ASSUME Good(db, Disps), NEW s \in Subs, Reject(s)
  PROVE  Lawful(db, db')
<1> DEFINE row == [db.sub[s] EXCEPT !.status = "REJECTED"]
           e == db'
<1>1. RowsTyped(db) /\ db.sub[s].status = "SUBMITTED"
  BY DEF Good, Reject
<1>2. e.sub = [db.sub EXCEPT ![s] = row] /\ e.disp = db.disp /\ e.work = db.work
  BY <1>1 DEF Reject, Write, RowsTyped, TableNames
<1>3. e.sub[s].status = "REJECTED"
  BY <1>1, <1>2 DEF RowsTyped, SubRow
<1> HIDE DEF e, row
<1>4. StageOf(db, s) = "SUBMITTED"
  BY <1>1, StageIs DEF CompletedSub
<1>5. ~OpenDisputeOnSub(e, s)
  BY <1>1, <1>2 DEF OpenDisputeOnSub, Good, DisputeBacked
<1>6. StageOf(e, s) = "REJECTED"
  BY <1>3, <1>5, StageIs
<1>7. <<StageOf(db, s), StageOf(db', s)>> \in Review!Arrows
  BY <1>4, <1>6 DEF Review!Arrows, e
<1> QED BY <1>1, <1>2, <1>7, SubWriteLawful DEF e

LEMMA ConfirmLawful ==
  ASSUME Good(db, Disps), NEW s \in Subs, Confirm(s)
  PROVE  Lawful(db, db')
<1> DEFINE e == db'
<1>1. /\ RowsTyped(db)
      /\ db.sub[s].status \in {"SUBMITTED", "REJECTED"}
      /\ ~OpenDisputeOnSub(db, s)
      /\ e = ConfirmInternal(db, s, NoDispute)
  BY DEF Good, Confirm, Confirmable, Write
<1> HIDE DEF e
<1>2. /\ StageOf(db, s) = db.sub[s].status
      /\ StageOf(e, s) = "CONFIRMED"
      /\ \A o \in Subs \ {s} : StageOf(e, o) = StageOf(db, o)
  BY <1>1, ConfirmStage
<1>3. Moves(db, e)
  BY <1>1, <1>2 DEF Moves, Review!Arrows
<1>4. e.disp = db.disp /\ e.work = db.work \cup CompletionWork(db, s, NoDispute)
  BY <1>1, ConfirmWork
<1>5. Stands(db, e)
  BY <1>4 DEF Stands
<1>6. DisputeRows(db) => DisputeRows(e)
  <2>1. NoDispute \notin Disps
    BY IdsAssumption DEF NoDispute
  <2> QED BY <1>4, <2>1, CompletionRows DEF DisputeRows
<1> QED BY <1>3, <1>5, <1>6 DEF Lawful, e

LEMMA OpenDisputeLawful ==
  ASSUME Good(db, Disps), NEW x \in Disps, NEW s \in Subs, NEW a \in Agents,
         OpenDispute(x, s, a)
  PROVE  Lawful(db, db')
<1> DEFINE row == [db.disp[x] EXCEPT !.status = "OPEN", !.sub = s]
           e == db'
<1>1. /\ RowsTyped(db) /\ db.sub[s].status = "REJECTED"
      /\ ~OpenDisputeOnSub(db, s)
      /\ db.disp[x].status = "NONE"
  BY DEF Good, OpenDispute, NextId, Existing, RowsTyped
<1>2. e.sub = db.sub /\ e.disp = [db.disp EXCEPT ![x] = row] /\ e.work = db.work
  BY <1>1 DEF OpenDispute, Write, RowsTyped, TableNames, DispFields
<1>3. row.status = "OPEN" /\ row.sub = s
  BY <1>1 DEF RowsTyped, DispFields
<1> HIDE DEF e, row
<1>4. e.disp[x] = row /\ \A y \in Disps \ {x} : e.disp[y] = db.disp[y]
  BY <1>1, <1>2 DEF RowsTyped
<1>5. StageOf(db, s) = "REJECTED"
  BY <1>1, StageIs
<1>6. e.sub[s].status = "REJECTED" /\ OpenDisputeOnSub(e, s)
  BY <1>1, <1>2, <1>3, <1>4 DEF OpenDisputeOnSub
<1>7. StageOf(e, s) = "DISPUTED"
  BY <1>6, StageIs
<1>8. ASSUME NEW o \in Subs \ {s} PROVE StageOf(e, o) = StageOf(db, o)
  <2>1. e.sub[o].status = db.sub[o].status
    BY <1>2
  <2>2. \A y \in Disps : \/ /\ e.disp[y].status = db.disp[y].status
                            /\ e.disp[y].sub = db.disp[y].sub
                         \/ /\ e.disp[y].status = "NONE" \/ e.disp[y].sub # o
                            /\ db.disp[y].status = "NONE" \/ db.disp[y].sub # o
    BY <1>1, <1>3, <1>4
  <2> QED BY ONLY <2>1, <2>2, StageSame
<1>9. Moves(db, e)
  BY <1>5, <1>7, <1>8 DEF Moves, Review!Arrows
<1>10. Stands(db, e)
  BY <1>1, <1>4 DEF Stands
<1> QED BY <1>2, <1>9, <1>10 DEF Lawful, DisputeRows, e

LEMMA VoteLawful ==
  ASSUME Good(db, Disps), NEW x \in Disps, NEW a, NEW choice, NEW weight,
         Vote(x, a, choice, weight)
  PROVE  Lawful(db, db')
<1> DEFINE ballot == [agent |-> a, vote |-> choice, weight |-> weight, cycle |-> db.active]
           earned == [cycle |-> db.active, agent |-> a, kind |-> "VOTE",
                      disp |-> x, sub |-> NoSub]
           votes == db.disp[x].votes \cup {ballot}
           row == [db.disp[x] EXCEPT !.votes = votes]
           e == db'
<1>1. RowsTyped(db) /\ db.disp[x].status = "OPEN"
  BY DEF Good, Vote
<1>2. earned.kind = "VOTE"
  OBVIOUS
<1>3. db' = [db EXCEPT !.disp[x].votes = @ \cup {ballot}, !.work = @ \cup {earned}]
  BY DEF Vote, Write
<1> HIDE DEF ballot, earned
<1>4. e.sub = db.sub /\ e.disp = [db.disp EXCEPT ![x] = row] /\ e.work = db.work \cup {earned}
  BY <1>1, <1>3 DEF RowsTyped, TableNames, DispFields
<1>5. row.status = "OPEN" /\ row.sub = db.disp[x].sub
  BY <1>1 DEF RowsTyped, DispFields
<1> HIDE DEF e, row
<1>6. e.disp[x] = row /\ \A y \in Disps \ {x} : e.disp[y] = db.disp[y]
  BY <1>1, <1>4 DEF RowsTyped
<1>7. ASSUME NEW o \in Subs PROVE StageOf(e, o) = StageOf(db, o)
  <2>1. e.sub[o].status = db.sub[o].status
    BY <1>4
  <2>2. \A y \in Disps : /\ e.disp[y].status = db.disp[y].status
                         /\ e.disp[y].sub = db.disp[y].sub
    BY <1>1, <1>5, <1>6
  <2> QED BY ONLY <2>1, <2>2, StageSame
<1>8. Moves(db, e)
  BY <1>7 DEF Moves
<1>9. Stands(db, e)
  BY <1>1, <1>6 DEF Stands
<1>10. DisputeRows(db) => DisputeRows(e)
  BY <1>2, <1>4 DEF DisputeRows
<1> QED BY <1>8, <1>9, <1>10 DEF Lawful, e

LEMMA ApiWriteLawful ==
  ASSUME Good(db, Disps), ApiWrite
  PROVE  Lawful(db, db')
<1>1. RowsTyped(db)
  BY DEF Good
<1> QED BY <1>1, TaskWriteLawful, SubmitLawful, RejectLawful, ConfirmLawful,
           OpenDisputeLawful, VoteLawful DEF ApiWrite

-----------------------------------------------------------------------------
(* The steps of the running transaction.                                   *)

LEMMA QuietReview ==
  ASSUME ReviewIInv, Quiet, DisputeIInv', UNCHANGED db
  PROVE  ReviewIInv'
<1> DEFINE e == work'
           u == tx'
<1>1. /\ RowsTyped(work) /\ TxTyped(tx) /\ Ordered(tx.kind, tx.todo)
      /\ expired \subseteq Tasks
  BY DEF ReviewIInv, DisputeIInv, Ready, Good
<1>2. ReviewKept(work, e)
  BY <1>1, QuietKeeps
<1>3. /\ u.kind = tx.kind
      /\ tx.kind = "REOPEN" =>
           /\ u.disp = tx.disp
           /\ Ahead(u, "newRound") <=> Ahead(tx, "newRound")
  BY <1>1, QuietSchedule
<1> HIDE DEF e, u
<1>4. \A s \in Subs : StageOf(e, s) = StageOf(work, s)
  BY <1>2, KeptStage
<1>5. /\ e.work = work.work
      /\ \A x \in Disps : DisputeKept(e.disp[x], work.disp[x])
  BY <1>2 DEF ReviewKept
<1>6. DisputeRows(e)
  BY <1>5 DEF ReviewIInv, DisputeRows
<1>7. Standing'
  BY <1>3, <1>5 DEF ReviewIInv, Standing, DisputeKept, e, u
<1>8. tx.kind # "REOPEN" => Advanced'
  BY <1>4 DEF ReviewIInv, Advanced, e
<1>9. ASSUME tx.kind = "REOPEN" PROVE tx.disp \in Disps
  BY <1>9 DEF ReviewIInv, DisputeIInv, Ready, Prepared
<1>10. ASSUME tx.kind = "REOPEN" PROVE Reverting'
  <2>1. Reverting
    BY <1>10 DEF ReviewIInv
  <2>2. db.disp[tx.disp].sub \in Subs
    BY <1>9, <1>10, <2>1, DisputeRefs DEF ReviewIInv, DisputeIInv, Good, Reverting
  <2> QED BY <1>3, <1>4, <1>5, <1>10, <2>1, <2>2 DEF Reverting, DisputeKept, e, u
<1>11. ASSUME tx.kind = "REOPEN", db.disp[tx.disp].status = "RESOLVED_COMPLETED"
       PROVE  Undoing'
  <2>1. Undoing
    BY <1>11 DEF ReviewIInv
  <2> QED BY <1>3, <1>5, <1>9, <1>11, <2>1 DEF Undoing, DisputeKept, e, u
<1>12. DisputeRows(db)' /\ DisputeRows(work)'
  BY <1>6 DEF ReviewIInv, e
<1>13. tx'.kind = tx.kind /\ (tx.kind = "REOPEN" => tx'.disp = tx.disp)
  BY <1>3 DEF u
<1> QED BY <1>7, <1>8, <1>10, <1>11, <1>12, <1>13 DEF ReviewIInv

\* A step of closing or completing, which moves forward and opens nothing.
LEMMA ForwardReview ==
  ASSUME ReviewIInv, DisputeIInv', UNCHANGED db, tx.kind # "REOPEN", tx'.kind = tx.kind,
         \A s \in Subs : Forward(StageOf(work, s), StageOf(work', s)),
         Stands(work, work'), DisputeRows(work')
  PROVE  ReviewIInv'
<1> DEFINE e == work'
<1>1. \A s \in Subs : Forward(StageOf(db, s), StageOf(work, s))
  BY DEF ReviewIInv, Advanced
<1>2. ASSUME NEW s \in Subs PROVE Forward(StageOf(db, s), StageOf(e, s))
  BY <1>1 DEF Forward
<1>3. Advanced'
  BY <1>2 DEF Advanced
<1>4. Standing'
  BY DEF ReviewIInv, Standing, Stands
<1> QED BY <1>3, <1>4 DEF ReviewIInv

LEMMA AutoConfirmReview ==
  ASSUME ReviewIInv, AutoConfirmStale, DisputeIInv', UNCHANGED db
  PROVE  ReviewIInv'
<1> DEFINE s == First(tx.subs)
           t == work.sub[s].task
<1>1. /\ TxTyped(tx) /\ Ordered(tx.kind, tx.todo) /\ Prepared(work, tx)
      /\ Good(work, Disps \ Reopening(tx))
  BY DEF ReviewIInv, DisputeIInv, Ready
<1>2. At(tx, "stale") /\ tx.subs # {} /\ work' = AutoConfirmed(work, s)
      /\ tx' = [tx EXCEPT !.subs = @ \ {s}]
  BY DEF AutoConfirmStale, InPhase, At, Step
<1>3. 1 \in 1..Len(tx.todo) /\ tx.todo[1] = "stale"
  BY <1>1, <1>2, HeadIsFirst
<1>4. tx.kind # "REOPEN" /\ tx'.kind = tx.kind
  BY <1>1, <1>2, <1>3 DEF Ordered, TxTyped, TxFields
<1>5. Good(work, Disps) /\ RowsTyped(work)
  BY <1>1, <1>4 DEF Reopening, Good
<1>6. s \in Subs /\ work.sub[s].status = "SUBMITTED"
  <2>1. tx.subs \in SUBSET Nat /\ tx.subs \subseteq Subs
    BY <1>1, IdsAssumption DEF TxTyped
  <2>2. s \in tx.subs
    BY <1>2, <2>1, FirstIn
  <2> QED BY <1>1, <1>2, <2>1, <2>2 DEF Prepared
<1> HIDE DEF s
<1>7. CASE work' = ConfirmInternal(work, s, NoDispute)
  <2> DEFINE e == ConfirmInternal(work, s, NoDispute)
  <2>1. /\ StageOf(work, s) = "SUBMITTED"
        /\ StageOf(e, s) = "CONFIRMED"
        /\ \A o \in Subs \ {s} : StageOf(e, o) = StageOf(work, o)
    BY <1>5, <1>6, ConfirmStage
  <2>2. e.disp = work.disp
    BY <1>5, ConfirmWork
  <2>3. e.work = work.work \cup CompletionWork(work, s, NoDispute)
    BY <1>5, ConfirmWork
  <2> HIDE DEF e
  <2>4. \A o \in Subs : Forward(StageOf(work, o), StageOf(e, o))
    BY <2>1 DEF Forward
  <2>5. Stands(work, e)
    BY <2>2 DEF Stands
  <2>6. DisputeRows(e)
    <3>1. NoDispute \notin Disps
      BY IdsAssumption DEF NoDispute
    <3> QED BY <2>3, <3>1, CompletionRows DEF ReviewIInv, DisputeRows
  <2>7. work' = e
    BY <1>7 DEF e
  <2> QED BY <1>4, <2>4, <2>5, <2>6, <2>7, ForwardReview
<1>8. CASE work' \in {work, [work EXCEPT !.task[t].status = "CLOSED"]}
  <2>1. work'.sub = work.sub /\ work'.disp = work.disp /\ work'.work = work.work
    BY <1>5, <1>8 DEF RowsTyped, TableNames
  <2>2. ReviewKept(work, work')
    BY <2>1, SameKept
  <2>3. \A o \in Subs : Forward(StageOf(work, o), StageOf(work', o))
    BY <2>2, KeptStage DEF Forward
  <2>4. Stands(work, work') /\ DisputeRows(work')
    BY <2>2, KeptLawful DEF Lawful, ReviewIInv
  <2> QED BY <1>4, <2>3, <2>4, ForwardReview
<1> QED BY <1>2, <1>7, <1>8 DEF AutoConfirmed

LEMMA FinalizeReview ==
  ASSUME ReviewIInv, Finalize, DisputeIInv', UNCHANGED db
  PROVE  ReviewIInv'
<1> DEFINE x == tx.disp
           e == FinalizeCompleted(work, x)
<1>1. /\ TxTyped(tx) /\ Ordered(tx.kind, tx.todo) /\ Prepared(work, tx)
      /\ Good(work, Disps \ Reopening(tx))
  BY DEF ReviewIInv, DisputeIInv, Ready
<1>2. At(tx, "finalize") /\ work' = e
  BY DEF Finalize, InPhase, At, Step
<1>3. \E ps : tx' = Then(ps)
  BY DEF Finalize, Step
<1>4. 1 \in 1..Len(tx.todo) /\ tx.todo[1] = "finalize"
  BY <1>1, <1>2, HeadIsFirst
<1>5. tx.kind # "REOPEN" /\ tx'.kind = tx.kind
  BY <1>1, <1>3, <1>4, ThenKind DEF Ordered
<1>6. Good(work, Disps) /\ x \in Disps /\ work.disp[x].status = "OPEN"
  BY <1>1, <1>2, <1>5 DEF Reopening, Prepared
<1>7. Decided(work, e, x)
  BY <1>6, FinalizeDecides
<1> HIDE DEF e
<1>8. /\ StageOf(work, work.disp[x].sub) = "DISPUTED"
      /\ StageOf(e, work.disp[x].sub) = "OVERTURNED"
      /\ \A o \in Subs \ {work.disp[x].sub} : StageOf(e, o) = StageOf(work, o)
  BY <1>6, <1>7, DecidedStage
<1>9. \A o \in Subs : Forward(StageOf(work, o), StageOf(e, o))
  BY <1>8 DEF Forward
<1>10. Stands(work, e)
  BY <1>6, <1>7 DEF Stands, Decided
<1>11. DisputeRows(e)
  <2>1. e.work = work.work \cup CompletionWork(work, work.disp[x].sub, x)
    BY <1>7 DEF Decided
  <2>2. x # NoDispute
    BY <1>6, IdsAssumption DEF NoDispute
  <2> QED BY <2>1, <2>2, CompletionRows DEF ReviewIInv, DisputeRows
<1> QED BY <1>2, <1>5, <1>9, <1>10, <1>11, ForwardReview

LEMMA NewRoundReview ==
  ASSUME ReviewIInv, StartNewRound, DisputeIInv', UNCHANGED db
  PROVE  ReviewIInv'
<1> DEFINE x == tx.disp
           e == OpenNewRound(work, x)
           u == tx'
<1>1. /\ TxTyped(tx) /\ Ordered(tx.kind, tx.todo) /\ Prepared(work, tx)
      /\ Good(work, Disps \ Reopening(tx))
  BY DEF ReviewIInv, DisputeIInv, Ready
<1>2. At(tx, "newRound") /\ work' = e /\ tx' = Then(<<>>)
  BY DEF StartNewRound, InPhase, At, Step
<1>3. /\ tx.todo \in Seq(Phases) /\ tx.todo # <<>>
      /\ 1 \in 1..Len(tx.todo) /\ tx.todo[1] = "newRound"
  BY <1>1, <1>2, HeadIsFirst
<1>4. tx.kind = "REOPEN"
  BY <1>1, <1>3 DEF Ordered
<1>5. Ahead(tx, "newRound") /\ Reopening(tx) = {x}
  BY <1>3, <1>4 DEF Reopening, Ahead
<1>6. x \in Disps /\ Reopenable(work, x) /\ Good(work, Disps \ {x}) /\ RowsTyped(work)
  BY <1>1, <1>4, <1>5 DEF Prepared, Good
<1>7. /\ StageOf(e, work.disp[x].sub) = "DISPUTED"
      /\ \A o \in Subs \ {work.disp[x].sub} : StageOf(e, o) = StageOf(work, o)
  BY <1>6, NewRoundStage
<1>8. /\ e.sub = work.sub
      /\ \A y \in Disps \ {x} : e.disp[y] = work.disp[y]
      /\ e.disp[x].status = "OPEN"
      /\ e.disp[x].sub = work.disp[x].sub
      /\ e.disp[x].votes = {}
      /\ e.work = work.work \ {r \in DisputeWork(work, x) : r.kind = "VOTE"}
  BY <1>6, NewRoundDecides
<1>9. u.kind = tx.kind /\ u.disp = x /\ u.todo = Tail(tx.todo)
  BY <1>1, <1>2, <1>3, ThenFields
<1> HIDE DEF e, u
<1>10. ~Ahead(u, "newRound")
  <2>1. /\ \A j \in 1..Len(Tail(tx.todo)) : Tail(tx.todo)[j] = tx.todo[j + 1]
        /\ Len(tx.todo) = Len(Tail(tx.todo)) + 1 /\ Len(Tail(tx.todo)) \in Nat
    BY <1>3
  <2>2. ASSUME NEW j \in 1..Len(Tail(tx.todo)), Tail(tx.todo)[j] = "newRound"
        PROVE  FALSE
    <3>1. j + 1 \in 1..Len(tx.todo) /\ tx.todo[j + 1] = "newRound" /\ 1 \in 1..((j + 1) - 1)
      BY <2>1, <2>2
    <3> QED BY <1>1, <1>3, <3>1 DEF Ordered
  <2> QED BY <1>9, <2>2 DEF Ahead
<1>11. Reverting
  BY <1>4 DEF ReviewIInv
<1>12. \A y \in Disps : e.disp[y].sub = work.disp[y].sub
  BY <1>8
<1>13. Reverting'
  <2>1. work.disp[x].sub = db.disp[x].sub
    BY <1>6, <1>11 DEF Reverting
  <2>2. \A o \in Subs \ {db.disp[x].sub} : StageOf(e, o) = StageOf(db, o)
    BY <1>7, <1>11, <2>1 DEF Reverting
  <2> QED BY <1>2, <1>7, <1>9, <1>11, <1>12, <2>1, <2>2 DEF Reverting, u
<1>14. DisputeRows(e)
  BY <1>8 DEF ReviewIInv, DisputeRows
<1>15. Standing'
  <2>1. \A y \in Disps \ {x} : e.disp[y] = work.disp[y]
    BY <1>8
  <2> QED BY <1>2, <1>4, <1>9, <2>1 DEF ReviewIInv, Standing, u
<1>16. ASSUME db.disp[x].status = "RESOLVED_COMPLETED" PROVE Undoing'
  <2>1. \A r \in work.work : r.disp = x => r.kind # "WORKER"
    BY <1>4, <1>5, <1>16 DEF ReviewIInv, Undoing
  <2>2. \A r \in e.work : r.disp # x
    BY <1>6, <1>8, <2>1 DEF ReviewIInv, DisputeRows, DisputeWork
  <2> QED BY <1>2, <1>8, <1>9, <1>10, <2>2 DEF Undoing, u
<1>17. DisputeRows(db)' /\ DisputeRows(work)'
  BY <1>2, <1>14 DEF ReviewIInv
<1>18. tx'.kind = "REOPEN" /\ tx'.disp = x
  BY <1>4, <1>9 DEF u
<1> QED BY <1>13, <1>15, <1>16, <1>17, <1>18 DEF ReviewIInv

LEMMA TxStepReview ==
  ASSUME ReviewIInv, TxStep, DisputeIInv'
  PROVE  ReviewIInv'
<1>1. UNCHANGED db
  BY DEF TxStep, AutoConfirmStale, SweepBanned, Evaluate, ExpireClean, Settle, Finalize,
         BanNegatives, RestoreForced, RestorePublisherBan, StartNewRound, Reconcile,
         LoopEnds, Step
<1>2. AutoConfirmStale \/ Finalize \/ StartNewRound \/ Quiet
  BY DEF TxStep, Quiet
<1> QED BY <1>1, <1>2, AutoConfirmReview, FinalizeReview, NewRoundReview, QuietReview

-----------------------------------------------------------------------------
(* The beginning and the end of a transaction.                             *)

\* Outside a transaction, and where one begins to close or to complete, the
\* private tables are the committed ones.
LEMMA EqualReview ==
  ASSUME DisputeIInv', work' = db', tx'.kind # "REOPEN", DisputeRows(db')
  PROVE  ReviewIInv'
<1>1. Advanced'
  BY DEF Advanced, Forward
<1>2. Standing'
  BY DEF Standing
<1> QED BY <1>1, <1>2 DEF ReviewIInv

LEMMA BeginReview ==
  ASSUME ReviewIInv, DisputeIInv',
         BeginClose \/ \E x \in Disps : BeginOverrideCompleted(x)
  PROVE  ReviewIInv'
<1>1. ~Running /\ UNCHANGED <<db, work>> /\ tx'.kind \in {"CLOSE", "OVERRIDE_COMPLETED"}
  BY DEF BeginClose, BeginOverrideCompleted, Idle
<1>2. work = db
  BY <1>1 DEF ReviewIInv, DisputeIInv
<1>3. DisputeRows(db')
  BY <1>1 DEF ReviewIInv
<1> QED BY <1>1, <1>2, <1>3, EqualReview

LEMMA BeginReopenReview ==
  ASSUME ReviewIInv, DisputeIInv', NEW x \in Disps, BeginReopen(x)
  PROVE  ReviewIInv'
<1> DEFINE resolved == db.disp[x].status = "RESOLVED_COMPLETED"
           archived == ArchiveRound(db, x)
           e == work'
           u == tx'
           s == db.disp[x].sub
<1>1. /\ db.disp[x].status # "NONE" /\ UNCHANGED db
      /\ e = IF resolved THEN RollbackResolution(archived, x) ELSE archived
      /\ u.kind = "REOPEN" /\ u.disp = x
      /\ u.todo = IF resolved THEN <<"unforce", "restoreBan", "newRound", "reconcile">>
                              ELSE <<"newRound", "reconcile">>
  BY DEF BeginReopen, Idle
<1> HIDE DEF u
<1>2. Ahead(u, "newRound")
  BY <1>1, ReopenOrdered DEF Ahead
<1>3. Good(db, Disps) /\ RowsTyped(db) /\ References(db) /\ DisputeRows(db)
  BY DEF ReviewIInv, DisputeIInv, Good
<1>4. Good(archived, Disps) /\ RowsTyped(archived)
  BY <1>3, ArchiveGood DEF Good
<1>5. ReviewKept(db, archived)
  BY <1>3, ArchiveKeeps
<1> HIDE DEF archived, e
<1>6. /\ archived.work = db.work /\ archived.sub = db.sub
      /\ \A y \in Disps : DisputeKept(archived.disp[y], db.disp[y])
  BY <1>5 DEF ReviewKept
<1>7. s \in Subs
  BY <1>1, <1>3, DisputeRefs
<1>8. /\ \A y \in Disps : DisputeKept(e.disp[y], db.disp[y])
      /\ \A o \in Subs \ {s} : e.sub[o].status = db.sub[o].status
      /\ e.work \subseteq db.work
      /\ resolved => \A r \in e.work : r.disp = x => r.kind # "WORKER"
  <2>1. CASE resolved
    <3> DEFINE rolled == RollbackResolution(archived, x)
    <3>1. /\ rolled.disp = archived.disp
          /\ rolled.sub = [archived.sub EXCEPT ![archived.disp[x].sub].status = "REJECTED"]
          /\ rolled.work = archived.work \ {r \in DisputeWork(archived, x) : r.kind = "WORKER"}
      BY <1>4, RollbackDecides
    <3>2. e = rolled
      BY <1>1, <2>1
    <3> HIDE DEF rolled
    <3>3. archived.disp[x].sub = s
      BY <1>6 DEF DisputeKept
    <3>4. \A o \in Subs \ {s} : e.sub[o].status = db.sub[o].status
      BY <1>3, <1>6, <3>1, <3>2, <3>3 DEF RowsTyped
    <3>5. e.work \subseteq db.work
      BY <1>6, <3>1, <3>2
    <3>6. \A r \in e.work : r.disp = x => r.kind # "WORKER"
      BY <3>1, <3>2 DEF DisputeWork
    <3> QED BY <1>6, <3>1, <3>2, <3>4, <3>5, <3>6
  <2>2. CASE ~resolved
    <3>1. e = archived
      BY <1>1, <2>2
    <3> QED BY <1>6, <2>2, <3>1
  <2> QED BY <2>1, <2>2
<1>9. ASSUME NEW o \in Subs \ {s} PROVE StageOf(e, o) = StageOf(db, o)
  <2>1. e.sub[o].status = db.sub[o].status
    BY <1>8
  <2>2. \A y \in Disps : /\ e.disp[y].status = db.disp[y].status
                         /\ e.disp[y].sub = db.disp[y].sub
    BY <1>8 DEF DisputeKept
  <2> QED BY ONLY <2>1, <2>2, StageSame
<1>10. Reverting'
  <2>1. \A y \in Disps : e.disp[y].sub = db.disp[y].sub
    BY <1>8 DEF DisputeKept
  <2> QED BY <1>1, <1>2, <1>9, <2>1 DEF Reverting, e, u
<1>11. Standing'
  BY <1>1, <1>8 DEF Standing, DisputeKept, e, u
<1>12. resolved => Undoing'
  BY <1>1, <1>2, <1>8 DEF Undoing, e, u
<1>13. DisputeRows(e)
  BY <1>3, <1>8 DEF DisputeRows
<1>14. DisputeRows(db)' /\ DisputeRows(work)'
  BY <1>1, <1>3, <1>13 DEF e
<1>15. tx'.kind = "REOPEN" /\ tx'.disp = x
  BY <1>1 DEF u
<1> QED BY <1>1, <1>10, <1>11, <1>12, <1>14, <1>15 DEF ReviewIInv

\* A write of the API happens outside a transaction and is committed at once.
LEMMA WriteAlone == ApiWrite => ~Running /\ work' = db' /\ UNCHANGED tx
<1> DEFINE Goal == ~Running /\ work' = db' /\ UNCHANGED tx
<1>0. ASSUME NEW d, Write(d) PROVE Goal
  BY <1>0 DEF Write
<1> HIDE DEF Goal
<1>1. ASSUME NEW t \in Tasks, NEW p \in Publishers, NEW n \in SlotCounts, NEW r \in Rewards,
             NEW q \in RepeatOptions, Publish(t, p, n, r, q)
      PROVE  Goal
  BY <1>0, <1>1 DEF Publish
<1>2. ASSUME NEW t \in Tasks, NEW a \in Workers,
             AddIntention(t, a) \/ \E s \in Subs : Submit(s, t, a)
      PROVE  Goal
  BY <1>0, <1>2 DEF AddIntention, Submit
<1>3. ASSUME NEW s \in Subs, Reject(s) \/ Confirm(s) \/ ConfirmWithoutSlot(s)
      PROVE  Goal
  BY <1>0, <1>3 DEF Reject, Confirm, ConfirmWithoutSlot
<1>4. ASSUME NEW t \in Tasks, Terminate(t)
      PROVE  Goal
  BY <1>0, <1>4 DEF Terminate
<1>5. ASSUME NEW x \in Disps, NEW s \in Subs, NEW a \in Agents, OpenDispute(x, s, a)
      PROVE  Goal
  BY <1>0, <1>5 DEF OpenDispute
<1>6. ASSUME NEW x \in Disps, NEW a \in Supervisors, NEW c, NEW w, Vote(x, a, c, w)
      PROVE  Goal
  BY <1>0, <1>6 DEF Vote
<1>7. ApiWrite => Goal
  BY <1>1, <1>2, <1>3, <1>4, <1>5, <1>6 DEF ApiWrite
<1> QED BY <1>7 DEF Goal

LEMMA WriteReview ==
  ASSUME ReviewIInv, DisputeIInv', ApiWrite
  PROVE  ReviewIInv'
<1>1. ~Running /\ work' = db' /\ UNCHANGED tx
  BY WriteAlone
<1>2. DisputeRows(db')
  BY ApiWriteLawful DEF ReviewIInv, DisputeIInv, Lawful
<1>3. tx'.kind # "REOPEN"
  BY <1>1 DEF Running
<1> QED BY <1>1, <1>2, <1>3, EqualReview

LEMMA EndReview ==
  ASSUME ReviewIInv, DisputeIInv', Commit \/ Abort \/ Crash
  PROVE  ReviewIInv'
<1>1. work' = db' /\ tx' = Idle /\ db' \in {db, work}
  BY DEF Commit, Abort, Crash, RolledBack
<1>2. DisputeRows(db')
  BY <1>1 DEF ReviewIInv
<1>3. tx'.kind # "REOPEN"
  BY <1>1 DEF Idle
<1> QED BY <1>1, <1>2, <1>3, EqualReview

LEMMA InitReview == Init => ReviewIInv
<1> SUFFICES ASSUME Init PROVE ReviewIInv
  OBVIOUS
<1>1. DisputeIInv
  BY InitIInv
<1>2. work = db /\ tx.kind # "REOPEN" /\ db.work = {}
  BY DEF Init, Idle, EmptyTables
<1>3. DisputeRows(db) /\ DisputeRows(work)
  BY <1>2 DEF DisputeRows
<1>4. Advanced /\ Standing
  BY <1>2 DEF Advanced, Standing, Forward
<1> QED BY <1>1, <1>2, <1>3, <1>4 DEF ReviewIInv

LEMMA NextReview == ReviewIInv /\ [Next]_vars => ReviewIInv'
<1> SUFFICES ASSUME ReviewIInv, [Next]_vars PROVE ReviewIInv'
  OBVIOUS
<1>1. DisputeIInv'
  BY NextIInv DEF ReviewIInv
<1>2. CASE Tick \/ UNCHANGED vars
  <2>1. UNCHANGED <<db, work, tx>>
    BY <1>2 DEF Tick, SubmissionAges, DeadlinePasses, vars
  <2> QED BY <1>1, <2>1 DEF ReviewIInv, DisputeRows, Standing, Advanced, Reverting, Undoing
<1>3. CASE Override
  BY <1>1, <1>3, BeginReview, BeginReopenReview DEF Override
<1> QED BY <1>1, <1>2, <1>3, WriteReview, BeginReview, TxStepReview, EndReview DEF Next

-----------------------------------------------------------------------------
(* What a commit changes.                                                  *)

LEMMA CommitMoves ==
  ASSUME ReviewIInv, Commit
  PROVE  Moves(db, db')
<1>1. tx.todo = <<>> /\ db' = work
  BY DEF Commit
<1>2. ~Ahead(tx, "newRound")
  BY <1>1 DEF Ahead
<1>3. CASE tx.kind # "REOPEN"
  BY <1>1, <1>3 DEF ReviewIInv, Advanced, Forward, Moves, Review!Arrows
<1>4. CASE tx.kind = "REOPEN"
  <2> DEFINE x == tx.disp
             s == db.disp[x].sub
  <2>1. x \in Disps /\ Reverting /\ Good(db, Disps)
    BY <1>4 DEF ReviewIInv, DisputeIInv, Ready, Prepared
  <2>2. db.disp[x].status \in {"OPEN", "RESOLVED_COMPLETED"}
    BY <2>1 DEF Reverting, Good, RowsTyped, DispStatus
  <2>3. StageOf(db, s) \in {"DISPUTED", "OVERTURNED"}
    BY <2>1, <2>2, DisputedStage
  <2>4. StageOf(db', s) = "DISPUTED" /\ \A o \in Subs \ {s} : StageOf(db', o) = StageOf(db, o)
    BY <1>1, <1>2, <2>1 DEF Reverting
  <2> QED BY <2>3, <2>4 DEF Moves, Review!Arrows
<1> QED BY <1>3, <1>4

LEMMA CommitStands ==
  ASSUME ReviewIInv, Commit
  PROVE  ResolutionStands
<1>1. tx.todo = <<>> /\ db' = work
  BY DEF Commit
<1>2. ~Ahead(tx, "newRound")
  BY <1>1 DEF Ahead
<1> QED BY <1>1, <1>2 DEF ReviewIInv, Standing, Undoing, ResolutionStands

LEMMA StepMoves ==
  ASSUME ReviewIInv, [Next]_vars
  PROVE  Moves(db, db') /\ ResolutionStands
<1>1. CASE Commit
  BY <1>1, CommitMoves, CommitStands
<1>2. CASE ApiWrite
  <2>1. Lawful(db, db')
    BY <1>2, ApiWriteLawful DEF ReviewIInv, DisputeIInv
  <2> QED BY <2>1 DEF Lawful, Stands, ResolutionStands
<1>3. CASE UNCHANGED db
  BY <1>3 DEF Moves, ResolutionStands
<1>4. Commit \/ ApiWrite \/ UNCHANGED db
  BY DEF Next, Override, TxStep, Tick, vars, BeginOverrideCompleted, BeginReopen, BeginClose,
         AutoConfirmStale, SweepBanned, Evaluate, ExpireClean, Settle, Finalize,
         BanNegatives, RestoreForced, RestorePublisherBan, StartNewRound, Reconcile,
         LoopEnds, Step, Abort, Crash, RolledBack, SubmissionAges, DeadlinePasses
<1> QED BY <1>1, <1>2, <1>3, <1>4

\* Whatever interleaving of writes, closings, overrides, failures and crashes:
\* every dispute that is open can still be settled, every resolved one has completed
\* its submission, and its votes and payout are changed by nothing but its
\* reopening, which leaves no vote and no earned workload of the round behind.
THEOREM DisputesAlwaysStand == Spec => DisputesStand
<1>1. ReviewIInv /\ [Next]_vars => [ResolutionStands]_vars
  BY StepMoves
<1>2. Spec => [][ResolutionStands]_vars
  BY <1>1, InitReview, NextReview, PTL DEF Spec
<1> QED BY <1>2, DisputesBacked, PTL DEF DisputesStand

LEMMA InitLifecycle == Init => Review!Init
<1> SUFFICES ASSUME Init, NEW s \in Subs PROVE StageOf(db, s) = "NONE"
  BY DEF Review!Init
<1>1. db.sub[s].status = "NONE"
  BY DEF Init, EmptyTables
<1> QED BY <1>1, StageIs DEF CompletedSub

LEMMA StepLifecycle ==
  ReviewIInv /\ ReviewIInv' /\ [Next]_vars => [Review!Next]_[s \in Subs |-> StageOf(db, s)]
<1> SUFFICES ASSUME ReviewIInv, ReviewIInv', [Next]_vars
             PROVE  Review!Next
  OBVIOUS
<1>1. Moves(db, db')
  BY StepMoves
<1>2. RowsTyped(db')
  BY DEF ReviewIInv, DisputeIInv, Good
<1>3. \A s \in Subs : StageOf(db', s) \in Review!Stages
  BY <1>2, StageTyped
<1> QED BY <1>1, <1>3 DEF Review!Next, Moves

\* The committed submissions and disputes implement the review lifecycle: between
\* two commits, whatever a transaction did in the meantime, a submission keeps its
\* stage or moves along one arrow; a disputed one is decided by its dispute only.
THEOREM ReviewRefines == Spec => ReviewImplemented
<1>1. Spec => []ReviewIInv
  BY InitReview, NextReview, PTL DEF Spec
<1> QED BY <1>1, InitLifecycle, StepLifecycle, PTL DEF Spec, ReviewImplemented, Review!Spec

=============================================================================
