------------------------------- MODULE Standing -------------------------------
(***************************************************************************)
(* What the writes of the marketplace do to the profiles of its agents and *)
(* to the activity history (ActivityEvent rows), in persistence mode.      *)
(*                                                                         *)
(* Settlement follows the money; here it is left out, and whether an       *)
(* escrow or a wallet can pay is a free choice.  One publisher and one     *)
(* worker who submits once per task.  A submission never has more than one *)
(* dispute, as a new one needs a rejected submission without an open one   *)
(* and a resolved one leaves a completed submission; it has the name of    *)
(* the task.  Every write is one transaction behind the lock of the        *)
(* RuntimeState row.  Reputations are counted in half points.              *)
(***************************************************************************)
EXTENDS Integers, Sequences, FiniteSets, Bags, BagsExt, SequencesExt

CONSTANTS
    Tasks, Supervisors,
    RepStart, RepMax,     \* 50 and 100 points in the code
    MaxClock,             \* bound on the time
    MaxReopens            \* bound on override NOT_COMPLETED

VARIABLES
    task, intended, sub,  \* a task, whether the worker wants it, its submission
    disp,                 \* the dispute about it
    ban,                  \* the dispute the publisher is banned for, or None
    profile, history,     \* AgentProfile and ActivityEvent
    clock, reopens

vars == <<task, intended, sub, disp, ban, profile, history, clock, reopens>>

None == 0
Actors == {"publisher", "worker"}
Rated == Actors \cup Supervisors
Votes == {"COMPLETED", "NOT_COMPLETED"}
Done == {"CONFIRMED", "DISPUTE_COMPLETED"}
Types == {"TASK_PUBLISHED", "TASK_INTENDED", "TASK_SUBMITTED", "SUBMISSION_REJECTED",
          "TASK_COMPLETED", "TASK_TERMINATED", "DISPUTE_OPENED"}
Rows == [type : Types, task : Tasks, disp : Tasks \cup {None}, actor : Actors, at : 1..MaxClock]

NoSnap == [exists |-> FALSE, status |-> "NONE", wasBanned |-> FALSE, source |-> None,
           forced |-> <<>>]
NoDispute == [status |-> "NONE", votes |-> [s \in Supervisors |-> "NONE"],
              payout |-> "NONE", snap |-> NoSnap]

Init ==
  /\ task = [t \in Tasks |-> "NONE"]
  /\ intended = {}
  /\ sub = [t \in Tasks |-> "NONE"]
  /\ disp = [t \in Tasks |-> NoDispute]
  /\ ban = None
  /\ profile = [rep |-> [a \in Rated |-> RepStart], cut |-> {}, unnoted |-> FALSE,
                completed |-> 0, terminated |-> 0, rejected |-> 0,
                votes |-> [s \in Supervisors |-> 0]]
  /\ history = [rows |-> EmptyBag, latest |-> [a \in Actors |-> 0]]
  /\ clock = 1
  /\ reopens = 0

Tick == /\ clock < MaxClock
        /\ clock' = clock + 1
        /\ UNCHANGED <<task, intended, sub, disp, ban, profile, history, reopens>>

-----------------------------------------------------------------------------
(* Profiles.  `cut' remembers whose reputation ever met a bound, `unnoted' *)
(* that a sweep terminated a task for a dispute that had been taken up     *)
(* again: its resolution is gone, and with it the place for the note.      *)

Bounded(n) == CASE n < 0 -> 0 [] n > RepMax -> RepMax [] OTHER -> n

\* A reputation changes by d half points.
Shift(p, a, d) ==
  LET n == p.rep[a] + d IN
  [p EXCEPT !.rep[a] = Bounded(n), !.cut = IF n \in 0..RepMax THEN @ ELSE @ \cup {a}]

\* Each of the supervisors S by its own d[s].
ShiftVoters(p, S, d) ==
  [p EXCEPT !.rep = [a \in Rated |-> IF a \in S THEN Bounded(@[a] + d[a]) ELSE @[a]],
            !.cut = @ \cup {a \in S : p.rep[a] + d[a] \notin 0..RepMax}]

-----------------------------------------------------------------------------
(* History: the rows, and in the profile of each actor the time of its     *)
(* latest one.                                                             *)

Latest(rows, a) ==
  LET times == {r.at : r \in {q \in BagToSet(rows) : q.actor = a}}
  IN IF times = {} THEN 0 ELSE CHOOSE n \in times : \A m \in times : m <= n

Row(type, t, x, actor, at) ==
  [type |-> type, task |-> t, disp |-> x, actor |-> actor, at |-> at]

Recorded(h, row) ==
  [rows |-> BagAdd(h.rows, row),
   latest |-> [h.latest EXCEPT ![row.actor] = IF @ < row.at THEN row.at ELSE @]]

\* The rows of a set go, and their actors' latest time is looked up again.
Deleted(h, R) ==
  LET rest == [r \in DOMAIN h.rows \ R |-> h.rows[r]]
      actors == {r.actor : r \in R \cap DOMAIN h.rows}
  IN [rows |-> rest,
      latest |-> [a \in Actors |-> IF a \in actors THEN Latest(rest, a) ELSE h.latest[a]]]

-----------------------------------------------------------------------------
(* The writes of agents.  A request that takes its time before it waits    *)
(* for the lock may write a row that is older than the last one.           *)

Publish(t) ==
  /\ ban = None
  /\ task[t] = "NONE"
  /\ \A u \in Tasks : u < t => task[u] # "NONE"
  /\ task' = [task EXCEPT ![t] = "ACTIVE"]
  /\ profile' = Shift(profile, "publisher", 2)
  /\ history' = Recorded(history, Row("TASK_PUBLISHED", t, None, "publisher", clock))
  /\ UNCHANGED <<intended, sub, disp, ban, clock, reopens>>

AddIntention(t, at) ==
  /\ ban = None
  /\ task[t] = "ACTIVE"
  /\ t \notin intended
  /\ intended' = intended \cup {t}
  /\ history' = Recorded(history, Row("TASK_INTENDED", t, None, "worker", at))
  /\ UNCHANGED <<task, sub, disp, ban, profile, clock, reopens>>

Submit(t, at) ==
  /\ ban = None
  /\ task[t] = "ACTIVE"
  /\ t \in intended
  /\ sub[t] = "NONE"
  /\ sub' = [sub EXCEPT ![t] = "SUBMITTED"]
  /\ history' = Recorded(history, Row("TASK_SUBMITTED", t, None, "worker", at))
  /\ UNCHANGED <<task, intended, disp, ban, profile, clock, reopens>>

Reject(t) ==
  /\ ban = None
  /\ sub[t] = "SUBMITTED"
  /\ sub' = [sub EXCEPT ![t] = "REJECTED"]
  /\ profile' = [Shift(profile, "worker", -2) EXCEPT !.rejected = @ + 1]
  /\ history' = Recorded(history, Row("SUBMISSION_REJECTED", t, None, "publisher", clock))
  /\ UNCHANGED <<task, intended, disp, ban, clock, reopens>>

OpenDispute(t, opener) ==
  /\ opener = "publisher" => ban = None
  /\ sub[t] = "REJECTED"
  /\ task[t] # "TERMINATED"
  /\ disp[t].status = "NONE"
  /\ disp' = [disp EXCEPT ![t].status = "OPEN"]
  /\ history' = Recorded(history, Row("DISPUTE_OPENED", t, t, opener, clock))
  /\ UNCHANGED <<task, intended, sub, ban, profile, clock, reopens>>

\* A vote is no activity.
Vote(t, s, choice) ==
  /\ disp[t].status = "OPEN"
  /\ disp[t].votes[s] = "NONE"
  /\ disp' = [disp EXCEPT ![t].votes[s] = choice]
  /\ profile' = [Shift(profile, s, 1) EXCEPT !.votes[s] = @ + 1]
  /\ UNCHANGED <<task, intended, sub, ban, history, clock, reopens>>

-----------------------------------------------------------------------------
(* Completion, by the publisher, by closing or by a dispute x.             *)

Credited(p, x) ==
  LET q == [Shift(p, "worker", 4) EXCEPT !.completed = @ + 1]
  IN IF x = None THEN Shift(q, "publisher", 2) ELSE q

\* settleConfirmedSubmissionWithTx, whoever asked for it: the publisher acts.
CompletedRow(t, x) == Row("TASK_COMPLETED", t, x, "publisher", clock)

Confirmed(t) ==
  /\ task[t] = "ACTIVE"
  /\ sub' = [sub EXCEPT ![t] = "CONFIRMED"]
  /\ task' \in {task, [task EXCEPT ![t] = "CLOSED"]}
  /\ profile' = Credited(profile, None)
  /\ history' = Recorded(history, CompletedRow(t, None))
  /\ UNCHANGED <<intended, disp, ban, clock, reopens>>

Confirm(t) ==
  /\ ban = None
  /\ sub[t] \in {"SUBMITTED", "REJECTED"}
  /\ disp[t].status # "OPEN"
  /\ Confirmed(t)

\* The request fails but leaves the task closed, also when it was terminated.
ConfirmWithoutSlot(t) ==
  /\ ban = None
  /\ sub[t] \in {"SUBMITTED", "REJECTED"}
  /\ disp[t].status # "OPEN"
  /\ task' = [task EXCEPT ![t] = "CLOSED"]
  /\ UNCHANGED <<intended, sub, disp, ban, profile, history, clock, reopens>>

\* Closing confirms what was submitted long ago; the ban does not matter.
AutoConfirm(t) == sub[t] = "SUBMITTED" /\ Confirmed(t)

-----------------------------------------------------------------------------
(* Termination, by the publisher, at the deadline or because of the ban.   *)

TerminatedRow(t, x) == Row("TASK_TERMINATED", t, x, "publisher", clock)

Blamed(p, n) == [Shift(p, "publisher", -2 * n) EXCEPT !.terminated = @ + n]

TerminatedAlone(t) ==
  /\ task[t] = "ACTIVE"
  /\ task' = [task EXCEPT ![t] = "TERMINATED"]
  /\ profile' = Blamed(profile, 1)
  /\ history' = Recorded(history, TerminatedRow(t, None))
  /\ UNCHANGED <<intended, sub, disp, ban, clock, reopens>>

Terminate(t) == ban = None /\ disp[t].status # "OPEN" /\ TerminatedAlone(t)

Clean(ds, t) == sub[t] # "SUBMITTED" /\ ds[t].status # "OPEN"

\* Closing; the deadline of any task may have passed.
ExpireClean(t) == Clean(disp, t) /\ TerminatedAlone(t)

\* sweepBannedPublisherCleanTasksWithTx on the rows of task, disp, profile and
\* history in d: what is terminated is noted with the dispute behind the ban, if
\* that still has the snapshot of its resolution.
Swept(d, x) ==
  LET S == {t \in Tasks : d.task[t] = "ACTIVE" /\ Clean(d.disp, t)}
      order == SetToSeq(S)
      notes == [i \in DOMAIN order |-> [task |-> order[i], status |-> "ACTIVE"]]
  IN [task |-> [t \in Tasks |-> IF t \in S THEN "TERMINATED" ELSE d.task[t]],
      disp |-> IF d.disp[x].snap.exists THEN [d.disp EXCEPT ![x].snap.forced = @ \o notes]
                                        ELSE d.disp,
      profile |-> [Blamed(d.profile, Cardinality(S)) EXCEPT
                     !.unnoted = @ \/ (S # {} /\ ~d.disp[x].snap.exists)],
      history |-> FoldLeft(LAMBDA h, t : Recorded(h, TerminatedRow(t, x)), d.history, order)]

Store(d) ==
  /\ task' = d.task
  /\ disp' = d.disp
  /\ profile' = d.profile
  /\ history' = d.history

\* The sweep of closing.
SweepBanned ==
  /\ ban # None
  /\ \E t \in Tasks : task[t] = "ACTIVE" /\ Clean(disp, t)
  /\ Store(Swept([task |-> task, disp |-> disp, profile |-> profile, history |-> history], ban))
  /\ UNCHANGED <<intended, sub, ban, clock, reopens>>

-----------------------------------------------------------------------------
(* Resolution as completed, by closing or by the admin.                    *)

Voters(t) == {s \in Supervisors : disp[t].votes[s] # "NONE"}

\* Who voted with the outcome gains a point, who voted against it loses one.
Judged(p, t) ==
  ShiftVoters(p, Voters(t),
    [s \in Supervisors |-> IF disp[t].votes[s] = "COMPLETED" THEN 2 ELSE -2])

\* The reward comes from the escrow, from the wallet, or not all of it can be
\* paid; then the publisher is banned, and what it has that is clean terminated.
Resolve(t, payout) ==
  LET before == [exists |-> TRUE, status |-> task[t], wasBanned |-> ban # None,
                 source |-> ban, forced |-> <<>>]
      ds == [disp EXCEPT ![t] = [@ EXCEPT !.status = "RESOLVED", !.payout = payout,
                                          !.snap = before]]
      x == IF payout = "PARTIAL" /\ ban = None THEN t ELSE ban
      d == [disp |-> ds, profile |-> Judged(Credited(profile, t), t),
            history |-> Recorded(history, CompletedRow(t, t)),
            task |-> IF payout = "ESCROW" THEN task ELSE [task EXCEPT ![t] = "CLOSED"]]
  IN /\ disp[t].status = "OPEN"
     /\ sub[t] \notin Done
     /\ payout = "ESCROW" => task[t] = "ACTIVE"
     /\ sub' = [sub EXCEPT ![t] = IF payout = "ESCROW" THEN "CONFIRMED" ELSE "DISPUTE_COMPLETED"]
     /\ ban' = x
     /\ \/ payout = "PARTIAL" /\ Store(Swept(d, x))
        \/ payout # "PARTIAL" /\ Store(d)
        \/ payout = "ESCROW" /\ Store([d EXCEPT !.task[t] = "CLOSED"])
     /\ UNCHANGED <<intended, clock, reopens>>

-----------------------------------------------------------------------------
(* Override NOT_COMPLETED: the round is taken back and a new one begins.   *)

\* Fault: the profile of the worker keeps the completion.
UncreditedHalf(p, notes) ==
  [Shift(Shift(p, "worker", -4), "publisher", 2 * Len(notes))
     EXCEPT !.terminated = @ - Len(notes)]

\* What the settlement and the forced terminations did to the profiles.
Uncredited(p, notes) ==
  [Shift(Shift(p, "worker", -4), "publisher", 2 * Len(notes))
     EXCEPT !.completed = @ - 1, !.terminated = @ - Len(notes)]

\* clearDisputeVotesWithTx.
ClearedVotes(p, t, resolved) ==
  [ShiftVoters(p, Voters(t),
     [s \in Supervisors |->
        CASE ~resolved -> -1
          [] resolved /\ disp[t].votes[s] = "COMPLETED" -> -3
          [] OTHER -> 1])
     EXCEPT !.votes = [s \in Supervisors |-> IF s \in Voters(t) THEN @[s] - 1 ELSE @[s]]]

\* The rows of the settlement and of the noted terminations.
Undone(t, notes) ==
  {r \in BagToSet(history.rows) :
     \/ r.type = "TASK_COMPLETED" /\ r.disp = t
     \/ r.type = "TASK_TERMINATED" /\ r.disp = t /\ \E i \in DOMAIN notes : notes[i].task = r.task}

\* The resolved disputes that the publisher could not pay;
\* restorePublisherBanStateWithTx takes any one but t.
Insolvent == {t \in Tasks : disp[t].status = "RESOLVED" /\ disp[t].payout = "PARTIAL"}
Alternates(t) == Insolvent \ {t}

\* Fault: the ban is lifted though another dispute justifies it.
RestoredBanAlone(t, alt) ==
  LET snap == disp[t].snap
  IN CASE ban # None /\ snap.wasBanned -> IF snap.source # None THEN snap.source ELSE alt
       [] ~snap.wasBanned /\ ban # t -> ban
       [] OTHER -> None

\* A snapshot that was taken under a ban gives the ban its source back, but bans
\* nobody again.
RestoredBan(t, alt) ==
  LET snap == disp[t].snap
  IN CASE ban # None /\ snap.wasBanned -> IF snap.source # None THEN snap.source ELSE alt
       [] ~snap.wasBanned /\ alt # None -> alt
       [] ~snap.wasBanned /\ alt = None /\ ban # t -> ban
       [] OTHER -> None

ReopenUnresolved(t) ==
  /\ reopens < MaxReopens
  /\ disp[t].status = "OPEN"
  /\ profile' = ClearedVotes(profile, t, FALSE)
  /\ disp' = [disp EXCEPT ![t] = [NoDispute EXCEPT !.status = "OPEN"]]
  /\ reopens' = reopens + 1
  /\ UNCHANGED <<task, intended, sub, ban, history, clock>>

\* The status the task had before the resolution comes back, whatever became of
\* the task since.
ReopenResolved(t, alt) ==
  LET snap == disp[t].snap
      notes == snap.forced
      own == [task EXCEPT ![t] = snap.status]
      d == [disp |-> [disp EXCEPT ![t] = [NoDispute EXCEPT !.status = "OPEN"]],
            profile |-> ClearedVotes(Uncredited(profile, notes), t, TRUE),
            history |-> Deleted(history, Undone(t, notes)),
            task |-> FoldLeft(LAMBDA ts, n : [ts EXCEPT ![n.task] = n.status], own, notes)]
      x == RestoredBan(t, alt)
  IN /\ reopens < MaxReopens
     /\ disp[t].status = "RESOLVED"
     /\ alt \in (IF Alternates(t) = {} THEN {None} ELSE Alternates(t))
     /\ sub' = [sub EXCEPT ![t] = "REJECTED"]
     /\ ban' = x
     /\ Store(IF x # None THEN Swept(d, x) ELSE d)
     /\ reopens' = reopens + 1
     /\ UNCHANGED <<intended, clock>>

-----------------------------------------------------------------------------
Next ==
  \/ Tick
  \/ \E t \in Tasks : Publish(t) \/ Reject(t) \/ Confirm(t) \/ ConfirmWithoutSlot(t)
  \/ \E t \in Tasks, at \in 1..clock : AddIntention(t, at) \/ Submit(t, at)
  \/ \E t \in Tasks : AutoConfirm(t) \/ Terminate(t) \/ ExpireClean(t)
  \/ SweepBanned
  \/ \E t \in Tasks, a \in Actors : OpenDispute(t, a)
  \/ \E t \in Tasks, s \in Supervisors, c \in Votes : Vote(t, s, c)
  \/ \E t \in Tasks : ReopenUnresolved(t)
  \/ \E t \in Tasks, w \in {"ESCROW", "WALLET", "PARTIAL"} : Resolve(t, w)
  \/ \E t \in Tasks, alt \in Tasks \cup {None} : ReopenResolved(t, alt)

Spec == Init /\ [][Next]_vars

-----------------------------------------------------------------------------
(* Properties.                                                             *)

\* How many rows have the type and were written for a dispute of X.
CountOf(type, X) ==
  LET R == {r \in BagToSet(history.rows) : r.type = type /\ r.disp \in X}
  IN BagCardinality([r \in R |-> history.rows[r]])
Count(type) == CountOf(type, Tasks \cup {None})

\* Rows and profiles have their types, and every reputation is between its bounds.
TypeOK ==
  /\ task \in [Tasks -> {"NONE", "ACTIVE", "CLOSED", "TERMINATED"}]
  /\ intended \subseteq Tasks
  /\ sub \in [Tasks -> {"NONE", "SUBMITTED", "REJECTED"} \cup Done]
  /\ \A t \in Tasks : /\ disp[t].status \in {"NONE", "OPEN", "RESOLVED"}
                      /\ disp[t].votes \in [Supervisors -> Votes \cup {"NONE"}]
                      /\ disp[t].payout \in {"NONE", "ESCROW", "WALLET", "PARTIAL"}
  /\ ban \in Tasks \cup {None}
  /\ profile.rep \in [Rated -> 0..RepMax]
  /\ profile.cut \subseteq Rated /\ profile.unnoted \in BOOLEAN
  /\ IsABag(history.rows) /\ BagToSet(history.rows) \subseteq Rows
  /\ history.latest \in [Actors -> 0..MaxClock]
  /\ clock \in 1..MaxClock /\ reopens \in 0..MaxReopens

\* The counters of the profiles and the rows of the tables tell the same story,
\* whatever was completed, terminated, voted, taken back and done again.  The
\* exception is a termination that was not noted: taking back a later one for the
\* same dispute deletes the rows of both and uncounts one.
CountersAgree ==
  /\ profile.completed = Count("TASK_COMPLETED")
  /\ profile.unnoted \/ profile.terminated = Count("TASK_TERMINATED")
  /\ profile.rejected = Count("SUBMISSION_REJECTED")
  /\ \A s \in Supervisors :
       profile.votes[s] = Cardinality({t \in Tasks : disp[t].votes[s] # "NONE"})

\* The latest activity in a profile is the time of the agent's newest row, though
\* rows may be written out of order and are deleted again.
LatestIsNewest == \A a \in Actors : history.latest[a] = Latest(history.rows, a)

\* What the vote on t has earned the supervisor s.
VoteEarned(t, s) ==
  CASE disp[t].votes[s] = "NONE" -> 0
    [] disp[t].votes[s] # "NONE" /\ disp[t].status = "OPEN" -> 1
    [] disp[t].votes[s] = "COMPLETED" /\ disp[t].status = "RESOLVED" -> 3
    [] OTHER -> -1

Earned(a) ==
  CASE a = "publisher" ->
         2 * (Count("TASK_PUBLISHED") - Count("TASK_TERMINATED") + CountOf("TASK_COMPLETED", {None}))
    [] a = "worker" -> 4 * Count("TASK_COMPLETED") - 2 * Count("SUBMISSION_REJECTED")
    [] OTHER -> FoldFunction(LAMBDA m, n : m + n, 0, [t \in Tasks |-> VoteEarned(t, a)])

\* As long as it never met a bound, a reputation is what the present tables
\* justify: a round that is taken back leaves no trace in it.
ReputationEarned ==
  profile.unnoted \/ \A a \in Rated \ profile.cut : profile.rep[a] = RepStart + Earned(a)

\* rules, "reactivates the publisher if no remaining valid insolvency ban source
\* exists": a ban is lifted only when no dispute remains that could not be paid,
\* and it rests on one that remains; nobody is banned by what is taken back.  The
\* one thing that leaves a ban without such a dispute behind is to take back a
\* dispute that was resolved under the ban of another one and remembers it, when
\* that has been taken back before.
BanStands ==
  /\ ban' = None => Insolvent' = {}
  /\ ban = None /\ ban' # None => disp[ban'].status = "OPEN" /\ ban' \in Insolvent'
  /\ ban' \notin Insolvent' \cup {None} =>
       \/ ban' = ban /\ ban \notin Insolvent
       \/ \E t \in Tasks : /\ disp[t].status = "RESOLVED" /\ disp'[t].status = "OPEN"
                           /\ disp[t].snap.wasBanned /\ disp[t].snap.source = ban'
=============================================================================
