------------------------------ MODULE Snapshots ------------------------------
(***************************************************************************)
(* The engine's snapshots and how they are brought into the database: the  *)
(* repository's load, runLocked, sync and syncFromSnapshots, and mutate in *)
(* app.ts, which applies an operation to a copy of the process's engine    *)
(* and writes the difference under a revision check.  Calls of one process *)
(* share its engine; direct writes of the same process and transactions of *)
(* other processes change the database in between.                         *)
(*                                                                         *)
(* One task, its publisher's ledger and one dispute stand for the tables.  *)
(* Balances, disputes and activities are plain tables; what the code       *)
(* spreads over two places is kept apart: a dispute row holds the          *)
(* resolution's metadata, a profile row the ban's source and the time of   *)
(* the latest activity, the task row the count of its intentions.          *)
(***************************************************************************)
EXTENDS Integers, FiniteSets, FiniteSetsExt

CONSTANTS
    Members,     \* agents that may register
    Calls,       \* calls of mutate that may be under way in the process
    MaxCommits,  \* bound on committed transactions
    MaxBalance   \* bound on a balance

VARIABLES
    stored,     \* the rows, with the runtime row's time stamp
    process,    \* its engine: inMemoryEngine, runtimeRevision, inMemoryEngineDirty
    call,       \* for each call of mutate: how far it is
    direct,     \* a direct write has committed, its process has not noted it
    instant,    \* the present millisecond
    overwritten \* an update has been overwritten

snapshotVars == <<stored, process, call, direct, instant, overwritten>>

NoRevision == 0
Attempts == 3

\* The maxima of the times of an agent's activities, 0 when there is none.
Newest(activities, a) ==
  LET times == {x.time : x \in {y \in activities : y.actor = a}} IN
  IF times = {} THEN 0 ELSE Max(times)

\* What toSnapshot returns of an engine in which one agent has registered.
FirstSnapshot ==
  [profile |-> [a \in {1} |-> "ACTIVE"], source |-> {}, balance |-> [a \in {1} |-> 1],
   count |-> 0, intentions |-> {}, dispute |-> "none", meta |-> "none", activities |-> {}]

\* restoreFromSnapshot: the count of intentions is computed anew.
Restored(s) == [s EXCEPT !.count = Cardinality(s.intentions)]

\* loadWithTx: profile rows give the profiles and the sources of bans, dispute
\* rows the disputes and, where a column of the resolution is set, its metadata.
Loaded(rows) ==
  [profile |-> [a \in DOMAIN rows.profile |-> rows.profile[a].status],
   source |-> {a \in DOMAIN rows.profile : rows.profile[a].source # "none"},
   balance |-> rows.balance, count |-> rows.count, intentions |-> rows.intentions,
   dispute |-> rows.dispute.status, meta |-> rows.dispute.meta, activities |-> rows.activities]

-----------------------------------------------------------------------------
\* The difference of two snapshots, written to the tables.

\* diffByKey for a table keyed by agents: what to write and what to delete.
Differing(before, after) ==
  {a \in DOMAIN after : a \notin DOMAIN before \/ before[a] # after[a]}
Gone(before, after) == DOMAIN before \ DOMAIN after

\* The rows of a table after the upserts and deletes of its difference.
Upserted(rows, before, after) ==
  [a \in (DOMAIN rows \cup Differing(before, after)) \ Gone(before, after) |->
     IF a \in Differing(before, after) THEN after[a] ELSE rows[a]]

\* Fault: rows that are gone from the snapshot stay in the table.
ExchangedKept(rows, before, after) == rows \cup (after \ before)

\* Tables whose rows do not change are sets.
Exchanged(rows, before, after) == (rows \cup (after \ before)) \ (before \ after)

SourceOf(s, a) == IF a \in s.source THEN "dispute" ELSE "none"

\* The agents whose latest activity is written because their rows changed,
\* deleted ones included.
Touched(before, after) ==
  {x.actor : x \in (before.activities \ after.activities) \cup (after.activities \ before.activities)}

\* The profile rows: changed profiles are written as a whole, with the source of
\* the ban and the latest activity of the new snapshot; a source that alone
\* changed and the latest activity of the actors touched are written by updates.
ProfileRows(rows, before, after, scope) ==
  LET inScope == "profiles" \in scope
      written == IF inScope THEN Differing(before.profile, after.profile) ELSE {}
      deleted == IF inScope THEN Gone(before.profile, after.profile) ELSE {}
      banned  == IF inScope THEN (before.source \ after.source) \cup (after.source \ before.source)
                 ELSE {}
      touched == IF "activities" \in scope THEN Touched(before, after) ELSE {}
  IN [a \in (DOMAIN rows \cup written) \ deleted |->
        [status |-> IF a \in written THEN after.profile[a] ELSE rows[a].status,
         source |-> IF a \in written \cup banned THEN SourceOf(after, a) ELSE rows[a].source,
         latest |-> IF a \in written \cup touched THEN Newest(after.activities, a)
                    ELSE rows[a].latest]]

\* Fault: a resolution whose dispute row did not change is not written.
DisputeRowOnly(row, before, after) ==
  IF before.dispute # after.dispute
  THEN [status |-> after.dispute, meta |-> after.meta] ELSE row

\* The dispute row, with its metadata; metadata that alone changed by an update.
DisputeRow(row, before, after) ==
  IF before.dispute # after.dispute
  THEN [status |-> after.dispute, meta |-> after.meta]
  ELSE IF before.meta # after.meta THEN [row EXCEPT !.meta = after.meta] ELSE row

\* applySnapshotDiffWithTx.  An upsert of the task writes its count too; a
\* profile that is deleted takes its activities along.
Applied(rows, before, after, scope) ==
  LET deleted == IF "profiles" \in scope THEN Gone(before.profile, after.profile) ELSE {}
      activities == IF "activities" \in scope
                    THEN Exchanged(rows.activities, before.activities, after.activities)
                    ELSE rows.activities
  IN [rows EXCEPT
        !.profile = ProfileRows(@, before, after, scope),
        !.balance = IF "balances" \in scope THEN Upserted(@, before.balance, after.balance) ELSE @,
        !.count = IF "tasks" \in scope /\ before.count # after.count THEN after.count ELSE @,
        !.intentions = IF "intentions" \in scope
                       THEN Exchanged(@, before.intentions, after.intentions) ELSE @,
        !.dispute = IF "disputes" \in scope THEN DisputeRow(@, before, after) ELSE @,
        !.activities = {x \in activities : x.actor \notin deleted}]

AllTables == {"profiles", "balances", "tasks", "intentions", "disputes", "activities"}

\* An update of a single row fails when a stale difference meets a row that is
\* no longer there; the transaction is undone.
RowsMissing(rows, before, after, scope) ==
  LET profiles == DOMAIN Applied(rows, before, after, scope).profile
      banned   == (before.source \ after.source) \cup (after.source \ before.source)
  IN \/ "activities" \in scope /\ ~(Touched(before, after) \subseteq profiles)
     \/ "profiles" \in scope /\ ~(banned \subseteq profiles)
     \/ /\ "disputes" \in scope
        /\ before.dispute = after.dispute /\ before.meta # after.meta /\ rows.dispute.status = "none"

-----------------------------------------------------------------------------
\* What the operations of the engine do to a snapshot.

Operations ==
  [kind : {"pay"}, agent : Members] \cup [kind : {"register"}, agent : Members \ {1}]
    \cup [kind : {"intend", "resolve", "reopen", "note"}, agent : {1}]

Allowed(o, s) ==
  CASE o.kind = "register" -> o.agent \notin DOMAIN s.profile
    [] o.kind = "pay"      -> o.agent \in DOMAIN s.profile /\ s.balance[o.agent] < MaxBalance
    [] o.kind = "intend"   -> o.agent \in DOMAIN s.profile \ s.intentions
    [] o.kind = "resolve"  -> o.agent \in DOMAIN s.profile /\ s.dispute # "RESOLVED"
    [] o.kind = "reopen"   -> o.agent \in DOMAIN s.profile /\ s.dispute = "RESOLVED"
    [] o.kind = "note"     -> s.dispute = "RESOLVED" /\ s.meta = "paid"

\* A table with the row x of agent a.
With(table, a, x) == [b \in DOMAIN table \cup {a} |-> IF b = a THEN x ELSE table[b]]

\* A resolution bans the publisher and records activities of everybody involved;
\* a reopening takes both back; a forced termination is noted in the metadata alone.
Done(o, s, time) ==
  CASE o.kind = "register" ->
         [s EXCEPT !.profile = With(@, o.agent, "ACTIVE"), !.balance = With(@, o.agent, 1)]
    [] o.kind = "pay" -> [s EXCEPT !.balance[o.agent] = @ + 1]
    [] o.kind = "intend" ->
         [s EXCEPT !.intentions = @ \cup {o.agent}, !.count = @ + 1]
    [] o.kind = "resolve" ->
         [s EXCEPT !.profile[o.agent] = "BANNED", !.source = @ \cup {o.agent},
                   !.dispute = "RESOLVED", !.meta = "paid",
                   !.activities = @ \cup {[actor |-> a, time |-> time] : a \in DOMAIN s.profile}]
    [] o.kind = "reopen" ->
         [s EXCEPT !.profile = [a \in DOMAIN @ |-> IF a \in s.source THEN "ACTIVE" ELSE @[a]],
                   !.source = {}, !.dispute = "OPEN", !.meta = "none",
                   !.activities = {}]
    [] o.kind = "note" -> [s EXCEPT !.meta = "noted"]

\* The tables an operation changes, the narrowest scope a caller may give.
ScopeOf(o) ==
  CASE o.kind = "register" -> {"profiles", "balances"}
    [] o.kind = "pay" -> {"balances"}
    [] o.kind = "intend" -> {"tasks", "intentions"}
    [] o.kind \in {"resolve", "reopen"} -> {"profiles", "disputes", "activities"}
    [] o.kind = "note" -> {"disputes"}

-----------------------------------------------------------------------------

Idle == [at |-> "idle"]

\* Rows for a snapshot, as start-up inserts them.
Inserted(s) ==
  [profile |-> [a \in DOMAIN s.profile |->
      [status |-> s.profile[a], source |-> SourceOf(s, a), latest |-> Newest(s.activities, a)]],
   balance |-> s.balance, count |-> s.count, intentions |-> s.intentions,
   dispute |-> [status |-> s.dispute, meta |-> s.meta], activities |-> s.activities,
   revision |-> 1, commits |-> 0]

Init ==
  /\ stored = Inserted(FirstSnapshot)
  /\ process = [state |-> FirstSnapshot, revision |-> 1, dirty |-> FALSE, of |-> 0, revisionOf |-> 0]
  /\ call = [c \in Calls |-> Idle]
  /\ direct = FALSE
  /\ instant = 1
  /\ overwritten = FALSE

\* A transaction commits: the runtime row is touched, its time stamp is the
\* present instant, which another commit may share.
Commits(rows) ==
  /\ stored.commits < MaxCommits
  /\ instant' \in {instant, instant + 1}
  /\ stored' = [rows EXCEPT !.revision = instant', !.commits = @ + 1]

\* A direct write of this process: its own statements on the rows as they are.
\* The process notes it when the answer arrives: no revision is known then.
Direct ==
  /\ ~direct
  /\ \E o \in Operations :
       /\ Allowed(o, Loaded(stored))
       /\ Commits(Applied(stored, Loaded(stored), Done(o, Loaded(stored), instant'), AllTables))
  /\ direct' = TRUE
  /\ UNCHANGED <<process, call, overwritten>>

DirectNoted ==
  /\ direct
  /\ direct' = FALSE
  /\ process' = [process EXCEPT !.dirty = TRUE, !.revision = NoRevision]
  /\ UNCHANGED <<stored, call, instant, overwritten>>

\* runLocked in another process: the runtime row is locked before the snapshot
\* is loaded, and until its difference is written.
RunLocked ==
  /\ \E o \in Operations :
       LET before == Loaded(stored) IN
       /\ Allowed(o, before)
       /\ Commits(Applied(stored, before, Done(o, Restored(before), instant'), AllTables))
  /\ UNCHANGED <<process, call, direct, overwritten>>

\* sync: the database is made equal to a given snapshot, here to the first one.
Replace ==
  /\ Loaded(stored) # FirstSnapshot
  /\ Commits(Applied(stored, Loaded(stored), FirstSnapshot, AllTables))
  /\ UNCHANGED <<process, call, direct, overwritten>>

\* mutate begins; after a direct write it loads the database first.
Begin(c) ==
  /\ call[c] = Idle
  /\ call' = [call EXCEPT ![c] =
       [at |-> IF process.dirty THEN "load" ELSE "work", ops |-> Operations, attempt |-> 1]]
  /\ UNCHANGED <<stored, process, direct, instant, overwritten>>

\* loadWithTx reads table after table, and a commit may come in between.
LoadFirst(c) ==
  /\ call[c].at = "load"
  /\ call' = [call EXCEPT ![c] = [x \in DOMAIN @ \cup {"part", "of"} |->
                 CASE x = "at" -> "rest" [] x = "part" -> Loaded(stored) [] x = "of" -> stored.commits
                   [] OTHER -> @[x]]]
  /\ UNCHANGED <<stored, process, direct, instant, overwritten>>

LoadRest(c) ==
  /\ call[c].at = "rest"
  /\ process' = [process EXCEPT
       !.state = Restored([call[c].part EXCEPT !.intentions = stored.intentions,
                             !.dispute = stored.dispute.status, !.meta = stored.dispute.meta,
                             !.activities = stored.activities]),
       !.of = call[c].of]
  /\ call' = [call EXCEPT ![c] = [x \in DOMAIN @ \ {"part", "of"} |->
                 IF x = "at" THEN "stamp" ELSE @[x]]]
  /\ UNCHANGED <<stored, direct, instant, overwritten>>

\* getRuntimeRevision, a read of its own; only a load before the first attempt
\* clears the flag.
Stamp(c) ==
  /\ call[c].at = "stamp"
  /\ process' = [process EXCEPT !.revision = stored.revision, !.revisionOf = stored.commits,
                              !.dirty = @ /\ call[c].attempt > 1]
  /\ call' = [call EXCEPT ![c].at = "work"]
  /\ UNCHANGED <<stored, direct, instant, overwritten>>

\* The operation, the same one in every attempt, runs on a copy of the engine;
\* when it throws, mutate does.
Work(c) ==
  /\ call[c].at = "work"
  /\ \E o \in call[c].ops :
       call' = [call EXCEPT ![c] =
         IF Allowed(o, process.state)
         THEN [at |-> "submit", ops |-> {o}, attempt |-> @.attempt, before |-> process.state,
               after |-> Done(o, Restored(process.state), instant), of |-> process.of]
         ELSE Idle]
  /\ UNCHANGED <<stored, process, direct, instant, overwritten>>

\* The operation's promise has been fulfilled; syncFromSnapshots is called with
\* the revision of that moment.
Submit(c) ==
  /\ call[c].at = "submit"
  /\ call' = [call EXCEPT ![c] = [x \in DOMAIN @ \cup {"expected", "expectedOf"} |->
                 CASE x = "at" -> "sync" [] x = "expected" -> process.revision
                   [] x = "expectedOf" -> process.revisionOf [] OTHER -> @[x]]]
  /\ UNCHANGED <<stored, process, direct, instant, overwritten>>

Conflicting(c) == call[c].expected # NoRevision /\ stored.revision # call[c].expected

\* The transaction of syncFromSnapshots: a known revision must be the one of the
\* locked row.  A conflict is answered by loading again, three attempts in all.
SyncConflicts(c) ==
  /\ call[c].at = "sync"
  /\ Conflicting(c)
  /\ call' = [call EXCEPT ![c] =
       IF call[c].attempt < Attempts
       THEN [at |-> "load", ops |-> @.ops, attempt |-> @.attempt + 1]
       ELSE Idle]
  /\ UNCHANGED <<stored, process, direct, instant, overwritten>>

SyncCommits(c) ==
  LET x == call[c] IN
  /\ x.at = "sync"
  /\ ~Conflicting(c)
  /\ \E scope \in {AllTables} \cup {ScopeOf(o) : o \in x.ops} :
       /\ ~RowsMissing(stored, x.before, x.after, scope)
       /\ Commits(Applied(stored, x.before, x.after, scope))
  /\ overwritten' = (overwritten \/ x.of # stored.commits)
  /\ call' = [call EXCEPT ![c] = [at |-> "finish", after |-> x.after,
                 revision |-> instant', of |-> stored.commits + 1]]
  /\ UNCHANGED <<process, direct>>

SyncFails(c) ==
  LET x == call[c] IN
  /\ x.at = "sync"
  /\ ~Conflicting(c)
  /\ RowsMissing(stored, x.before, x.after, AllTables)
  /\ call' = [call EXCEPT ![c] = Idle]
  /\ UNCHANGED <<stored, process, direct, instant, overwritten>>

\* The copy becomes the engine of the process.
Finish(c) ==
  /\ call[c].at = "finish"
  /\ process' = [state |-> call[c].after, revision |-> call[c].revision, dirty |-> FALSE,
                of |-> call[c].of, revisionOf |-> call[c].of]
  /\ call' = [call EXCEPT ![c] = Idle]
  /\ UNCHANGED <<stored, direct, instant, overwritten>>

\* The transactions that commit, and the steps in between.
Committing == Direct \/ RunLocked \/ Replace \/ \E c \in Calls : SyncCommits(c)
Underway ==
  \/ DirectNoted
  \/ \E c \in Calls :
       \/ Begin(c) \/ LoadFirst(c) \/ LoadRest(c) \/ Stamp(c) \/ Work(c) \/ Submit(c)
       \/ SyncConflicts(c) \/ SyncFails(c) \/ Finish(c)

\* An overwritten update ends the behaviour.
Next == ~overwritten /\ (Committing \/ Underway)

Spec == Init /\ [][Next]_snapshotVars

-----------------------------------------------------------------------------

Snapshot ==
  [profile : UNION {[as -> {"ACTIVE", "BANNED"}] : as \in SUBSET Members},
   source : SUBSET Members, balance : UNION {[as -> 1..MaxBalance] : as \in SUBSET Members},
   count : 0..Cardinality(Members), intentions : SUBSET Members,
   dispute : {"none", "OPEN", "RESOLVED"}, meta : {"none", "paid", "noted"},
   activities : SUBSET [actor : Members, time : 1..MaxCommits + 1]]

\* Every variable has its type: what the rows say is a snapshot, and no torn or
\* stale load makes the engine anything else.
TypeOK ==
  /\ Loaded(stored) \in Snapshot
  /\ stored.commits \in 0..MaxCommits /\ stored.revision \in 1..instant
  /\ process.state \in Snapshot /\ process.of \in 0..stored.commits
  /\ process.revision \in 0..instant /\ process.dirty \in BOOLEAN
  /\ \A c \in Calls : call[c].at \in
       {"idle", "load", "rest", "stamp", "work", "submit", "sync", "finish"}
  /\ direct \in BOOLEAN /\ instant \in 1..MaxCommits + 1 /\ overwritten \in BOOLEAN

\* As long as no update has been overwritten, the time of the latest activity in
\* every profile row is that of the agent's newest activity row, and the count
\* of the task's intentions that of their rows: what a difference writes to
\* derived columns agrees with what it writes to the rows they derive from.
DerivedAgree ==
  ~overwritten =>
    /\ \A a \in DOMAIN stored.profile : stored.profile[a].latest = Newest(stored.activities, a)
    /\ stored.count = Cardinality(stored.intentions)

\* An engine that was loaded or synchronised at the present state of the
\* database is that state: load undoes what the difference wrote, for every
\* table, and in whatever scope it was written.
EngineCurrent ==
  ~overwritten /\ process.of = stored.commits => process.state = Loaded(stored)

\* As long as nothing has been overwritten, every commit is one operation on the
\* database as it was, or a replacement: concurrent runs lose no update.
SerialCommit ==
  stored'.commits # stored.commits /\ ~overwritten' =>
    \/ Loaded(stored') = FirstSnapshot
    \/ \E o \in Operations :
         /\ Allowed(o, Loaded(stored))
         /\ \E t \in 1..instant' : Loaded(stored') = Done(o, Loaded(stored), t)

\* The revision check lets an update be overwritten only where it cannot see the
\* other one: when the process has just noted a direct write and knows no
\* revision, when the revision is not the one of the snapshot, or when commits
\* have shared an instant.
OvertakenOnlyUnseen ==
  overwritten' /\ ~overwritten =>
    \E c \in Calls :
      /\ call[c].at = "sync" /\ call'[c].at = "finish"
      /\ \/ call[c].expected = NoRevision
         \/ call[c].expectedOf # call[c].of
         \/ stored.revision # stored.commits + 1
=============================================================================
