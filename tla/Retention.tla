------------------------------ MODULE Retention ------------------------------
(***************************************************************************)
(* How long logs are kept: those in a process (InMemoryServerLogStore of   *)
(* observability/server-logs.ts) and those in the database, which the      *)
(* worker deletes in batches (infra/state-repository.ts) while the API     *)
(* goes on inserting; and the counter of such jobs, which the worker keeps *)
(* in the database for the API to report.  Clocks may be set back.         *)
(***************************************************************************)
EXTENDS Integers, Sequences, FiniteSets, SequencesExt, FiniteSetsExt

CONSTANTS
    Capacity,       \* IN_MEMORY_AUDIT_LOG_CAPACITY
    Retention,      \* the units of time a log is kept in each table
    BatchSize,      \* logCleanupBatchSize
    MaxTime, MaxRecords, MaxRows, MaxSetBacks, MaxJobs

VARIABLES
    now, setBacks,
    recorded,       \* the times of everything the process has logged,
    memory,         \* and the numbers of what it still holds, oldest first
    horizon,        \* the latest time before which it dropped what was old
    rows,           \* table -> number -> the time of the log, if it is there
    job,            \* the cleanup of the worker: its stage and instant,
    due,            \* and the rows that were too old when it started
    finished,       \* jobs that were finished,
    counter,        \* how many of them the database knows of
    uncounted       \* and how many could not be counted, or without answer

retentionVars == <<now, setBacks, recorded, memory, horizon, rows, job, due, finished, counter, uncounted>>

\* In the order in which they are cleaned.
Tables == <<"requests", "audits">>

Gone == -1
NotYet == -2

Idle == [stage |-> "idle", at |-> 0]

Cutoff(table, instant) == instant - Retention[table]

Old(table, instant) ==
  {n \in 1..MaxRows : rows[table][n] >= 0 /\ rows[table][n] < Cutoff(table, instant)}

Init ==
  /\ now = 0 /\ setBacks = 0
  /\ recorded = <<>> /\ memory = <<>> /\ horizon = Cutoff("audits", 0)
  /\ rows = [t \in ToSet(Tables) |-> [n \in 1..MaxRows |-> NotYet]]
  /\ job = Idle /\ due = [t \in ToSet(Tables) |-> {}]
  /\ finished = 0 /\ counter = 0 /\ uncounted = 0

ofProcess == <<recorded, memory, horizon>>
ofTables == <<rows, job, due, finished, counter, uncounted>>

-----------------------------------------------------------------------------

Tick ==
  /\ now < MaxTime /\ now' = now + 1
  /\ UNCHANGED <<setBacks, ofProcess, ofTables>>

SetBack ==
  /\ setBacks < MaxSetBacks /\ setBacks' = setBacks + 1
  /\ now > 0 /\ now' = now - 1
  /\ UNCHANGED <<ofProcess, ofTables>>

\* appendAuditLog of the store in the process.
Log ==
  /\ Len(recorded) < MaxRecords
  /\ recorded' = Append(recorded, now)
  /\ LET longer == Append(memory, Len(recorded'))
     IN memory' = SubSeq(longer, Len(longer) - Min({Len(longer), Capacity}) + 1, Len(longer))
  /\ UNCHANGED <<now, setBacks, horizon, ofTables>>

\* Those of the logs s that are no older than a cutoff.
Younger(s, cutoff) ==
  LET first[i \in 0..Len(s)] ==       \* among the first i of them
        CASE i = 0 -> <<>>
          [] i > 0 /\ recorded[s[i]] >= cutoff -> Append(first[i - 1], s[i])
          [] OTHER -> first[i - 1]
  IN first[Len(s)]

\* cleanup of the store in the process.
CleanMemory ==
  /\ memory' = Younger(memory, Cutoff("audits", now))
  /\ horizon' = Max({horizon, Cutoff("audits", now)})
  /\ UNCHANGED <<now, setBacks, recorded, ofTables>>

-----------------------------------------------------------------------------

\* A log is inserted some time after it was made: it waits for its transaction.
Insert(table, lag) ==
  /\ \E n \in 1..MaxRows :
       /\ rows[table][n] = NotYet
       /\ \A m \in 1..(n - 1) : rows[table][m] # NotYet
       /\ rows' = [rows EXCEPT ![table][n] = now - lag]
  /\ lag <= now
  /\ UNCHANGED <<now, setBacks, ofProcess, job, due, finished, counter, uncounted>>

\* runLogCleanup of the worker.  It has the lock for it or not.
StartJob(locked) ==
  /\ job.stage = "idle" /\ finished < MaxJobs
  /\ job' = [stage |-> IF locked THEN "requests" ELSE "failed", at |-> now]
  /\ due' = [t \in ToSet(Tables) |-> IF locked THEN Old(t, now) ELSE {}]
  /\ UNCHANGED <<now, setBacks, ofProcess, rows, finished, counter, uncounted>>

\* The oldest ones, by time and then by number.
Batch(table) ==
  LET old == Old(table, job.at)
      Before(m, n) == \/ rows[table][m] < rows[table][n]
                      \/ (rows[table][m] = rows[table][n] /\ m < n)
  IN {n \in old : Cardinality({m \in old : Before(m, n)}) < BatchSize}

\* Fault: one batch is enough.
DeleteOneBatch(table, answered) ==
  /\ job.stage = table
  /\ rows' = [rows EXCEPT ![table] = [n \in 1..MaxRows |-> IF n \in Batch(table) THEN Gone ELSE @[n]]]
  /\ job' = [job EXCEPT !.stage =
       CASE ~answered -> "failed"
         [] answered /\ table = "requests" -> "audits"
         [] OTHER -> "succeeded"]
  /\ UNCHANGED <<now, setBacks, ofProcess, due, finished, counter, uncounted>>

\* deleteExpiredRequestLogs and deleteExpiredAuditLogs, one statement each time.
DeleteBatch(table, answered) ==
  /\ job.stage = table
  /\ rows' = [rows EXCEPT ![table] = [n \in 1..MaxRows |-> IF n \in Batch(table) THEN Gone ELSE @[n]]]
  /\ job' = [job EXCEPT !.stage =
       CASE ~answered -> "failed"
         [] answered /\ Cardinality(Batch(table)) = BatchSize -> table
         [] OTHER -> IF table = "requests" THEN "audits" ELSE "succeeded"]
  /\ UNCHANGED <<now, setBacks, ofProcess, due, finished, counter, uncounted>>

DeleteFails ==
  /\ job.stage \in ToSet(Tables)
  /\ job' = [job EXCEPT !.stage = "failed"]
  /\ UNCHANGED <<now, setBacks, ofProcess, rows, due, finished, counter, uncounted>>

\* recordWorkerJobMetric, and the end of the job.
Count(written, answered) ==
  /\ job.stage \in {"succeeded", "failed"} /\ (written \/ ~answered)
  /\ finished' = finished + 1
  /\ counter' = counter + (IF written THEN 1 ELSE 0)
  /\ uncounted' = uncounted + (IF answered THEN 0 ELSE 1)
  /\ job' = Idle /\ due' = [t \in ToSet(Tables) |-> {}]
  /\ UNCHANGED <<now, setBacks, ofProcess, rows>>

\* The worker dies.
WorkerDies ==
  /\ job # Idle
  /\ job' = Idle /\ due' = [t \in ToSet(Tables) |-> {}]
  /\ UNCHANGED <<now, setBacks, ofProcess, rows, finished, counter, uncounted>>

Clean ==
  \/ \E t \in ToSet(Tables), answered \in BOOLEAN : DeleteBatch(t, answered)
  \/ \E written, answered \in BOOLEAN : Count(written, answered)

NextOfProcess == Log \/ CleanMemory

NextOfTables ==
  \/ \E t \in ToSet(Tables), lag \in 0..1 : Insert(t, lag)
  \/ \E locked \in BOOLEAN : StartJob(locked)
  \/ Clean \/ DeleteFails \/ WorkerDies

Next == Tick \/ SetBack \/ NextOfProcess \/ NextOfTables

-----------------------------------------------------------------------------

TypeOK ==
  /\ now \in 0..MaxTime /\ setBacks \in 0..MaxSetBacks
  /\ recorded \in Seq(0..MaxTime) /\ memory \in Seq(DOMAIN recorded)
  /\ horizon \in Int
  /\ rows \in [ToSet(Tables) -> [1..MaxRows -> {NotYet, Gone} \cup (0..MaxTime)]]
  /\ job.stage \in ToSet(Tables) \cup {"idle", "failed", "succeeded"} /\ job.at \in 0..MaxTime
  /\ due \in [ToSet(Tables) -> SUBSET (1..MaxRows)]
  /\ finished \in 0..MaxJobs /\ counter \in Nat /\ uncounted \in Nat

\* A process holds its logs in their order, and of what it has logged it misses
\* nothing but what was too old at some cleanup, or has as many newer ones after
\* it as it may hold.
YoungKept ==
  /\ Len(memory) <= Capacity
  /\ \A i, j \in DOMAIN memory : i < j => memory[i] < memory[j]
  /\ \A n \in DOMAIN recorded :
       n \in ToSet(memory) \/ recorded[n] < horizon \/ n <= Len(recorded) - Capacity

\* A cleanup that succeeded has deleted whatever was too old when it started, in
\* both tables, although logs were inserted meanwhile.
CleanedOut ==
  job.stage = "succeeded" => \A t \in ToSet(Tables) : \A n \in due[t] : rows[t][n] = Gone

\* Nothing is deleted before its own table's time, however late it was inserted.
NothingTooEarly ==
  \A t \in ToSet(Tables) : \A n \in 1..MaxRows :
    rows[t][n] >= 0 /\ rows'[t][n] = Gone => rows[t][n] + Retention[t] < now + setBacks

\* The database counts no job twice, and misses only those whose counting failed.
CounterHonest == counter <= finished /\ finished <= counter + uncounted

\* A cleanup comes to its end, so that the next one can start.
CleanupEnds == job.stage # "idle" ~> job.stage = "idle"
=============================================================================
