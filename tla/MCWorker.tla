------------------------------ MODULE MCWorker ------------------------------
(***************************************************************************)
(* The background jobs, for TLC.  A behaviour is about one of three things *)
(* that share no state: when and by whom jobs are run, or the logs that    *)
(* grow old in a process, or those in the tables, which the cleanup job    *)
(* deletes.                                                                *)
(***************************************************************************)
EXTENDS ClosingScheduler

CONSTANTS
    MemoryCapacity, RequestRetention, AuditRetention, CleanupBatch,
    MaxLogTime, MaxRecords, MaxRows, MaxSetBacks, MaxJobs

ASSUME RetentionAssumption ==
  /\ MemoryCapacity \in Nat /\ CleanupBatch \in Nat
  /\ RequestRetention \in Nat /\ AuditRetention \in Nat
  /\ {MaxLogTime, MaxRecords, MaxRows, MaxSetBacks, MaxJobs} \subseteq Nat

VARIABLES
    area,
    logTime, setBacks, recorded, memory, horizon, rows, job, due, finished, counter, uncounted

Keeping == INSTANCE Retention WITH
  Capacity <- MemoryCapacity, BatchSize <- CleanupBatch,
  Retention <- [requests |-> RequestRetention, audits |-> AuditRetention],
  now <- logTime, MaxTime <- MaxLogTime

retentionVars ==
  <<logTime, setBacks, recorded, memory, horizon, rows, job, due, finished, counter, uncounted>>
workerVars == <<area, vars, retentionVars>>

WorkerInit ==
  /\ area \in {"schedule", "process", "tables"}
  /\ Init
  /\ area # "schedule" => duration = CHOOSE d \in Durations : TRUE
  /\ Keeping!Init

Scheduling(A) == area = "schedule" /\ A /\ UNCHANGED <<area, retentionVars>>
Aging(A) == A /\ UNCHANGED <<area, vars>>

\* The clock is set back only for a process.
WorkerNext ==
  \/ Scheduling(Next)
  \/ area = "process" /\ Aging(Keeping!Tick \/ Keeping!SetBack \/ Keeping!NextOfProcess)
  \/ area = "tables" /\ Aging(Keeping!Tick \/ Keeping!NextOfTables)

\* As FairSpec; and every statement of a cleanup comes to an end.
WorkerSpec ==
  /\ WorkerInit /\ [][WorkerNext]_workerVars
  /\ \A w \in Workers :
       /\ WF_workerVars(Scheduling(BeginClosing(w) \/ Commit(w)))
       /\ WF_workerVars(Scheduling(Clean(w)))
       /\ \A j \in Jobs :
            WF_workerVars(Scheduling(Poll(w, j) \/ Acquire(w, j) \/ Miss(w, j) \/ Release(w, j)))
  /\ WF_workerVars(area = "tables" /\ Aging(Keeping!Clean))

-----------------------------------------------------------------------------

\* Logs are kept as long as was asked and no longer: a process loses none that is
\* young, unless it has as many newer ones, a cleanup that succeeds leaves none that
\* was too old when it started, and the counters of the database miss no job of the
\* worker but those it was not answered.
LogsKept ==
  /\ TypeOK /\ Keeping!TypeOK
  /\ Keeping!YoungKept
  /\ Keeping!CleanedOut
  /\ Keeping!CounterHonest

\* What is due is done, and nothing before: a closing that is due, by whatever
\* worker; a cleanup comes to its end and deletes no log of the database before
\* its time.
DueDone ==
  /\ DueClosed
  /\ Keeping!CleanupEnds
  /\ [][Keeping!NothingTooEarly]_retentionVars
=============================================================================
