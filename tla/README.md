# A formal model of AgentTrade

AgentTrade is a marketplace for software agents. Agents publish tasks whose
rewards they put into escrow, hand in submissions, review each other's work,
take rejected submissions to a dispute that supervisors vote on, and share the
reward pool of each cycle in proportion to the work recorded in it. The server
(`src/apps/server`) keeps all of this in PostgreSQL through Prisma; a worker
process closes cycles when they are due. Without a database the server keeps
everything in the memory of one process. An SDK, a command line client and a
dashboard talk to it.

This directory holds TLA+ modules translated from that code, configurations that
model-check them with TLC on small instances, and theorems that the TLA+ proof
system proves for every instance.

    tlc -workers 2 -config SettlementMarket.cfg SettlementProperties.tla
    tlc -workers 2 -config Around.cfg MCAround.tla
    tlapm SettlementProofs.tla

## 1. The system

Paths are relative to `src/apps/server/src` unless they start with `apps/` or
`packages/`.

### Components

| component | code | state | operations | modules |
|---|---|---|---|---|
| marketplace writes (persistence) | `infra/state-repository-write-helpers.ts`, `infra/state-repository-tx-helpers.ts` | tables Task, TaskIntention, Submission, Dispute, SupervisionVote, AgentProfile, ActivityEvent, Cycle, CycleWorkload, RuntimeState | publish, intend, submit, confirm, reject, terminate, open dispute, respond, vote, close cycle, override dispute | Settlement, Standing |
| dispute settlement and rollback | `infra/state-repository.ts` (the `...WithTx` methods) | the same, and DisputeRollbackHistory | settle from escrow or wallet, ban, sweep, reopen, reconcile closed cycles | Settlement, Standing |
| reward arithmetic | `domain/helpers.ts` | none | tax, penalty, vote threshold, `allocateIntegerPool`, clamp of reputations | Allocation, CycleRewards |
| in-memory engine | `domain/engine.ts` | the same data in maps of one process | the same operations, without transactions | Engine |
| closing scheduler, worker locks | `app.ts` (`settleDueCycles`), `worker.ts`, `runtime.ts`, `state-repository.ts` (`withAdvisoryLock`) | timer, in-flight promise, PostgreSQL advisory lock and its connection | poll, acquire, check due time, close, release | ClosingScheduler |
| runtime rules | `infra/state-repository.ts`, `app.ts`, `packages/config` | current rules and a pending patch for the next cycle | update, reset, apply at closing | RuntimeRules, MemoryRules |
| snapshots and mutation | `app.ts` (`mutate`), `state-repository.ts` (`load`, `sync`) | engine snapshot, revision | load, apply, compare, write the difference, retry | Snapshots, Startup |
| start of the processes | `app.ts` (`buildApp`), `worker.ts` | first rows, index, copies of rules and engine | initialise, load, serve | Startup |
| sign-in | `api/auth.ts` | pending challenges, tokens | challenge, verify, issue, expire | SignIn |
| requests that write | `app.ts`, `api/*.ts` | counters, audit rows | let in, carry out, repeat, note, answer | Requests |
| rate limiting | `core/rate-limit.ts`, `infra/rate-limiter.ts` | token buckets, Redis counters | consume | RateLimits |
| request log | `app.ts` | array with a head, flush under way, drop counters | append, flush, warn, close | RequestLog |
| retention of logs, job metrics | `observability/*.ts`, `infra/state-repository.ts` | bounded lists, log tables, counters | record, clean up, count | Retention |
| todos | `todos/read-model.ts`, `api/todos.ts`, `infra/state-repository-todo-helpers.ts` | none of their own | derive | Todos |
| lists and cursors | `pagination/cursor.ts`, `api/services.ts`, `infra/state-repository-query-helpers.ts` | the cursor of a reader | page | Lists |
| dashboard numbers | `utils/timezone.ts`, `api/services.ts`, `infra/state-repository.ts` | none of their own | windows of days, trends, summary | DashboardDays |
| dispute answers | `api/disputes.ts`, `infra/state-repository.ts` | none of their own | read dispute, read resolution | DisputeAnswers |
| SDK | `packages/sdk` | a call and its attempts | send, time out, retry | SdkCalls |
| command line client | `apps/cli` | configuration file, key file | register, log in, set, unset, clear | CliConfig |
| dashboard | `apps/web` | lists, drawers, their queries and requests | load, load more, refresh, open | Dashboard |

### How they interact

HTTP handlers call a `write...Direct` function of the repository. Each opens a
Prisma transaction whose first statement is `SELECT ... FOR UPDATE` on the one
RuntimeState row (`lockRuntimeWithTx`), so the writes of all processes are
serialised by the database, and each reads its rows again under that lock. The
worker calls the closing write on a timer. Closing a cycle and overriding a
dispute loop over the tables and call helpers that confirm, terminate, settle,
ban and sweep; these helpers feed each other's inputs. Without a database the
server applies the same rules to the in-memory engine. Reads take no lock: those
that need several statements may meet several states. Clients see the server
through answers that can be late, lost or out of order.

### What is hard

* **Order within a transaction.** Closing confirms stale submissions, sweeps
  the tasks of banned publishers, decides disputes (which may ban somebody),
  expires and sweeps again, and only then pays the pool; what it reads before
  the loops may be stale after them.
* **Undoing.** Reopening a dispute writes remembered rows back: the task, the
  submission, the terminations a ban forced, the ban, the votes, the workload,
  the activities and the rewards of cycles closed since.
* **Failure half way.** An error or a lost connection rolls the transaction
  back; the next attempt meets the same rows and must get further. In memory
  nothing is rolled back. A lost answer hides what was committed.
* **Two of everything.** Rules, lists, todos, days and disputes are written once
  for the database and once for the memory of a process, and have to agree.
* **Overlap.** Requests are checked before they wait, snapshots are compared
  before they are written, logs are appended while others are flushed, and
  pages arrive after their query has changed.
* **Arithmetic.** Pools are split into whole units with floating-point
  fractions; penalties have a minimum of one unit; balances may become negative
  by reopening; a day need not have 24 hours.
* **Liveness.** A cycle that is due has to be closed, a log written, a request
  answered, whatever fails.

`PROJECT.json` lists the places with their lines under `hazards`.

### What makes each component correct

* Writes and settlement: value is conserved; nobody goes into debt except by a
  reopening, and then is banned when the dispute is settled again; an escrow is
  a whole number of rewards and belongs to an active task; a submission is
  never both payable and paid; workload, counters and activities stand for what
  stands; a closed cycle leaves nothing that closing has to clear; cycles are
  closed.
* Reward arithmetic: the whole pool is handed out, everybody within one unit of
  their share, ties by address.
* Engine: what it does is what the transactions do; an error half-way loses no
  value, and of what it leaves behind only what section 3 names does.
* Scheduler: one closing at a time, and only of a cycle that is due.
* Rules: what is in force and what will be is valid; the open cycle mints what
  the rules say; what was staged is applied; whoever settles reads the rules in
  force.
* Snapshots: no write is lost where the revision can tell.
* Start-up: whoever serves finds what its writes rely on.
* Sign-in: a challenge that has earned a token is found by no later verification, and
  only verifications that overlap earn a token each. Rate limiting: no more than the
  limit in a window, and no less.
* Requests: the answer, the audit log and the counters say what was done.
* Request log: a bounded queue, written in order; no log and no drop is
  forgotten. Retention: what is young stays, what is old goes.
* Readers: both back ends show the same, no row twice or skipped, no instant in
  two days, no resolution of another round.
* Clients: the truth about a call, readable settings, and the list that was
  asked for.

## 2. The modules

    Allocation              pure operators: tax, penalty, threshold, split
      AllocationProofs      finite sums; the split hands out the whole pool
      CycleRewards          one cycle's pool and workload; the split's loop and its rounding
      DisputeAnswers        a dispute read together with, or before, its resolution
      Marketplace           rows and tables; what each repository helper does to them
        TableInvariants     what has to be true of the tables, whoever writes them
          Settlement        the transactions, interleaved, step by step, interrupted
            SettlementProperties   invariants, action properties, liveness, refinement
              SettlementProofs     disputes and what they refer to, what stands until it is
                                   reopened, and the refinement of ReviewLifecycle
                MoneyProofs        escrows, completions and workload agree; with
                                   AllocationProofs: value is conserved; cycles are
                                   closed cleanly, and debtors banned
              EngineAgreement      Settlement implements Engine
              MCSettlement         two small instances for TLC
          Engine            the methods of the in-memory engine
            EngineProperties
              MCEngine      with Snapshots, for TLC
            Todos           what agents have to do, computed twice
              MCReads       with Lists, DashboardDays and DisputeAnswers, for TLC
    ReviewLifecycle         abstract: what may become of a submission
    Standing                counters, reputations, bans and activities of profiles
      MCEarnings            with CycleRewards, for TLC
    Snapshots               the engine's snapshots and the revision check
    ClosingScheduler        polls, advisory locks and due time of the workers
      MCWorker              with Retention, for TLC
        SchedulerProofs
    Retention               logs that grow old, and the job that deletes them
    RuleSets                pure operators: merge, difference and validity of rules
      RuntimeRules          rules in the database, copies in the processes
        MCRules             with MemoryRules and RateLimits, for TLC
          RulesProofs
      MemoryRules           rules without a database
    RateLimits              buckets in memory, counters in Redis
    LogQueue                abstract: the queue of request logs
      RequestLog            the buffer, its flushes and warnings, shutdown
        MCLogs              with Requests, for TLC
          LogProofs         with RequestProofs for the two instances of Requests
    Requests                a request that writes, from the door to the answer
      RequestProofs         lemmas about one instance of it
    Lists, DashboardDays    what readers see
    Startup, SignIn         the processes of a deployment; challenges and tokens
    SdkCalls, CliConfig, Dashboard     the clients
      MCAround              Startup, SignIn and the clients, for TLC
        AroundProofs        with MCEngine: the snapshots; with MCReads: the days of a zone,
                            the answer about a dispute and the pages of a listing

An MC module puts parts side by side that share no state: a variable `area` (or
`about`) says which of them a behaviour is about, and the others stay where they
began. Nothing is interleaved or multiplied by it; it only saves starting TLC
once for each. Parts that do interact are composed in one module: Settlement
with ReviewLifecycle and Engine (refinements), Todos with Engine, the worker's
jobs with their locks.

**Allocation** translates `domain/helpers.ts` 6-89. `LargestRemainder` is a
closed form of the loop in `allocateIntegerPool`: who gets one more unit, by
comparison of remainders and then of addresses. That it is what the loop
computes is checked (`LoopAgrees`), not assumed.

**CycleRewards** is the state of one cycle as far as the split depends on it:
fees feed the pool, rows of workload are added up. It also translates the loop
itself, once over exact fractions and once over quotients rounded to
`Precision` = 53 significant bits as the server's numbers are.

**Marketplace** declares the rows (only the columns the rules depend on) and
has one operator for each repository helper, as a function from tables to
tables: `ConfirmInternal` is `confirmSubmissionInternalWithTx`,
`TerminateInternal` is `terminateTaskInternalWithTx`, `FinalizeCompleted` is
`finalizeDisputeWithOutcomeWithTx`, `RollbackResolution`, `RollbackForced`,
`RestoreBan`, `ReconcileCycle` and `SettleCycle` are the parts of reopening and
of closing. An error a helper may throw is a predicate of its own
(`ConfirmThrows`, `FinalizeThrows`).

**Settlement** has the committed tables `db`, the tables `work` the running
transaction sees, and the transaction `tx` with the phases it still has to run
and the local variables it has read. A write of a fixed set of rows is one
action on `db` (`Publish`, `AddIntention`, `Submit`, `Confirm`,
`ConfirmWithoutSlot`, `Reject`, `Terminate`, `OpenDispute`, `Vote`): it holds
the row lock from before its first read to its commit. Closing and overriding
run as sequences of actions on `work`: one per element of each loop
(`AutoConfirmStale`, `SweepBanned`, `Evaluate`, `ExpireClean`) and one per
step (`Settle`, `Finalize`, `BanNegatives`, `RestoreForced`,
`RestorePublisherBan`, `StartNewRound`, `Reconcile`), then `Commit`. `Abort` is
an error thrown inside, `Crash` a lost connection or process; both drop `work`.
`DeadlinePasses` and `SubmissionAges` are the passing of time.

**TableInvariants** holds the invariants that both programs have to keep, over any
tables `d`, and `Holdings`, the sum of all balances, escrows and pools.

**Engine** translates `AgentradeEngine`. A method runs from beginning to end, so each
is one action; but what it did before it threw stays, so a method yields the
tables it leaves and whether it threw. Closing and overriding are folds over the
same sequences the code loops over. `EngineAgreement` makes Engine the
specification of Settlement: a transaction that commits does to the tables what
the method does in one step, one that is aborted or interrupted does nothing. The
one exception is named, `PenaltyWhileClosing` (see section 3).

**Standing** is the part of the same writes that concerns the profiles:
reputations with their clamp, counters, bans, and the ActivityEvent rows with
the latest activity of every profile. Money is left out, and whether a wallet can
pay is a free choice. Its actions are the transactions of Settlement, with
reopening and forced terminations in full (`ReopenResolved`, `SweepBanned`), and
times taken before the row lock is waited for.

**Snapshots** is the path of `mutate`: a call of a process loads tables in two
statements, copies the engine, works, reads the revision, compares snapshots and
writes the difference under a check of the revision, up to three times. Direct
writes of the same process and of others change the database in between.
No route with a repository uses this path today.

**ReviewLifecycle** is the abstract specification: every submission has a
stage and there is a fixed set of arrows between stages.
`SettlementProperties!ReviewImplemented` instantiates it with the stage read
off the committed submissions and disputes.

**ClosingScheduler** has, for each worker and each of its two jobs (closing,
cleaning), where it is in `withAdvisoryLock`: the key among the held keys of the
process (`guard`), the lock of the database (`lock`), which one connection per
worker may take repeatedly, and the closing transaction under the row lock
(`row`) with the clock it has read. Several workers poll, and a closing may be
answered, fail, or commit and lose its answer; connections are lost without the
worker noticing; workers crash; the duration of a cycle is changed meanwhile.
What a closing does is Settlement's; here it opens the next cycle.

**RuleSets**, **RuntimeRules** and **MemoryRules** are about the editable rules.
`mintPerCycle` is kept, because it is also stored in the open cycle, and one
group of weights, because a group is what makes a combination of valid changes
invalid; the other rules behave like either. In RuntimeRules every transaction
locks the RuntimeState row (`Lock`), refreshes the configuration object that the
transactions of its process share (`config`), writes (`UpdateCurrent`,
`UpdateNext`, `ResetCurrent`, `ResetNext`, `Close`) and commits or is rolled
back, which leaves `config` as it is. MemoryRules is the same without a
database: handlers are not interrupted, but what they did before they threw
stays (`SetState` installs settings before it validates them, `CloseFails`).
In RuntimeRules, `asked` remembers what was acknowledged for the next cycle about one rule; that
is not a variable of the code.

**RequestLog** translates the array and its head (`buf`, `Compact`), the flush
loop between its awaits (`Continue`, `Flush`, `Written`, `WriteFails`,
`EndFlush`), the counter of drops and the warnings that are being written
(`Warn`, `Audited`), the timer and `onClose`. **LogQueue** is what it should be:
a queue, a batch that is being written, and an order. `loops` is a set so that
two flushes at once are expressible; that there is one is a result.

**Retention** has the list of logs of a process, which assumes that they are in the
order of their times, and the two tables with the cleanup job, which deletes
them batch by batch; clocks are set back, deletes fail, the worker dies, and the
job counter of the database may or may not have been reached.

**Requests** follows a request that writes through the server: `requireActiveAgent`
or the check of the administrator (`Arrive`), the transaction with its repetitions
(`Attempt`, `Repeat`), the audit row in or after it, the counters and the answer,
each after an await at which the agent may be banned (`Ban`), the answer of the
database be lost, or the process die (`Die`). `deployment` is one of: in memory,
with a repository, with a repository that also stores the audit.

**RateLimits** has the token bucket of each process, whose clock may be ahead and be
set back, and the counters of Redis, where INCR and EXPIRE are two steps and a
call may be lost between them.

**Startup** runs `buildApp` of several API processes and a worker on one empty
database, one await at a time: index, first rows (find, then insert), rules, load;
what fails ends the process and its supervisor boots it again. **SignIn** is the
table of challenges with its sweep, its limit and the verification, whose
signature check is awaited between looking a challenge up and removing it.

**Todos** extends Engine by what only todos read and computes all groups twice, from
the snapshot as `todos/read-model.ts` does and as the three SQL statements do.
**Lists** is one reader following cursors through one list: keyset pages in SQL
with nulls last, sorted arrays otherwise, both orders, and rows that are inserted,
changed and deleted between pages. **DashboardDays** has the loop of
`zonedMidnightToUtc`, day keys, the buckets of both back ends, and the summary's
parallel statements between which cycles close and days end. **DisputeAnswers**
reads a dispute and then its resolution while it is voted on, decided and reopened.

**SdkCalls** is `requestRaw` against a network that loses requests and answers and a
server that limits, fails or applies. **CliConfig** is the two files of the command
line client, each written by truncating and filling, under commands that overlap and
are killed. **Dashboard** is a list with its query, pages and refresh, and a drawer,
each with answers that arrive in any order.

### Abstractions

* Addresses are naturals, compared where the code compares addresses. Times
  in Settlement are two monotone marks: which deadlines have passed (`expired`)
  and how many submissions have exceeded the submission timeout (`stale`).
* A cycle may be closed at any time: this covers both the administrator's
  closing and the worker's, which additionally waits for the due time.
* A supervisor's vote carries a free weight out of `VoteWeights`; the reputation
  that determines it is in Standing.
* Workloads are in quarters and reputations in half points, so that the fractions
  of the rules are integers.
* The cooldown between two submissions of one agent is left out: any submission
  the model allows is one the code allows later.
* Texts, names, tokens and payloads are numbers that are compared and nothing else.
* In Snapshots one task, one ledger and one dispute stand for the tables; the
  revision is read from `updatedAt`, which has milliseconds, so that two commits
  may share one; the clock does not go back.
* In Requests and SdkCalls a write is a counter of effects: what it does to the
  tables is Settlement's.
* One single rule and one group of weights stand for the sixteen rules, and one list
  at a time for the many: what they share is the code that is modelled.

### What the code never does

Writing the model showed branches that no reachable state takes: `submitTask`
with no payable slot left on an active task
(`state-repository-write-helpers.ts` 665-676) and the automatic confirmation of
a submission without a payable slot on an active task; `EscrowBackedInv`
excludes both. The branch of `finalizeDisputeWithOutcomeWithTx` for a submission
that is completed already is never reached either. `ConfirmWithoutSlot` (the
explicit confirmation without a slot) is reachable, on a task that is terminated,
which becomes CLOSED by it.


## 3. The runs

| run | bounds | what it shows |
|---|---|---|
| `SettlementMarket` | 3 agents, 2 tasks of 1 or 2 slots with and without repeats, 2 submissions, 1 dispute, 2 cycles, 1 crash, no reopening | `MoneyKept`: value is conserved, nobody is in debt, nobody is paid twice out of an escrow that allows no repeats; `ClosesCleanly`: closing leaves nothing it had to clear |
| `SettlementReopen` | 2 tasks of 1 slot with repeats, 2 submissions, 1 dispute reopened once, 2 cycles | `RowsAgree`: escrow, completions and workload fit the rows they stand for; `DisputesStand`: what is known of a dispute stands until it is reopened; `RoundsUndone`: reopening conserves value when the tasks were left alone; `ReviewImplemented`, `ImplementsEngine`: the two refinements |
| `SettlementSmall` | "closing": 1 task of 1 or 2 slots, 1 crash, fairness; "debt": 3 tasks of different rewards, agent 2 also publishes, full penalty, 1 reopening | `EveryCycleCloses`; `DebtorsBanned`: who is in debt when a reopened dispute is settled again is banned |
| `Earnings` | "rewards": 3 agents, pools up to 12, workload up to 6; "rounds": 2 tasks with a dispute each and 4 reopenings; "times": 1 task and 3 instants; reputations from 0 to 10 half points | `PoolSplit`: the split exhausts the pool, keeps the quota, orders ties, pays more for more work and is what the loop computes; `StandingEarned`: counters, latest activity and reputation agree with the tables, and the publisher is banned as long as a resolved dispute could not be paid, no longer but in the one case that section 3 names, and never by what is taken back |
| `Scheduler` | 2 workers, 2 jobs, 3 points in time, 2 durations, one error, lost connection and crash each, fairness; 3 logs in each table, deleted two at a time | `LockReturned`, `Exclusive`, `EachCycleLasts`: no cycle is closed twice or early; `DueDone`: what is due is done, nothing before; `LogsKept`: young logs stay, a cleanup leaves no old ones, the counters of jobs are honest |
| `RulesStored` | 2 processes, 2 requests, 3 weights, 2 mints, 1 closing; without a database any number; 2 limiters with a capacity of 2 | `RulesKept`: stored rules are valid, the cycle mints what they say, the shared copy is fresh under the lock; `StagedKept`; `MemoryRulesKept`; `LimitsKept`: no window admits more than the capacity or refuses before, buckets hold what is left |
| `RequestLog` | capacity 3, batches of 2, 6 logs; 1 request with 2 bans and a death of the process, or 2 requests | `MemoryBounded`, `DropsTold`, `QueueSpec`: the array is a bounded queue, drops are counted once, shutdown leaves nothing; `RequestsTold`: answer, audit and counters say what was done; `BannedStop`; `AllEnds`: every log is written or dropped, every request ends |
| `Engine` | tasks without repeats, 2 submissions, 2 cycles; "methods": 2 tasks, 1 dispute reopened once; "rounds": 1 task, 2 disputes and 2 reopenings before anything expires; "tables": 1 call of `mutate`, 2 agents, 3 commits; "calls": 2 overlapping calls, 1 agent, 2 commits | `EngineSound`: completions agree, a dispute was settled or refused as a repeat, value is kept but where a dispute that was never settled is reopened after its submission was completed otherwise, a cycle pays its whole pool; `SnapshotsTrue`, `CommitsSerial`: an update is overwritten only where the revision cannot tell |
| `Reads` | 2 tasks, 3 submissions, 1 dispute; lists of 3 rows and 2 instants read row by row; 2 days of 4 hours, 1 change of clocks; a dispute of 2 voters and 3 rounds | `TodosRight`, `PagesRight`, `DaysRight`, `DisputeRight`: both back ends show the same, and it is the truth |
| `Around` | 2 API processes and a worker on an empty database; 2 agents and room for 1 challenge; 2 shells and 3 commands; 2 retries; 2 queries of 3 pages, 2 drawers | `StartsRight`, `StartsEnd`, `ChallengesKept`, `FilesKept`, `CallsTold`, `ViewsMatch`, `ClientRests` |

The comment over each property states it in full; section 1 says what it is for.
A property of an MC module joins those that a component states itself.

### Bounds

Every run of Settlement has three agents: a publisher (1), a worker (2) and a supervisor (3),
except where agents have several roles. Two cycles are the least in which
something can be closed and corrected afterwards; two submissions the least
that compete for a slot. One dispute is enough for what the transactions of one
dispute do; what several disputes do to each other is `StandingEarned`'s question
(the ban, in Standing) and `EngineSound`'s (settlements that were refused, in Engine),
and their runs have two, reopened in any order. An initial balance of 7 pays for
one task of two slots or two of one and their taxes, so that a publisher who
has spent it is insolvent when the dispute comes; a reward of 2 leaves a
remainder under the tax and the penalty; `MaxAged` = 2 lets both submissions time
out. One reopening suffices for the rollback of one round, since
`DisputeRollbackHistory` is replaced, not stacked; Standing, whose tables are
small, takes four. To keep `SettlementReopen` short only the first task expires in
it and its tasks have one slot; several slots are `SettlementMarket`'s.

Three weights are the least for `RulesKept`: with two, a patch that keeps the
sum changes both or none. In `RulesStored` patches change two rules, one of
which may keep its value; requests and processes are symmetric, and one bucket
stands for all processes that count in memory, as they have nothing in common.

A batch of 2 and a capacity of 3 with 6 logs let the buffer fill, drop and compact
with a consumed part left over while a batch is being written. Three attempts
are what `mutate` and the transactions make. In the lists three rows are the least
with a page before and behind the one that is moved, and two instants give ties. A
day of four hours with offsets of up to one hour keeps every position of a change
of clocks relative to midnight. Room for one challenge makes two agents compete;
three commands are the least where the third finds what two that overlapped left
behind. `InOrder` in MCAround and `Symmetry` in MCRules drop behaviours that differ
only by names.

Deadlock is not checked because a marketplace whose bounded ids are used up
really does stop, and so do workers whose bounded clock has run out, rules whose
closings are used up, a log that is closed, a reader at the end of a list and a
call that was answered.

### Fairness

Settlement assumes that closing is begun again and again and that the steps of a
running transaction are taken. The first is the polling of the worker:
`settleDueCycles` runs at start-up and on a timer (`app.ts` 803-850, 1478,
1575) and retries after a failure. The second is the execution of an async
function. Nothing is assumed of the users: no write of theirs is fair. Crashes
are bounded by `MaxCrashes`; a server that crashes for ever closes nothing.

In ClosingScheduler polling and the steps of a run are fair for each worker (the
interval timer, `app.ts` 1573-1577, and async functions), while errors, losses
and crashes are bounded; the statements of a cleanup are fair. In RequestLog the flush timer, the answers of the
database (every query is answered or times out) and `onClose` are fair; requests
and the decision to shut down are not. In Requests the awaits of a request come to
an end. In Startup the container supervisor starts a process again that has ended
(`restart: unless-stopped` in the compose file), a bounded number of times. Of the
clients, the SDK's timeout and retries and the answers or failures of the
dashboard's requests are fair, the user and the network are not. MCWorker and
MCAround state fairness once for parts that exclude each other: an action that is
weakly fair in the one area is fair for the disjunction over all areas, because
the areas never change.

### Where code and documentation disagree

Two disagreements are runs of their own, expected to be violated; the property
states what `src/apps/skill/references/agentrade-rules.md` says
(`PROJECT.json` quotes it).

| run | property | the code |
|---|---|---|
| `ReopenCreatesMoney` | `ConservedInv`: AGC is not created ad hoc | the rollback writes the task's escrow back though the publisher has been refunded since |
| `CloseStuck` | `CyclesClose`: due cycles are closed | the second stale submission of a worker to a task without repeats aborts every closing |

`EveryCycleCloses` is therefore about tasks with repeats, and `ReopenConserves`
and `ValueKept` except tasks that were not left alone (`UntouchedSince`).

The models show more, which no run repeats. (R is `agentrade-rules.md`, O is
`docs/api/overview.md`.) Of rules and settlement:

* R:727 "rewardPool = mintedAmount + taxPool + penaltyPool". Penalties that
  closing itself levies, in its sweeps, are added to the cycle row after the pool
  was read from it: the closed cycle shows them and nobody is paid them. The
  engine pays them (`PoolPaid`); `PenaltyWhileClosing` is this difference.
* R:671 a ban is lifted "if no remaining valid insolvency ban source exists".
  Of two insolvent disputes of one publisher the younger remembers the older as
  ban source; reopened in that order, older first, they leave the ban by the
  older one behind, although it is open and no other remains. The run `Earnings`
  goes through it: without the last disjunct of `BanStands`, which names this case,
  TLC refutes `StandingEarned`. In the engine the younger one even bans a publisher
  again who had been reactivated (`engine.ts` 1490 sets the status, which
  `state-repository.ts` 3269 leaves alone).
  When closing sweeps the publisher's tasks while the dispute behind the ban is
  reopened, the terminations are noted nowhere and stay counted.
* R:313 no second completion for an agent without repeats. A dispute that is
  paid from the publisher's wallet does not look at it; `PaidOnce` is about the
  escrow only.
* R:751 "fractional ties break by lexicographic address order". Equal fractions
  of different workloads can differ after rounding, and then the later address
  may get the odd unit.
* R:887, todos: a rejected submission on a terminated task stays a todo for ever,
  and a banned agent is shown todos that the server refuses.
* A task is in neither group of its publisher's list at the very instant of its
  deadline.
* O:92 staged patches are applied at rollover. A staged value equal to the one
  in force is not stored, and a later update of the same rule for the current
  cycle replaces it; without a database a reset of the current rules drops what
  was staged.
* O:88 reports of dropped request logs stay durable. The counter is reset before
  the report is written; `DropsTold` counts reports that failed as well.
* Without a database an update of the settings is installed before it is validated
  (`app.ts` 408), so a refused one stays in the settings, although
  `packages/config` (`index.ts` 282) says the weights add up.
* The engine resolves a dispute before settling it (`engine.ts` 929, 1023). When
  the settlement throws REPEAT_COMPLETION_NOT_ALLOWED the dispute stays resolved
  without one, and its resolution reports a payment out of escrow that was never
  made; terminating the task and overriding the dispute then leaves a task that is
  in progress with no escrow. With two disputes on one task the refused one can be
  reopened after the other was, and after its submission has been confirmed: the worker
  loses a reward that the dispute never paid, the escrow does not get it back, and the
  workload of the confirmation stays. `EngineSound` names exactly this reopening
  (`TakesBackUnpaid`: one reward, nothing else); without the exception the run `Engine`
  refutes it.

Of processes and requests:

* Two API processes that start on an empty database both find no row; the one
  that comes second can overwrite what the first has been told meanwhile, and if
  that was a closing, the next cycle can never be created.
* A sign-in removes the challenge that is in the table when its signature has been
  checked, which may be a newer one of the same agent (`OvertakenByEarlier`); and two
  verifications of one challenge that overlap earn a token each (`OnePerVerification`).
* A Redis counter whose first call was lost between INCR and EXPIRE never expires
  and, once it is full, refuses every later call.
* Feedback without a repository is not counted as a write, nor noted when it fails.
  A lost answer leaves both a success and a failure in the audit log; with a
  repository but no audit storage the death of the process leaves a committed write
  without a note. The routes of the settings do not check again inside the
  transaction whether the agent has been banned.
* `getMetrics` shows zero for the worker's counters when it cannot read them.
* The path of `mutate`, which no route takes with a repository, loses updates when
  the revision is not known after a direct write, is read apart from the snapshot,
  is replaced by another call of the process, or when two commits share a
  millisecond. `CommitsSerial` names these cases (`OvertakenOnlyUnseen`).

Of readers and clients:

* The dispute and its resolution are read one after the other: a dispute may be
  answered with the resolution of no or of another round when it is reopened in
  between. The three statements of the todos may each see another state.
* `zonedMidnightToUtc` ends an hour too early where midnight is skipped in a zone
  behind UTC (Santiago, Havana) and takes the second midnight where it is shown
  twice in a zone ahead of it; SQL and the in-memory days then differ, though a
  test (`helpers.spec.ts` 126) speaks of days that keep their boundaries. `DaysRight` is about
  changes at another hour. A summary's `generatedAt` may be of the day after its
  "today", and its totals come from statements that see different states.
* SDK: a call that timed out may be applied after it was reported as failed.
* CLI: a torn configuration file cannot be repaired by unsetting it; with a short
  key file the error asks for another `register`, which fails as well, and the first
  one has already replaced the wallet; two first `config set` of secrets at once can
  encrypt one with a key that is overwritten. `FilesKept` is about commands that did
  not overlap or fail half-way.
* Dashboard: a page asked for with an old cursor can be appended to the list of a
  new query while that is loading or after it failed, or when the query is changed
  and changed back; a refresh can answer an older query or cross a page; an old
  error can be shown for a new query. `ViewsMatch` marks such lists as `crossed`.
  Its half about drawers concerns what is fetched, not what is seen: the effects at
  `dashboard.tsx` 944-1109 still run for an address that names a task or a dispute,
  but the page renders no drawer and moves on to the route of the detail (627-642).
  The first request asks for the default query whatever the address bar says.

## 4. What is proved

Every theorem below holds for all sets of agents, tasks, submissions, disputes,
cycles, workers, processes, requests and rules, and all bounds on faults and
reopenings. The assumptions are those of the modules: ids and cycles are positive
numbers and 1 is a cycle (`IdsAssumption`); agents, tasks and cycles are finitely
many, for the sums (`FiniteAssumption`); rules lie where the schema of the rules
puts them (`RulesAssumption`); publishers, workers and supervisors are agents
and what they ask for has the type of the request (`ActorsAssumption`); the agent that
has registered before all others is one of finitely many (`MembersAssumption`); Redis keeps a
counter for longer than its window is open on any clock (`LimitsAssumption`: 90 seconds
for a window of 60, so the theorem is about clocks at most half a minute ahead); no time
zone is as far from UTC as a day is long (`ReadsAssumption`); what stands for nothing is not an
element (0 among queries, addresses and values); and the other parameters are numbers
and finite sets. TLC evaluates each of them in the runs.

| theorem | module | about |
|---|---|---|
| `DisputesAlwaysStand == Spec => DisputesStand` | SettlementProofs | disputes fit their submissions; votes and outcomes stand until they are reopened |
| `ReviewRefines == Spec => ReviewImplemented` | SettlementProofs | Settlement implements ReviewLifecycle |
| `RowsAlwaysAgree == Spec => []RowsAgree` | MoneyProofs | escrow, completions and workload fit each other |
| `PaidOnceOnly == Spec => []PaidOnceInv` | MoneyProofs | nobody is paid twice where repeats are not allowed |
| `MoneyConserved == Spec => [][tx.kind # "REOPEN" => Holdings(db') = Holdings(db)]_vars` | MoneyProofs | only reopening can make or lose money |
| `MoneyKeptUnlessReopened == Spec /\ []NoReopening => []MoneyKept` | MoneyProofs | nobody is in debt and no pool is overdrawn before a dispute is reopened |
| `MoneyAlwaysKept`: `MaxReopens = 0` implies `Spec => []MoneyKept` | MoneyProofs | the same as the run `SettlementMarket` checks it |
| `TypesKept == Spec => []TypeOK` | MoneyProofs | types, with reopenings |
| `CyclesCloseCleanly == Spec => ClosesCleanly` | MoneyProofs | a closed cycle leaves nothing behind that closing had to clear |
| `DebtorsAreBanned == Spec => DebtorsBanned` | MoneyProofs | a party whom settling a reopened dispute leaves in debt is banned |
| `PoolHandedOut` | AllocationProofs | a positive pool is handed out to the last unit |
| `LocksReturned`, `RunsExclude`, `CyclesLast` | SchedulerProofs | locks, exclusion, due times |
| `JobsRunAsAlone == WorkerSpec => Spec` | SchedulerProofs | the three also hold of the worker with its logs, which is what the run `Scheduler` checks |
| `LogsAreKept == WorkerSpec => []LogsKept` | SchedulerProofs | young logs stay, old ones go, the counters miss only what failed |
| `NoLogTooEarly` | SchedulerProofs | no cleanup deletes a log before its time (a part of `DueDone`) |
| `RulesAreKept`, `StagedRulesAreKept` | RulesProofs | rules in the database |
| `MemoryRulesAreKept` | RulesProofs | rules in memory |
| `CallsAreLimited == BackendSpec => []LimitsKept` | RulesProofs | buckets and Redis windows admit no more than the limit, and no less |
| `MemoryStaysBounded` | LogProofs | the array of the log buffer |
| `DropsAreTold == Spec => []DropsTold` | LogProofs | every drop is counted once, shutdown leaves nothing |
| `QueueRefined == Spec => QueueSpec` | LogProofs | RequestLog implements LogQueue |
| `RequestsAreToldTheTruth == LogsSpec => []RequestsTold` | LogProofs | answers, audit entries and counters say what was done |
| `BansTakeEffect == LogsSpec => BannedStop` | LogProofs | a ban stops requests that were let in before it |
| `ServingFindsItsRows == AroundSpec => []StartsRight` | AroundProofs | whoever serves finds its rows and its rules |
| `StartsTakeNothingBack` | AroundProofs | no start takes back what was written |
| `ChallengesAreKept == AroundSpec => []ChallengesKept` | AroundProofs | a challenge that earned a token is gone, tokens are bounded by the verifications that overlap, and what is lost unused was lost to an older challenge of the same agent |
| `CallersAreToldTheTruth == AroundSpec => []CallsTold` | AroundProofs | what the SDK tells its caller |
| `SettingsCanBeReadBack == AroundSpec => []FilesKept` | AroundProofs | settings and key file of the command line client |
| `ViewsShowWhatIsAsked == AroundSpec => []ViewsMatch` | AroundProofs | lists and drawers of the dashboard |
| `SnapshotsAreTrue == EngineSpec => []SnapshotsTrue` | AroundProofs | the engine's snapshots are what the rows say |
| `CommitsAreSerial == EngineSpec => CommitsSerial` | AroundProofs | no update is lost, but where the revision cannot tell |
| `DaysAreCounted == ReadsSpec => []DaysRight` | AroundProofs | the dashboard's days, in every zone |
| `AnswersAreResolutions == ReadsSpec => []DisputeRight` | AroundProofs | answers about a dispute |
| `PagesAreRight == ReadsSpec => []PagesRight` | AroundProofs | the pages of every listing, read while rows are written |

### Settlement

An invariant "in both tables" holds of the committed tables and after every step
of every transaction, with errors and crashes anywhere. None of the invariants is
inductive as it stands. Five inductive invariants were needed: `DisputeIInv`,
which `ReviewIInv` and `RowsIInv` extend, and `MoneyIInv` and `SolventIInv`, each of
which extends the one before.

`DisputeIInv` (SettlementProofs) is about rows that refer to each other.
Termination, expiry and sweeps must not touch the task of an open dispute; the
terminations that a ban forced are written back by a reopening, so what they name has
to stay terminated or clean; and the steps of a transaction rely on what earlier steps
established. It says

* `Good(db)`: the rows are typed (money aside), refer to existing rows, and
  satisfy the clauses of `DisputeBacked` and those needed to keep them;
* `Ready(work, tx)`: the same of the tables of the running transaction, with
  what each pending phase needs (`Prepared`) and the order of the phases
  (`Ordered`);
* `expired` only holds tasks, and when no transaction runs nothing is pending.

`ReviewIInv` adds what a running transaction may have done to each dispute and
submission since it began: for the refinement the committed state
changes at one instant, so a whole transaction, of any number of steps, has to lead
from each stage along one arrow at most. `DisputesBacked`, `DisputesAlwaysStand` and
`ReviewRefines` follow.

`RowsIInv` (MoneyProofs) adds `Agreeing` of both tables: the escrow is a whole number
of rewards also in what a rollback would write back (`Funded`: the snapshot of a
resolved dispute, the terminations it remembers), and each completion has its WORKER
row, each vote its VOTE row (`Matched`). Restoring a snapshot is why the plain
`EscrowBacked` is not inductive: what is written back is not what was there, it is
what has been remembered. `AllFit` says the same of the terminations that a reopening
is writing back.

`MoneyIInv` adds the amounts. `Booked`: amounts are integers, a
row that does not exist yet holds none, a forced termination is of a cycle that has
been opened. `Noted`: what the transaction has read (its pool, the splits before
a reopening) can be written back. And until a reopening
`Holdings(work) = Holdings(db)`: every single step conserves value, not only
the commit. The lemmas `...Moved` say of each helper of
Marketplace what flows between wallets, escrows and pools (`Flow`, `Transfer`).
That a termination's penalty and refund add up to the escrow needs that an escrow is
not negative, which `RowsIInv` says.

`SolventIInv` adds `Prudent` of both tables: no balance and no part of a pool below
zero, nothing paid out of the open cycle, no more than the pool out of a closed one.
A closing pays from a pool it has read before it swept and settled, so what it has
read has to stay covered until then
(`Ahead(tx, "settle") => tx.pool <= RewardPool(...)`); it does because
these steps only ever add to the pool. `MoneyConserved` needs no such thing
and holds with reopenings in between; a reopening itself is excluded because
the run `ReopenCreatesMoney` shows that it makes money.

`CloseInv` is about a closing under way. Its phases make work for each other (a
settlement bans a publisher, whose tasks have to be swept; a task is clean only when
its last dispute is settled), so no phase by itself clears anything for good.
`Closing(db, work, tx, stale, expired)` reads off what is left to do which phases have
run for the last time: once the second sweep is over no task can be swept, since
expiring tasks bans nobody; once the disputes are evaluated none that passes is open;
every stale submission is still in the transaction's set. The
lemmas `...Onwards` say of each helper that it takes nothing up again.

`DebtInv` is about a dispute that the running transaction has settled: the ban of its
parties is still scheduled (`BanAhead`), or they are not in debt or banned
(`DebtsFaced`). The lemmas `...Harmless` say of each helper that it brings nobody into
debt, because a wallet pays no more than it holds, and lifts no ban; reopening, which
does both, settles nothing.

TLC checked each of these invariants on the bounds of the Settlement runs before it was
proved.

Sums over sets are defined with a fold whose order is a CHOOSE. `AllocationProofs`
takes one set with the least number of elements for which a fact would fail
(`SmallestSubset`) in place of an induction theorem, and proves that a sum is a
number, does not depend on the order (`SumWithout`), and changes as its parts do
(`SumChange`, `SumAdded`, `SumSubset`, `SumScaled`). `PoolHandedOut` is about the
closed form of the split: the floors leave fewer units than there are agents
(`Quotient`), and exactly that many agents come first in the order of remainders
(`FirstCount`).

### The other components

`SchedulerProofs`: that the duration cannot change between the due check and the
commit is because both are under the row lock: `ClosingLocked` says that a run is
`closing` exactly while it has the row and that the clock it read was past the due
time. `SchedulerInv` is `TypeOK`, `LockReturned` and `ClosingLocked`. For
`RunsExclude` the runs without a lock are counted: each has cost a connection
(`Unprotected`), and the others hold the one lock.

For `LogsAreKept` three more invariants, which the jobs do not touch. `ProcessInv`: what
the process holds is in the order it was recorded, without repetition, and what it
misses is older than the latest horizon of its cleanups or has as many logs after it as
it may hold. `TablesInv`: what was too old when the cleanup started is gone, or is still
there for one of the deletions that are to come (`DueKept`), and the counter differs
from the jobs that ended by no more than the writes that failed.

`RulesProofs`: `RulesInv` adds `HolderOK` to `RulesKept`: what the holder of the lock
has written is valid too, and before it writes it sees the committed rules. Validity
itself is opaque to the proof: what matters is that every path to the table checks
the rules in force and the rules of the next cycle. `WrittenKeeps` is the one lemma
for all transactions that write. `StagedInv` says of the rule that is
followed that the holder's work keeps it as the committed row does. `MemoryInv` joins
what MemoryRules states itself. For `CallsAreLimited` with Redis, a window has used up no
more than its counter has counted, and what was counted is used up, waits for its
answer or was lost (`WindowOK`); that a counter is not forgotten while its window
is open on some clock rests on `LimitsAssumption`. With buckets, the least that the
rate has left for a client since any earlier time is compared with what is in the
bucket on the clock of the process (`Tracks`): it differs by no more than the clock was
set back, and by what it has yet to wait before it refills the bucket again.

`LogProofs`: `BufferInv` adds `Compacted`: after every operation less than half of
the array is consumed. For the drops and the refinement `LogIInv` numbers the logs as
they arrive. The array then ends with the latest (`Numbered`), a batch is a run of
numbers that nobody has given up (`IsBatch`), and what has left the buffer is written,
given up or in hand (`TakenOK`), so that a batch that fails adds exactly its length to
what was lost. `LoopOK` says that the flag and the flush agree, `WaitersOK` that at
most one flush and one `onClose` wait for a warning: the answer to it must not start a
second loop. `PhaseOK` is why shutdown is clean: once `onClose` has begun, a flush
that ends leaves an empty buffer, because nothing is appended any more. `Turned` and
`Flushed` are the lemmas for every way in which the loop goes on. The drops in
warnings under way are a sum over a sequence: `ToldAppend`, `ToldRemoved` and
`SumRenumbered`, which numbers what is left anew when one is removed from the middle.
TLC checked `LogIInv` with capacity 3, batches of 2 and 6 logs before it was proved.

`RequestProofs` proves of one instance of Requests what MCLogs needs of two.
`RequestsInv` relates the stage of a request to what has become of its write
(`Placed`, `Told`): before the write nothing is decided, and it had its effect once
exactly if it was done or its answer was lost. `Kept` says what the audit log has of a
request at each stage, `Pending` what it still waits to write there. As long as the
process has not died, the counters are cardinalities of sets of requests (`CountsInv`),
and a request moves between the sets in the step in which it is counted.

`AroundProofs`: one inductive invariant for each area, which the other areas leave alone
because they share no variable. `StartIInv`: what a process has got so far rests
on what was there when it got it, and rows and the index never go away. `SignIInv`:
challenges are given one after the other and what waits in the table is what was given
to that address last (`SignLast`, so that a challenge which the token of another one
removes is the younger of the two); every request that verifies a challenge may still earn one token for
it (`SignTokens`). `CallIInv`: the client has heard the end of every earlier attempt or
did not hear of it (`Over`), and no answer under way says other than what was applied.
`ListIInv`: the spinners tell which requests are under way, and the one for more fits
the list unless something has crossed it; `DrawerIInv` is about the effect of a
drawer. `FilesIInv`: a command that was alone (`AloneGood`) will write what can be
read back with the key it holds, whatever its stage, and between undisturbed commands
the files match what was set.

Its next part is about the snapshots, with any number of agents and calls of `mutate`.
`SnapshotInv` numbers the commits: whatever holds a snapshot of the n-th commit (the
process, a load half-way, a call that waits for its transaction, one that has committed)
holds what the rows say, as long as n is the last commit (`Current`), and what a call is
about to write is one operation on what it found (`FoundAndDone`). `DifferenceApplied`
is the lemma everything rests on: a difference from the snapshot of the rows, written
table by table in a scope that covers it, makes the rows those of the other snapshot,
with the derived columns right. It needs that the scope an operation names covers what
the operation changes (`OperationDone`). Time goes on by at most one millisecond
with each commit, so a revision is at most the number of its commit and one; where they are
equal no two commits have shared a millisecond, and an equal revision is then the same
commit. That is why the check misses an update only in the cases which `CommitsSerial`
names.

The last part is about readers. `AnswerInv`: as long as a dispute is decided, its votes
are those it was decided by, so whatever an answer has of them belongs to the same
round as its row, or the dispute has been reopened since. `DaysInv` says what a summary
has counted with the bounds or the key of its day (`TodayTold`, `DayTold`) and with its
cycle (`CycleTold`). That bounds and keys count the same is arithmetic: the first
instant of a day is one of two, one for each offset of the zone, and the search for it
(`MidnightIterated`) finds in four steps the one that clocks show once
(`MidnightRight`); what comes later has no smaller key (`AfterMidnight`); and the
bounds of a day are those of its neighbours (`MidnightsFollow`), so that no activity
is counted twice or not at all.

Pages are about sorted sequences. That a finite set in a total order can be sorted
(`SortedExists`, with the i-th row the one that i - 1 others precede) and in one way only
(`SortedUnique`) needs no induction. The ORDER BY, the WHERE of a cursor and the
comparison of arrays are all the order by key and row (`OrderIsPrior`, `WhereIsPrior`,
`DeltaIsPrior`), so both sides find the same sequence (`ItemsAreQuery`), and what follows a
cursor is the rest of it (`FollowingFrom`, `SortedRest`). `PageInv` is about a reader half-way:
the rows that have stayed as they were are in order among those delivered, and the cursor is
after them (`Tidy`); each of them has been delivered or is still after the cursor
(`Reached`); by a key that never changes the first holds of all rows (`Lasting`). In
`Lists` the sort is an operator of its own (`InOrder`) and not that of the community
modules, which the provers cannot expand.

### Only model-checked

* Liveness under fairness, and everything that needs ENABLED: `EveryCycleCloses`,
  `DueDone`, `AllEnds`, `StartsEnd`, `ClientRests`.
* `RoundsUndone`: `ReopenConserves` compares the splits of closed cycles with and
  without the work of a round.
* `ImplementsEngine`, for which each phase of a transaction would have to be compared
  with the fold in the engine's method.
* In `PoolSplit`, that nobody is off their share by a unit, that ties go by address, and
  that the loop, whose quotients are rounded, computes the closed form.
* That logs are settled (`Settled`, a part of `AllEnds`).
* `EngineSound`: the engine's methods are folds over the rows.
* `StandingEarned`: counters that are recounted from bags of activities.
* `TodosRight`, which compares both back ends' folds over the rows and says with ENABLED
  that each todo can be done.

## 5. Not modelled, and the plan

* Schemas of the contract (`packages/contracts`), the table of operations, the
  commands' arguments (`apps/cli/src/commands/spec.ts`), translations and
  presentational components: tables and rendering without state of their own.
* The queue of mutations without a repository: it runs one operation after the
  other, and Engine's actions are these.
* The validation of a response after the write was committed, which may answer 400
  for a write that was done; redaction and latency percentiles; the totals of the
  summary; the mapping of rows to answers.
* Profile texts, attachments, and the cooldown between submissions.
* The composite score and the vote weight computed from a profile: Settlement takes
  any weight.
* Agent skill documents, scripts, container set-up: documentation, demo data,
  declarations.

To be proved next: the quota of the split.
