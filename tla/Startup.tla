------------------------------- MODULE Startup -------------------------------
(***************************************************************************)
(* How the processes of a deployment start on one database: buildApp in    *)
(* apps/server/src/app.ts with ensureInitialized,                          *)
(* ensureRuntimeRulesInitialized and load of state-repository.ts.  An API  *)
(* process creates the index that guards open disputes, writes the first   *)
(* rows when it finds none and makes sure that there are rules; a worker   *)
(* only reads.  What fails while starting ends the process, and its        *)
(* supervisor starts it again.  Of the market only what the first rows     *)
(* touch is kept: the active cycle and the pools of the cycles.            *)
(***************************************************************************)
EXTENDS Integers

CONSTANTS
    Apis, WorkerProcesses,  \* the processes, by their role
    RuleSet,        \* rules, as a configuration or an administrator gives them
    MaxCycle,       \* cycles are closed up to this one,
    MaxWrites,      \* so many writes add to a pool,
    MaxUpdates,     \* so many replace the rules
    MaxStops        \* and processes fail or are stopped so often

VARIABLES
    pc,         \* where each process is
    guard,      \* its persistenceGuardsPromise
    current,    \* the rules it works with
    engine,     \* the cycle that was active when it loaded its snapshot
    index,      \* whether the unique index exists
    runtime,    \* activeCycleId of the RuntimeState row
    cycles,     \* the Cycle rows
    rules,      \* currentRules of the RuntimeRuleState row
    writes, updates, stops

vars == <<pc, guard, current, engine, index, runtime, cycles, rules, writes, updates, stops>>

Processes == Apis \cup WorkerProcesses

None == 0   \* no row

Starting == {"guards", "finding", "inserting", "rules", "loading"}

Goto(p, label) == pc' = [pc EXCEPT ![p] = label]

NoCycle == [status |-> "NONE", taxPool |-> 0]

NewCycle == [status |-> "OPEN", taxPool |-> 0]

Init ==
  /\ pc = [p \in Processes |-> "down"]
  /\ guard = [p \in Processes |-> "none"]
  /\ current \in [Processes -> RuleSet]
  /\ engine = [p \in Processes |-> None]
  /\ index = FALSE
  /\ runtime = None
  /\ cycles = [c \in 1..MaxCycle |-> NoCycle]
  /\ rules = None
  /\ writes = 0 /\ updates = 0 /\ stops = 0

-----------------------------------------------------------------------------

\* A process begins with the rules of its configuration.
Start(p) ==
  /\ pc[p] = "down"
  /\ \E r \in RuleSet : current' = [current EXCEPT ![p] = r]
  /\ guard' = [guard EXCEPT ![p] = "none"]
  /\ Goto(p, IF p \in Apis THEN "guards" ELSE "rules")
  /\ UNCHANGED <<engine, index, runtime, cycles, rules, writes, updates, stops>>

EnsureGuards(p) ==
  /\ pc[p] = "guards"
  /\ index' = TRUE
  /\ guard' = [guard EXCEPT ![p] = "done"]
  /\ Goto(p, "finding")
  /\ UNCHANGED <<current, engine, runtime, cycles, rules, writes, updates, stops>>

\* Fault: the row is not looked for.
FindNothing(p) ==
  /\ pc[p] = "finding"
  /\ Goto(p, "inserting")
  /\ UNCHANGED <<guard, current, engine, index, runtime, cycles, rules, writes, updates, stops>>

\* ensureInitialized: the transaction that finds no row goes on to insert it.
FindRuntime(p) ==
  /\ pc[p] = "finding"
  /\ Goto(p, IF runtime = None THEN "inserting" ELSE "rules")
  /\ UNCHANGED <<guard, current, engine, index, runtime, cycles, rules, writes, updates, stops>>

\* applySnapshotDiffWithTx from nothing: every row is an upsert, so what another
\* process has written since is overwritten.
ApplySnapshot(p) ==
  /\ pc[p] = "inserting"
  /\ runtime' = 1
  /\ cycles' = [cycles EXCEPT ![1] = NewCycle]
  /\ Goto(p, "rules")
  /\ UNCHANGED <<guard, current, engine, index, rules, writes, updates, stops>>

\* Fault: the process goes on with its own defaults.
KeepDefaults(p) ==
  /\ pc[p] = "rules" /\ p \in Apis
  /\ runtime # None
  /\ rules' = IF rules = None THEN current[p] ELSE rules
  /\ Goto(p, "loading")
  /\ UNCHANGED <<guard, current, engine, index, runtime, cycles, writes, updates, stops>>

\* ensureRuntimeRulesInitialized: the first process to come decides, and all
\* work with what the row says.
EnsureRules(p) ==
  /\ pc[p] = "rules" /\ p \in Apis
  /\ runtime # None
  /\ rules' = IF rules = None THEN current[p] ELSE rules
  /\ current' = [current EXCEPT ![p] = rules']
  /\ Goto(p, "loading")
  /\ UNCHANGED <<guard, engine, index, runtime, cycles, writes, updates, stops>>

\* A worker reads, and ends when there is nothing yet.
ReadRules(p) ==
  /\ pc[p] = "rules" /\ p \in WorkerProcesses
  /\ IF rules = None
       THEN Goto(p, "down") /\ UNCHANGED current
       ELSE Goto(p, "loading") /\ current' = [current EXCEPT ![p] = rules]
  /\ UNCHANGED <<guard, engine, index, runtime, cycles, rules, writes, updates, stops>>

Load(p) ==
  /\ pc[p] = "loading"
  /\ IF runtime = None /\ p \in WorkerProcesses
       THEN Goto(p, "down") /\ UNCHANGED engine
       ELSE Goto(p, "running") /\ engine' = [engine EXCEPT ![p] = runtime]
  /\ UNCHANGED <<guard, current, index, runtime, cycles, rules, writes, updates, stops>>

\* A statement of the start fails: the resources are closed and the error ends
\* the process.  A rejected persistenceGuardsPromise would be kept for ever.
StartFails(p) ==
  /\ pc[p] \in Starting /\ stops < MaxStops
  /\ Goto(p, "down")
  /\ guard' = [guard EXCEPT ![p] = IF pc[p] = "guards" THEN "rejected" ELSE @]
  /\ stops' = stops + 1
  /\ UNCHANGED <<current, engine, index, runtime, cycles, rules, writes, updates>>

Stop(p) ==
  /\ pc[p] = "running" /\ stops < MaxStops
  /\ Goto(p, "down")
  /\ stops' = stops + 1
  /\ UNCHANGED <<guard, current, engine, index, runtime, cycles, rules, writes, updates>>

-----------------------------------------------------------------------------

\* A settlement in the active cycle; mutateDirect reads the rules afresh.
Write(p) ==
  /\ pc[p] = "running" /\ p \in Apis
  /\ writes < MaxWrites
  /\ cycles' = [cycles EXCEPT ![runtime].taxPool = @ + 1]
  /\ current' = [current EXCEPT ![p] = rules]
  /\ writes' = writes + 1
  /\ UNCHANGED <<pc, guard, engine, index, runtime, rules, updates, stops>>

UpdateRules(p) ==
  /\ pc[p] = "running" /\ p \in Apis
  /\ updates < MaxUpdates
  /\ \E r \in RuleSet :
        /\ rules' = r
        /\ current' = [current EXCEPT ![p] = r]
  /\ updates' = updates + 1
  /\ UNCHANGED <<pc, guard, engine, index, runtime, cycles, writes, stops>>

\* The next cycle is created: were its row there already, the closing would fail.
CloseCycle(p) ==
  /\ pc[p] = "running" /\ p \in WorkerProcesses
  /\ runtime < MaxCycle
  /\ cycles[runtime + 1] = NoCycle
  /\ cycles' = [cycles EXCEPT ![runtime].status = "CLOSED", ![runtime + 1] = NewCycle]
  /\ runtime' = runtime + 1
  /\ current' = [current EXCEPT ![p] = rules]
  /\ UNCHANGED <<pc, guard, engine, index, rules, writes, updates, stops>>

\* What a process does by itself to get from "down" to "running".
Boot(p) ==
  \/ Start(p)
  \/ EnsureGuards(p)
  \/ FindRuntime(p)
  \/ ApplySnapshot(p)
  \/ EnsureRules(p)
  \/ ReadRules(p)
  \/ Load(p)

Next ==
  \E p \in Processes :
    \/ Boot(p)
    \/ StartFails(p) \/ Stop(p)
    \/ Write(p) \/ UpdateRules(p) \/ CloseCycle(p)

-----------------------------------------------------------------------------

Running(p) == pc[p] = "running"

\* Every variable has its type.
TypeOK ==
  /\ pc \in [Processes -> Starting \cup {"down", "running"}]
  /\ guard \in [Processes -> {"none", "done", "rejected"}]
  /\ current \in [Processes -> RuleSet]
  /\ engine \in [Processes -> 0..MaxCycle]
  /\ index \in BOOLEAN
  /\ runtime \in 0..MaxCycle
  /\ cycles \in [1..MaxCycle -> [status : {"NONE", "OPEN", "CLOSED"}, taxPool : 0..MaxWrites]]
  /\ rules \in RuleSet \cup {None}

\* A process that serves finds everything its writes rely on, and so does a
\* worker, which creates nothing and never asks for the index: the rows, the
\* active cycle among them, and the index.  No API process serves with a
\* rejected persistenceGuardsPromise, at which all its writes would fail.
Ready ==
  \A p \in Processes : Running(p) =>
    /\ index /\ rules # None /\ runtime # None
    /\ cycles[runtime] # NoCycle
    /\ engine[p] # None
    /\ p \in Apis => guard[p] = "done"

\* As long as no administrator has replaced the rules all processes work with
\* the same, whatever their configurations say and whoever came first.
OneRuleSet == updates = 0 => \A p \in Processes : Running(p) => current[p] = rules

\* The rows are there and nobody is about to insert them.
Settled == runtime # None /\ \A p \in Processes : pc[p] # "inserting"

\* From then on no process that starts takes anything back: no pool loses what
\* was added, no closed cycle is open again, and the active cycle stays.
NothingTakenBack ==
  Settled =>
    /\ Settled'
    /\ runtime' >= runtime
    /\ \A c \in 1..MaxCycle : cycles[c] # NoCycle =>
         /\ cycles'[c].taxPool >= cycles[c].taxPool
         /\ cycles[c].status = "CLOSED" => cycles'[c].status = "CLOSED"

\* The rules of the deployment are replaced by an administrator only, never by
\* the configuration of a process that starts later.
OnlyAdministrators == rules # None /\ rules' # rules => updates' > updates

\* Once nothing stops them any more, all processes come to run, those that
\* started on an empty database, lost a race for its rows or failed among them.
AllRun == <>[](\A p \in Processes : Running(p))
=============================================================================
