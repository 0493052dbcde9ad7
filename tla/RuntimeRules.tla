---------------------------- MODULE RuntimeRules ----------------------------
(***************************************************************************)
(* The rules in the database: RuntimeRuleState holds those in force and a  *)
(* patch for the next cycle.  Administrators update and reset them, a      *)
(* closing applies the patch, and settlements read the rules out of a copy *)
(* that all transactions of one process share (this.config), which each    *)
(* transaction refreshes under the row lock of RuntimeState                *)
(* (apps/server/src/infra/state-repository.ts).                            *)
(***************************************************************************)
EXTENDS RuleSets

CONSTANTS
  Processes,      \* API and worker processes
  Followed,       \* the rules of which what was asked is followed
  Requests,       \* transactions that may be under way
  None,           \* holder of a free row lock, process of no request
  MaxClosings     \* bound on closed cycles

ASSUME ProcessesAssumption ==
  /\ Processes # {}
  /\ Followed \subseteq Keys
  /\ None \notin Requests \cup Processes
  /\ MaxClosings \in Nat
  /\ \E r \in Rules : Valid(r)

VARIABLES
  rules,          \* the committed row of RuntimeRuleState
  minted,         \* mintedAmount of the open cycle
  closed,         \* how many cycles were closed
  config,         \* this.config of a process
  req,            \* what a request is about, and how far it is
  holder,         \* the request that has the row lock
  work,           \* rules and minted as the holder's transaction has written them,
                  \* the committed ones when it has written nothing
  asked           \* what was acknowledged about a rule, for the properties

vars == <<rules, minted, closed, config, req, holder, work, asked>>

Kinds == {"update", "reset", "settle", "close"}
Free == [step |-> "idle", kind |-> "settle", proc |-> None]

Init ==
  /\ rules = [current |-> Defaults, pending |-> NoPatch]
  /\ minted = Defaults["mint"]
  /\ closed = 0
  /\ config = [p \in Processes |-> Defaults]
  /\ req = [r \in Requests |-> Free]
  /\ holder = None
  /\ asked \in {NothingAsked(key) : key \in Followed}
  /\ work = [rules |-> rules, minted |-> minted, asked |-> asked]

-----------------------------------------------------------------------------

Goto(r, step) == req' = [req EXCEPT ![r].step = step]
InTx(r, kind) == holder = r /\ req[r].step = "locked" /\ req[r].kind = kind

\* A request opens its transaction and waits for the row.
Begin(r, p, kind) ==
  /\ req[r].step = "idle"
  /\ req' = [req EXCEPT ![r] = [step |-> "waiting", kind |-> kind, proc |-> p]]
  /\ UNCHANGED <<rules, minted, closed, config, holder, work, asked>>

\* Fault: the copy is not refreshed.
LockOnly(r) ==
  /\ req[r].step = "waiting"
  /\ holder = None
  /\ holder' = r
  /\ Goto(r, "locked")
  /\ UNCHANGED <<rules, minted, closed, config, work, asked>>

\* lockRuntimeWithTx: the row, then the rules, into the copy of the process.
Lock(r) ==
  /\ req[r].step = "waiting"
  /\ holder = None
  /\ holder' = r
  /\ config' = [config EXCEPT ![req[r].proc] = rules.current]
  /\ Goto(r, "locked")
  /\ UNCHANGED <<rules, minted, closed, work, asked>>

\* What the transaction writes; the returned settings are validated as well
\* (toRuntimeSettingsState), so that an invalid combination is rolled back.
Written(r, row, mint, wanted) ==
  /\ Valid(NextRules(row))
  /\ work' = [rules |-> row, minted |-> mint, asked |-> wanted]
  /\ Goto(r, "written")
  /\ UNCHANGED <<rules, minted, closed, holder, asked>>

\* updateRuntimeRulesDirect, applyTo = current
UpdateCurrent(r, patch) ==
  LET current == Merge(rules.current, patch)
  IN /\ InTx(r, "update")
     /\ Valid(current)
     /\ Written(r, [rules EXCEPT !.current = current],
                IF "mint" \in DOMAIN patch THEN current["mint"] ELSE minted,
                Overrule(asked, rules.current, current))
     /\ UNCHANGED config

\* Fault: a patch for the next cycle replaces the one before.
UpdateNextReplacing(r, patch) ==
  LET merged == Merge(rules.current, patch)
  IN /\ InTx(r, "update")
     /\ Valid(merged)
     /\ Written(r, [rules EXCEPT !.pending = Diff(rules.current, merged)], minted,
                Stage(asked, patch))
     /\ UNCHANGED config

\* updateRuntimeRulesDirect, applyTo = next
UpdateNext(r, patch) ==
  LET merged == Merge(NextRules(rules), patch)
  IN /\ InTx(r, "update")
     /\ Valid(merged)
     /\ Written(r, [rules EXCEPT !.pending = Diff(rules.current, merged)], minted,
                Stage(asked, patch))
     /\ UNCHANGED config

\* resetRuntimeRulesDirect, applyTo = current
ResetCurrent(r) ==
  /\ InTx(r, "reset")
  /\ Written(r, [rules EXCEPT !.current = Defaults],
             IF Defaults["mint"] # rules.current["mint"] THEN Defaults["mint"] ELSE minted,
             Overrule(asked, rules.current, Defaults))
  /\ UNCHANGED config

\* resetRuntimeRulesDirect, applyTo = next
ResetNext(r) ==
  /\ InTx(r, "reset")
  /\ Written(r, [rules EXCEPT !.pending = Diff(rules.current, Defaults)], minted,
             Stage(asked, Defaults))
  /\ UNCHANGED config

\* A settlement or a termination, which reads this.config.
Settle(r) ==
  /\ InTx(r, "settle")
  /\ Goto(r, "written")
  /\ UNCHANGED <<rules, minted, closed, config, holder, work, asked>>

\* Closing opens the next cycle with the mint of its rules and then applies
\* the pending patch, to the row and to the copy of the process.
Close(r) ==
  LET next == NextRules(rules)
  IN /\ InTx(r, "close")
     /\ closed < MaxClosings
     /\ Written(r, [current |-> next, pending |-> NoPatch], next["mint"],
                NothingAsked(asked.key))
     /\ config' = [config EXCEPT ![req[r].proc] = next]

Commit(r) ==
  /\ holder = r
  /\ req[r].step = "written"
  /\ rules' = work.rules
  /\ minted' = work.minted
  /\ asked' = work.asked
  /\ closed' = IF req[r].kind = "close" THEN closed + 1 ELSE closed
  /\ holder' = None
  /\ req' = [req EXCEPT ![r] = Free]
  /\ UNCHANGED <<config, work>>

\* An invalid patch, an error or a lost connection: the database forgets the
\* transaction, the copy of the process is not taken back.
Rollback(r) ==
  /\ holder = r
  /\ holder' = None
  /\ req' = [req EXCEPT ![r] = Free]
  /\ work' = [rules |-> rules, minted |-> minted, asked |-> asked]
  /\ UNCHANGED <<rules, minted, closed, config, asked>>

Next ==
  \E r \in Requests :
    \/ \E p \in Processes, kind \in Kinds : Begin(r, p, kind)
    \/ Lock(r)
    \/ \E patch \in Patches : UpdateCurrent(r, patch) \/ UpdateNext(r, patch)
    \/ ResetCurrent(r) \/ ResetNext(r) \/ Settle(r) \/ Close(r)
    \/ Commit(r) \/ Rollback(r)

Spec == Init /\ [][Next]_vars

-----------------------------------------------------------------------------

\* The row of the rules has a value for every rule and values for some of the
\* next cycle.
RowOK(row) ==
  /\ row.current \in Rules
  /\ DOMAIN row.pending \subseteq Keys
  /\ \A k \in DOMAIN row.pending : row.pending[k] \in Values(k)

\* Rows, copies and requests have their types.
TypeOK ==
  /\ RowOK(rules)
  /\ minted \in Mints
  /\ closed \in 0..MaxClosings
  /\ config \in [Processes -> Rules]
  /\ req \in [Requests -> [step : {"idle", "waiting", "locked", "written"},
                           kind : Kinds, proc : Processes \cup {None}]]
  /\ \A r \in Requests : req[r].proc = None <=> req[r].step = "idle"
  /\ holder \in Requests \cup {None}
  /\ RowOK(work.rules)

\* No order of updates, resets and closings leaves rules in force or rules for
\* the next cycle that validateRuntimeEditableRules would refuse, although the
\* pending patch was validated against rules that have been replaced since.
RulesValid == Valid(rules.current) /\ Valid(NextRules(rules))

\* The open cycle mints what the rules in force say, also when they were
\* changed after it was opened or when it was opened by applying a patch.
MintFollows == minted = rules.current["mint"]

\* Whoever has the row lock reads the rules in force out of the copy of its
\* process, whatever the other transactions of the process, finished or rolled
\* back, have left there.
FreshConfig ==
  \A r \in Requests :
    holder = r =>
      config[req[r].proc] = IF req[r].kind = "close" THEN work.rules.current
                                                     ELSE rules.current

\* The rules in force are valid, complete and the same for the cycle, the row and
\* every transaction, in whatever order requests of several processes are begun,
\* locked, written, committed and rolled back.
RulesKept == TypeOK /\ RulesValid /\ MintFollows /\ FreshConfig

\* What was acknowledged for the next cycle is what it will have, unless the
\* same rule was changed for the current cycle in between.
StagedKept == asked.overruled \/ Kept(asked, rules)
=============================================================================
