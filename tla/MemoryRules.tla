---------------------------- MODULE MemoryRules ----------------------------
(***************************************************************************)
(* The rules when there is no database (apps/server/src/app.ts): they are  *)
(* kept in runtimeSettingsState, and the engine reads them out of the      *)
(* configuration it was given.  One process, in which nothing happens in   *)
(* the middle of a handler, but a handler that throws takes nothing back.  *)
(***************************************************************************)
EXTENDS RuleSets

VARIABLES
  state,          \* runtimeSettingsState; nextRules is NextRules(state)
  config,         \* the rules in the configuration of the engine
  minted          \* mintedAmount of the open cycle

vars == <<state, config, minted>>

Init ==
  /\ state = [current |-> Defaults, pending |-> NoPatch]
  /\ config = Defaults
  /\ minted = Defaults["mint"]

Accepted(row) == Valid(row.current) /\ Valid(NextRules(row))

\* Fault: the configuration is not brought up to date.
SetStateOnly(row) == state' = row /\ UNCHANGED config

\* setRuntimeSettingsState installs the settings, then validates them, and
\* copies them to the configuration if that did not throw.
SetState(row) ==
  /\ state' = row
  /\ config' = IF Accepted(row) THEN row.current ELSE config

\* updateRuntimeSettings, applyTo = current
UpdateCurrent(patch) ==
  LET current == Merge(state.current, patch)
      row == [state EXCEPT !.current = current]
  IN /\ Valid(current)
     /\ minted' = IF "mint" \in DOMAIN patch THEN current["mint"] ELSE minted
     /\ SetState(row)

\* updateRuntimeSettings, applyTo = next
UpdateNext(patch) ==
  LET merged == Merge(NextRules(state), patch)
      row == [state EXCEPT !.pending = Diff(state.current, merged)]
  IN /\ Valid(merged)
     /\ SetState(row)
     /\ UNCHANGED minted

\* resetRuntimeSettings, applyTo = current: nothing stays pending.
ResetCurrent ==
  LET row == [current |-> Defaults, pending |-> NoPatch]
  IN /\ minted' = IF Defaults["mint"] # state.current["mint"] THEN Defaults["mint"] ELSE minted
     /\ SetState(row)

\* resetRuntimeSettings, applyTo = next
ResetNext ==
  LET row == [state EXCEPT !.pending = Diff(state.current, Defaults)]
  IN /\ SetState(row)
     /\ UNCHANGED minted

\* closeDueCycleOnce: the engine opens a cycle with the mint it finds in the
\* configuration, which was given that of the next rules before, and the
\* pending patch is applied after that.
Close ==
  LET next == NextRules(state)
  IN /\ minted' = next["mint"]
     /\ state' = [current |-> next, pending |-> NoPatch]
     /\ config' = IF state.pending # NoPatch /\ Valid(next)
                  THEN next
                  ELSE [config EXCEPT !["mint"] = next["mint"]]

\* The engine throws while it closes: the configuration keeps the next mint.
CloseFails ==
  /\ config' = [config EXCEPT !["mint"] = NextRules(state)["mint"]]
  /\ UNCHANGED <<state, minted>>

Next ==
  \/ \E patch \in Patches : UpdateCurrent(patch) \/ UpdateNext(patch)
  \/ ResetCurrent \/ ResetNext \/ Close \/ CloseFails

Spec == Init /\ [][Next]_vars

-----------------------------------------------------------------------------

\* Settings, configuration and mint have their types.
TypeOK ==
  /\ state.current \in Rules
  /\ DOMAIN state.pending \subseteq Keys
  /\ \A k \in DOMAIN state.pending : state.pending[k] \in Values(k)
  /\ config \in Rules
  /\ minted \in Mints

\* The open cycle mints what the rules in force say, also after a handler
\* threw half-way: the mint of the cycle, the settings and the configuration
\* are assigned at different places.
MintFollows == minted = state.current["mint"]

\* The engine works with the weights in force, unless the settings are such
\* that they were refused; the mint may be ahead after a closing that failed.
ConfigFollows ==
  Accepted(state) => \A k \in Weights : config[k] = state.current[k]
=============================================================================
