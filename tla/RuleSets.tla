------------------------------ MODULE RuleSets ------------------------------
(***************************************************************************)
(* Editable rules and patches to them (packages/config/src/index.ts): one  *)
(* rule on its own, mintPerCycle, and a group of weights that have to add   *)
(* up to WeightTotal.  A patch gives values to some of the rules.           *)
(***************************************************************************)
EXTENDS Integers, FiniteSets, FiniteSetsExt, Functions

CONSTANTS
  Mints,          \* values of mintPerCycle
  Weights,        \* the rules of one group of weights
  WeightTotal,    \* what the weights add up to
  PatchSizes      \* how many rules one patch may change

ASSUME RuleSetsAssumption ==
  /\ Mints \subseteq Nat
  /\ WeightTotal \in Nat
  /\ IsFiniteSet(Weights)
  /\ "mint" \notin Weights
  /\ PatchSizes \subseteq Nat \ {0}

Keys == Weights \cup {"mint"}

Values(k) == IF k = "mint" THEN Mints ELSE 0..WeightTotal

Sized(K) == {p \in [K -> Mints \cup 0..WeightTotal] : \A k \in K : p[k] \in Values(k)}

Rules == Sized(Keys)
Patches == UNION {Sized(K) : K \in {K \in SUBSET Keys : Cardinality(K) \in PatchSizes}}

NoPatch == [k \in {} |-> 0]

\* mergeRuntimeEditableRules
Merge(base, patch) ==
  [k \in DOMAIN base \cup DOMAIN patch |-> IF k \in DOMAIN patch THEN patch[k] ELSE base[k]]

\* diffRuntimeEditableRules
Diff(base, target) ==
  Restrict(target, {k \in DOMAIN target : target[k] # base[k]})

\* validateRuntimeEditableRules throws unless
Valid(rules) == FoldFunctionOnSet(+, 0, rules, Weights) = WeightTotal

\* The rules the process is started with; loading the configuration validates them.
Defaults == CHOOSE r \in Rules : Valid(r)

\* toRuntimeSettingsState: the rules of the next cycle.
NextRules(row) == Merge(row.current, row.pending)

-----------------------------------------------------------------------------
(* What administrators have asked of one rule for the next cycle, and whether *)
(* that rule was changed for the current cycle after that.                   *)

\* No value: what a missing field is, and a question that was not asked.
Nothing == -1

NothingAsked(key) == [key |-> key, value |-> Nothing, overruled |-> FALSE]

Stage(asked, patch) ==
  IF asked.key \in DOMAIN patch
  THEN [asked EXCEPT !.value = patch[asked.key], !.overruled = FALSE]
  ELSE asked

Overrule(asked, before, after) ==
  [asked EXCEPT !.overruled = @ \/ before[asked.key] # after[asked.key]]

Kept(asked, row) == asked.value \in {Nothing, NextRules(row)[asked.key]}
=============================================================================
