---------------------------- MODULE RulesProofs ----------------------------
(***************************************************************************)
(* What RuntimeRules and MemoryRules keep for every set of rules,          *)
(* processes and requests.                                                 *)
(***************************************************************************)
EXTENDS MCRules, AllocationProofs

\* A row with a value for every rule that is valid now and for the next cycle.
RowValid(row) == RowOK(row) /\ Valid(row.current) /\ Valid(NextRules(row))

\* What the holder of the row lock has written, and how far it may be.
HolderOK ==
  /\ RowValid(work.rules)
  /\ work.minted = work.rules.current["mint"]
  /\ \A r \in Requests :
       /\ req[r].step \in {"locked", "written"} <=> holder = r
       /\ req[r].step = "locked" => work.rules = rules
       /\ req[r].step = "written" /\ req[r].kind = "close" => closed < MaxClosings
  /\ holder = None => work.rules = rules

RulesInv == TypeOK /\ RulesValid /\ MintFollows /\ FreshConfig /\ HolderOK

-----------------------------------------------------------------------------
(* Rules and patches.                                                      *)

\* The rules a process starts with are rules, and valid.
LEMMA DefaultsValid == Defaults \in Rules /\ Valid(Defaults)
BY ProcessesAssumption DEF Defaults

\* Rules are changed by values of some of them.
LEMMA RulesTyped ==
  ASSUME NEW r
  PROVE  r \in Rules <=> /\ r = [k \in Keys |-> r[k]]
                         /\ \A k \in Keys : r[k] \in Values(k)
BY DEF Rules, Sized, Values, Keys

\* A patch, of a request or pending, has values for some of the rules.
LEMMA PatchesTyped ==
  ASSUME NEW patch \in Patches
  PROVE  /\ DOMAIN patch \subseteq Keys
         /\ \A k \in DOMAIN patch : patch[k] \in Values(k)
BY DEF Patches, Sized

\* Rules stay rules when values of some of them are replaced.
LEMMA MergeTyped ==
  ASSUME NEW r \in Rules, NEW patch, DOMAIN patch \subseteq Keys,
         \A k \in DOMAIN patch : patch[k] \in Values(k)
  PROVE  Merge(r, patch) \in Rules
<1>1. DOMAIN r = Keys /\ \A k \in Keys : r[k] \in Values(k)
  BY RulesTyped
<1>2. DOMAIN r \cup DOMAIN patch = Keys
  BY <1>1
<1>3. Merge(r, patch) = [k \in Keys |-> IF k \in DOMAIN patch THEN patch[k] ELSE r[k]]
  BY <1>2 DEF Merge
<1> QED
  BY <1>1, <1>3, RulesTyped

\* Merging nothing changes nothing.
LEMMA MergeNothing ==
  ASSUME NEW r \in Rules
  PROVE  Merge(r, NoPatch) = r
<1>1. r = [k \in Keys |-> r[k]]
  BY RulesTyped
<1>2. DOMAIN NoPatch = {}
  BY DEF NoPatch
<1>3. DOMAIN r \cup DOMAIN NoPatch = Keys
  BY <1>1, <1>2
<1>4. Merge(r, NoPatch) = [k \in Keys |-> r[k]]
  BY <1>2, <1>3 DEF Merge
<1> QED
  BY <1>1, <1>4

\* What rules differ in is a patch.
LEMMA DiffTyped ==
  ASSUME NEW r \in Rules, NEW t \in Rules
  PROVE  /\ DOMAIN Diff(r, t) \subseteq Keys
         /\ \A k \in DOMAIN Diff(r, t) : Diff(r, t)[k] \in Values(k)
<1>1. DOMAIN t = Keys /\ \A k \in Keys : t[k] \in Values(k)
  BY RulesTyped
<1> QED
  BY <1>1 DEF Diff, Restrict

\* The rules of the next cycle are rules.
LEMMA NextRulesTyped ==
  ASSUME NEW row, RowOK(row)
  PROVE  NextRules(row) \in Rules
BY MergeTyped DEF RowOK, NextRules

\* mintPerCycle is a mint.
LEMMA MintTyped ==
  ASSUME NEW r \in Rules
  PROVE  r["mint"] \in Mints
<1>1. "mint" \in Keys /\ Values("mint") = Mints
  BY DEF Keys, Values
<1> QED
  BY <1>1, RulesTyped

-----------------------------------------------------------------------------
(* The invariant, one lemma for all transactions that write rules.          *)

\* A process starts with valid rules, and the first cycle mints what they say.
LEMMA InitRulesInv == Init => RulesInv
<1> SUFFICES ASSUME Init PROVE RulesInv
  OBVIOUS
<1>1. rules.current = Defaults /\ rules.pending = NoPatch /\ work.rules = rules
  BY DEF Init
<1>2. RowOK(rules)
  BY <1>1, DefaultsValid DEF RowOK, NoPatch
<1>3. NextRules(rules) = Defaults
  BY <1>1, DefaultsValid, MergeNothing DEF NextRules
<1>4. TypeOK
  BY <1>1, <1>2, DefaultsValid, MintTyped, ProcessesAssumption
  DEF Init, TypeOK, Free, Kinds
<1>5. RulesValid /\ MintFollows
  BY <1>1, <1>3, DefaultsValid DEF Init, RulesValid, MintFollows
<1>6. HolderOK
  BY <1>1, <1>2, <1>3, DefaultsValid, ProcessesAssumption
  DEF Init, HolderOK, RowValid, Free
<1>7. FreshConfig
  BY ProcessesAssumption DEF Init, FreshConfig
<1> QED
  BY <1>4, <1>5, <1>6, <1>7 DEF RulesInv

\* Whatever a transaction writes, valid rules and the mint they ask for.
LEMMA WrittenKeeps ==
  ASSUME RulesInv, NEW r \in Requests, NEW row, NEW mint, NEW wanted,
         holder = r, req[r].step = "locked", Written(r, row, mint, wanted),
         RowOK(row), Valid(row.current), mint = row.current["mint"],
         IF req[r].kind = "close"
         THEN closed < MaxClosings /\ config' = [config EXCEPT ![req[r].proc] = row.current]
         ELSE config' = config
  PROVE  RulesInv'
<1> USE DEF RulesInv
<1>1. /\ work' = [rules |-> row, minted |-> mint, asked |-> wanted]
      /\ req' = [req EXCEPT ![r].step = "written"]
      /\ UNCHANGED <<rules, minted, closed, holder>>
      /\ Valid(NextRules(row))
  BY DEF Written, Goto
<1>2. row.current \in Rules
  BY DEF RowOK
<1>3. TypeOK'
  BY <1>1, <1>2 DEF TypeOK, RowOK
<1>4. RulesValid' /\ MintFollows'
  BY <1>1 DEF RulesValid, MintFollows
<1>5. RowValid(row) /\ holder # None
  BY <1>1, ProcessesAssumption DEF RowValid
<1>6. \A q \in Requests : req'[q] = IF q = r THEN [req[r] EXCEPT !.step = "written"] ELSE req[q]
  BY <1>1 DEF TypeOK
<1>7. req[r].kind \in Kinds /\ req[r].proc \in Processes /\ config \in [Processes -> Rules]
  BY DEF TypeOK
<1>8. req'[r].step = "written" /\ req'[r].kind = req[r].kind /\ req'[r].proc = req[r].proc
  BY <1>6 DEF TypeOK
<1>9. HolderOK'
  BY <1>1, <1>5, <1>6, <1>8 DEF HolderOK, RowValid
<1>10. FreshConfig'
  BY <1>1, <1>7, <1>8 DEF FreshConfig
<1> QED
  BY <1>3, <1>4, <1>9, <1>10

\* Every step of every request keeps the invariant.
LEMMA NextRulesInv == RulesInv /\ [Next]_vars => RulesInv'
<1> SUFFICES ASSUME RulesInv, [Next]_vars PROVE RulesInv'
  OBVIOUS
<1> USE DEF RulesInv
<1>r. /\ RowOK(rules) /\ rules.current \in Rules
      /\ Valid(rules.current) /\ Valid(NextRules(rules)) /\ NextRules(rules) \in Rules
      /\ minted = rules.current["mint"]
  BY NextRulesTyped DEF TypeOK, RulesValid, MintFollows, RowOK
<1>1. ASSUME NEW r \in Requests, NEW p \in Processes, NEW kind \in Kinds, Begin(r, p, kind)
      PROVE  RulesInv'
  <2> USE <1>1 DEF Begin
  <2>1. TypeOK'
    BY ProcessesAssumption DEF TypeOK
  <2>2. \A q \in Requests :
          req'[q] = IF q = r THEN [step |-> "waiting", kind |-> kind, proc |-> p] ELSE req[q]
    BY DEF TypeOK
  <2>3. HolderOK'
    BY <2>2 DEF HolderOK, RowValid
  <2>4. holder # r
    BY DEF HolderOK
  <2>5. FreshConfig'
    BY <2>2, <2>4 DEF FreshConfig
  <2> QED
    BY <2>1, <2>3, <2>5 DEF RulesValid, MintFollows
<1>2. ASSUME NEW r \in Requests, Lock(r) PROVE RulesInv'
  <2> USE <1>2 DEF Lock, Goto
  <2>1. TypeOK'
    BY <1>r DEF TypeOK
  <2>2. /\ \A q \in Requests :
             req'[q] = IF q = r THEN [req[r] EXCEPT !.step = "locked"] ELSE req[q]
        /\ req[r].proc \in Processes /\ config \in [Processes -> Rules]
    BY DEF TypeOK
  <2>3. work.rules = rules
    BY DEF HolderOK
  <2>4. req'[r].step = "locked" /\ req'[r].proc = req[r].proc
    BY <2>2 DEF TypeOK
  <2>5. \A q \in Requests : req[q].step \notin {"locked", "written"}
    BY ProcessesAssumption DEF HolderOK
  <2>6. HolderOK'
    BY <2>2, <2>3, <2>4, <2>5, ProcessesAssumption DEF HolderOK, RowValid
  <2>7. FreshConfig'
    BY <2>2, <2>3, <2>4 DEF FreshConfig
  <2> QED
    BY <2>1, <2>6, <2>7 DEF RulesValid, MintFollows
<1>3. ASSUME NEW r \in Requests, NEW patch \in Patches, UpdateCurrent(r, patch)
      PROVE  RulesInv'
  <2> DEFINE current == Merge(rules.current, patch)
             row == [rules EXCEPT !.current = current]
             mint == IF "mint" \in DOMAIN patch THEN current["mint"] ELSE minted
  <2>1. current \in Rules
    BY <1>r, PatchesTyped, MergeTyped
  <2>2. RowOK(row) /\ row.current = current
    BY <1>r, <2>1 DEF RowOK, TypeOK
  <2>3. mint = current["mint"]
    <3>1. "mint" \in Keys /\ DOMAIN rules.current = Keys
      BY <1>r, RulesTyped DEF Keys
    <3> QED
      BY <1>r, <3>1 DEF Merge
  <2> HIDE DEF mint
  <2>4. /\ holder = r /\ req[r].step = "locked" /\ req[r].kind = "update"
        /\ Valid(current) /\ config' = config
        /\ Written(r, row, mint, Overrule(asked, rules.current, current))
    BY <1>3 DEF UpdateCurrent, InTx, mint
  <2> QED
    BY <2>2, <2>3, <2>4, WrittenKeeps
<1>4. ASSUME NEW r \in Requests, NEW patch \in Patches, UpdateNext(r, patch)
      PROVE  RulesInv'
  <2> DEFINE merged == Merge(NextRules(rules), patch)
             row == [rules EXCEPT !.pending = Diff(rules.current, merged)]
  <2>1. merged \in Rules
    BY <1>r, PatchesTyped, MergeTyped
  <2>2. RowOK(row) /\ row.current = rules.current
    BY <1>r, <2>1, DiffTyped DEF RowOK
  <2>3. /\ holder = r /\ req[r].step = "locked" /\ req[r].kind = "update"
        /\ config' = config
        /\ Written(r, row, minted, Stage(asked, patch))
    BY <1>4 DEF UpdateNext, InTx
  <2> QED
    BY <1>r, <2>2, <2>3, WrittenKeeps
<1>5. ASSUME NEW r \in Requests, ResetCurrent(r) PROVE RulesInv'
  <2> DEFINE row == [rules EXCEPT !.current = Defaults]
             mint == IF Defaults["mint"] # rules.current["mint"] THEN Defaults["mint"] ELSE minted
  <2>1. RowOK(row) /\ row.current = Defaults
    BY <1>r, DefaultsValid DEF RowOK
  <2>2. mint = Defaults["mint"]
    BY <1>r
  <2> HIDE DEF mint
  <2>3. /\ holder = r /\ req[r].step = "locked" /\ req[r].kind = "reset"
        /\ config' = config
        /\ Written(r, row, mint, Overrule(asked, rules.current, Defaults))
    BY <1>5 DEF ResetCurrent, InTx, mint
  <2> QED
    BY <2>1, <2>2, <2>3, DefaultsValid, WrittenKeeps
<1>6. ASSUME NEW r \in Requests, ResetNext(r) PROVE RulesInv'
  <2> DEFINE row == [rules EXCEPT !.pending = Diff(rules.current, Defaults)]
  <2>1. RowOK(row) /\ row.current = rules.current
    BY <1>r, DefaultsValid, DiffTyped DEF RowOK
  <2>2. /\ holder = r /\ req[r].step = "locked" /\ req[r].kind = "reset"
        /\ config' = config
        /\ Written(r, row, minted, Stage(asked, Defaults))
    BY <1>6 DEF ResetNext, InTx
  <2> QED
    BY <1>r, <2>1, <2>2, WrittenKeeps
<1>7. ASSUME NEW r \in Requests, Settle(r) PROVE RulesInv'
  <2> USE <1>7 DEF Settle, InTx, Goto
  <2>1. TypeOK'
    BY DEF TypeOK
  <2>2. \A q \in Requests :
          req'[q] = IF q = r THEN [req[r] EXCEPT !.step = "written"] ELSE req[q]
    BY DEF TypeOK
  <2>3. req'[r].step = "written" /\ req'[r].kind = "settle" /\ req'[r].proc = req[r].proc
    BY <2>2 DEF TypeOK
  <2>4. HolderOK'
    BY <2>2, <2>3 DEF HolderOK, RowValid
  <2>5. FreshConfig'
    BY <2>2, <2>3 DEF FreshConfig
  <2> QED
    BY <2>1, <2>4, <2>5 DEF RulesValid, MintFollows
<1>8. ASSUME NEW r \in Requests, Close(r) PROVE RulesInv'
  <2> DEFINE next == NextRules(rules)
             row == [current |-> next, pending |-> NoPatch]
  <2>1. RowOK(row) /\ row.current = next
    BY <1>r DEF RowOK, NoPatch
  <2>2. /\ holder = r /\ req[r].step = "locked" /\ req[r].kind = "close"
        /\ closed < MaxClosings
        /\ config' = [config EXCEPT ![req[r].proc] = next]
        /\ Written(r, row, next["mint"], NothingAsked(asked.key))
    BY <1>8 DEF Close, InTx
  <2> QED
    BY <1>r, <2>1, <2>2, WrittenKeeps
<1>9. ASSUME NEW r \in Requests, Commit(r) PROVE RulesInv'
  <2> USE <1>9 DEF Commit
  <2>0. /\ RowValid(work.rules) /\ work.minted = work.rules.current["mint"]
        /\ req[r].kind = "close" => closed < MaxClosings
    BY DEF HolderOK
  <2>1. work.minted \in Mints
    BY <2>0, MintTyped DEF RowValid, RowOK
  <2>2. TypeOK'
    BY <2>0, <2>1, ProcessesAssumption DEF TypeOK, Free, Kinds
  <2>3. RulesValid' /\ MintFollows'
    BY <2>0 DEF RulesValid, MintFollows, RowValid
  <2>4. \A q \in Requests : req'[q] = IF q = r THEN Free ELSE req[q]
    BY DEF TypeOK
  <2>5. \A q \in Requests : req'[q].step \notin {"locked", "written"}
    <3>1. Free.step = "idle"
      BY DEF Free
    <3>2. \A q \in Requests : q # r => req[q].step \notin {"locked", "written"}
      BY DEF HolderOK
    <3> QED
      BY <2>4, <3>1, <3>2
  <2>7. HolderOK'
    <3>1. work'.rules = rules' /\ holder' = None /\ work' = work
      OBVIOUS
    <3>2. \A q \in Requests : holder' # q
      BY <3>1, ProcessesAssumption
    <3> QED
      BY <2>0, <2>5, <3>1, <3>2 DEF HolderOK, RowValid
  <2>6. FreshConfig'
    BY ProcessesAssumption DEF FreshConfig
  <2> QED
    BY <2>2, <2>3, <2>7, <2>6
<1>10. ASSUME NEW r \in Requests, Rollback(r) PROVE RulesInv'
  <2> USE <1>10 DEF Rollback
  <2>1. TypeOK'
    BY <1>r, ProcessesAssumption DEF TypeOK, Free, Kinds
  <2>2. \A q \in Requests : req'[q] = IF q = r THEN Free ELSE req[q]
    BY DEF TypeOK
  <2>3. \A q \in Requests : req'[q].step \notin {"locked", "written"}
    <3>1. Free.step = "idle"
      BY DEF Free
    <3>2. \A q \in Requests : q # r => req[q].step \notin {"locked", "written"}
      BY DEF HolderOK
    <3> QED
      BY <2>2, <3>1, <3>2
  <2>5. HolderOK'
    <3>1. work'.rules = rules' /\ work'.minted = minted' /\ holder' = None
      OBVIOUS
    <3>2. \A q \in Requests : holder' # q
      BY <3>1, ProcessesAssumption
    <3> QED
      BY <1>r, <2>3, <3>1, <3>2 DEF HolderOK, RowValid
  <2>4. FreshConfig'
    BY ProcessesAssumption DEF FreshConfig
  <2> QED
    BY <2>1, <2>4, <2>5 DEF RulesValid, MintFollows
<1>11. CASE UNCHANGED vars
  BY <1>11 DEF vars, TypeOK, RulesValid, MintFollows, FreshConfig, HolderOK, RowValid, RowOK
<1> QED
  BY <1>1, <1>2, <1>3, <1>4, <1>5, <1>6, <1>7, <1>8, <1>9, <1>10, <1>11 DEF Next

\* No order of updates, resets, closings and rollbacks stores rules that are invalid
\* now or would be when the pending patch is applied; the open cycle always mints
\* what the rules in force say; and a transaction under the row lock never reads
\* stale rules out of the copy that it shares with others of its process.
THEOREM RulesAreKept == Spec => []RulesKept
<1>1. Spec => []RulesInv
  BY InitRulesInv, NextRulesInv, PTL DEF Spec
<1>2. RulesInv => RulesKept
  BY DEF RulesInv, RulesKept
<1> QED
  BY <1>1, <1>2, PTL

-----------------------------------------------------------------------------
(* What was asked for the next cycle.                                      *)

\* What was asked of one rule, of which the row has what was asked of it.
StagedOK(a, row) ==
  /\ a = [key |-> a.key, value |-> a.value, overruled |-> a.overruled]
  /\ a.key \in Keys
  /\ a.overruled \in BOOLEAN
  /\ a.overruled \/ Kept(a, row)

StagedInv == RulesInv /\ StagedOK(asked, rules) /\ StagedOK(work.asked, work.rules)

\* The next cycle has the pending value of a rule, or else the one in force.
LEMMA NextValue ==
  ASSUME NEW row, RowOK(row), NEW k \in Keys
  PROVE  NextRules(row)[k] =
           IF k \in DOMAIN row.pending THEN row.pending[k] ELSE row.current[k]
<1>1. k \in DOMAIN row.current \cup DOMAIN row.pending
  BY RulesTyped DEF RowOK
<1> QED
  BY <1>1 DEF NextRules, Merge

\* Applying what target differs in from rules gives the target.
LEMMA NextAfterDiff ==
  ASSUME NEW r \in Rules, NEW t \in Rules, NEW k \in Keys
  PROVE  NextRules([current |-> r, pending |-> Diff(r, t)])[k] = t[k]
<1> DEFINE row == [current |-> r, pending |-> Diff(r, t)]
<1>1. RowOK(row)
  BY DiffTyped DEF RowOK
<1>2. NextRules(row)[k] = IF k \in DOMAIN Diff(r, t) THEN Diff(r, t)[k] ELSE r[k]
  BY <1>1, NextValue
<1>3. k \in DOMAIN t
  BY RulesTyped
<1>4. /\ DOMAIN Diff(r, t) = {j \in DOMAIN t : t[j] # r[j]}
      /\ \A j \in DOMAIN Diff(r, t) : Diff(r, t)[j] = t[j]
  BY DEF Diff, Restrict
<1> QED
  BY <1>2, <1>3, <1>4

\* Changing the rules in force overrules what was staged, or leaves the next cycle
\* with it.
LEMMA OverruledOrKept ==
  ASSUME RowOK(rules), StagedOK(asked, rules), NEW after \in Rules
  PROVE  StagedOK(Overrule(asked, rules.current, after), [rules EXCEPT !.current = after])
<1> DEFINE row == [rules EXCEPT !.current = after]
           a == Overrule(asked, rules.current, after)
<1>1. /\ a.key = asked.key /\ a.value = asked.value
      /\ a = [key |-> a.key, value |-> a.value, overruled |-> a.overruled]
      /\ a.overruled = (asked.overruled \/ rules.current[asked.key] # after[asked.key])
  BY DEF Overrule, StagedOK
<1>2. asked.key \in Keys /\ (asked.overruled \/ Kept(asked, rules))
  BY DEF StagedOK
<1>3. RowOK(row) /\ row.current = after /\ row.pending = rules.pending
  BY DEF RowOK
<1>4. CASE ~ a.overruled
  <2>1. rules.current[asked.key] = after[asked.key] /\ ~ asked.overruled
    BY <1>1, <1>4
  <2>2. NextRules(row)[asked.key] = NextRules(rules)[asked.key]
    <3>1. NextRules(row)[asked.key] =
            IF asked.key \in DOMAIN row.pending THEN row.pending[asked.key]
                                                ELSE row.current[asked.key]
      BY <1>2, <1>3, NextValue
    <3>2. NextRules(rules)[asked.key] =
            IF asked.key \in DOMAIN rules.pending THEN rules.pending[asked.key]
                                                  ELSE rules.current[asked.key]
      BY <1>2, NextValue
    <3> QED
      BY <1>3, <2>1, <3>1, <3>2
  <2>3. Kept(a, row)
    BY <1>1, <1>2, <2>1, <2>2 DEF Kept
  <2> QED
    BY <1>1, <1>2, <2>3 DEF StagedOK
<1>5. CASE a.overruled
  BY <1>1, <1>2, <1>5 DEF StagedOK
<1> QED
  BY <1>4, <1>5

\* Staging rules leaves the next cycle with them, and with what was asked of others.
LEMMA StagedThen ==
  ASSUME RowOK(rules), StagedOK(asked, rules), NEW merged \in Rules, NEW patch,
         \A k \in Keys :
           merged[k] = IF k \in DOMAIN patch THEN patch[k] ELSE NextRules(rules)[k]
  PROVE  StagedOK(Stage(asked, patch),
                  [rules EXCEPT !.pending = Diff(rules.current, merged)])
<1> DEFINE row == [rules EXCEPT !.pending = Diff(rules.current, merged)]
<1>1. asked.key \in Keys /\ (asked.overruled \/ Kept(asked, rules))
  BY DEF StagedOK
<1>2. /\ RowOK(row) /\ rules.current \in Rules
      /\ row.current = rules.current /\ row.pending = Diff(rules.current, merged)
  BY DiffTyped DEF RowOK
<1>3. NextRules(row)[asked.key] = merged[asked.key]
  <2> DEFINE plain == [current |-> rules.current, pending |-> Diff(rules.current, merged)]
  <2>1. NextRules(plain)[asked.key] = merged[asked.key]
    BY <1>1, <1>2, NextAfterDiff
  <2>2. NextRules(row) = NextRules(plain)
    BY <1>2 DEF NextRules
  <2> QED
    BY <2>1, <2>2
<1> HIDE DEF row
<1>4. CASE asked.key \in DOMAIN patch
  <2>1. merged[asked.key] = patch[asked.key]
    BY <1>1, <1>4
  <2>2. Stage(asked, patch) = [key |-> asked.key, value |-> patch[asked.key], overruled |-> FALSE]
    BY <1>4 DEF Stage, StagedOK
  <2> QED
    BY <1>1, <1>3, <2>1, <2>2 DEF StagedOK, Kept, row
<1>5. CASE asked.key \notin DOMAIN patch
  <2>1. Stage(asked, patch) = asked
    BY <1>5 DEF Stage
  <2>2. NextRules(row)[asked.key] = NextRules(rules)[asked.key]
    BY <1>1, <1>3, <1>5
  <2>3. Kept(asked, rules) => Kept(asked, row)
    BY <2>2 DEF Kept
  <2> QED
    BY <2>1, <2>3 DEF StagedOK, row
<1> QED
  BY <1>4, <1>5

\* Nothing is asked yet.
LEMMA NothingKept ==
  ASSUME NEW row, NEW k \in Keys
  PROVE  StagedOK(NothingAsked(k), row)
BY DEF StagedOK, NothingAsked, Kept

\* Every step of every request keeps what was acknowledged.
LEMMA NextStaged == StagedInv /\ [Next]_vars => StagedInv'
<1> SUFFICES ASSUME StagedInv, [Next]_vars PROVE StagedInv'
  OBVIOUS
<1>i. RulesInv /\ RulesInv' /\ StagedOK(asked, rules) /\ StagedOK(work.asked, work.rules)
  BY NextRulesInv DEF StagedInv
<1>r. /\ RowOK(rules) /\ rules.current \in Rules /\ NextRules(rules) \in Rules
      /\ asked.key \in Keys
  BY <1>i, NextRulesTyped DEF RulesInv, TypeOK, RowOK, StagedOK
<1>w. ASSUME NEW r \in Requests, NEW row, NEW mint, NEW wanted,
             Written(r, row, mint, wanted), StagedOK(wanted, row)
      PROVE  StagedInv'
  <2>1. /\ work'.asked = wanted /\ work'.rules = row
        /\ rules' = rules /\ asked' = asked
    BY <1>w DEF Written
  <2>2. StagedOK(asked', rules') /\ StagedOK(work'.asked, work'.rules)
    BY <1>i, <1>w, <2>1
  <2> QED
    BY <1>i, <2>2 DEF StagedInv, StagedOK, Kept, NextRules
<1>s. ASSUME UNCHANGED <<rules, asked, work>>
      PROVE  StagedInv'
  BY <1>i, <1>s DEF StagedInv, StagedOK, Kept, NextRules
<1>1. ASSUME NEW r \in Requests, NEW p \in Processes, NEW kind \in Kinds, Begin(r, p, kind)
      PROVE  StagedInv'
  BY <1>1, <1>s DEF Begin
<1>2. ASSUME NEW r \in Requests, Lock(r) PROVE StagedInv'
  BY <1>2, <1>s DEF Lock
<1>3. ASSUME NEW r \in Requests, NEW patch \in Patches, UpdateCurrent(r, patch)
      PROVE  StagedInv'
  <2> DEFINE current == Merge(rules.current, patch)
             row == [rules EXCEPT !.current = current]
             wanted == Overrule(asked, rules.current, current)
             mint == IF "mint" \in DOMAIN patch THEN current["mint"] ELSE minted
  <2>1. current \in Rules
    BY <1>r, PatchesTyped, MergeTyped
  <2>2. StagedOK(wanted, row)
    BY <1>i, <1>r, <2>1, OverruledOrKept
  <2>3. Written(r, row, mint, wanted)
    BY <1>3 DEF UpdateCurrent
  <2> HIDE DEF row, wanted, mint
  <2> QED
    BY <1>w, <2>2, <2>3
<1>4. ASSUME NEW r \in Requests, NEW patch \in Patches, UpdateNext(r, patch)
      PROVE  StagedInv'
  <2> DEFINE merged == Merge(NextRules(rules), patch)
             row == [rules EXCEPT !.pending = Diff(rules.current, merged)]
             wanted == Stage(asked, patch)
  <2>1. merged \in Rules
    BY <1>r, PatchesTyped, MergeTyped
  <2>2. ASSUME NEW k \in Keys
        PROVE  merged[k] = IF k \in DOMAIN patch THEN patch[k] ELSE NextRules(rules)[k]
    BY <1>r, RulesTyped DEF Merge
  <2>3. StagedOK(wanted, row)
    <3> HIDE DEF merged
    <3> QED
      BY <1>i, <1>r, <2>1, <2>2, StagedThen
  <2>4. Written(r, row, minted, wanted)
    BY <1>4 DEF UpdateNext
  <2> HIDE DEF row, wanted
  <2> QED
    BY <1>w, <2>3, <2>4
<1>5. ASSUME NEW r \in Requests, ResetCurrent(r) PROVE StagedInv'
  <2> DEFINE row == [rules EXCEPT !.current = Defaults]
             wanted == Overrule(asked, rules.current, Defaults)
             mint == IF Defaults["mint"] # rules.current["mint"] THEN Defaults["mint"] ELSE minted
  <2>1. StagedOK(wanted, row)
    BY <1>i, <1>r, DefaultsValid, OverruledOrKept
  <2>2. Written(r, row, mint, wanted)
    BY <1>5 DEF ResetCurrent
  <2> HIDE DEF row, wanted, mint
  <2> QED
    BY <1>w, <2>1, <2>2
<1>6. ASSUME NEW r \in Requests, ResetNext(r) PROVE StagedInv'
  <2> DEFINE row == [rules EXCEPT !.pending = Diff(rules.current, Defaults)]
             wanted == Stage(asked, Defaults)
  <2>1. \A k \in Keys : k \in DOMAIN Defaults
    BY DefaultsValid, RulesTyped
  <2>2. StagedOK(wanted, row)
    BY <1>i, <1>r, <2>1, DefaultsValid, StagedThen
  <2>3. Written(r, row, minted, wanted)
    BY <1>6 DEF ResetNext
  <2> HIDE DEF row, wanted
  <2> QED
    BY <1>w, <2>2, <2>3
<1>7. ASSUME NEW r \in Requests, Settle(r) PROVE StagedInv'
  BY <1>7, <1>s DEF Settle
<1>8. ASSUME NEW r \in Requests, Close(r) PROVE StagedInv'
  <2> DEFINE row == [current |-> NextRules(rules), pending |-> NoPatch]
             wanted == NothingAsked(asked.key)
             mint == NextRules(rules)["mint"]
  <2>1. StagedOK(wanted, row)
    BY <1>r, NothingKept
  <2>2. Written(r, row, mint, wanted)
    BY <1>8 DEF Close
  <2> HIDE DEF row, wanted, mint
  <2> QED
    BY <1>w, <2>1, <2>2
<1>9. ASSUME NEW r \in Requests, Commit(r) PROVE StagedInv'
  <2>1. rules' = work.rules /\ asked' = work.asked /\ work' = work
    BY <1>9 DEF Commit
  <2> QED
    BY <1>i, <2>1 DEF StagedInv, StagedOK, Kept, NextRules
<1>10. ASSUME NEW r \in Requests, Rollback(r) PROVE StagedInv'
  <2>1. rules' = rules /\ asked' = asked /\ work'.rules = rules /\ work'.asked = asked
    BY <1>10 DEF Rollback
  <2> QED
    BY <1>i, <2>1 DEF StagedInv, StagedOK, Kept, NextRules
<1>11. CASE UNCHANGED vars
  BY <1>11, <1>s DEF vars
<1> QED
  BY <1>1, <1>2, <1>3, <1>4, <1>5, <1>6, <1>7, <1>8, <1>9, <1>10, <1>11 DEF Next

\* What was acknowledged for the next cycle is what the next cycle will have, unless
\* the same rule was changed for the current cycle in between: an update of other
\* rules, in force or staged, or a rollback never takes it back, as
\* updateRuntimeRulesDirect merges with what is pending.
THEOREM StagedRulesAreKept == Spec => []StagedKept
<1>1. Init => StagedInv
  <2> SUFFICES ASSUME Init PROVE StagedInv
    OBVIOUS
  <2>1. PICK k \in Followed : asked = NothingAsked(k)
    BY DEF Init
  <2>2. k \in Keys /\ work.asked = asked /\ work.rules = rules
    BY ProcessesAssumption DEF Init
  <2> QED
    BY <2>1, <2>2, InitRulesInv, NothingKept DEF StagedInv
<1>2. Spec => []StagedInv
  BY <1>1, NextStaged, PTL DEF Spec
<1>3. StagedInv => StagedKept
  BY DEF StagedInv, StagedOK, StagedKept
<1> QED
  BY <1>2, <1>3, PTL

-----------------------------------------------------------------------------
(* Without a database.                                                     *)

MemoryInv == Memory!TypeOK /\ Memory!MintFollows /\ Memory!ConfigFollows

\* The rules that a process keeps itself are the same as those it would store.
LEMMA SameRules ==
  /\ Memory!Keys = Keys /\ Memory!Rules = Rules /\ Memory!Patches = Patches
  /\ Memory!Defaults = Defaults /\ Memory!NoPatch = NoPatch
  /\ \A k : Memory!Values(k) = Values(k)
  /\ \A r : Memory!Valid(r) = Valid(r)
  /\ \A row : Memory!NextRules(row) = NextRules(row)
  /\ \A r, t : Memory!Merge(r, t) = Merge(r, t) /\ Memory!Diff(r, t) = Diff(r, t)
<1>1. Memory!Keys = Keys /\ Memory!NoPatch = NoPatch /\ \A k : Memory!Values(k) = Values(k)
  BY DEF Memory!Keys, Keys, Memory!Values, Values, Memory!NoPatch, NoPatch
<1>2. \A K : Memory!Sized(K) = Sized(K)
  BY <1>1 DEF Memory!Sized, Sized
<1>3. Memory!Rules = Rules /\ Memory!Patches = Patches
  BY <1>1, <1>2 DEF Memory!Rules, Rules, Memory!Patches, Patches,
                    Memory!Cardinality, Cardinality
<1>4. \A r : Memory!Valid(r) = Valid(r)
  BY DEF Memory!Valid, Valid, Memory!FoldFunctionOnSet, FoldFunctionOnSet,
         Memory!MapThenFoldSet, MapThenFoldSet
<1>5. Memory!Defaults = Defaults
  BY <1>3, <1>4 DEF Memory!Defaults, Defaults
<1>6. \A r, t : Memory!Merge(r, t) = Merge(r, t) /\ Memory!Diff(r, t) = Diff(r, t)
  BY DEF Memory!Merge, Merge, Memory!Diff, Diff, Memory!Restrict, Restrict
<1>7. \A row : Memory!NextRules(row) = NextRules(row)
  BY <1>6 DEF Memory!NextRules, NextRules
<1> QED
  BY <1>1, <1>3, <1>4, <1>5, <1>6, <1>7

\* The settings of a process are rules and a patch, as a row of the table is.
LEMMA MemoryTyped ==
  Memory!TypeOK <=> RowOK(runtimeSettings) /\ engineConfig \in Rules /\ engineMinted \in Mints
BY SameRules DEF Memory!TypeOK, RowOK

\* Replacing the mint leaves rules, and every weight.
LEMMA MintReplaced ==
  ASSUME NEW r \in Rules, NEW m \in Mints
  PROVE  /\ [r EXCEPT !["mint"] = m] \in Rules
         /\ \A k \in Weights : [r EXCEPT !["mint"] = m][k] = r[k]
<1> DEFINE t == [r EXCEPT !["mint"] = m]
<1>1. r = [k \in Keys |-> r[k]] /\ \A k \in Keys : r[k] \in Values(k)
  BY RulesTyped
<1>2. "mint" \in Keys /\ Weights \subseteq Keys /\ "mint" \notin Weights
  BY RuleSetsAssumption DEF Keys
<1>3. t = [k \in Keys |-> IF k = "mint" THEN m ELSE r[k]]
  BY <1>1, <1>2
<1>4. t = [k \in Keys |-> t[k]] /\ \A k \in Keys : t[k] \in Values(k)
  BY <1>1, <1>3 DEF Values
<1>5. t \in Rules
  BY <1>4, RulesTyped
<1> QED
  BY <1>2, <1>3, <1>5

\* The configuration has the weights of settings that are installed, or the settings
\* are refused.
LEMMA SetStateKeeps ==
  ASSUME MemoryInv, NEW row, RowOK(row), Memory!SetState(row),
         engineMinted' = row.current["mint"]
  PROVE  MemoryInv'
<1>1. row.current \in Rules
  BY DEF RowOK
<1>2. runtimeSettings' = row
      /\ engineConfig' = IF Memory!Accepted(row) THEN row.current ELSE engineConfig
  BY DEF Memory!SetState
<1>3. engineConfig' \in Rules /\ engineMinted' \in Mints
  BY <1>1, <1>2, MemoryTyped, MintTyped DEF MemoryInv
<1>4. Memory!TypeOK'
  BY <1>2, <1>3, SameRules DEF Memory!TypeOK, RowOK
<1>5. Memory!ConfigFollows'
  BY <1>2 DEF Memory!ConfigFollows, Memory!Accepted, Memory!NextRules, Memory!Merge
<1> QED
  BY <1>2, <1>4, <1>5 DEF MemoryInv, Memory!MintFollows

\* Every handler keeps the mint, the settings and the configuration together.
LEMMA NextMemoryInv == MemoryInv /\ Memory!Next => MemoryInv'
<1> SUFFICES ASSUME MemoryInv, Memory!Next PROVE MemoryInv'
  OBVIOUS
<1>r. /\ RowOK(runtimeSettings) /\ runtimeSettings.current \in Rules
      /\ NextRules(runtimeSettings) \in Rules
      /\ engineConfig \in Rules /\ engineMinted = runtimeSettings.current["mint"]
  BY MemoryTyped, NextRulesTyped DEF MemoryInv, Memory!MintFollows, RowOK
<1>1. ASSUME NEW patch \in Patches, Memory!UpdateCurrent(patch) PROVE MemoryInv'
  <2> DEFINE current == Merge(runtimeSettings.current, patch)
             row == [runtimeSettings EXCEPT !.current = current]
  <2>1. current \in Rules
    BY <1>r, PatchesTyped, MergeTyped
  <2>2. RowOK(row) /\ row.current = current
    BY <1>r, <2>1 DEF RowOK
  <2>3. /\ engineMinted' = IF "mint" \in DOMAIN patch THEN current["mint"] ELSE engineMinted
        /\ Memory!SetState(row)
    BY <1>1, SameRules DEF Memory!UpdateCurrent
  <2>4. engineMinted' = current["mint"]
    <3>1. "mint" \in Keys /\ DOMAIN runtimeSettings.current = Keys
      BY <1>r, RulesTyped DEF Keys
    <3> QED
      BY <1>r, <2>3, <3>1 DEF Merge
  <2> QED
    BY <2>2, <2>3, <2>4, SetStateKeeps
<1>2. ASSUME NEW patch \in Patches, Memory!UpdateNext(patch) PROVE MemoryInv'
  <2> DEFINE merged == Merge(NextRules(runtimeSettings), patch)
             row == [runtimeSettings EXCEPT !.pending = Diff(runtimeSettings.current, merged)]
  <2>1. merged \in Rules
    BY <1>r, PatchesTyped, MergeTyped
  <2>2. RowOK(row) /\ row.current = runtimeSettings.current
    BY <1>r, <2>1, DiffTyped DEF RowOK
  <2>3. Memory!SetState(row) /\ engineMinted' = engineMinted
    BY <1>2, SameRules DEF Memory!UpdateNext
  <2> QED
    BY <1>r, <2>2, <2>3, SetStateKeeps
<1>3. ASSUME Memory!ResetCurrent PROVE MemoryInv'
  <2> DEFINE row == [current |-> Defaults, pending |-> NoPatch]
  <2>1. RowOK(row) /\ row.current = Defaults
    BY DefaultsValid DEF RowOK, NoPatch
  <2>2. Memory!SetState(row) /\ engineMinted' = Defaults["mint"]
    BY <1>3, <1>r, SameRules DEF Memory!ResetCurrent
  <2> QED
    BY <2>1, <2>2, SetStateKeeps
<1>4. ASSUME Memory!ResetNext PROVE MemoryInv'
  <2> DEFINE row == [runtimeSettings EXCEPT !.pending = Diff(runtimeSettings.current, Defaults)]
  <2>1. RowOK(row) /\ row.current = runtimeSettings.current
    BY <1>r, DefaultsValid, DiffTyped DEF RowOK
  <2>2. Memory!SetState(row) /\ engineMinted' = engineMinted
    BY <1>4, SameRules DEF Memory!ResetNext
  <2> QED
    BY <1>r, <2>1, <2>2, SetStateKeeps
<1>5. ASSUME Memory!Close PROVE MemoryInv'
  <2> DEFINE next == NextRules(runtimeSettings)
             row == [current |-> next, pending |-> NoPatch]
  <2>1. RowOK(row)
    BY <1>r DEF RowOK, NoPatch
  <2>2. /\ engineMinted' = next["mint"] /\ runtimeSettings' = row
        /\ engineConfig' = IF runtimeSettings.pending # NoPatch /\ Valid(next)
                           THEN next
                           ELSE [engineConfig EXCEPT !["mint"] = next["mint"]]
    BY <1>5, SameRules DEF Memory!Close
  <2>3. next["mint"] \in Mints
    BY <1>r, MintTyped
  <2>4. engineConfig' \in Rules
    BY <1>r, <2>2, <2>3, MintReplaced
  <2>5. Memory!TypeOK'
    BY <2>1, <2>2, <2>3, <2>4, SameRules DEF Memory!TypeOK, RowOK
  <2>6. CASE runtimeSettings.pending # NoPatch
    <3>1. Valid(next) => engineConfig' = next
      BY <2>2, <2>6
    <3>2. Memory!ConfigFollows'
      BY <2>2, <3>1, SameRules DEF Memory!ConfigFollows, Memory!Accepted
    <3> QED
      BY <2>2, <2>5, <3>2 DEF MemoryInv, Memory!MintFollows
  <2>7. CASE runtimeSettings.pending = NoPatch
    <3>1. next = runtimeSettings.current
      BY <1>r, <2>7, MergeNothing DEF NextRules
    <3>2. \A k \in Weights : engineConfig'[k] = engineConfig[k]
      BY <1>r, <2>2, <2>3, <2>7, MintReplaced
    <3>3. Valid(next) => \A k \in Weights : engineConfig[k] = next[k]
      BY <3>1, SameRules DEF MemoryInv, Memory!ConfigFollows, Memory!Accepted
    <3>4. Memory!ConfigFollows'
      BY <2>2, <3>2, <3>3, SameRules DEF Memory!ConfigFollows, Memory!Accepted
    <3> QED
      BY <2>2, <2>5, <3>4 DEF MemoryInv, Memory!MintFollows
  <2> QED
    BY <2>6, <2>7
<1>6. ASSUME Memory!CloseFails PROVE MemoryInv'
  <2> DEFINE mint == NextRules(runtimeSettings)["mint"]
  <2>1. mint \in Mints
    BY <1>r, MintTyped
  <2>2. /\ engineConfig' = [engineConfig EXCEPT !["mint"] = mint]
        /\ runtimeSettings' = runtimeSettings /\ engineMinted' = engineMinted
    BY <1>6, SameRules DEF Memory!CloseFails
  <2>3. engineConfig' \in Rules /\ \A k \in Weights : engineConfig'[k] = engineConfig[k]
    BY <1>r, <2>1, <2>2, MintReplaced
  <2>4. Memory!TypeOK' /\ Memory!MintFollows'
    BY <2>2, <2>3, SameRules DEF MemoryInv, Memory!TypeOK, Memory!MintFollows
  <2>5. Memory!ConfigFollows'
    BY <2>2, <2>3 DEF MemoryInv, Memory!ConfigFollows, Memory!Accepted, Memory!NextRules,
                      Memory!Merge
  <2> QED
    BY <2>4, <2>5 DEF MemoryInv
<1> QED
  BY <1>1, <1>2, <1>3, <1>4, <1>5, <1>6, SameRules DEF Memory!Next

\* Without a database, too, the open cycle mints what the rules in force say, and
\* the engine works with the weights in force unless the settings were refused after
\* they had been installed, whatever handler throws half-way (setRuntimeSettingsState
\* and closeDueCycleOnce in apps/server/src/app.ts).
THEOREM MemoryRulesAreKept == BackendSpec => []MemoryRulesKept
<1> DEFINE Step == (Stored \/ InMemory \/ Limits) /\ UNCHANGED area
<1>1. BackendInit => MemoryInv
  <2> SUFFICES ASSUME Memory!Init PROVE MemoryInv
    BY DEF BackendInit
  <2>1. /\ runtimeSettings = [current |-> Defaults, pending |-> NoPatch]
        /\ engineConfig = Defaults /\ engineMinted = Defaults["mint"]
    BY SameRules DEF Memory!Init
  <2>2. RowOK(runtimeSettings)
    BY <2>1, DefaultsValid DEF RowOK, NoPatch
  <2>3. engineMinted \in Mints /\ engineConfig \in Rules
    BY <2>1, DefaultsValid, MintTyped
  <2>4. Memory!TypeOK
    BY <2>2, <2>3, MemoryTyped
  <2> QED
    BY <2>1, <2>4 DEF MemoryInv, Memory!MintFollows, Memory!ConfigFollows
<1>2. MemoryInv /\ [Step]_<<vars, memoryVars, limitVars, area>> => MemoryInv'
  <2> SUFFICES ASSUME MemoryInv, [Step]_<<vars, memoryVars, limitVars, area>>
               PROVE  MemoryInv'
    OBVIOUS
  <2>1. CASE InMemory
    BY <2>1, NextMemoryInv DEF InMemory
  <2>2. CASE UNCHANGED memoryVars
    BY <2>2 DEF memoryVars, MemoryInv, Memory!TypeOK, Memory!MintFollows,
                Memory!ConfigFollows, Memory!Accepted, Memory!NextRules, Memory!Merge
  <2> QED
    BY <2>1, <2>2 DEF Stored, Limits
<1>3. MemoryInv => MemoryRulesKept
  BY DEF MemoryInv, MemoryRulesKept
<1> QED
  BY <1>1, <1>2, <1>3, PTL DEF BackendSpec

-----------------------------------------------------------------------------
(* The limits of calls: the windows of Redis.                              *)

CounterRows == [count : 0..(Limiting!capacity + 1),
                expiresAt : {Limiting!Never} \cup 0..(MaxClock + Expiry)]

CallRows == {Limiting!NoCall} \cup [window : Limiting!Windows, count : 1..(Limiting!capacity + 1)]

ClocksTyped == time \in 0..MaxClock /\ ahead \in [ApiProcesses -> 0..MaxAhead]

WindowsTyped ==
  /\ counters \in [Limiting!Windows -> CounterRows]
  /\ counting \in [ApiProcesses -> CallRows]
  /\ within \in [Limiting!Windows -> Nat] /\ lost \in [Limiting!Windows -> Nat]

Opens(w) == w * PerMinute
Closes(w) == Opens(w) + PerMinute

\* The calls of window w that were counted in time and wait for their answer,
\* and what is used up of its capacity with them.
InFlight(w) ==
  {q \in ApiProcesses : counting[q].window = w /\ counting[q].count <= Limiting!capacity}

Used(w) == within[w] + Cardinality(InFlight(w))

\* A counter that is still needed was never forgotten, so nothing is used but
\* what it has counted; and what it has counted is used, or was lost.
WindowOK(w) ==
  /\ Used(w) <= Limiting!capacity
  /\ time < Closes(w) => Used(w) <= counters[w].count
  /\ counters[w].expiresAt # Limiting!Never => Closes(w) <= counters[w].expiresAt
  /\ Used(w) + lost[w] < Limiting!capacity => counters[w].count <= Used(w) + lost[w]
  /\ \A q \in ApiProcesses :
       counting[q].window = w /\ counting[q].count > Limiting!capacity
         => Used(w) + lost[w] >= Limiting!capacity
  /\ counters[w].count > 0 /\ counters[w].expiresAt = Limiting!Never =>
       \/ lost[w] > 0
       \/ \E q \in ApiProcesses : counting[q].window = w /\ counting[q].count = 1

\* A call is not counted long before its window opens.
CallsOpen ==
  \A q \in ApiProcesses : counting[q] # Limiting!NoCall => Opens(counting[q].window) <= time + MaxAhead

WindowsInv ==
  /\ ClocksTyped /\ WindowsTyped /\ CallsOpen
  /\ \A w \in Limiting!Windows : WindowOK(w)

LEMMA LimitsTyped ==
  /\ Limiting!capacity \in Nat /\ Limiting!capacity > 0
  /\ PerMinute \in Nat \ {0} /\ Expiry \in Nat /\ MaxAhead \in Nat /\ MaxClock \in Nat
  /\ PerMinute + MaxAhead <= Expiry
  /\ IsFiniteSet(ApiProcesses)
  /\ \A w \in Limiting!Windows : w \in Nat /\ Opens(w) \in Nat /\ Closes(w) \in Nat
  /\ Limiting!Never = -1
BY LimitsAssumption DEF Limiting!capacity, Limiting!Windows, Opens, Closes, Limiting!Never

\* The window of a process is open on its clock.
LEMMA WindowOpen ==
  ASSUME ClocksTyped, NEW p \in ApiProcesses
  PROVE  /\ Limiting!Window(p) \in Limiting!Windows
         /\ Opens(Limiting!Window(p)) <= Limiting!Clock(p)
         /\ Limiting!Clock(p) < Closes(Limiting!Window(p))
         /\ Limiting!Clock(p) \in time..(time + MaxAhead)
<1> DEFINE c == Limiting!Clock(p)
           last == MaxClock + MaxAhead
           w == c \div PerMinute
           m == last \div PerMinute
<1>0. /\ time \in 0..MaxClock /\ ahead[p] \in 0..MaxAhead
      /\ MaxClock \in Nat /\ MaxAhead \in Nat /\ PerMinute \in Nat \ {0}
  BY LimitsAssumption DEF ClocksTyped
<1>1. /\ c \in Nat /\ last \in Nat /\ c <= last
      /\ c \in time..(time + MaxAhead)
  BY <1>0 DEF Limiting!Clock
<1> HIDE DEF c, last
<1>2. /\ w \in Nat /\ c % PerMinute \in 0..(PerMinute - 1) /\ c = PerMinute * w + (c % PerMinute)
  BY <1>0, <1>1, Quotient
<1>3. /\ m \in Nat /\ last % PerMinute \in 0..(PerMinute - 1) /\ last = PerMinute * m + (last % PerMinute)
  BY <1>0, <1>1, Quotient
<1> HIDE DEF w, m
<1>4. PerMinute * w <= c /\ c < PerMinute * w + PerMinute
  BY <1>0, <1>1, <1>2
<1>5. last < PerMinute * m + PerMinute
  BY <1>0, <1>1, <1>3
<1>6. w <= m
  <2> SUFFICES ASSUME w >= m + 1 PROVE FALSE
    BY <1>2, <1>3
  <2>1. PerMinute * w >= PerMinute * (m + 1)
    BY <1>0, <1>2, <1>3
  <2>2. PerMinute * (m + 1) = PerMinute * m + PerMinute
    BY <1>0, <1>3
  <2>3. PerMinute * w \in Nat /\ PerMinute * m \in Nat /\ PerMinute * (m + 1) \in Nat
    BY <1>0, <1>2, <1>3
  <2> QED
    BY <1>0, <1>1, <1>4, <1>5, <2>1, <2>2, <2>3
<1>7. w \in 0..m
  BY <1>2, <1>3, <1>6
<1>8. w * PerMinute = PerMinute * w
  BY <1>0, <1>2
<1> QED
  BY <1>1, <1>4, <1>7, <1>8 DEF w, m, c, last, Limiting!Window, Limiting!Windows, Opens, Closes

\* Calls of some of the processes are counted.
LEMMA SomeProcesses ==
  ASSUME NEW S, S \subseteq ApiProcesses
  PROVE  /\ IsFiniteSet(S) /\ Cardinality(S) \in Nat
         /\ \A p \in ApiProcesses : p \notin S => Cardinality(S \cup {p}) = Cardinality(S) + 1
         /\ \A p \in S : Cardinality(S \ {p}) = Cardinality(S) - 1
<1>1. IsFiniteSet(S)
  BY LimitsAssumption, FS_Subset
<1> QED
  BY <1>1, FS_CardinalityType, FS_AddElement, FS_RemoveElement

\* Nothing is used before the first call.
LEMMA WindowsInit == Limiting!Init => WindowsInv
<1> SUFFICES ASSUME Limiting!Init PROVE WindowsInv
  OBVIOUS
<1>1. /\ time = 0 /\ ahead \in [ApiProcesses -> 0..MaxAhead]
      /\ counters = [w \in Limiting!Windows |-> [count |-> 0, expiresAt |-> Limiting!Never]]
      /\ counting = [p \in ApiProcesses |-> Limiting!NoCall]
      /\ within = [w \in Limiting!Windows |-> 0]
      /\ lost = [w \in Limiting!Windows |-> 0]
  BY DEF Limiting!Init, Limiting!Unused
<1>2. ClocksTyped
  BY <1>1, LimitsTyped DEF ClocksTyped
<1>3. WindowsTyped
  BY <1>1, LimitsTyped DEF WindowsTyped, CounterRows, CallRows
<1>4. CallsOpen
  BY <1>1 DEF CallsOpen
<1>5. ASSUME NEW w \in Limiting!Windows PROVE WindowOK(w)
  <2>1. InFlight(w) = {}
    BY <1>1, LimitsTyped DEF InFlight, Limiting!NoCall
  <2>2. Used(w) = 0
    BY <1>1, <2>1, FS_EmptySet DEF Used
  <2>3. counters[w].count = 0 /\ counters[w].expiresAt = Limiting!Never /\ lost[w] = 0
    BY <1>1
  <2>4. \A q \in ApiProcesses : counting[q].window # w
    BY <1>1, LimitsTyped DEF Limiting!NoCall
  <2> QED
    BY <2>2, <2>3, <2>4, LimitsTyped DEF WindowOK
<1> QED
  BY <1>2, <1>3, <1>4, <1>5 DEF WindowsInv

\* A call that arrives is counted in the window that is open on its clock.
LEMMA IncrementKeeps ==
  ASSUME WindowsInv, NEW p \in ApiProcesses, Limiting!Increment(p)
  PROVE  WindowsInv'
<1>w. PICK w : w = Limiting!Window(p)
  OBVIOUS
<1> DEFINE c == counters[w].count + 1
<1>0. w \in Limiting!Windows /\ Opens(w) <= time + MaxAhead /\ time < Closes(w)
  <2>1. ClocksTyped /\ time \in Nat
    BY LimitsTyped DEF WindowsInv, ClocksTyped
  <2>2. w \in Limiting!Windows /\ Opens(w) \in Nat /\ Closes(w) \in Nat
    BY <1>w, <2>1, WindowOpen, LimitsTyped
  <2> QED
    BY <1>w, <2>1, <2>2, WindowOpen, LimitsTyped
<1>1. /\ counting[p] = Limiting!NoCall /\ counters[w].count <= Limiting!capacity
      /\ counters' = [counters EXCEPT ![w].count = c]
      /\ counting' = [counting EXCEPT ![p] = [window |-> w, count |-> c]]
      /\ UNCHANGED <<time, ahead, within, lost>>
  BY <1>w DEF Limiting!Increment
<1>2. WindowsTyped /\ ClocksTyped /\ CallsOpen /\ \A v \in Limiting!Windows : WindowOK(v)
  BY DEF WindowsInv
<1>3. counters[w] \in CounterRows /\ counters[w].count \in 0..Limiting!capacity /\ c \in 1..(Limiting!capacity + 1)
  <2>1. counters[w] \in CounterRows
    BY <1>0, <1>2 DEF WindowsTyped
  <2>2. counters[w].count \in Nat
    BY <2>1, LimitsTyped DEF CounterRows
  <2> QED
    BY <1>1, <2>1, <2>2, LimitsTyped
<1> HIDE DEF c
<1>4. /\ counters'[w] = [counters[w] EXCEPT !.count = c]
      /\ \A v \in Limiting!Windows : v # w => counters'[v] = counters[v]
  BY <1>0, <1>1, <1>2 DEF WindowsTyped
<1>5. counters'[w].count = c /\ counters'[w].expiresAt = counters[w].expiresAt
  BY <1>3, <1>4 DEF CounterRows
<1>6. /\ counting'[p] = [window |-> w, count |-> c]
      /\ \A q \in ApiProcesses : q # p => counting'[q] = counting[q]
  BY <1>1, <1>2 DEF WindowsTyped
<1>7. counting'[p].window = w /\ counting'[p].count = c
  BY <1>6
<1>8. WindowsTyped'
  <2>1. counters'[w] \in CounterRows
    BY <1>3, <1>4, LimitsTyped DEF CounterRows
  <2>2. counters' \in [Limiting!Windows -> CounterRows]
    BY <1>1, <1>2, <1>4, <2>1 DEF WindowsTyped
  <2>3. counting'[p] \in CallRows
    BY <1>0, <1>3, <1>6 DEF CallRows
  <2>4. counting' \in [ApiProcesses -> CallRows]
    BY <1>1, <1>2, <1>6, <2>3 DEF WindowsTyped
  <2>5. /\ within' = within /\ lost' = lost
        /\ within \in [Limiting!Windows -> Nat] /\ lost \in [Limiting!Windows -> Nat]
    BY <1>1, <1>2 DEF WindowsTyped
  <2>6. Limiting!Windows' = Limiting!Windows /\ CounterRows' = CounterRows /\ CallRows' = CallRows
    BY DEF Limiting!Windows, CounterRows, CallRows, Limiting!capacity, Limiting!Never, Limiting!NoCall
  <2> QED
    BY <2>2, <2>4, <2>5, <2>6 DEF WindowsTyped
<1>9. CallsOpen' /\ ClocksTyped'
  BY <1>0, <1>1, <1>2, <1>6, <1>7 DEF CallsOpen, ClocksTyped
<1>10. p \notin InFlight(w) /\ InFlight(w) \subseteq ApiProcesses
  BY <1>0, <1>1, LimitsTyped DEF InFlight, Limiting!NoCall
<1>11. ASSUME NEW v \in Limiting!Windows, v # w PROVE WindowOK(v)'
  <2>1. InFlight(v)' = InFlight(v)
    BY <1>0, <1>1, <1>6, <1>7, <1>11, LimitsTyped DEF InFlight, Limiting!NoCall
  <2>2. Used(v)' = Used(v)
    BY <1>1, <2>1 DEF Used
  <2>3. \A q \in ApiProcesses : counting'[q].window = v => counting'[q] = counting[q]
    BY <1>6, <1>7, <1>11
  <2>4. \A q \in ApiProcesses : counting[q].window = v => counting'[q] = counting[q]
    BY <1>1, <1>6, <1>11, LimitsTyped DEF Limiting!NoCall
  <2>5. counters'[v] = counters[v] /\ lost'[v] = lost[v] /\ time' = time
    BY <1>1, <1>4, <1>11
  <2>6. WindowOK(v)
    BY <1>2
  <2> QED
    BY <2>2, <2>3, <2>4, <2>5, <2>6 DEF WindowOK, Limiting!capacity, Limiting!Never, Closes, Opens
<1>12. WindowOK(w)'
  <2> DEFINE cap == Limiting!capacity
             used == Used(w)
             more == Used(w)'
  <2>1. within[w] \in Nat /\ lost[w] \in Nat /\ Cardinality(InFlight(w)) \in Nat
    BY <1>0, <1>2, <1>10, SomeProcesses DEF WindowsTyped
  <2>2. used \in Nat /\ cap \in Nat /\ cap' = cap /\ Limiting!Never' = Limiting!Never
    BY <2>1, LimitsTyped DEF Used, Limiting!capacity, Limiting!Never
  <2>3. c <= cap => InFlight(w)' = InFlight(w) \cup {p}
    BY <1>6, <1>7, <2>2 DEF InFlight
  <2>4. ~(c <= cap) => InFlight(w)' = InFlight(w)
    BY <1>6, <1>7, <1>10, <2>2 DEF InFlight
  <2>5. c <= cap => more = used + 1
    <3> SUFFICES ASSUME c <= cap PROVE more = used + 1
      OBVIOUS
    <3>1. Cardinality(InFlight(w) \cup {p}) = Cardinality(InFlight(w)) + 1
      BY <1>10, SomeProcesses
    <3>2. more = within[w] + Cardinality(InFlight(w) \cup {p})
      BY <1>1, <2>3 DEF Used
    <3> QED
      BY <2>1, <3>1, <3>2 DEF Used
  <2>6. ~(c <= cap) => more = used
    BY <1>1, <2>4 DEF Used
  <2>7. /\ used <= cap /\ (time < Closes(w) => used <= counters[w].count)
        /\ (counters[w].expiresAt # Limiting!Never => Closes(w) <= counters[w].expiresAt)
        /\ (used + lost[w] < cap => counters[w].count <= used + lost[w])
        /\ \A q \in ApiProcesses :
             counting[q].window = w /\ counting[q].count > cap => used + lost[w] >= cap
        /\ (counters[w].count > 0 /\ counters[w].expiresAt = Limiting!Never =>
              \/ lost[w] > 0
              \/ \E q \in ApiProcesses : counting[q].window = w /\ counting[q].count = 1)
    BY <1>0, <1>2 DEF WindowOK
  <2> DEFINE n == counters[w].count
  <2>8. n \in Nat /\ n <= cap /\ c = n + 1 /\ used <= n
    BY <1>0, <1>3, <2>2, <2>7 DEF c
  <2> HIDE DEF cap, used, more, n
  <2>9. more \in Nat /\ more <= cap /\ more <= c /\ more >= used
    BY <2>2, <2>5, <2>6, <2>7, <2>8
  <2>10. more + lost[w] < cap => c <= more + lost[w]
    BY <2>1, <2>2, <2>5, <2>6, <2>7, <2>8 DEF n
  <2>11. ASSUME NEW q \in ApiProcesses, counting'[q].window = w, counting'[q].count > cap
         PROVE  more + lost[w] >= cap
    <3>1. ASSUME q = p PROVE more + lost[w] >= cap
      BY <1>7, <2>1, <2>2, <2>6, <2>7, <2>8, <2>11, <3>1 DEF n
    <3>2. ASSUME q # p PROVE more + lost[w] >= cap
      BY <1>6, <2>1, <2>2, <2>7, <2>9, <2>11, <3>2
    <3> QED
      BY <3>1, <3>2
  <2>12. counters[w].expiresAt = Limiting!Never =>
           \/ lost[w] > 0
           \/ \E q \in ApiProcesses : counting'[q].window = w /\ counting'[q].count = 1
    <3>1. ASSUME n = 0 PROVE c = 1
      BY <2>8, <3>1
    <3>2. ASSUME n > 0 PROVE \A q \in ApiProcesses : counting[q].window = w => q # p
      BY <1>0, <1>1, LimitsTyped DEF Limiting!NoCall
    <3> QED
      BY <1>6, <1>7, <2>7, <2>8, <3>1, <3>2 DEF n
  <2>13. time' = time /\ lost' = lost /\ Closes(w)' = Closes(w)
    BY <1>1 DEF Closes, Opens
  <2>14. /\ more <= cap
         /\ time < Closes(w) => more <= c
         /\ counters[w].expiresAt # Limiting!Never => Closes(w) <= counters[w].expiresAt
         /\ more + lost[w] < cap => c <= more + lost[w]
         /\ \A q \in ApiProcesses :
              counting'[q].window = w /\ counting'[q].count > cap => more + lost[w] >= cap
         /\ c > 0 /\ counters[w].expiresAt = Limiting!Never =>
              \/ lost[w] > 0
              \/ \E q \in ApiProcesses : counting'[q].window = w /\ counting'[q].count = 1
    BY <2>7, <2>9, <2>10, <2>11, <2>12
  <2> QED
    BY <1>5, <2>2, <2>13, <2>14 DEF WindowOK, more, cap
<1> QED
  BY <1>8, <1>9, <1>11, <1>12 DEF WindowsInv, Limiting!Windows

\* The call that is answered was counted in a window, and holds one call of its
\* capacity unless it is refused.
LEMMA CallTaken ==
  ASSUME WindowsInv, NEW p \in ApiProcesses, counting[p] # Limiting!NoCall,
         counting' = [counting EXCEPT ![p] = Limiting!NoCall]
  PROVE  /\ counting[p] \in [window : Limiting!Windows, count : 1..(Limiting!capacity + 1)]
         /\ counting' \in [ApiProcesses -> CallRows]
         /\ Opens(counting[p].window) <= time + MaxAhead
         /\ \A q \in ApiProcesses : q # p => counting'[q] = counting[q]
         /\ \A q \in ApiProcesses, v \in Limiting!Windows : counting'[q].window = v => q # p
         /\ \A v \in Limiting!Windows :
              /\ Used(v) \in Nat /\ Cardinality(InFlight(v)) \in Nat
              /\ Cardinality(InFlight(v)') =
                   IF counting[p].window = v /\ counting[p].count <= Limiting!capacity
                     THEN Cardinality(InFlight(v)) - 1 ELSE Cardinality(InFlight(v))
<1>1. /\ counting \in [ApiProcesses -> CallRows] /\ within \in [Limiting!Windows -> Nat]
      /\ CallsOpen
  BY DEF WindowsInv, WindowsTyped
<1>2. counting[p] \in CallRows
  BY <1>1
<1>3. counting[p] \in [window : Limiting!Windows, count : 1..(Limiting!capacity + 1)]
  BY <1>2 DEF CallRows
<1>4. Opens(counting[p].window) <= time + MaxAhead
  BY <1>1 DEF CallsOpen
<1>5. /\ counting'[p] = Limiting!NoCall
      /\ \A q \in ApiProcesses : q # p => counting'[q] = counting[q]
  BY <1>1
<1>6. \A q \in ApiProcesses, v \in Limiting!Windows : counting'[q].window = v => q # p
  BY <1>5, LimitsTyped DEF Limiting!NoCall
<1>7. counting' \in [ApiProcesses -> CallRows]
  BY <1>1 DEF CallRows
<1>8. ASSUME NEW v \in Limiting!Windows
      PROVE  /\ Used(v) \in Nat /\ Cardinality(InFlight(v)) \in Nat
             /\ Cardinality(InFlight(v)') =
                  IF counting[p].window = v /\ counting[p].count <= Limiting!capacity
                    THEN Cardinality(InFlight(v)) - 1 ELSE Cardinality(InFlight(v))
  <2>1. InFlight(v) \subseteq ApiProcesses
    BY DEF InFlight
  <2>2. Cardinality(InFlight(v)) \in Nat /\ within[v] \in Nat
    BY <1>1, <2>1, SomeProcesses
  <2>3. InFlight(v)' = InFlight(v) \ {p}
    BY <1>5, <1>6 DEF InFlight, Limiting!capacity
  <2>4. p \in InFlight(v) <=> counting[p].window = v /\ counting[p].count <= Limiting!capacity
    BY DEF InFlight
  <2>5. p \in InFlight(v) => Cardinality(InFlight(v) \ {p}) = Cardinality(InFlight(v)) - 1
    BY <2>1, SomeProcesses
  <2>6. p \notin InFlight(v) => InFlight(v) \ {p} = InFlight(v)
    OBVIOUS
  <2>7. Used(v) \in Nat
    BY <2>2 DEF Used
  <2>8. Cardinality(InFlight(v)') =
          IF p \in InFlight(v) THEN Cardinality(InFlight(v)) - 1 ELSE Cardinality(InFlight(v))
    BY <2>3, <2>5, <2>6
  <2> QED
    BY <2>2, <2>4, <2>7, <2>8
<1> QED
  BY <1>3, <1>4, <1>5, <1>6, <1>7, <1>8

\* A call that is answered keeps what it used if it is admitted, and the first of
\* a window lets its counter expire, but not before the window closes everywhere.
LEMMA AnswerKeeps ==
  ASSUME WindowsInv, NEW p \in ApiProcesses, Limiting!AnswerCall(p)
  PROVE  WindowsInv'
<1>w. PICK w : w = counting[p].window
  OBVIOUS
<1>n. PICK n : n = counting[p].count
  OBVIOUS
<1> DEFINE cap == Limiting!capacity
           Expires == n = 1 /\ counters[w] # Limiting!Unused
<1>1. /\ counting[p] # Limiting!NoCall
      /\ counting' = [counting EXCEPT ![p] = Limiting!NoCall]
      /\ UNCHANGED <<time, ahead, lost>>
  BY DEF Limiting!AnswerCall
<1>2. /\ counters' = IF Expires THEN [counters EXCEPT ![w].expiresAt = time + Expiry] ELSE counters
      /\ within' = IF n <= cap THEN [within EXCEPT ![w] = @ + 1] ELSE within
  BY <1>w, <1>n DEF Limiting!AnswerCall, Limiting!Expire, Limiting!Admits
<1>3. WindowsTyped /\ ClocksTyped /\ CallsOpen /\ \A v \in Limiting!Windows : WindowOK(v)
  BY DEF WindowsInv
<1>4. /\ w \in Limiting!Windows /\ n \in 1..(cap + 1) /\ Opens(w) <= time + MaxAhead
      /\ counting' \in [ApiProcesses -> CallRows]
      /\ \A q \in ApiProcesses : q # p => counting'[q] = counting[q]
      /\ \A q \in ApiProcesses, v \in Limiting!Windows : counting'[q].window = v => q # p
      /\ \A v \in Limiting!Windows :
           /\ Used(v) \in Nat /\ Cardinality(InFlight(v)) \in Nat
           /\ Cardinality(InFlight(v)') =
                IF w = v /\ n <= cap THEN Cardinality(InFlight(v)) - 1 ELSE Cardinality(InFlight(v))
  BY <1>w, <1>n, <1>1, CallTaken
<1> HIDE DEF Expires, cap
<1>5. ASSUME NEW v \in Limiting!Windows
      PROVE  within'[v] \in Nat /\ Used(v)' = Used(v)
  <2>1. within[v] \in Nat /\ within \in [Limiting!Windows -> Nat]
    BY <1>3 DEF WindowsTyped
  <2>2. within'[v] = IF w = v /\ n <= cap THEN within[v] + 1 ELSE within[v]
    BY <1>2, <1>4, <2>1
  <2>3. /\ Cardinality(InFlight(v)) \in Nat
        /\ Cardinality(InFlight(v)') =
                IF w = v /\ n <= cap THEN Cardinality(InFlight(v)) - 1 ELSE Cardinality(InFlight(v))
    BY <1>4
  <2> DEFINE a == within[v]
             b == Cardinality(InFlight(v))
             a1 == within'[v]
             b1 == Cardinality(InFlight(v)')
  <2>4. a1 \in Nat /\ a1 + b1 = a + b
    <3> HIDE DEF a, b, a1, b1
    <3>1. /\ a \in Nat /\ b \in Nat
          /\ a1 = IF w = v /\ n <= cap THEN a + 1 ELSE a
          /\ b1 = IF w = v /\ n <= cap THEN b - 1 ELSE b
      BY <2>1, <2>2, <2>3 DEF a, b, a1, b1
    <3> QED
      BY <3>1
  <2> QED
    BY <2>4 DEF Used
<1>6. ASSUME NEW v \in Limiting!Windows
      PROVE  /\ counters'[v] \in CounterRows /\ counters'[v].count = counters[v].count
             /\ \/ counters'[v].expiresAt = counters[v].expiresAt /\ ~(v = w /\ Expires)
                \/ v = w /\ counters'[v].expiresAt = time + Expiry
  <2>1. counters \in [Limiting!Windows -> CounterRows] /\ counters[v] \in CounterRows
    BY <1>3 DEF WindowsTyped
  <2>2. time + Expiry \in 0..(MaxClock + Expiry)
    BY <1>3, LimitsTyped DEF ClocksTyped
  <2>3. ASSUME v = w, Expires PROVE counters'[v] = [counters[v] EXCEPT !.expiresAt = time + Expiry]
    BY <1>2, <2>1, <2>3
  <2>4. ASSUME ~(v = w /\ Expires) PROVE counters'[v] = counters[v]
    BY <1>2, <2>1, <2>4
  <2>5. [counters[v] EXCEPT !.expiresAt = time + Expiry] \in CounterRows
    BY <2>1, <2>2 DEF CounterRows
  <2>6. /\ [counters[v] EXCEPT !.expiresAt = time + Expiry].count = counters[v].count
        /\ [counters[v] EXCEPT !.expiresAt = time + Expiry].expiresAt = time + Expiry
    BY <2>1 DEF CounterRows
  <2> QED
    BY <2>1, <2>3, <2>4, <2>5, <2>6
<1>7. WindowsTyped'
  <2>1. counters' \in [Limiting!Windows -> CounterRows]
    <3>1. counters' = [v \in Limiting!Windows |-> counters'[v]]
      BY <1>2, <1>3 DEF WindowsTyped
    <3> QED
      BY <1>6, <3>1
  <2>2. within' \in [Limiting!Windows -> Nat]
    <3>1. within' = [v \in Limiting!Windows |-> within'[v]]
      BY <1>2, <1>3 DEF WindowsTyped
    <3> QED
      BY <1>5, <3>1
  <2>3. lost' = lost /\ lost \in [Limiting!Windows -> Nat]
    BY <1>1, <1>3 DEF WindowsTyped
  <2>4. Limiting!Windows' = Limiting!Windows /\ CounterRows' = CounterRows /\ CallRows' = CallRows
    BY DEF Limiting!Windows, CounterRows, CallRows, Limiting!capacity, Limiting!Never, Limiting!NoCall
  <2> QED
    BY <1>4, <2>1, <2>2, <2>3, <2>4 DEF WindowsTyped
<1>8. CallsOpen' /\ ClocksTyped'
  <2>1. \A q \in ApiProcesses : counting'[q] # Limiting!NoCall => counting'[q] = counting[q]
    BY <1>1, <1>3, <1>4 DEF WindowsTyped
  <2> QED
    BY <1>1, <1>3, <2>1 DEF CallsOpen, ClocksTyped, Limiting!NoCall, Opens, Limiting!Never
<1>9. ASSUME NEW v \in Limiting!Windows PROVE WindowOK(v)'
  <2>1. WindowOK(v) /\ Used(v)' = Used(v) /\ lost' = lost /\ time' = time
    BY <1>1, <1>3, <1>5
  <2>2. \A q \in ApiProcesses : counting'[q].window = v => counting'[q] = counting[q]
    BY <1>4
  <2>3. counters'[v].expiresAt # Limiting!Never => Closes(v) <= counters'[v].expiresAt
    <3>1. ASSUME counters'[v].expiresAt = counters[v].expiresAt
          PROVE  counters'[v].expiresAt # Limiting!Never => Closes(v) <= counters'[v].expiresAt
      BY <2>1, <3>1 DEF WindowOK
    <3>2. ASSUME v = w, counters'[v].expiresAt = time + Expiry
          PROVE  Closes(v) <= counters'[v].expiresAt
      <4>1. /\ time \in Nat /\ Opens(w) \in Nat /\ Opens(w) <= time + MaxAhead
            /\ PerMinute \in Nat /\ Expiry \in Nat /\ MaxAhead \in Nat
            /\ PerMinute + MaxAhead <= Expiry
        BY <1>3, <1>4, LimitsTyped DEF ClocksTyped
      <4> QED
        BY <3>2, <4>1 DEF Closes
    <3> QED
      BY <1>6, <3>1, <3>2
  <2>4. counters'[v].count > 0 /\ counters'[v].expiresAt = Limiting!Never =>
           \/ lost[v] > 0
           \/ \E q \in ApiProcesses : counting'[q].window = v /\ counting'[q].count = 1
    <3> SUFFICES ASSUME counters'[v].count > 0, counters'[v].expiresAt = Limiting!Never, ~(lost[v] > 0)
                 PROVE  \E q \in ApiProcesses : counting'[q].window = v /\ counting'[q].count = 1
      OBVIOUS
    <3>1. ~(time + Expiry = Limiting!Never)
      BY <1>3, LimitsTyped DEF ClocksTyped
    <3>2. counters[v].count > 0 /\ counters[v].expiresAt = Limiting!Never /\ ~(v = w /\ Expires)
      BY <1>6, <3>1
    <3>3. PICK q \in ApiProcesses : counting[q].window = v /\ counting[q].count = 1
      BY <2>1, <3>2 DEF WindowOK
    <3>4. counters[v] # Limiting!Unused
      BY <3>2 DEF Limiting!Unused
    <3>5. q # p
      BY <1>w, <1>n, <3>2, <3>3, <3>4 DEF Expires
    <3> QED
      BY <1>4, <3>3, <3>5
  <2>5. counters'[v].count = counters[v].count
    BY <1>6
  <2> QED
    BY <2>1, <2>2, <2>3, <2>4, <2>5 DEF WindowOK, Limiting!capacity, Limiting!Never, Closes, Opens
<1> QED
  BY <1>7, <1>8, <1>9 DEF WindowsInv, Limiting!Windows

\* A call that is lost stays counted: what it used is what was lost.
LEMMA LoseKeeps ==
  ASSUME WindowsInv, NEW p \in ApiProcesses, Limiting!LoseCall(p)
  PROVE  WindowsInv'
<1>w. PICK w : w = counting[p].window
  OBVIOUS
<1>n. PICK n : n = counting[p].count
  OBVIOUS
<1> DEFINE cap == Limiting!capacity
<1>1. /\ counting[p] # Limiting!NoCall
      /\ counting' = [counting EXCEPT ![p] = Limiting!NoCall]
      /\ lost' = [lost EXCEPT ![w] = @ + 1]
      /\ UNCHANGED <<time, ahead, counters, within>>
  BY <1>w DEF Limiting!LoseCall
<1>3. WindowsTyped /\ ClocksTyped /\ CallsOpen /\ \A v \in Limiting!Windows : WindowOK(v)
  BY DEF WindowsInv
<1>4. /\ w \in Limiting!Windows
      /\ counting' \in [ApiProcesses -> CallRows]
      /\ \A q \in ApiProcesses : q # p => counting'[q] = counting[q]
      /\ \A q \in ApiProcesses, v \in Limiting!Windows : counting'[q].window = v => q # p
      /\ \A v \in Limiting!Windows :
           /\ Used(v) \in Nat /\ Cardinality(InFlight(v)) \in Nat
           /\ Cardinality(InFlight(v)') =
                IF w = v /\ n <= cap THEN Cardinality(InFlight(v)) - 1 ELSE Cardinality(InFlight(v))
  BY <1>w, <1>n, <1>1, CallTaken
<1> HIDE DEF cap
<1>5. ASSUME NEW v \in Limiting!Windows
      PROVE  /\ lost[v] \in Nat /\ lost'[v] \in Nat
             /\ Used(v)' \in Int /\ Used(v)' <= Used(v)
             /\ Used(v)' + lost'[v] >= Used(v) + lost[v]
             /\ v = w => lost'[v] > 0
             /\ v # w => lost'[v] = lost[v]
  <2>1. lost \in [Limiting!Windows -> Nat] /\ lost[v] \in Nat /\ within[v] \in Nat
    BY <1>3 DEF WindowsTyped
  <2>2. lost'[v] = IF w = v THEN lost[v] + 1 ELSE lost[v]
    BY <1>1, <2>1
  <2> DEFINE a == within[v]
             b == Cardinality(InFlight(v))
             b1 == Cardinality(InFlight(v)')
             m == lost[v]
             m1 == lost'[v]
  <2>3. Used(v) = a + b /\ Used(v)' = a + b1
    BY <1>1 DEF Used
  <2>4. /\ a \in Nat /\ b \in Nat /\ m \in Nat
        /\ b1 = IF w = v /\ n <= cap THEN b - 1 ELSE b
        /\ m1 = IF w = v THEN m + 1 ELSE m
    BY <1>4, <2>1, <2>2
  <2> HIDE DEF a, b, b1, m, m1
  <2>5. /\ m \in Nat /\ m1 \in Nat /\ a + b1 \in Int /\ a + b1 <= a + b
        /\ (a + b1) + m1 >= (a + b) + m
        /\ v = w => m1 > 0
        /\ v # w => m1 = m
    BY <2>4
  <2> QED
    BY <2>3, <2>5 DEF m, m1
<1>7. WindowsTyped'
  <2>1. counters' = counters /\ within' = within
    BY <1>1
  <2>2. lost' \in [Limiting!Windows -> Nat]
    <3>1. lost' = [v \in Limiting!Windows |-> lost'[v]]
      BY <1>1, <1>3 DEF WindowsTyped
    <3> QED
      BY <1>5, <3>1
  <2>4. Limiting!Windows' = Limiting!Windows /\ CounterRows' = CounterRows /\ CallRows' = CallRows
    BY DEF Limiting!Windows, CounterRows, CallRows, Limiting!capacity, Limiting!Never, Limiting!NoCall
  <2> QED
    BY <1>3, <1>4, <2>1, <2>2, <2>4 DEF WindowsTyped
<1>8. CallsOpen' /\ ClocksTyped'
  <2>1. \A q \in ApiProcesses : counting'[q] # Limiting!NoCall => counting'[q] = counting[q]
    BY <1>1, <1>3, <1>4 DEF WindowsTyped
  <2> QED
    BY <1>1, <1>3, <2>1 DEF CallsOpen, ClocksTyped, Limiting!NoCall, Opens, Limiting!Never
<1>9. ASSUME NEW v \in Limiting!Windows PROVE WindowOK(v)'
  <2>1. WindowOK(v) /\ counters' = counters /\ time' = time
    BY <1>1, <1>3
  <2>2. \A q \in ApiProcesses : counting'[q].window = v => counting'[q] = counting[q]
    BY <1>4
  <2> DEFINE u == Used(v)
             u1 == Used(v)'
             m == lost[v]
             m1 == lost'[v]
             k == counters[v].count
  <2>3. /\ u \in Nat /\ m \in Nat /\ m1 \in Nat /\ u1 \in Int /\ u1 <= u /\ u1 + m1 >= u + m
        /\ v = w => m1 > 0
        /\ v # w => m1 = m
        /\ cap \in Nat /\ k \in Int
    <3>1. counters[v] \in CounterRows /\ cap \in Nat
      BY <1>3, LimitsTyped DEF WindowsTyped, cap
    <3>2. k \in Int
      BY <3>1, LimitsTyped DEF CounterRows, cap
    <3> QED
      BY <1>4, <1>5, <3>1, <3>2
  <2>4. /\ u <= cap
        /\ time < Closes(v) => u <= k
        /\ u + m < cap => k <= u + m
        /\ \A q \in ApiProcesses :
             counting[q].window = v /\ counting[q].count > cap => u + m >= cap
    BY <2>1 DEF WindowOK, cap
  <2>5. counters[v].count > 0 /\ counters[v].expiresAt = Limiting!Never =>
           \/ m1 > 0
           \/ \E q \in ApiProcesses : counting'[q].window = v /\ counting'[q].count = 1
    <3> SUFFICES ASSUME counters[v].count > 0, counters[v].expiresAt = Limiting!Never, v # w
                 PROVE  \/ m1 > 0
                        \/ \E q \in ApiProcesses : counting'[q].window = v /\ counting'[q].count = 1
      BY <2>3
    <3>1. \/ lost[v] > 0
          \/ \E q \in ApiProcesses : counting[q].window = v /\ counting[q].count = 1
      BY <2>1 DEF WindowOK
    <3>2. ASSUME NEW q \in ApiProcesses, counting[q].window = v PROVE counting'[q] = counting[q]
      BY <1>w, <1>4, <3>2
    <3> QED
      BY <2>3, <3>1, <3>2
  <2>6. u1 <= cap
    <3> HIDE DEF u, u1, m, m1, k
    <3> QED
      BY <2>3, <2>4
  <2>7. time < Closes(v) => u1 <= k
    <3> HIDE DEF u, u1, m, m1, k
    <3> QED
      BY <2>3, <2>4
  <2>8. u1 + m1 < cap => k <= u1 + m1
    <3> HIDE DEF u, u1, m, m1, k
    <3> QED
      BY <2>3, <2>4
  <2>9. \A q \in ApiProcesses : counting'[q].window = v /\ counting'[q].count > cap => u1 + m1 >= cap
    <3> HIDE DEF u, u1, m, m1, k
    <3> QED
      BY <2>2, <2>3, <2>4
  <2> QED
    BY <2>1, <2>5, <2>6, <2>7, <2>8, <2>9
    DEF WindowOK, Limiting!capacity, Limiting!Never, Closes, Opens, cap
<1> QED
  BY <1>7, <1>8, <1>9 DEF WindowsInv, Limiting!Windows

\* A counter is only forgotten when its window is closed on every clock.
LEMMA TickKeeps ==
  ASSUME WindowsInv, Limiting!Tick
  PROVE  WindowsInv'
<1>1. /\ time < MaxClock /\ time' = time + 1
      /\ counters' = [w \in Limiting!Windows |->
                        IF counters[w].expiresAt = time + 1
                          THEN [count |-> 0, expiresAt |-> Limiting!Never] ELSE counters[w]]
      /\ UNCHANGED <<ahead, counting, within, lost>>
  BY DEF Limiting!Tick, Limiting!Unused
<1>2. WindowsTyped /\ ClocksTyped /\ CallsOpen /\ \A v \in Limiting!Windows : WindowOK(v)
  BY DEF WindowsInv
<1>3. time \in Nat /\ time + 1 \in 0..MaxClock /\ MaxAhead \in Nat
  BY <1>1, <1>2, LimitsTyped DEF ClocksTyped
<1>4. WindowsTyped'
  <2>1. counters' \in [Limiting!Windows -> CounterRows]
    BY <1>1, <1>2, LimitsTyped DEF WindowsTyped, CounterRows
  <2>2. Limiting!Windows' = Limiting!Windows /\ CounterRows' = CounterRows /\ CallRows' = CallRows
    BY DEF Limiting!Windows, CounterRows, CallRows, Limiting!capacity, Limiting!Never, Limiting!NoCall
  <2> QED
    BY <1>1, <1>2, <2>1, <2>2 DEF WindowsTyped
<1>5. ClocksTyped'
  BY <1>1, <1>2, <1>3 DEF ClocksTyped
<1>6. CallsOpen'
  <2> SUFFICES ASSUME NEW q \in ApiProcesses, counting[q] # Limiting!NoCall
               PROVE  Opens(counting[q].window) <= (time + 1) + MaxAhead
    BY <1>1 DEF CallsOpen, Limiting!NoCall, Opens, Limiting!Never
  <2>1. counting[q] \in CallRows
    BY <1>2 DEF WindowsTyped
  <2>2. counting[q].window \in Limiting!Windows
    BY <2>1 DEF CallRows
  <2>3. Opens(counting[q].window) \in Nat /\ Opens(counting[q].window) <= time + MaxAhead
    BY <1>2, <2>2, LimitsTyped DEF CallsOpen
  <2> QED
    BY <1>3, <2>3
<1>7. ASSUME NEW v \in Limiting!Windows PROVE WindowOK(v)'
  <2>1. WindowOK(v) /\ Used(v)' = Used(v) /\ Closes(v) \in Nat
    BY <1>1, <1>2, LimitsTyped DEF Used, InFlight, Limiting!capacity
  <2>2. Used(v) \in Nat /\ lost[v] \in Nat
    <3>1. InFlight(v) \subseteq ApiProcesses
      BY DEF InFlight
    <3> QED
      BY <1>2, <3>1, SomeProcesses DEF Used, WindowsTyped
  <2>3. ASSUME counters[v].expiresAt = time + 1 PROVE WindowOK(v)'
    <3>1. counters'[v].count = 0 /\ counters'[v].expiresAt = Limiting!Never
      BY <1>1, <2>3
    <3>2. Closes(v) <= time + 1
      BY <1>3, <2>1, <2>3, LimitsTyped DEF WindowOK
    <3>3. ~(time + 1 < Closes(v))
      BY <1>3, <2>1, <3>2
    <3> HIDE DEF Used
    <3> QED
      BY <1>1, <2>1, <2>2, <3>1, <3>3 DEF WindowOK, Limiting!capacity, Limiting!Never, Closes, Opens
  <2>4. ASSUME counters[v].expiresAt # time + 1 PROVE WindowOK(v)'
    <3>1. counters'[v] = counters[v]
      BY <1>1, <2>4
    <3>2. time + 1 < Closes(v) => time < Closes(v)
      BY <1>3, <2>1
    <3> QED
      BY <1>1, <2>1, <3>1, <3>2 DEF WindowOK, Limiting!capacity, Limiting!Never, Closes, Opens
  <2> QED
    BY <2>3, <2>4
<1> QED
  BY <1>4, <1>5, <1>6, <1>7 DEF WindowsInv, Limiting!Windows

\* What the buckets and the clocks do leaves the windows alone.
LEMMA WindowsLeft ==
  ASSUME WindowsInv, ClocksTyped',
         UNCHANGED <<time, counters, counting, within, lost>>
  PROVE  WindowsInv'
BY DEF WindowsInv, WindowsTyped, CounterRows, CallRows, CallsOpen, WindowOK, Used, InFlight, Closes,
       Opens, Limiting!Windows, Limiting!capacity, Limiting!Never, Limiting!NoCall

LEMMA WindowsNext == WindowsInv /\ Limiting!Next => WindowsInv'
<1> SUFFICES ASSUME WindowsInv, Limiting!Next PROVE WindowsInv'
  OBVIOUS
<1>1. ClocksTyped
  BY DEF WindowsInv
<1>2. ASSUME NEW p \in ApiProcesses, Limiting!CheckBucket(p) PROVE WindowsInv'
  BY <1>1, <1>2, WindowsLeft DEF Limiting!CheckBucket, ClocksTyped
<1>3. ASSUME NEW p \in ApiProcesses, Limiting!SetBack(p) PROVE WindowsInv'
  <2>1. ClocksTyped'
    BY <1>1, <1>3, LimitsTyped DEF Limiting!SetBack, ClocksTyped
  <2> QED
    BY <1>3, <2>1, WindowsLeft DEF Limiting!SetBack
<1> QED
  BY <1>2, <1>3, TickKeeps, IncrementKeeps, AnswerKeeps, LoseKeeps DEF Limiting!Next

\* What the run checks of the windows is part of what the windows keep.
LEMMA WindowsShown ==
  WindowsInv => /\ Limiting!WindowBound /\ Limiting!RefusedJustly /\ Limiting!CountersForgotten
<1> SUFFICES ASSUME WindowsInv
             PROVE  /\ Limiting!WindowBound /\ Limiting!RefusedJustly /\ Limiting!CountersForgotten
  OBVIOUS
<1>1. WindowsTyped /\ \A w \in Limiting!Windows : WindowOK(w)
  BY DEF WindowsInv
<1>2. ASSUME NEW w \in Limiting!Windows
      PROVE  within[w] \in Nat /\ lost[w] \in Nat /\ Cardinality(InFlight(w)) \in Nat
  <2>1. InFlight(w) \subseteq ApiProcesses
    BY DEF InFlight
  <2> QED
    BY <1>1, <2>1, SomeProcesses DEF WindowsTyped
<1>3. Limiting!WindowBound
  BY <1>1, <1>2, LimitsTyped DEF Limiting!WindowBound, WindowOK, Used
<1>4. Limiting!CountersForgotten
  BY <1>1 DEF Limiting!CountersForgotten, WindowOK
<1>5. Limiting!RefusedJustly
  <2> SUFFICES ASSUME NEW p \in ApiProcesses, counting[p] # Limiting!NoCall,
                      ~(counting[p].count <= Limiting!capacity),
                      NEW w, w = counting[p].window
               PROVE  (within[w] + lost[w]) + Limiting!Cardinality(InFlight(w)) >= Limiting!capacity
    BY DEF Limiting!RefusedJustly, Limiting!Admits, InFlight
  <2>1. counting[p] \in CallRows
    BY <1>1 DEF WindowsTyped
  <2>2. w \in Limiting!Windows /\ counting[p].count \in Nat
    BY <2>1, LimitsTyped DEF CallRows
  <2>3. counting[p].count > Limiting!capacity
    BY <2>2, LimitsTyped
  <2>4. Used(w) + lost[w] >= Limiting!capacity
    BY <1>1, <2>2, <2>3 DEF WindowOK
  <2>5. Limiting!Cardinality(InFlight(w)) = Cardinality(InFlight(w))
    BY DEF Limiting!Cardinality, Cardinality
  <2> QED
    BY <1>2, <2>2, <2>4, <2>5, LimitsTyped DEF Used
<1> QED
  BY <1>3, <1>4, <1>5

-----------------------------------------------------------------------------
(* The limits of calls: the buckets in memory.                             *)

BucketRows == [tokens : 0..Limiting!capacity, updatedAt : 0..(MaxClock + MaxAhead)]

\* What the calls f, counted for each unit, leave at time t of the rate since s.
Left(f, s, t) == Limiting!capacity + (t - s) - SumOver(f, s..t)

\* m is the least that is left since any time: what a client may still ask for.
Least(f, t, m) ==
  /\ m \in Int /\ m <= Limiting!capacity
  /\ \A s \in 0..t : m <= Left(f, s, t)
  /\ \E s \in 0..t : m = Left(f, s, t)

\* What is in a bucket of k tokens, of time u, on clock c; and how long the clock
\* has yet to go before it refills the bucket again.
FullAt(k, u, c) ==
  LET all == k + (IF c > u THEN c - u ELSE 0)
  IN  IF all > Limiting!capacity THEN Limiting!capacity ELSE all

Idle(u, c) == IF u > c THEN u - c ELSE 0

\* With a clock that is ahead by a, a bucket is wrong by no more than the clock was
\* set back; what it has yet to wait for is still missing from it.
Tracks(k, u, c, a, m) ==
  /\ FullAt(k, u, c) >= m - ((MaxAhead - a) - Idle(u, c))
  /\ FullAt(k, u, c) <= m + (MaxAhead - a)

BucketOK(p) ==
  /\ \A t \in 0..MaxClock : t > time => admitted[p][t] = 0
  /\ \E m : /\ Least(admitted[p], time, m)
            /\ Tracks(bucket[p].tokens, bucket[p].updatedAt, Limiting!Clock(p), ahead[p], m)

BucketsTyped ==
  /\ bucket \in [ApiProcesses -> BucketRows]
  /\ admitted \in [ApiProcesses -> [0..MaxClock -> 0..MaxCalls]]

BucketsInv == ClocksTyped /\ BucketsTyped /\ \A p \in ApiProcesses : BucketOK(p)

LEMMA SumOfCalls ==
  \A p, a, b : Limiting!Admitted(p, a, b) = SumOver(admitted[p], a..b)
BY SumIsAdder
DEF Limiting!Admitted, Limiting!MapThenSumSet, Limiting!MapThenFoldSet, Adder, Adds, Pick,
    MapThenSumSet, MapThenFoldSet

\* What a bucket holds is what its tokens are refilled to.
LEMMA RefilledIs ==
  ASSUME ClocksTyped, NEW p \in ApiProcesses, bucket[p] \in BucketRows
  PROVE  /\ Limiting!Refilled(p) = FullAt(bucket[p].tokens, bucket[p].updatedAt, Limiting!Clock(p))
         /\ FullAt(bucket[p].tokens, bucket[p].updatedAt, Limiting!Clock(p)) \in 0..Limiting!capacity
<1> DEFINE k == bucket[p].tokens
           u == bucket[p].updatedAt
           c == Limiting!Clock(p)
           cap == Limiting!capacity
           more == IF c > u THEN c - u ELSE 0
<1>1. k \in 0..cap /\ u \in Nat /\ c \in Nat /\ cap \in Nat
  BY LimitsTyped, WindowOpen DEF BucketRows, ClocksTyped, Limiting!Clock
<1> HIDE DEF k, u, c, cap
<1>2. more \in Nat
  BY <1>1
<1>3. Limiting!Max({0, c - u}) = more
  <2>1. Limiting!Max({0, c - u}) = CHOOSE x \in {0, c - u} : \A y \in {0, c - u} : x >= y
    BY DEF Limiting!Max
  <2>2. more \in {0, c - u} /\ \A y \in {0, c - u} : more >= y
    BY <1>1
  <2>3. \A x \in {0, c - u} : (\A y \in {0, c - u} : x >= y) => x = more
    BY <1>1, <2>2
  <2> HIDE DEF more
  <2> QED
    BY <2>1, <2>2, <2>3
<1> DEFINE all == k + more
           least == IF all > cap THEN cap ELSE all
<1>4. all \in Nat /\ least \in 0..cap
  BY <1>1, <1>2
<1> HIDE DEF more
<1>5. Limiting!Min({cap, all}) = least
  <2>1. Limiting!Min({cap, all}) = CHOOSE x \in {cap, all} : \A y \in {cap, all} : x =< y
    BY DEF Limiting!Min
  <2> HIDE DEF all
  <2>2. least \in {cap, all} /\ \A y \in {cap, all} : least =< y
    BY <1>1, <1>4
  <2>3. \A x \in {cap, all} : (\A y \in {cap, all} : x =< y) => x = least
    BY <1>1, <1>4, <2>2
  <2> HIDE DEF least
  <2> QED
    BY <2>1, <2>2, <2>3
<1>6. Limiting!Refilled(p) = Limiting!Min({cap, k + Limiting!Max({0, c - u})})
  BY DEF Limiting!Refilled, k, u, c, cap
<1>7. FullAt(k, u, c) = least
  BY DEF FullAt, least, all, more, cap
<1>8. Limiting!Refilled(p) = least
  BY <1>3, <1>5, <1>6
<1> QED
  BY <1>4, <1>7, <1>8 DEF k, u, c, cap

\* What is left is a number, and no more than the capacity now.
LEMMA LeftTyped ==
  ASSUME NEW t \in 0..MaxClock, NEW f \in [0..MaxClock -> 0..MaxCalls], NEW s \in 0..t
  PROVE  /\ IsFiniteSet(s..t) /\ s \in 0..MaxClock /\ s..t \subseteq 0..MaxClock
         /\ SumOver(f, s..t) \in Nat /\ Left(f, s, t) \in Int
         /\ SumOver(f, t..t) = f[t]
<1>1. s \in Nat /\ t \in Nat /\ s <= t /\ t <= MaxClock /\ MaxClock \in Nat /\ MaxCalls \in Nat
  BY LimitsTyped, LimitsAssumption
<1>2. s \in 0..MaxClock /\ s..t \subseteq 0..MaxClock /\ IsFiniteSet(s..t)
  <2>1. s \in Int /\ t \in Int
    BY <1>1
  <2>2. IsFiniteSet(s..t)
    BY <2>1, FS_Interval
  <2> QED
    BY <1>1, <2>2
<1>3. \A x \in s..t : f[x] \in Int /\ f[x] >= 0
  BY <1>1, <1>2
<1>4. SumOver(f, s..t) \in Nat
  <2>1. SumOver(f, s..t) \in Int /\ SumOver(f, s..t) >= 0
    BY <1>2, <1>3, SumTyped
  <2> QED
    BY <2>1
<1>5. SumOver(f, {t}) = f[t]
  <2>1. IsFiniteSet({t})
    BY FS_Singleton
  <2>4. t \in s..t
    BY <1>1
  <2>5. f[t] \in Int /\ \A x \in {t} : f[x] \in Int
    BY <1>3, <2>4
  <2>2. SumOver(f, {t}) = f[t] + SumOver(f, {t} \ {t})
    BY <2>1, <2>5, SumWithout
  <2>3. {t} \ {t} = {}
    OBVIOUS
  <2>6. SumOver(f, {t} \ {t}) = 0
    BY ONLY <2>3, SumEmpty
  <2> QED
    BY <2>2, <2>5, <2>6
<1>6. t..t = {t}
  BY <1>1
<1>7. Left(f, s, t) \in Int
  BY <1>1, <1>4, LimitsTyped DEF Left
<1> QED
  BY <1>2, <1>4, <1>5, <1>6, <1>7

\* The least that is left is what the run compares a bucket with.
LEMMA AllowanceIs ==
  ASSUME ClocksTyped, BucketsTyped, NEW p \in ApiProcesses, NEW m, Least(admitted[p], time, m)
  PROVE  Limiting!Allowance(p) = m
<1> DEFINE cap == Limiting!capacity
           S == {cap} \cup {Left(admitted[p], s, time) : s \in 0..time}
<1>1. Limiting!Allowance(p) = Limiting!Min(S)
  BY SumOfCalls DEF Limiting!Allowance, Left
<1>2. m \in Int /\ m \in S /\ \A y \in S : m <= y
  BY LimitsTyped DEF Least
<1>3. Limiting!Min(S) = CHOOSE x \in S : \A y \in S : x =< y
  BY DEF Limiting!Min
<1>4. \A x \in S : x \in Int
  <2>1. time \in 0..MaxClock /\ admitted[p] \in [0..MaxClock -> 0..MaxCalls]
    BY DEF ClocksTyped, BucketsTyped
  <2>2. \A s \in 0..time : Left(admitted[p], s, time) \in Int
    BY <2>1, LeftTyped
  <2> QED
    BY <2>2, LimitsTyped
<1> HIDE DEF S
<1>5. \A x \in S : (\A y \in S : x =< y) => x = m
  <2> SUFFICES ASSUME NEW x \in S, \A y \in S : x =< y PROVE x = m
    OBVIOUS
  <2>1. x <= m /\ m <= x /\ x \in Int
    BY <1>2, <1>4
  <2> QED
    BY <1>2, <2>1
<1> QED
  BY <1>1, <1>2, <1>3, <1>5

\* A unit later, one call more is left, and never more than the capacity.
LEMMA TickCloses ==
  ASSUME NEW k \in Nat, NEW u \in Nat, NEW c \in Nat, NEW a \in Int, NEW m \in Int,
         k <= Limiting!capacity, m <= Limiting!capacity, a <= MaxAhead, Tracks(k, u, c, a, m)
  PROVE  Tracks(k, u, c + 1, a, IF m < Limiting!capacity THEN m + 1 ELSE m)
<1> DEFINE cap == Limiting!capacity
<1>1. cap \in Nat /\ MaxAhead \in Int
  BY LimitsTyped
<1>2. k <= cap /\ m <= cap
  OBVIOUS
<1> HIDE DEF cap
<1> QED
  BY <1>1, <1>2 DEF Tracks, FullAt, Idle, cap

\* A call takes what the bucket then has less.
LEMMA TakeCloses ==
  ASSUME NEW k \in Nat, NEW u \in Nat, NEW c \in Nat, NEW a \in Int, NEW m \in Int, NEW n \in {0, 1},
         FullAt(k, u, c) \in Nat, n <= FullAt(k, u, c), FullAt(k, u, c) <= Limiting!capacity,
         a <= MaxAhead, Tracks(k, u, c, a, m)
  PROVE  Tracks(FullAt(k, u, c) - n, c, c, a, m - n)
<1> DEFINE cap == Limiting!capacity
           f == FullAt(k, u, c)
           g == Idle(u, c)
<1>1. cap \in Nat /\ MaxAhead \in Int /\ f \in Nat /\ g \in Nat
  BY LimitsTyped DEF Idle
<1>2. f <= cap /\ n <= f /\ f >= m - ((MaxAhead - a) - g) /\ f <= m + (MaxAhead - a)
  BY DEF Tracks
<1>3. FullAt(f - n, c, c) = f - n /\ Idle(c, c) = 0
  <2> HIDE DEF f, cap
  <2> QED
    BY <1>1, <1>2 DEF FullAt, Idle, cap
<1> HIDE DEF f, cap, g
<1>4. f - n >= (m - n) - (MaxAhead - a) /\ f - n <= (m - n) + (MaxAhead - a)
  BY <1>1, <1>2
<1>5. Tracks(f - n, c, c, a, m - n)
  BY <1>1, <1>3, <1>4 DEF Tracks
<1> QED
  BY <1>5 DEF f

\* A clock that is set back makes a bucket wrong by one call more.
LEMMA BackCloses ==
  ASSUME NEW k \in Nat, NEW u \in Nat, NEW c \in Nat, NEW a \in Int, NEW m \in Int,
         k <= Limiting!capacity, a <= MaxAhead, Tracks(k, u, c, a, m)
  PROVE  Tracks(k, u, c - 1, a - 1, m)
<1> DEFINE cap == Limiting!capacity
<1>1. cap \in Nat /\ MaxAhead \in Int /\ k <= cap
  BY LimitsTyped
<1> HIDE DEF cap
<1> QED
  BY <1>1 DEF Tracks, FullAt, Idle, cap

\* At first the whole capacity is left.
LEMMA LeastFirst ==
  ASSUME NEW f \in [0..MaxClock -> 0..MaxCalls], f[0] = 0
  PROVE  Least(f, 0, Limiting!capacity)
<1>1. 0 \in 0..MaxClock /\ 0 \in 0..0
  BY LimitsTyped
<1>2. SumOver(f, 0..0) = 0
  BY <1>1, LeftTyped
<1>3. Left(f, 0, 0) = Limiting!capacity /\ \A s \in 0..0 : s = 0
  BY <1>2, LimitsTyped DEF Left
<1> QED
  BY <1>1, <1>3, LimitsTyped DEF Least

\* A unit without calls leaves one call more since any time before it.
LEMMA LeastTicks ==
  ASSUME NEW t \in 0..MaxClock, t < MaxClock, NEW f \in [0..MaxClock -> 0..MaxCalls],
         f[t + 1] = 0, NEW m, Least(f, t, m)
  PROVE  Least(f, t + 1, IF m < Limiting!capacity THEN m + 1 ELSE m)
<1> DEFINE cap == Limiting!capacity
           n == IF m < cap THEN m + 1 ELSE m
           next == t + 1
<1>1. /\ t \in Nat /\ next \in Nat /\ next \in 0..MaxClock /\ next \in 0..next /\ next = t + 1
      /\ cap \in Nat /\ m \in Int /\ m <= cap
      /\ \A s \in 0..next : s = next \/ s \in 0..t
      /\ \A s \in 0..t : s \in 0..next
  BY LimitsTyped DEF Least
<1> HIDE DEF next, cap, n
<1>2. ASSUME NEW s \in 0..t PROVE Left(f, s, next) = Left(f, s, t) + 1 /\ Left(f, s, t) \in Int
  <2>1. SumOver(f, s..t) \in Nat /\ Left(f, s, t) \in Int
    BY LeftTyped
  <2>2. /\ s \in 0..next /\ next \in s..next /\ (s..next) \ {next} = s..t
        /\ s \in Nat
    BY <1>1
  <2>3. IsFiniteSet(s..next) /\ s..next \subseteq 0..MaxClock
    BY <1>1, <2>2, LeftTyped
  <2>4. \A x \in s..next : f[x] \in Int
    <3>1. \A x \in 0..MaxClock : f[x] \in 0..MaxCalls
      OBVIOUS
    <3>2. \A x \in 0..MaxCalls : x \in Int
      OBVIOUS
    <3> QED
      BY <2>3, <3>1, <3>2
  <2>5. SumOver(f, s..next) = f[next] + SumOver(f, (s..next) \ {next})
    BY <2>2, <2>3, <2>4, SumWithout
  <2>6. f[next] = 0
    BY DEF next
  <2> DEFINE before == SumOver(f, s..t)
             after == SumOver(f, s..next)
  <2>7. after = 0 + before /\ before \in Nat
    BY <2>1, <2>2, <2>5, <2>6
  <2>8. Left(f, s, t) = cap + (t - s) - before /\ Left(f, s, next) = cap + (next - s) - after
    BY DEF Left, cap
  <2> HIDE DEF before, after
  <2>9. after = before
    BY <2>7
  <2>10. (cap + (next - s)) - after = ((cap + (t - s)) - before) + 1
    BY <1>1, <2>2, <2>7, <2>9
  <2> QED
    BY <1>1, <2>1, <2>2, <2>7, <2>8, <2>9, <2>10
<1>3. Left(f, next, next) = cap
  <2>1. SumOver(f, next..next) = f[next] /\ f[next] = 0
    BY <1>1, LeftTyped DEF next
  <2> QED
    BY <1>1, <2>1 DEF Left, cap
<1>4. n \in Int /\ n <= cap /\ n <= m + 1
  BY <1>1 DEF n
<1>5. ASSUME NEW s \in 0..next PROVE n <= Left(f, s, next)
  <2>1. ASSUME s = next PROVE n <= Left(f, s, next)
    BY <1>3, <1>4, <2>1
  <2>2. ASSUME s \in 0..t PROVE n <= Left(f, s, next)
    <3>1. m <= Left(f, s, t)
      BY <2>2 DEF Least
    <3> QED
      BY <1>1, <1>2, <1>4, <2>2, <3>1
  <2> QED
    BY <1>1, <2>1, <2>2
<1>6. \E s \in 0..next : n = Left(f, s, next)
  <2>1. ASSUME m < cap PROVE \E s \in 0..next : n = Left(f, s, next)
    <3>1. PICK s \in 0..t : m = Left(f, s, t)
      BY DEF Least
    <3> QED
      BY <1>1, <1>2, <2>1, <3>1 DEF n
  <2>2. ASSUME ~(m < cap) PROVE n = Left(f, next, next)
    BY <1>1, <1>3, <2>2 DEF n
  <2> QED
    BY <1>1, <2>1, <2>2
<1>7. Least(f, next, n)
  BY <1>4, <1>5, <1>6 DEF Least, cap
<1> QED
  BY <1>7 DEF next, n, cap

\* A sum changes by what the one term changes by that is another.
LEMMA SumOneChanged ==
  ASSUME NEW S, IsFiniteSet(S), NEW u, NEW v, NEW e \in S,
         \A x \in S : u[x] \in Int /\ v[x] \in Int,
         \A x \in S : x # e => v[x] = u[x]
  PROVE  SumOver(v, S) = SumOver(u, S) + (v[e] - u[e])
<1>1. \A x \in S \ {e} : u[x] = v[x]
  OBVIOUS
<1> QED
  BY <1>1, SumChange

\* A call leaves one less since any time.
LEMMA LeastTakes ==
  ASSUME NEW t \in 0..MaxClock, NEW f \in [0..MaxClock -> 0..MaxCalls],
         NEW g \in [0..MaxClock -> 0..MaxCalls], NEW n \in {0, 1},
         g[t] = f[t] + n, \A s \in 0..MaxClock : s # t => g[s] = f[s],
         NEW m, Least(f, t, m)
  PROVE  Least(g, t, m - n)
<1> DEFINE cap == Limiting!capacity
<1>1. cap \in Nat /\ m \in Int /\ m <= cap /\ t \in Nat /\ n \in Int /\ n >= 0
  BY LimitsTyped DEF Least
<1> HIDE DEF cap
<1>2. ASSUME NEW s \in 0..t PROVE Left(g, s, t) = Left(f, s, t) - n /\ Left(f, s, t) \in Int
  <2>1. /\ SumOver(f, s..t) \in Nat /\ Left(f, s, t) \in Int
        /\ IsFiniteSet(s..t) /\ s..t \subseteq 0..MaxClock
    BY LeftTyped
  <2>2. s \in Nat /\ t \in s..t
    BY <1>1
  <2>3. \A x \in s..t : f[x] \in Int /\ g[x] \in Int
    <3>1. \A x \in 0..MaxClock : f[x] \in 0..MaxCalls /\ g[x] \in 0..MaxCalls
      OBVIOUS
    <3>2. \A x \in 0..MaxCalls : x \in Int
      OBVIOUS
    <3> QED
      BY <2>1, <3>1, <3>2
  <2>4. \A x \in (s..t) \ {t} : f[x] = g[x]
    BY <2>1
  <2>5. SumOver(g, s..t) = SumOver(f, s..t) + (g[t] - f[t])
    <3> DEFINE S == s..t
               u == f
               v == g
               e == t
    <3>1. /\ IsFiniteSet(S) /\ e \in S /\ (\A x \in S : u[x] \in Int /\ v[x] \in Int)
          /\ \A x \in S : x # e => v[x] = u[x]
      BY <2>1, <2>2, <2>3, <2>4
    <3> HIDE DEF S, u, v, e
    <3>2. SumOver(v, S) = SumOver(u, S) + (v[e] - u[e])
      BY ONLY <3>1, SumOneChanged
    <3> QED
      BY <3>2 DEF S, u, v, e
  <2>6. g[t] - f[t] = n
    BY <1>1, <2>2, <2>3
  <2> DEFINE before == SumOver(f, s..t)
             after == SumOver(g, s..t)
  <2>7. after = before + n /\ before \in Nat
    BY <2>1, <2>5, <2>6
  <2>8. Left(f, s, t) = cap + (t - s) - before /\ Left(g, s, t) = cap + (t - s) - after
    BY DEF Left, cap
  <2> HIDE DEF before, after
  <2>9. (cap + (t - s)) - after = ((cap + (t - s)) - before) - n
    BY <1>1, <2>2, <2>7
  <2> QED
    BY <1>1, <2>1, <2>2, <2>7, <2>8, <2>9
<1>3. m - n \in Int /\ m - n <= cap
  BY <1>1
<1>4. ASSUME NEW s \in 0..t PROVE m - n <= Left(g, s, t)
  <2>1. m <= Left(f, s, t)
    BY DEF Least
  <2> QED
    BY <1>1, <1>2, <2>1
<1>5. \E s \in 0..t : m - n = Left(g, s, t)
  <2>1. PICK s \in 0..t : m = Left(f, s, t)
    BY DEF Least
  <2> QED
    BY <1>2, <2>1
<1> QED
  BY <1>3, <1>4, <1>5 DEF Least, cap

\* Buckets are full at first.
LEMMA BucketsInit == Limiting!Init => BucketsInv
<1> SUFFICES ASSUME Limiting!Init PROVE BucketsInv
  OBVIOUS
<1> DEFINE cap == Limiting!capacity
<1>1. /\ time = 0 /\ ahead \in [ApiProcesses -> 0..MaxAhead]
      /\ bucket = [p \in ApiProcesses |-> [tokens |-> cap, updatedAt |-> Limiting!Clock(p)]]
      /\ admitted = [p \in ApiProcesses |-> [t \in 0..MaxClock |-> 0]]
  BY DEF Limiting!Init
<1>2. ClocksTyped
  BY <1>1, LimitsTyped DEF ClocksTyped
<1>3. cap \in Nat /\ MaxClock \in Nat /\ MaxAhead \in Nat /\ MaxCalls \in Nat
  BY LimitsTyped, LimitsAssumption
<1> HIDE DEF cap
<1>4. ASSUME NEW p \in ApiProcesses
      PROVE  Limiting!Clock(p) \in 0..(MaxClock + MaxAhead) /\ ahead[p] \in 0..MaxAhead
  BY <1>1, <1>3 DEF Limiting!Clock
<1>5. BucketsTyped
  <2>1. \A p \in ApiProcesses : [tokens |-> cap, updatedAt |-> Limiting!Clock(p)] \in BucketRows
    BY <1>3, <1>4 DEF BucketRows, cap
  <2>2. bucket \in [ApiProcesses -> BucketRows]
    BY <1>1, <2>1
  <2>3. admitted \in [ApiProcesses -> [0..MaxClock -> 0..MaxCalls]]
    BY <1>1, <1>3
  <2> QED
    BY <2>2, <2>3 DEF BucketsTyped
<1>6. ASSUME NEW p \in ApiProcesses PROVE BucketOK(p)
  <2>1. admitted[p] \in [0..MaxClock -> 0..MaxCalls] /\ \A t \in 0..MaxClock : admitted[p][t] = 0
    BY <1>1, <1>3
  <2>2. admitted[p][0] = 0
    BY <1>3, <2>1
  <2>3. Least(admitted[p], time, cap)
    BY <1>1, <2>1, <2>2, LeastFirst DEF cap
  <2> DEFINE c == Limiting!Clock(p)
  <2>4. bucket[p].tokens = cap /\ bucket[p].updatedAt = c
    BY <1>1
  <2>5. c \in Nat /\ ahead[p] \in 0..MaxAhead
    BY <1>3, <1>4
  <2> HIDE DEF c
  <2>6. Tracks(cap, c, c, ahead[p], cap)
    BY <1>3, <2>5 DEF Tracks, FullAt, Idle, cap
  <2> QED
    BY <2>1, <2>3, <2>4, <2>6 DEF BucketOK, c
<1> QED
  BY <1>2, <1>5, <1>6 DEF BucketsInv

\* What a bucket of a process is, and what is left for its client.
LEMMA BucketFacts ==
  ASSUME BucketsInv, NEW p \in ApiProcesses
  PROVE  /\ bucket[p] \in BucketRows
         /\ bucket[p].tokens \in Nat /\ bucket[p].tokens <= Limiting!capacity
         /\ bucket[p].updatedAt \in Nat
         /\ Limiting!Clock(p) \in Nat /\ Limiting!Clock(p) = time + ahead[p]
         /\ Limiting!Clock(p) <= MaxClock + MaxAhead
         /\ ahead[p] \in Nat /\ ahead[p] <= MaxAhead
         /\ time \in 0..MaxClock /\ time \in Nat
         /\ admitted[p] \in [0..MaxClock -> 0..MaxCalls]
         /\ Limiting!Refilled(p) = FullAt(bucket[p].tokens, bucket[p].updatedAt, Limiting!Clock(p))
         /\ Limiting!Refilled(p) \in 0..Limiting!capacity
<1>1. ClocksTyped /\ BucketsTyped
  BY DEF BucketsInv
<1>2. bucket[p] \in BucketRows /\ admitted[p] \in [0..MaxClock -> 0..MaxCalls]
  BY <1>1 DEF BucketsTyped
<1>3. /\ bucket[p].tokens \in Nat /\ bucket[p].tokens <= Limiting!capacity
      /\ bucket[p].updatedAt \in Nat
  BY <1>2, LimitsTyped DEF BucketRows
<1>4. time \in 0..MaxClock /\ time \in Nat /\ ahead[p] \in Nat /\ ahead[p] <= MaxAhead
  BY <1>1, LimitsTyped DEF ClocksTyped
<1>5. /\ Limiting!Clock(p) \in Nat /\ Limiting!Clock(p) = time + ahead[p]
      /\ Limiting!Clock(p) <= MaxClock + MaxAhead
  BY <1>4, LimitsTyped DEF Limiting!Clock
<1>6. /\ Limiting!Refilled(p) = FullAt(bucket[p].tokens, bucket[p].updatedAt, Limiting!Clock(p))
      /\ Limiting!Refilled(p) \in 0..Limiting!capacity
  BY <1>1, <1>2, RefilledIs
<1> QED
  BY <1>2, <1>3, <1>4, <1>5, <1>6

\* Time refills every bucket, and allows its client as much.
LEMMA TickRefills ==
  ASSUME BucketsInv, Limiting!Tick
  PROVE  BucketsInv'
<1>1. time < MaxClock /\ time' = time + 1 /\ UNCHANGED <<ahead, bucket, admitted>>
  BY DEF Limiting!Tick
<1>2. ClocksTyped'
  BY <1>1, LimitsTyped DEF BucketsInv, ClocksTyped
<1>3. BucketsTyped'
  BY <1>1 DEF BucketsInv, BucketsTyped, BucketRows, Limiting!capacity
<1>4. ASSUME NEW p \in ApiProcesses PROVE BucketOK(p)'
  <2> DEFINE k == bucket[p].tokens
             u == bucket[p].updatedAt
             c == Limiting!Clock(p)
             a == ahead[p]
             f == admitted[p]
  <2>1. /\ k \in Nat /\ k <= Limiting!capacity /\ u \in Nat /\ c \in Nat /\ c = time + a
        /\ a \in Nat /\ a <= MaxAhead /\ time \in 0..MaxClock /\ time \in Nat
        /\ f \in [0..MaxClock -> 0..MaxCalls]
    BY BucketFacts
  <2>2. \A t \in 0..MaxClock : t > time => f[t] = 0
    BY DEF BucketsInv, BucketOK
  <2>3. PICK m : Least(f, time, m) /\ Tracks(k, u, c, a, m)
    BY DEF BucketsInv, BucketOK
  <2>4. bucket'[p].tokens = k /\ bucket'[p].updatedAt = u /\ ahead'[p] = a /\ admitted'[p] = f
    BY <1>1
  <2>5. Limiting!Clock(p)' = c + 1
    <3>1. Limiting!Clock(p)' = (time + 1) + a
      BY <1>1 DEF Limiting!Clock
    <3> HIDE DEF c, a
    <3> QED
      BY <2>1, <3>1
  <2> HIDE DEF k, u, c, a, f
  <2> DEFINE n == IF m < Limiting!capacity THEN m + 1 ELSE m
  <2>6. m \in Int /\ m <= Limiting!capacity
    BY <2>3 DEF Least
  <2>7. Tracks(k, u, c + 1, a, n)
    <3>1. a \in Int
      BY <2>1
    <3> QED
      BY <2>1, <2>3, <2>6, <3>1, TickCloses
  <2>8. time + 1 \in 0..MaxClock /\ time + 1 > time
    BY <1>1, <2>1, LimitsTyped
  <2>9. Least(f, time + 1, n)
    BY <1>1, <2>1, <2>2, <2>3, <2>8, LeastTicks
  <2>10. \A t \in 0..MaxClock : t > time + 1 => f[t] = 0
    BY <2>1, <2>2
  <2> HIDE DEF n
  <2> QED
    BY <1>1, <2>4, <2>5, <2>7, <2>9, <2>10 DEF BucketOK
<1> QED
  BY <1>2, <1>3, <1>4 DEF BucketsInv

\* A call that is admitted is taken from its bucket and from what its client may
\* still ask for.
LEMMA CheckTakes ==
  ASSUME BucketsInv, NEW p \in ApiProcesses, Limiting!CheckBucket(p)
  PROVE  BucketsInv'
<1>r. PICK r : r = Limiting!Refilled(p)
  OBVIOUS
<1>c. PICK c : c = Limiting!Clock(p)
  OBVIOUS
<1>n. PICK n : n = IF r >= 1 THEN 1 ELSE 0
  OBVIOUS
<1>1. /\ bucket' = [bucket EXCEPT ![p] = [tokens |-> r - n, updatedAt |-> c]]
      /\ admitted' = [admitted EXCEPT ![p][time] = @ + n]
      /\ admitted[p][time] < MaxCalls
      /\ UNCHANGED <<time, ahead>>
  BY <1>r, <1>c, <1>n DEF Limiting!CheckBucket
<1>2. ClocksTyped /\ BucketsTyped /\ \A q \in ApiProcesses : BucketOK(q)
  BY DEF BucketsInv
<1> DEFINE k == bucket[p].tokens
           u == bucket[p].updatedAt
           a == ahead[p]
           f == admitted[p]
           g == admitted'[p]
<1>3. /\ k \in Nat /\ k <= Limiting!capacity /\ u \in Nat /\ c \in Nat /\ c = time + a
      /\ c <= MaxClock + MaxAhead
      /\ a \in Nat /\ a <= MaxAhead /\ time \in 0..MaxClock /\ time \in Nat
      /\ f \in [0..MaxClock -> 0..MaxCalls]
      /\ r = FullAt(k, u, c) /\ r \in 0..Limiting!capacity
  BY <1>r, <1>c, BucketFacts
<1>4. n \in {0, 1} /\ n <= r /\ r \in Nat /\ r <= Limiting!capacity
  BY <1>n, <1>3, LimitsTyped
<1>5. PICK m : Least(f, time, m) /\ Tracks(k, u, c, a, m)
  BY <1>2, <1>c DEF BucketOK
<1>6. /\ bucket'[p] = [tokens |-> r - n, updatedAt |-> c]
      /\ \A q \in ApiProcesses : q # p => bucket'[q] = bucket[q]
  BY <1>1, <1>2 DEF BucketsTyped
<1>7. /\ g = [f EXCEPT ![time] = @ + n]
      /\ \A q \in ApiProcesses : q # p => admitted'[q] = admitted[q]
  BY <1>1, <1>2 DEF BucketsTyped
<1> HIDE DEF k, u, a, f, g
<1>8. /\ g[time] = f[time] + n
      /\ \A t \in 0..MaxClock : t # time => g[t] = f[t]
      /\ g = [t \in 0..MaxClock |-> g[t]]
  BY <1>3, <1>7
<1>9. g \in [0..MaxClock -> 0..MaxCalls]
  <2>1. f[time] \in 0..MaxCalls /\ f[time] < MaxCalls /\ MaxCalls \in Nat
    BY <1>1, <1>3, LimitsAssumption DEF f
  <2> DEFINE before == f[time]
             after == g[time]
  <2>2. before \in Nat /\ before < MaxCalls /\ MaxCalls \in Nat /\ after = before + n
    BY <1>8, <2>1
  <2> HIDE DEF before, after
  <2>3. after \in 0..MaxCalls
    BY <1>4, <2>2
  <2>4. \A t \in 0..MaxClock : g[t] \in 0..MaxCalls
    BY <1>3, <1>8, <2>3 DEF after
  <2> QED
    BY <1>8, <2>4
<1>10. Least(g, time, m - n)
  BY <1>3, <1>4, <1>5, <1>8, <1>9, LeastTakes
<1>11. Tracks(r - n, c, c, a, m - n)
  <2>1. m \in Int /\ a \in Int
    BY <1>3, <1>5 DEF Least
  <2>2. FullAt(k, u, c) \in Nat /\ n <= FullAt(k, u, c) /\ FullAt(k, u, c) <= Limiting!capacity
    BY <1>3, <1>4
  <2>3. Tracks(FullAt(k, u, c) - n, c, c, a, m - n)
    BY <1>3, <1>4, <1>5, <2>1, <2>2, TakeCloses
  <2> QED
    BY <1>3, <2>3
<1>12. BucketsTyped'
  <2>1. [tokens |-> r - n, updatedAt |-> c] \in BucketRows
    <3>1. r - n \in 0..Limiting!capacity /\ c \in 0..(MaxClock + MaxAhead)
      BY <1>3, <1>4, LimitsTyped
    <3> QED
      BY <3>1 DEF BucketRows
  <2>2. bucket' \in [ApiProcesses -> BucketRows]
    BY <1>1, <1>2, <1>6, <2>1 DEF BucketsTyped
  <2>3. admitted' \in [ApiProcesses -> [0..MaxClock -> 0..MaxCalls]]
    <3>1. admitted' = [q \in ApiProcesses |-> admitted'[q]]
      BY <1>1, <1>2 DEF BucketsTyped
    <3>2. \A q \in ApiProcesses : admitted'[q] \in [0..MaxClock -> 0..MaxCalls]
      BY <1>2, <1>7, <1>9 DEF BucketsTyped, g
    <3> QED
      BY <3>1, <3>2
  <2>4. BucketRows' = BucketRows
    BY DEF BucketRows, Limiting!capacity
  <2> QED
    BY <2>2, <2>3, <2>4 DEF BucketsTyped
<1>13. ClocksTyped'
  BY <1>1, <1>2 DEF ClocksTyped
<1>14. ASSUME NEW q \in ApiProcesses, q # p PROVE BucketOK(q)'
  <2>1. /\ BucketOK(q) /\ bucket'[q] = bucket[q] /\ admitted'[q] = admitted[q]
        /\ time' = time /\ ahead' = ahead
    BY <1>1, <1>2, <1>6, <1>7, <1>14
  <2>2. Limiting!Clock(q)' = Limiting!Clock(q)
    BY <2>1 DEF Limiting!Clock
  <2> QED
    BY <2>1, <2>2 DEF BucketOK
<1>15. BucketOK(p)'
  <2>1. bucket'[p].tokens = r - n /\ bucket'[p].updatedAt = c /\ ahead'[p] = a /\ admitted'[p] = g
    BY <1>1, <1>6 DEF a, g
  <2>2. Limiting!Clock(p)' = c /\ time' = time
    BY <1>1, <1>c DEF Limiting!Clock
  <2>3. \A t \in 0..MaxClock : t > time => g[t] = 0
    <3>1. \A t \in 0..MaxClock : t > time => f[t] = 0 /\ t # time
      BY <1>2, <1>3 DEF BucketOK, f
    <3> QED
      BY <1>8, <3>1
  <2> QED
    BY <1>10, <1>11, <2>1, <2>2, <2>3 DEF BucketOK
<1> QED
  BY <1>12, <1>13, <1>14, <1>15 DEF BucketsInv

\* A clock is set back.
LEMMA BackTracks ==
  ASSUME BucketsInv, NEW p \in ApiProcesses, Limiting!SetBack(p)
  PROVE  BucketsInv'
<1>1. /\ ahead[p] > 0 /\ ahead' = [ahead EXCEPT ![p] = @ - 1]
      /\ UNCHANGED <<time, bucket, admitted>>
  BY DEF Limiting!SetBack
<1>2. ClocksTyped /\ BucketsTyped /\ \A q \in ApiProcesses : BucketOK(q)
  BY DEF BucketsInv
<1>3. ahead'[p] = ahead[p] - 1 /\ \A q \in ApiProcesses : q # p => ahead'[q] = ahead[q]
  BY <1>1, <1>2 DEF ClocksTyped
<1>4. ClocksTyped'
  <2>1. ahead[p] \in 0..MaxAhead /\ MaxAhead \in Nat
    BY <1>2, LimitsTyped DEF ClocksTyped
  <2>2. ahead'[p] \in 0..MaxAhead
    BY <1>1, <1>3, <2>1
  <2> QED
    BY <1>1, <1>2, <1>3, <2>2 DEF ClocksTyped
<1>5. BucketsTyped'
  BY <1>1, <1>2 DEF BucketsTyped, BucketRows, Limiting!capacity
<1>6. ASSUME NEW q \in ApiProcesses, q # p PROVE BucketOK(q)'
  <2>1. Limiting!Clock(q)' = Limiting!Clock(q)
    BY <1>1, <1>3, <1>6 DEF Limiting!Clock
  <2> QED
    BY <1>1, <1>2, <1>3, <1>6, <2>1 DEF BucketOK
<1>7. BucketOK(p)'
  <2> DEFINE k == bucket[p].tokens
             u == bucket[p].updatedAt
             c == Limiting!Clock(p)
             a == ahead[p]
  <2>1. /\ k \in Nat /\ k <= Limiting!capacity /\ u \in Nat /\ c \in Nat /\ c = time + a
        /\ a \in Nat /\ a <= MaxAhead /\ time \in Nat
    BY BucketFacts
  <2>2. PICK m : Least(admitted[p], time, m) /\ Tracks(k, u, c, a, m)
    BY <1>2 DEF BucketOK
  <2>3. ahead'[p] = a - 1
    BY <1>3
  <2>4. Limiting!Clock(p)' = time + (a - 1)
    BY <1>1, <2>3 DEF Limiting!Clock
  <2>5. bucket'[p].tokens = k /\ bucket'[p].updatedAt = u /\ admitted'[p] = admitted[p] /\ time' = time
    BY <1>1
  <2>6. \A t \in 0..MaxClock : t > time => admitted[p][t] = 0
    BY <1>2 DEF BucketOK
  <2> HIDE DEF k, u, c, a
  <2>7. m \in Int /\ a \in Int
    BY <2>1, <2>2 DEF Least
  <2>8. Tracks(k, u, c - 1, a - 1, m)
    BY <2>1, <2>2, <2>7, BackCloses
  <2>9. time + (a - 1) = c - 1
    BY <2>1
  <2> QED
    BY <2>2, <2>3, <2>4, <2>5, <2>6, <2>8, <2>9 DEF BucketOK
<1> QED
  BY <1>4, <1>5, <1>6, <1>7 DEF BucketsInv

\* What the windows do leaves the buckets alone.
LEMMA BucketsLeft ==
  ASSUME BucketsInv, UNCHANGED <<time, ahead, bucket, admitted>>
  PROVE  BucketsInv'
<1>1. ASSUME NEW p \in ApiProcesses PROVE BucketOK(p)'
  <2>1. Limiting!Clock(p)' = Limiting!Clock(p)
    BY DEF Limiting!Clock
  <2> QED
    BY <2>1 DEF BucketsInv, BucketOK
<1> QED
  BY <1>1 DEF BucketsInv, BucketsTyped, BucketRows, Limiting!capacity, ClocksTyped

LEMMA BucketsNext == BucketsInv /\ Limiting!Next => BucketsInv'
<1> SUFFICES ASSUME BucketsInv, Limiting!Next PROVE BucketsInv'
  OBVIOUS
<1>1. ASSUME NEW p \in ApiProcesses,
             Limiting!Increment(p) \/ Limiting!AnswerCall(p) \/ Limiting!LoseCall(p)
      PROVE  BucketsInv'
  BY <1>1, BucketsLeft DEF Limiting!Increment, Limiting!AnswerCall, Limiting!LoseCall
<1> QED
  BY <1>1, TickRefills, CheckTakes, BackTracks DEF Limiting!Next

\* A bucket that tracks the least that is left is as exact as the run checks.
LEMMA BucketsShown == BucketsInv => Limiting!BucketExact
<1> SUFFICES ASSUME BucketsInv, NEW p \in ApiProcesses
             PROVE  /\ Limiting!Refilled(p) >= Limiting!Allowance(p) - (MaxAhead - ahead[p])
                    /\ Limiting!Refilled(p) <= Limiting!Allowance(p) + (MaxAhead - ahead[p])
  BY DEF Limiting!BucketExact
<1> DEFINE k == bucket[p].tokens
           u == bucket[p].updatedAt
           c == Limiting!Clock(p)
           a == ahead[p]
           r == Limiting!Refilled(p)
<1>1. PICK m : Least(admitted[p], time, m) /\ Tracks(k, u, c, a, m)
  BY DEF BucketsInv, BucketOK
<1>2. Limiting!Allowance(p) = m
  BY <1>1, AllowanceIs DEF BucketsInv
<1>3. r = FullAt(k, u, c) /\ r \in 0..Limiting!capacity /\ a \in Nat /\ u \in Nat /\ c \in Nat
  BY BucketFacts
<1> HIDE DEF k, u, c, a, r
<1>4. Idle(u, c) \in Nat /\ m \in Int /\ MaxAhead \in Nat /\ r \in Nat
  BY <1>1, <1>3, LimitsTyped DEF Idle, Least
<1>5. r >= m - ((MaxAhead - a) - Idle(u, c)) /\ r <= m + (MaxAhead - a)
  BY <1>1, <1>3 DEF Tracks
<1>6. r >= m - (MaxAhead - a) /\ r <= m + (MaxAhead - a)
  BY <1>3, <1>4, <1>5
<1> QED
  BY <1>2, <1>6 DEF r, a

\* Every variable of the limits has its type.
LEMMA LimitsOfTypes == WindowsInv /\ BucketsInv => Limiting!TypeOK
<1> SUFFICES ASSUME WindowsInv, BucketsInv PROVE Limiting!TypeOK
  OBVIOUS
<1>1. ClocksTyped /\ WindowsTyped /\ BucketsTyped
  BY DEF WindowsInv, BucketsInv
<1>2. CallRows \subseteq [window : {Limiting!Never} \cup Limiting!Windows, count : 0..(Limiting!capacity + 1)]
  BY LimitsTyped DEF CallRows, Limiting!NoCall
<1>3. counting \in [ApiProcesses -> [window : {Limiting!Never} \cup Limiting!Windows,
                                     count : 0..(Limiting!capacity + 1)]]
  BY <1>1, <1>2 DEF WindowsTyped
<1> QED
  BY <1>1, <1>3 DEF Limiting!TypeOK, ClocksTyped, WindowsTyped, BucketsTyped, CounterRows, BucketRows

\* The limits of calls hold for every number of processes, every rate, burst and
\* expiry, and for clocks as far ahead as the expiry allows for: a bucket holds what
\* the rate has left for its client, but for what its clock was set back; a window
\* of Redis admits no more than its capacity, and refuses a call only when it is
\* used up; and no counter is kept for ever but one whose first call was lost.
THEOREM CallsAreLimited == BackendSpec => []LimitsKept
<1> DEFINE Step == (Stored \/ InMemory \/ Limits) /\ UNCHANGED area
           Inv == WindowsInv /\ BucketsInv
<1>1. BackendInit => Inv
  BY WindowsInit, BucketsInit DEF BackendInit
<1>2. Inv /\ [Step]_<<vars, memoryVars, limitVars, area>> => Inv'
  <2> SUFFICES ASSUME Inv, [Step]_<<vars, memoryVars, limitVars, area>>
               PROVE  Inv'
    OBVIOUS
  <2>1. ASSUME Limits PROVE Inv'
    BY <2>1, WindowsNext, BucketsNext DEF Limits
  <2>2. ASSUME UNCHANGED limitVars PROVE Inv'
    <3>1. ClocksTyped'
      BY <2>2 DEF limitVars, WindowsInv, ClocksTyped
    <3> QED
      BY <2>2, <3>1, WindowsLeft, BucketsLeft DEF limitVars
  <2> QED
    BY <2>1, <2>2 DEF Stored, InMemory
<1>3. Inv => LimitsKept
  BY WindowsShown, BucketsShown, LimitsOfTypes DEF LimitsKept
<1> QED
  BY <1>1, <1>2, <1>3, PTL DEF BackendSpec
=============================================================================
