---------------------------- MODULE AroundProofs ----------------------------
(***************************************************************************)
(* Proofs about what surrounds the marketplace, for all sets of processes, *)
(* addresses, queries and so on: one inductive invariant for each area.    *)
(* The areas share no state, so a step of one leaves the invariants of the *)
(* others alone.  Then the engine's snapshots on their way to the database *)
(* and back, and what readers get: the answer about a dispute, the numbers *)
(* of the days of a zone, and the pages of a listing.                      *)
(***************************************************************************)
EXTENDS MCAround, MCEngine, MCReads, AllocationProofs, SequenceTheorems, FiniteSetTheorems, TLAPS

-----------------------------------------------------------------------------
(* The start of the processes.                                             *)

Serving == {"loading", "running"}

\* What a process has got so far rests on what was there when it got it, and
\* of the rows and the index nothing goes away.
StartIInv ==
  /\ Starting!TypeOK
  /\ \A c \in 1..MaxCycle : cycles[c].taxPool <= writes
  /\ writes \in 0..MaxWrites /\ updates \in Nat
  /\ runtime # 0 => index /\ cycles[runtime] # Starting!NoCycle
  /\ rules # 0 => runtime # 0
  /\ \A p \in Apis :
       /\ pc[p] \in {"finding", "inserting", "rules"} \cup Serving => index /\ guard[p] = "done"
       /\ pc[p] \in {"rules"} \cup Serving => runtime # 0
  /\ \A p \in WorkerProcesses \ Apis : pc[p] \notin {"guards", "finding", "inserting"}
  /\ \A p \in Starting!Processes :
       /\ pc[p] \in Serving => rules # 0
       /\ pc[p] = "running" => engine[p] # 0
       /\ pc[p] \in Serving /\ updates = 0 => current[p] = rules

LEMMA StartInit == Starting!Init => StartIInv
<1> USE StartAssumption DEF Starting!Init, Starting!None, Starting!NoCycle, Starting!Processes
<1> SUFFICES ASSUME Starting!Init PROVE StartIInv
  OBVIOUS
<1>1. Starting!TypeOK
  <2>1. cycles \in [1..MaxCycle -> [status : {"NONE", "OPEN", "CLOSED"}, taxPool : 0..MaxWrites]]
    OBVIOUS
  <2>2. /\ pc \in [Starting!Processes -> Starting!Starting \cup {"down", "running"}]
        /\ guard \in [Starting!Processes -> {"none", "done", "rejected"}]
        /\ engine \in [Starting!Processes -> 0..MaxCycle]
    OBVIOUS
  <2>3. current \in [Starting!Processes -> RuleSet] /\ rules \in RuleSet \cup {Starting!None}
    OBVIOUS
  <2>4. runtime \in 0..MaxCycle
    OBVIOUS
  <2>5. index \in BOOLEAN
    OBVIOUS
  <2> QED BY ONLY <2>1, <2>2, <2>3, <2>4, <2>5 DEF Starting!TypeOK
<1> QED BY <1>1 DEF StartIInv, Serving

\* Nothing that was there goes away.
LEMMA StartStep == StartIInv /\ Starting!Next => StartIInv'
<1> SUFFICES ASSUME StartIInv, NEW p \in Starting!Processes,
                    \/ Starting!Boot(p)
                    \/ Starting!StartFails(p) \/ Starting!Stop(p)
                    \/ Starting!Write(p) \/ Starting!UpdateRules(p) \/ Starting!CloseCycle(p)
             PROVE  StartIInv'
  BY DEF Starting!Next
<1> USE StartAssumption DEF StartIInv, Starting!TypeOK, Starting!Processes, Starting!None,
        Starting!Goto, Starting!Starting, Starting!NoCycle, Starting!NewCycle, Serving
<1>1. CASE Starting!Start(p)
  BY <1>1 DEF Starting!Start
<1>2. CASE Starting!EnsureGuards(p)
  BY <1>2 DEF Starting!EnsureGuards
<1>3. CASE Starting!FindRuntime(p)
  BY <1>3 DEF Starting!FindRuntime
<1>4. CASE Starting!ApplySnapshot(p)
  <2> USE <1>4 DEF Starting!ApplySnapshot
  <2> DEFINE Row == [status : {"NONE", "OPEN", "CLOSED"}, taxPool : 0..MaxWrites]
  <2>1. cycles' \in [1..MaxCycle -> Row] /\ cycles'[1] = Starting!NewCycle /\ runtime' = 1
    OBVIOUS
  <2>2. \A c \in 1..MaxCycle : cycles'[c].taxPool <= writes
    OBVIOUS
  <2>3. cycles'[runtime'] # Starting!NoCycle
    BY <2>1
  <2>4. pc' = [pc EXCEPT ![p] = "rules"] /\ pc[p] = "inserting" /\ p \in Apis /\ index
    OBVIOUS
  <2> QED BY <2>1, <2>2, <2>3, <2>4
<1>5. CASE Starting!EnsureRules(p)
  BY <1>5 DEF Starting!EnsureRules
<1>6. CASE Starting!ReadRules(p)
  <2>1. /\ pc[p] = "rules"
        /\ UNCHANGED <<guard, engine, index, runtime, cycles, rules, writes, updates>>
    BY <1>6 DEF Starting!ReadRules
  <2>2. CASE rules = 0
    <3>1. pc' = [pc EXCEPT ![p] = "down"] /\ current' = current
      BY <1>6, <2>2 DEF Starting!ReadRules
    <3> QED BY <2>1, <3>1
  <2>3. CASE rules # 0
    <3>1. pc' = [pc EXCEPT ![p] = "loading"] /\ current' = [current EXCEPT ![p] = rules]
      BY <1>6, <2>3 DEF Starting!ReadRules
    <3> QED BY <2>1, <2>3, <3>1
  <2> QED BY <2>2, <2>3
<1>7. CASE Starting!Load(p)
  <2>1. /\ pc[p] = "loading"
        /\ UNCHANGED <<guard, current, index, runtime, cycles, rules, writes, updates>>
    BY <1>7 DEF Starting!Load
  <2>2. CASE runtime = 0 /\ p \in WorkerProcesses
    <3>1. pc' = [pc EXCEPT ![p] = "down"] /\ engine' = engine
      BY <1>7, <2>2 DEF Starting!Load
    <3> QED BY <2>1, <3>1
  <2>3. CASE ~(runtime = 0 /\ p \in WorkerProcesses)
    <3>1. runtime # 0
      BY <1>7, <2>3 DEF Starting!Load
    <3>2. pc' = [pc EXCEPT ![p] = "running"] /\ engine' = [engine EXCEPT ![p] = runtime]
      BY <1>7, <2>3 DEF Starting!Load
    <3> QED BY <2>1, <3>1, <3>2
  <2> QED BY <2>2, <2>3
<1>8. CASE Starting!StartFails(p)
  BY <1>8 DEF Starting!StartFails
<1>9. CASE Starting!Stop(p)
  BY <1>9 DEF Starting!Stop
<1>10. CASE Starting!Write(p)
  <2> USE <1>10 DEF Starting!Write
  <2> DEFINE Row == [status : {"NONE", "OPEN", "CLOSED"}, taxPool : 0..MaxWrites]
  <2>1. runtime \in 1..MaxCycle /\ rules # 0 /\ cycles[runtime] \in Row
    OBVIOUS
  <2>2. /\ cycles'[runtime] = [cycles[runtime] EXCEPT !.taxPool = @ + 1]
        /\ \A c \in 1..MaxCycle : c # runtime => cycles'[c] = cycles[c]
    BY <2>1
  <2>3. cycles[runtime].taxPool \in Nat /\ cycles[runtime].taxPool + 1 <= writes'
    BY <2>1
  <2>4. /\ cycles'[runtime].status = cycles[runtime].status
        /\ cycles'[runtime].taxPool = cycles[runtime].taxPool + 1
    BY <2>1, <2>2
  <2>5. cycles'[runtime] \in Row
    <3> DEFINE row == cycles[runtime]
    <3>1. row \in Row /\ row.taxPool + 1 \in 0..MaxWrites
      BY <2>1, <2>3
    <3>2. [row EXCEPT !.taxPool = @ + 1] \in Row
      BY ONLY <3>1
    <3> QED BY <2>2, <3>2
  <2>6. cycles' \in [1..MaxCycle -> Row]
    BY <2>2, <2>5
  <2>7. \A c \in 1..MaxCycle : cycles'[c].taxPool <= writes'
    BY <2>2, <2>3, <2>4
  <2>8. cycles'[runtime] # Starting!NoCycle
    BY <2>3, <2>4
  <2>9. current' \in [Apis \cup WorkerProcesses -> RuleSet]
    BY <2>1
  <2> QED BY <2>1, <2>6, <2>7, <2>8, <2>9
<1>11. CASE Starting!UpdateRules(p)
  BY <1>11 DEF Starting!UpdateRules
<1>12. CASE Starting!CloseCycle(p)
  <2> USE <1>12 DEF Starting!CloseCycle
  <2> DEFINE Row == [status : {"NONE", "OPEN", "CLOSED"}, taxPool : 0..MaxWrites]
  <2>1. runtime \in 1..MaxCycle /\ rules # 0 /\ cycles[runtime] \in Row /\ runtime + 1 \in 1..MaxCycle
    OBVIOUS
  <2>2. /\ cycles'[runtime] = [cycles[runtime] EXCEPT !.status = "CLOSED"]
        /\ cycles'[runtime + 1] = Starting!NewCycle
        /\ \A c \in 1..MaxCycle : c \notin {runtime, runtime + 1} => cycles'[c] = cycles[c]
        /\ DOMAIN cycles' = 1..MaxCycle /\ cycles' = [c \in 1..MaxCycle |-> cycles'[c]]
    BY <2>1
  <2>3. cycles'[runtime] \in Row /\ cycles'[runtime].taxPool = cycles[runtime].taxPool
    BY <2>1, <2>2
  <2>4. \A c \in 1..MaxCycle : cycles'[c] \in Row /\ cycles'[c].taxPool <= writes'
    <3>1. cycles'[runtime + 1] \in Row /\ cycles'[runtime + 1].taxPool <= writes'
      BY <2>1, <2>2
    <3>2. \A c \in 1..MaxCycle : cycles[c] \in Row /\ cycles[c].taxPool <= writes'
      BY <2>1
    <3>3. cycles'[runtime] \in Row /\ cycles'[runtime].taxPool <= writes'
      BY <2>1, <2>3, <3>2
    <3> HIDE DEF Row
    <3> QED BY ONLY <2>2, <3>1, <3>2, <3>3
  <2>5. cycles' \in [1..MaxCycle -> Row]
    BY <2>2, <2>4
  <2>6. current' \in [Apis \cup WorkerProcesses -> RuleSet]
    BY <2>1
  <2>7. cycles'[runtime'] # Starting!NoCycle /\ runtime' # 0
    BY <2>1, <2>2
  <2>8. runtime' \in 0..MaxCycle
    BY <2>1
  <2>9. Starting!TypeOK'
    BY <2>5, <2>6, <2>8
  <2>10. \A q \in Starting!Processes :
           pc'[q] \in Serving /\ updates' = 0 => current'[q] = rules'
    OBVIOUS
  <2> QED BY <2>1, <2>4, <2>7, <2>9, <2>10
<1> QED BY <1>1, <1>2, <1>3, <1>4, <1>5, <1>6, <1>7, <1>8, <1>9, <1>10, <1>11, <1>12
          DEF Starting!Boot

LEMMA StartStutter == StartIInv /\ UNCHANGED startVars => StartIInv'
BY DEF startVars, StartIInv, Starting!TypeOK, Starting!NoCycle, Starting!Processes, Starting!None,
       Starting!Starting, Serving

LEMMA StartGood == StartIInv => Starting!TypeOK /\ Starting!Ready /\ Starting!OneRuleSet
BY DEF StartIInv, Serving, Starting!Ready, Starting!OneRuleSet, Starting!Running, Starting!None,
       Starting!Processes

\* A process only comes to insert the first rows when it finds none, so once they are
\* there and nobody is about to insert them, nobody will be.
LEMMA StartKeeps ==
  StartIInv /\ Starting!Next => Starting!NothingTakenBack /\ Starting!OnlyAdministrators
<1> SUFFICES ASSUME StartIInv, NEW p \in Starting!Processes,
                    \/ Starting!Boot(p)
                    \/ Starting!StartFails(p) \/ Starting!Stop(p)
                    \/ Starting!Write(p) \/ Starting!UpdateRules(p) \/ Starting!CloseCycle(p)
             PROVE  Starting!NothingTakenBack /\ Starting!OnlyAdministrators
  BY DEF Starting!Next
<1> DEFINE Kept ==
      /\ Starting!Settled'
      /\ runtime' >= runtime
      /\ \A c \in 1..MaxCycle : cycles[c] # Starting!NoCycle =>
           /\ cycles'[c].taxPool >= cycles[c].taxPool
           /\ cycles[c].status = "CLOSED" => cycles'[c].status = "CLOSED"
<1> USE StartAssumption DEF StartIInv, Starting!TypeOK, Starting!Processes, Starting!None, Serving,
        Starting!Goto, Starting!Settled
<1>1. ASSUME UNCHANGED <<runtime, cycles>>, Starting!Settled,
             \A q \in Starting!Processes : pc'[q] = "inserting" => pc[q] = "inserting" \/ runtime = 0
      PROVE  Kept
  <2>1. \A c \in 1..MaxCycle : cycles[c].taxPool \in Int /\ cycles'[c] = cycles[c]
    BY <1>1
  <2> QED BY <1>1, <2>1
<1>2. CASE Starting!Start(p)
  BY <1>1, <1>2 DEF Starting!Start, Starting!NothingTakenBack, Starting!OnlyAdministrators
<1>3. CASE Starting!EnsureGuards(p)
  BY <1>1, <1>3 DEF Starting!EnsureGuards, Starting!NothingTakenBack, Starting!OnlyAdministrators
<1>4. CASE Starting!FindRuntime(p)
  BY <1>1, <1>4 DEF Starting!FindRuntime, Starting!NothingTakenBack, Starting!OnlyAdministrators
<1>5. CASE Starting!ApplySnapshot(p)
  BY <1>5 DEF Starting!ApplySnapshot, Starting!NothingTakenBack, Starting!OnlyAdministrators
<1>6. CASE Starting!EnsureRules(p)
  BY <1>1, <1>6 DEF Starting!EnsureRules, Starting!NothingTakenBack, Starting!OnlyAdministrators
<1>7. CASE Starting!ReadRules(p)
  BY <1>1, <1>7 DEF Starting!ReadRules, Starting!NothingTakenBack, Starting!OnlyAdministrators
<1>8. CASE Starting!Load(p)
  BY <1>1, <1>8 DEF Starting!Load, Starting!NothingTakenBack, Starting!OnlyAdministrators
<1>9. CASE Starting!StartFails(p)
  BY <1>1, <1>9 DEF Starting!StartFails, Starting!NothingTakenBack, Starting!OnlyAdministrators
<1>10. CASE Starting!Stop(p)
  BY <1>1, <1>10 DEF Starting!Stop, Starting!NothingTakenBack, Starting!OnlyAdministrators
<1>11. CASE Starting!UpdateRules(p)
  BY <1>1, <1>11 DEF Starting!UpdateRules, Starting!NothingTakenBack, Starting!OnlyAdministrators
<1>12. CASE Starting!Write(p)
  <2> USE <1>12 DEF Starting!Write
  <2>1. runtime \in 1..MaxCycle /\ cycles[runtime].taxPool \in Int
    OBVIOUS
  <2>2. /\ cycles'[runtime].status = cycles[runtime].status
        /\ cycles'[runtime].taxPool = cycles[runtime].taxPool + 1
        /\ \A c \in 1..MaxCycle : c # runtime => cycles'[c] = cycles[c]
    BY <2>1
  <2>3. \A c \in 1..MaxCycle : cycles[c].taxPool \in Int
    OBVIOUS
  <2>4. \A c \in 1..MaxCycle : /\ cycles'[c].taxPool >= cycles[c].taxPool
                               /\ cycles'[c].status = cycles[c].status
    BY <2>1, <2>2, <2>3
  <2>5. Starting!Settled => Kept
    BY <2>4
  <2> QED BY <2>5 DEF Starting!NothingTakenBack, Starting!OnlyAdministrators
<1>13. CASE Starting!CloseCycle(p)
  <2> USE <1>13 DEF Starting!CloseCycle
  <2>1. runtime \in 1..MaxCycle /\ runtime + 1 \in 1..MaxCycle /\ cycles[runtime].taxPool \in Int
    OBVIOUS
  <2>2. /\ cycles'[runtime].status = "CLOSED"
        /\ cycles'[runtime].taxPool = cycles[runtime].taxPool
        /\ \A c \in 1..MaxCycle : c \notin {runtime, runtime + 1} => cycles'[c] = cycles[c]
    BY <2>1
  <2>3. \A c \in 1..MaxCycle : cycles[c].taxPool \in Int
    OBVIOUS
  <2>4. \A c \in 1..MaxCycle : cycles[c] # Starting!NoCycle =>
               /\ cycles'[c].taxPool >= cycles[c].taxPool
               /\ cycles[c].status = "CLOSED" => cycles'[c].status = "CLOSED"
    BY <2>1, <2>2, <2>3
  <2>5. runtime' >= runtime
    BY <2>1
  <2>6. Starting!Settled => Starting!Settled'
    BY <2>1
  <2>7. Starting!Settled => Kept
    <3> HIDE DEF Starting!Settled
    <3> QED BY <2>4, <2>5, <2>6
  <2> QED BY <2>7 DEF Starting!NothingTakenBack, Starting!OnlyAdministrators
<1> QED BY <1>2, <1>3, <1>4, <1>5, <1>6, <1>7, <1>8, <1>9, <1>10, <1>11, <1>12, <1>13
          DEF Starting!Boot

\* A process that serves finds the rows and the index that its writes rely on, and all
\* processes work with the rules of the database, for any number of processes, cycles,
\* stops and writes (StartsRight).
THEOREM ServingFindsItsRows == AroundSpec => []StartsRight
<1>1. AroundInit => StartIInv
  BY StartInit DEF AroundInit
<1>2. StartIInv /\ [AroundNext]_everything => StartIInv'
  BY StartStep, StartStutter
     DEF AroundNext, StartOnly, SignInOnly, FilesOnly, CallOnly, ListOnly, DrawerOnly,
         ClientOnly, serverVars, everything
<1>3. StartIInv => StartsRight
  BY StartGood DEF StartsRight
<1> QED BY <1>1, <1>2, <1>3, PTL DEF AroundSpec

\* Once the first rows are there and nobody is about to insert them, no start takes back
\* what was written, and only an administrator changes the rules.
THEOREM StartsTakeNothingBack ==
  AroundSpec => [][Starting!NothingTakenBack /\ Starting!OnlyAdministrators]_startVars
<1>1. AroundInit => StartIInv
  BY StartInit DEF AroundInit
<1>2. StartIInv /\ [AroundNext]_everything => StartIInv'
  BY StartStep, StartStutter
     DEF AroundNext, StartOnly, SignInOnly, FilesOnly, CallOnly, ListOnly, DrawerOnly,
         ClientOnly, serverVars, everything
<1>3. StartIInv /\ [AroundNext]_everything =>
        [Starting!NothingTakenBack /\ Starting!OnlyAdministrators]_startVars
  BY StartKeeps
     DEF AroundNext, StartOnly, SignInOnly, FilesOnly, CallOnly, ListOnly, DrawerOnly,
         ClientOnly, serverVars, everything
<1> QED BY <1>1, <1>2, <1>3, PTL DEF AroundSpec

-----------------------------------------------------------------------------
(* One call of the SDK.                                                    *)

\* The client has heard the end of attempt i, or did not hear of it.
Over(i) == i \in unanswered \/ (i \notin requests /\ i \notin applied)

\* The client has not been told that its call has come to an end; when it has, it
\* was told the truth.
CallIInv ==
  /\ Calling!TypeOK
  /\ retries \in 0..MaxRetries /\ operation \in Calling!Operations
  /\ at # "done" => result = "none"
  /\ \A i \in requests \cup applied \cup unanswered : i <= attempt
  /\ requests \cap applied = {}
  /\ at = "sending" => attempt \notin requests \cup applied \cup unanswered
  /\ \A a \in answers :
       /\ a.attempt <= attempt
       /\ at = "sending" => a.attempt < attempt
       /\ a.attempt \notin requests
       /\ a.status = "ok" /\ operation # "read" => a.attempt \in applied
       /\ a.status \in {"refused", "rateLimited"} => a.attempt \notin applied
  /\ \A i \in Calling!Attempts : i < attempt => Over(i)
  /\ at = "waiting" => attempt \notin unanswered
  /\ at = "sleeping" => Over(attempt) /\ attempt < retries + 1
  /\ operation = "transition" => \E i \in Calling!Attempts : applied \subseteq {i}
  /\ result \in {"ok", "invalid"} /\ operation # "read" => attempt \in applied
  /\ result \in {"refused", "rateLimited", "never"} =>
       attempt \notin requests \cup applied \cup unanswered

LEMMA CallInit == Calling!Init => CallIInv
BY CallAssumption DEF Calling!Init, CallIInv, Calling!TypeOK, Calling!maxAttempts, Calling!Attempts,
   Calling!Results, Calling!Statuses, Over

LEMMA CallStep == CallIInv /\ Calling!Next => CallIInv'
<1> USE CallAssumption DEF CallIInv, Calling!TypeOK, Calling!maxAttempts, Calling!Attempts,
        Calling!Results, Calling!Statuses, Over, Calling!RetriesLeft
<1>1. ASSUME CallIInv, Calling!Send PROVE CallIInv'
  BY <1>1 DEF Calling!Send
<1>2. ASSUME CallIInv, Calling!CannotSend PROVE CallIInv'
  BY <1>2 DEF Calling!CannotSend, Calling!End
<1>3. ASSUME CallIInv, Calling!Wake PROVE CallIInv'
  BY <1>3 DEF Calling!Wake
<1>4. ASSUME CallIInv, Calling!ReceiveSuccess PROVE CallIInv'
  BY <1>4 DEF Calling!ReceiveSuccess, Calling!Delivered, Calling!End
<1>5. ASSUME CallIInv, Calling!ReceiveError PROVE CallIInv'
  <2>1. PICK status \in Calling!Statuses \ {"ok"} :
          /\ Calling!Delivered(status)
          /\ IF Calling!ShouldRetryStatus(status) THEN Calling!RetryOrEnd(status) ELSE Calling!End(status)
          /\ unanswered' = IF status = "serverError" THEN unanswered \cup {attempt} ELSE unanswered
    BY <1>5 DEF Calling!ReceiveError
  <2> DEFINE told == [attempt |-> attempt, status |-> status]
  <2>2. told \in answers /\ told.attempt = attempt /\ told.status = status
    BY <2>1 DEF Calling!Delivered
  <2>3. CASE status = "refused"
    BY <1>5, <2>1, <2>2, <2>3 DEF Calling!Delivered, Calling!End, Calling!ShouldRetryStatus
  <2>4. CASE status = "rateLimited"
    BY <1>5, <2>1, <2>2, <2>4 DEF Calling!Delivered, Calling!End, Calling!ShouldRetryStatus, Calling!RetryOrEnd
  <2>5. CASE status = "serverError"
    BY <1>5, <2>1, <2>2, <2>5 DEF Calling!Delivered, Calling!End, Calling!ShouldRetryStatus, Calling!RetryOrEnd
  <2> QED BY <2>3, <2>4, <2>5
<1>6. ASSUME CallIInv, Calling!Timeout PROVE CallIInv'
  BY <1>6 DEF Calling!Timeout, Calling!End, Calling!RetryOrEnd
<1>7. ASSUME CallIInv, Calling!Disconnect PROVE CallIInv'
  BY <1>7 DEF Calling!Disconnect, Calling!End, Calling!RetryOrEnd
<1>8. ASSUME CallIInv, NEW i \in Calling!Attempts, Calling!LoseRequest(i) PROVE CallIInv'
  BY <1>8 DEF Calling!LoseRequest
<1>9. ASSUME CallIInv, NEW i \in Calling!Attempts, Calling!Handle(i) PROVE CallIInv'
  <2>1. ASSUME NEW status \in Calling!Statuses \ {"ok"}, Calling!Answer(i, status), UNCHANGED applied
        PROVE CallIInv'
    BY <1>9, <2>1 DEF Calling!Handle, Calling!Answer
  <2>2. ASSUME NEW status \in {"ok", "serverError"}, Calling!Answer(i, status),
               operation = "transition" => applied = {},
               applied' = IF operation = "read" THEN applied ELSE applied \cup {i}
        PROVE CallIInv'
    <3>1. CASE operation = "read"
      BY <1>9, <2>2, <3>1 DEF Calling!Handle, Calling!Answer
    <3>2. CASE operation # "read"
      BY <1>9, <2>2, <3>2 DEF Calling!Handle, Calling!Answer
    <3> QED BY <3>1, <3>2
  <2> QED BY <1>9, <2>1, <2>2 DEF Calling!Handle
<1> QED BY <1>1, <1>2, <1>3, <1>4, <1>5, <1>6, <1>7, <1>8, <1>9 DEF Calling!Next, Calling!Client

LEMMA CallStutter == ASSUME CallIInv, UNCHANGED callVars PROVE CallIInv'
BY DEF CallIInv, Calling!TypeOK, Calling!maxAttempts, callVars, Over

LEMMA CallGood == CallIInv => Calling!TypeOK /\ Calling!AppliedOnce /\ Calling!ResultTrue
<1> SUFFICES ASSUME CallIInv PROVE Calling!TypeOK /\ Calling!AppliedOnce /\ Calling!ResultTrue
  OBVIOUS
<1>1. Calling!TypeOK
  BY DEF CallIInv
<1>2. applied \subseteq Calling!Attempts /\ attempt \in Int /\ Calling!Attempts \subseteq Int
  BY CallAssumption DEF CallIInv, Calling!TypeOK, Calling!Attempts, Calling!maxAttempts
<1>3. \A i \in applied \ unanswered : i = attempt
  BY <1>2 DEF CallIInv, Over
<1>4. ASSUME NEW S, NEW e, S \subseteq {e} PROVE Cardinality(S) <= 1
  <2>1. CASE e \in S
    <3>1. S = {e}
      BY <1>4, <2>1
    <3>2. Cardinality({e}) = 1
      BY FS_Singleton
    <3> QED BY <3>1, <3>2
  <2>2. CASE e \notin S
    <3>1. S = {}
      BY <1>4, <2>2
    <3> QED BY <3>1, FS_EmptySet
  <2> QED BY <2>1, <2>2
<1>5. Cardinality(applied \ unanswered) <= 1
  BY <1>3, <1>4
<1>6. operation = "transition" => Cardinality(applied) <= 1
  BY <1>4 DEF CallIInv
<1>7. Calling!ResultTrue
  <2>1. result \in {"ok", "invalid"} /\ operation # "read" => attempt \in applied
    BY DEF CallIInv
  <2>2. ASSUME result \in {"refused", "rateLimited", "never"}, NEW i \in applied
        PROVE i \in unanswered /\ i < attempt
    BY <1>2, <2>2 DEF CallIInv, Over
  <2> QED BY <2>1, <2>2 DEF Calling!ResultTrue
<1>8. Calling!AppliedOnce
  BY <1>5, <1>6 DEF Calling!AppliedOnce, Calling!Cardinality, Cardinality
<1> QED BY <1>1, <1>7, <1>8

\* At most one attempt of a call is applied whose end the client knew, a transition
\* once in any case, and what the caller of the SDK is told is what happened, for any
\* number of retries and whatever the network loses (CallsTold).
THEOREM CallersAreToldTheTruth == AroundSpec => []CallsTold
<1>1. AroundInit => CallIInv
  BY CallInit DEF AroundInit
<1>2. CallIInv /\ [AroundNext]_everything => CallIInv'
  BY CallStep, CallStutter
     DEF AroundNext, StartOnly, SignInOnly, FilesOnly, CallOnly, ListOnly, DrawerOnly,
         ClientOnly, ServerOnly, clientVars, everything
<1>3. CallIInv => CallsTold
  BY CallGood DEF CallsTold
<1> QED BY <1>1, <1>2, <1>3, PTL DEF AroundSpec

-----------------------------------------------------------------------------
(* Sign-in.                                                                *)

Verifiers(n) == {r \in Requests : verifying[r] = n}

SignTypes ==
  /\ now \in 0..MaxTime
  /\ challenges \in [Addresses -> [nonce : 0..MaxChallenges, createdAt : 0..MaxTime]]
  /\ nextSweepAt \in 0..(MaxTime + SweepInterval)
  /\ given \in [1..MaxChallenges -> [to : Addresses \cup {0}, at : 0..MaxTime]]
  /\ verifying \in [Requests -> 0..MaxChallenges]
  /\ tokens \in [1..MaxChallenges -> Nat]
  /\ overtaken \subseteq 1..MaxChallenges
  /\ refused \in Addresses \cup {0}

\* What waits in the table is what was given to that address.
SignPending ==
  \A a \in Addresses : challenges[a] # SigningIn!NoChallenge =>
    /\ challenges[a].nonce \in 1..MaxChallenges
    /\ given[challenges[a].nonce].to = a
    /\ given[challenges[a].nonce].at = challenges[a].createdAt

\* Challenges are given one after the other, and used after they are given.
SignGiven ==
  \A n \in 1..MaxChallenges : given[n].to = 0 =>
    /\ tokens[n] = 0
    /\ \A k \in 1..MaxChallenges : k > n => given[k].to = 0
    /\ \A r \in Requests : verifying[r] # n

\* Every request that verifies a challenge may still earn one token for it.
SignTokens ==
  \A n \in 1..MaxChallenges : tokens[n] + Cardinality(Verifiers(n)) <= Cardinality(Requests)

\* What waits is the last one that was given to its address.
SignLast ==
  \A a \in Addresses : challenges[a] # SigningIn!NoChallenge =>
    \A k \in 1..MaxChallenges : k > challenges[a].nonce => given[k].to # a

SignIInv ==
  /\ SignTypes /\ SignPending /\ SignGiven /\ SignTokens /\ SignLast
  /\ SigningIn!SpentIsGone /\ SigningIn!LatestKept /\ SigningIn!RefusedWhenFull
  /\ SigningIn!OvertakenByEarlier

LEMMA SignCount == \A S : SigningIn!Cardinality(S) = Cardinality(S)
BY DEF SigningIn!Cardinality, Cardinality

LEMMA SignFinite ==
  /\ \A S \in SUBSET Addresses : IsFiniteSet(S) /\ Cardinality(S) \in Nat
  /\ \A S \in SUBSET Requests : IsFiniteSet(S) /\ Cardinality(S) \in Nat /\ Cardinality(S) <= Cardinality(Requests)
BY SignInAssumption, FS_Subset, FS_CardinalityType

LEMMA SignInit == SigningIn!Init => SignIInv
<1> SUFFICES ASSUME SigningIn!Init PROVE SignIInv
  OBVIOUS
<1> USE SignInAssumption DEF SigningIn!Init, SigningIn!Nonces, SigningIn!NoChallenge, SigningIn!Nobody, SigningIn!Idle
<1>1. SignTypes /\ SignPending /\ SignGiven /\ SignLast /\ SigningIn!OvertakenByEarlier
  BY DEF SignTypes, SignPending, SignGiven, SignLast, SigningIn!OvertakenByEarlier
<1>2. SignTokens
  <2>1. \A n \in 1..MaxChallenges : Verifiers(n) = {}
    BY DEF Verifiers
  <2>2. \A n \in 1..MaxChallenges : tokens[n] = 0
    OBVIOUS
  <2>3. Cardinality({}) = 0 /\ Cardinality(Requests) \in Nat
    BY SignFinite, FS_EmptySet
  <2>4. ASSUME NEW n \in 1..MaxChallenges
        PROVE tokens[n] + Cardinality(Verifiers(n)) <= Cardinality(Requests)
    BY ONLY <2>1, <2>2, <2>3
  <2> QED BY ONLY <2>4 DEF SignTokens
<1>3. SigningIn!Pending(challenges) = {}
  BY DEF SigningIn!Pending
<1>4. SigningIn!SpentIsGone
  BY <1>3 DEF SigningIn!SpentIsGone
<1>5. SigningIn!LatestKept
  BY DEF SigningIn!LatestKept, SigningIn!Latest, SigningIn!To
<1>6. SigningIn!RefusedWhenFull
  <2>1. SigningIn!Cardinality(SigningIn!Pending(challenges)) = 0
    BY ONLY <1>3, SignCount, FS_EmptySet
  <2>2. refused = 0
    OBVIOUS
  <2> QED BY ONLY <2>1, <2>2, SignInAssumption DEF SigningIn!RefusedWhenFull, SigningIn!Nobody
<1> QED BY <1>1, <1>2, <1>4, <1>5, <1>6 DEF SignIInv

\* What a sweep leaves of the table, and that it has been swept when it is full.
LEMMA SignSweeps ==
  ASSUME SignIInv, NEW a \in Addresses
  PROVE  LET swept == SigningIn!AfterSweeps(a)
             table == swept.table
         IN  /\ table \in [Addresses -> [nonce : 0..MaxChallenges, createdAt : 0..MaxTime]]
             /\ swept.nextSweepAt \in 0..(MaxTime + SweepInterval)
             /\ \A b \in Addresses :
                  table[b] # challenges[b] =>
                    table[b] = SigningIn!NoChallenge /\ SigningIn!Expired(challenges[b])
             /\ ~ SigningIn!HasRoom(table, a) =>
                  \A b \in Addresses :
                    table[b] # SigningIn!NoChallenge => ~ SigningIn!Expired(table[b])
<1> DEFINE swept == SigningIn!AfterSweeps(a)
           table == swept.table
           Row == [nonce : 0..MaxChallenges, createdAt : 0..MaxTime]
           clean == SigningIn!SweepExpired(challenges)
<1>1. SigningIn!NoChallenge \in Row
  BY SignInAssumption DEF SigningIn!NoChallenge
<1>2. challenges \in [Addresses -> Row] /\ now \in 0..MaxTime /\ nextSweepAt \in 0..(MaxTime + SweepInterval)
  BY DEF SignIInv, SignTypes
<1>3. clean \in [Addresses -> Row]
  BY <1>1, <1>2 DEF SigningIn!SweepExpired
<1>4. \A b \in Addresses :
        /\ clean[b] # challenges[b] => clean[b] = SigningIn!NoChallenge /\ SigningIn!Expired(challenges[b])
        /\ clean[b] # SigningIn!NoChallenge => ~ SigningIn!Expired(clean[b])
  BY DEF SigningIn!SweepExpired
<1>5. \/ table = clean /\ swept.nextSweepAt = now + SweepInterval
      \/ /\ table = challenges /\ swept.nextSweepAt = nextSweepAt
         /\ SigningIn!HasRoom(challenges, a)
  <2>1. Cardinality(SigningIn!Pending(challenges)) \in Nat
    BY SignFinite DEF SigningIn!Pending
  <2> QED BY <2>1, SignInAssumption, SignCount DEF SigningIn!AfterSweeps, SigningIn!HasRoom
<1>6. now + SweepInterval \in 0..(MaxTime + SweepInterval)
  BY <1>2, SignInAssumption
<1> HIDE DEF swept, clean, Row
<1>7. table \in [Addresses -> Row] /\ swept.nextSweepAt \in 0..(MaxTime + SweepInterval)
  BY <1>2, <1>3, <1>5, <1>6
<1>8. \A b \in Addresses : table[b] # challenges[b] =>
        table[b] = SigningIn!NoChallenge /\ SigningIn!Expired(challenges[b])
  BY <1>4, <1>5
<1>9. ~ SigningIn!HasRoom(table, a) =>
        \A b \in Addresses : table[b] # SigningIn!NoChallenge => ~ SigningIn!Expired(table[b])
  BY <1>4, <1>5
<1> QED BY <1>7, <1>8, <1>9 DEF swept, Row

\* A challenge that the table held before and that has expired or is still there is
\* kept by whoever it was given to, as long as nothing is given, spent or overtaken.
LEMMA SignLatest ==
  ASSUME SignIInv, now' \in Nat, now' >= now, given' = given, tokens' = tokens, overtaken' = overtaken,
         \A a \in Addresses : challenges'[a] = challenges[a] \/ SigningIn!Expired(challenges[a])
  PROVE  SigningIn!LatestKept'
<1> SUFFICES ASSUME NEW a \in Addresses, NEW n \in SigningIn!Latest(a)'
             PROVE  \/ challenges'[a].nonce = n
                    \/ tokens'[n] > 0
                    \/ n \in overtaken'
                    \/ Ttl > 0 /\ now' - given'[n].at >= Ttl
  BY DEF SigningIn!LatestKept
<1>1. n \in SigningIn!Latest(a) /\ n \in 1..MaxChallenges /\ given[n].to = a
  BY DEF SigningIn!Latest, SigningIn!To, SigningIn!Nonces
<1>2. now \in Int /\ given[n].at \in Int /\ Ttl \in Nat
  <2>1. given[n] \in [to : Addresses \cup {0}, at : 0..MaxTime] /\ now \in 0..MaxTime
    BY <1>1 DEF SignIInv, SignTypes
  <2> QED BY <2>1, SignInAssumption
<1>3. \/ challenges[a].nonce = n
      \/ tokens[n] > 0
      \/ n \in overtaken
      \/ Ttl > 0 /\ now - given[n].at >= Ttl
  BY <1>1 DEF SignIInv, SigningIn!LatestKept
<1>4. ASSUME challenges[a].nonce = n, SigningIn!Expired(challenges[a])
      PROVE Ttl > 0 /\ now - given[n].at >= Ttl
  <2>1. challenges[a] # SigningIn!NoChallenge
    BY <1>1, <1>4 DEF SigningIn!NoChallenge
  <2> QED BY <1>4, <2>1 DEF SignIInv, SignPending, SigningIn!Expired
<1> QED BY <1>1, <1>2, <1>3, <1>4

\* The order of challenges stays as long as nothing is given, spent or overtaken.
LEMMA SignOrder ==
  ASSUME SignIInv, given' = given, tokens' = tokens, overtaken' = overtaken,
         \A a \in Addresses : challenges'[a] = challenges[a] \/ challenges'[a] = SigningIn!NoChallenge
  PROVE  SignLast' /\ SigningIn!OvertakenByEarlier'
<1>1. SignLast'
  BY DEF SignIInv, SignLast
<1>2. SigningIn!OvertakenByEarlier'
  BY DEF SignIInv, SigningIn!OvertakenByEarlier, SigningIn!To, SigningIn!Nobody
<1> QED BY <1>1, <1>2

LEMMA SignTick == ASSUME SignIInv, SigningIn!Tick PROVE SignIInv'
<1> USE DEF SigningIn!Tick
<1>1. now \in 0..MaxTime /\ MaxTime \in Nat
  BY SignInAssumption DEF SignIInv, SignTypes
<1>2. SignTypes'
  BY <1>1 DEF SignIInv, SignTypes, SigningIn!Nobody
<1>3. SignPending' /\ SignGiven'
  BY DEF SignIInv, SignPending, SignGiven
<1>4. SignTokens'
  BY DEF SignIInv, SignTokens, Verifiers
<1>5. SigningIn!SpentIsGone'
  BY DEF SignIInv, SigningIn!SpentIsGone, SigningIn!Pending
<1>6. SigningIn!LatestKept'
  BY <1>1, SignLatest
<1>7. SigningIn!RefusedWhenFull'
  BY DEF SignIInv, SigningIn!RefusedWhenFull, SigningIn!Pending, SigningIn!Nobody
<1>8. SignLast' /\ SigningIn!OvertakenByEarlier'
  BY SignOrder
<1> QED BY <1>2, <1>3, <1>4, <1>5, <1>6, <1>7, <1>8 DEF SignIInv

LEMMA SignReject == ASSUME SignIInv, NEW r \in Requests, SigningIn!Reject(r) PROVE SignIInv'
<1> USE DEF SigningIn!Reject, SigningIn!Idle
<1>1. now \in 0..MaxTime /\ MaxTime \in Nat
  BY SignInAssumption DEF SignIInv, SignTypes
<1>2. SignTypes'
  BY <1>1, SignInAssumption DEF SignIInv, SignTypes, SigningIn!Nobody
<1>3. SignPending' /\ SignGiven'
  BY DEF SignIInv, SignPending, SignGiven, SignTypes
<1>4. SignTokens'
  <2>1. ASSUME NEW n \in 1..MaxChallenges
        PROVE tokens'[n] + Cardinality(Verifiers(n)') <= Cardinality(Requests)
    <3>1. Verifiers(n)' \subseteq Verifiers(n) /\ Verifiers(n) \in SUBSET Requests
      BY DEF Verifiers, SignIInv, SignTypes
    <3>2. Cardinality(Verifiers(n)') <= Cardinality(Verifiers(n)) /\ Cardinality(Verifiers(n)) \in Nat
          /\ Cardinality(Verifiers(n)') \in Nat
      BY <3>1, SignFinite, FS_Subset, FS_CardinalityType
    <3>3. tokens'[n] = tokens[n] /\ tokens[n] \in Nat /\ Cardinality(Requests) \in Nat
      BY SignFinite DEF SignIInv, SignTypes
    <3>4. tokens[n] + Cardinality(Verifiers(n)) <= Cardinality(Requests)
      BY DEF SignIInv, SignTokens
    <3> QED BY ONLY <3>2, <3>3, <3>4
  <2> QED BY <2>1 DEF SignTokens
<1>5. SigningIn!SpentIsGone'
  BY DEF SignIInv, SigningIn!SpentIsGone, SigningIn!Pending
<1>6. SigningIn!LatestKept'
  BY <1>1, SignLatest
<1>7. SigningIn!RefusedWhenFull'
  BY DEF SignIInv, SigningIn!RefusedWhenFull, SigningIn!Pending, SigningIn!Nobody
<1>8. SignLast' /\ SigningIn!OvertakenByEarlier'
  BY SignOrder
<1> QED BY <1>2, <1>3, <1>4, <1>5, <1>6, <1>7, <1>8 DEF SignIInv

\* Taking challenges out of the table only makes room.
LEMMA SignRoom ==
  ASSUME SignIInv, refused' = 0,
         \A a \in Addresses : challenges'[a] = challenges[a] \/ challenges'[a] = SigningIn!NoChallenge
  PROVE  SigningIn!RefusedWhenFull'
<1>1. SigningIn!Pending(challenges)' \subseteq SigningIn!Pending(challenges)
  BY DEF SigningIn!Pending
<1>2. SigningIn!Pending(challenges) \in SUBSET Addresses
  BY DEF SigningIn!Pending
<1>3. Cardinality(SigningIn!Pending(challenges)') <= Cardinality(SigningIn!Pending(challenges))
      /\ Cardinality(SigningIn!Pending(challenges)) \in Nat /\ Cardinality(SigningIn!Pending(challenges)') \in Nat
  BY <1>1, <1>2, SignFinite, FS_Subset, FS_CardinalityType
<1>4. Cardinality(SigningIn!Pending(challenges)) <= MaxEntries
  BY SignCount DEF SignIInv, SigningIn!RefusedWhenFull
<1>5. SigningIn!Cardinality(SigningIn!Pending(challenges)') <= MaxEntries
  BY ONLY <1>3, <1>4, SignCount, SignInAssumption
<1> QED BY <1>5 DEF SigningIn!RefusedWhenFull, SigningIn!Nobody

LEMMA SignBegin ==
  ASSUME SignIInv, NEW r \in Requests, NEW n \in SigningIn!Nonces,
         SigningIn!To(n) # SigningIn!Nobody, SigningIn!BeginVerify(r, n)
  PROVE  SignIInv'
<1> DEFINE a == given[n].to
<1>1. n \in 1..MaxChallenges /\ a \in Addresses /\ a # 0
  BY SignInAssumption DEF SigningIn!Nonces, SigningIn!To, SigningIn!Nobody, SignIInv, SignTypes
<1>2. /\ verifying[r] = 0
      /\ UNCHANGED <<now, nextSweepAt, given, tokens, overtaken>>
      /\ refused' = 0
      /\ \/ UNCHANGED <<challenges, verifying>>
         \/ /\ SigningIn!Expired(challenges[a])
            /\ challenges' = [challenges EXCEPT ![a] = SigningIn!NoChallenge]
            /\ UNCHANGED verifying
         \/ /\ challenges[a].nonce = n
            /\ verifying' = [verifying EXCEPT ![r] = n]
            /\ UNCHANGED challenges
  BY DEF SigningIn!BeginVerify, SigningIn!To, SigningIn!Idle, SigningIn!Nobody
<1> HIDE DEF a
<1>3. now \in 0..MaxTime /\ MaxTime \in Nat
  BY SignInAssumption DEF SignIInv, SignTypes
<1>4. \A b \in Addresses :
        \/ challenges'[b] = challenges[b]
        \/ challenges'[b] = SigningIn!NoChallenge /\ SigningIn!Expired(challenges[b])
  BY <1>1, <1>2 DEF SignIInv, SignTypes
<1>5. SigningIn!NoChallenge \in [nonce : 0..MaxChallenges, createdAt : 0..MaxTime]
  BY SignInAssumption DEF SigningIn!NoChallenge
<1>6. SignTypes'
  BY <1>1, <1>2, <1>5 DEF SignIInv, SignTypes
<1>7. SignPending'
  BY <1>2, <1>4 DEF SignIInv, SignPending
<1>8. \A q \in Requests : verifying'[q] = verifying[q] \/ (q = r /\ verifying'[q] = n)
  <2>1. verifying \in [Requests -> 0..MaxChallenges]
    BY DEF SignIInv, SignTypes
  <2> QED BY ONLY <1>2, <2>1
<1>9. SignGiven'
  <2>1. given[n].to # 0
    BY <1>1 DEF a
  <2> QED BY <1>2, <1>8, <2>1 DEF SignIInv, SignGiven
<1>10. SignTokens'
  <2> SUFFICES ASSUME NEW m \in 1..MaxChallenges
               PROVE tokens[m] + Cardinality(Verifiers(m)') <= Cardinality(Requests)
    BY <1>2 DEF SignTokens
  <2>1. Verifiers(m)' \in SUBSET Requests
    BY DEF Verifiers
  <2>2. Cardinality(Verifiers(m)') <= Cardinality(Requests) /\ Cardinality(Verifiers(m)') \in Nat
        /\ Cardinality(Requests) \in Nat
    BY <2>1, SignFinite
  <2>3. CASE verifying' # verifying /\ m = n
    <3>1. challenges[a].nonce = n
      BY <1>2, <2>3
    <3>2. challenges[a] # SigningIn!NoChallenge
      BY <1>1, <3>1 DEF SigningIn!NoChallenge
    <3>3. tokens[n] = 0
      BY <1>1, <3>1, <3>2 DEF SignIInv, SigningIn!SpentIsGone, SigningIn!Pending
    <3> QED BY ONLY <2>2, <2>3, <3>3
  <2>4. CASE ~ (verifying' # verifying /\ m = n)
    <3>1. Verifiers(m)' \subseteq Verifiers(m) /\ Verifiers(m) \in SUBSET Requests
      BY <1>2, <1>8, <2>4 DEF Verifiers
    <3>2. Cardinality(Verifiers(m)') <= Cardinality(Verifiers(m)) /\ Cardinality(Verifiers(m)) \in Nat
      BY <3>1, SignFinite, FS_Subset
    <3>3. tokens[m] \in Nat /\ tokens[m] + Cardinality(Verifiers(m)) <= Cardinality(Requests)
      BY DEF SignIInv, SignTokens, SignTypes
    <3> QED BY ONLY <2>2, <3>2, <3>3
  <2> QED BY <2>3, <2>4
<1>11. SigningIn!SpentIsGone'
  BY <1>2, <1>4 DEF SignIInv, SigningIn!SpentIsGone, SigningIn!Pending
<1>12. SigningIn!LatestKept'
  BY <1>2, <1>3, <1>4, SignLatest
<1>13. SigningIn!RefusedWhenFull'
  BY <1>2, <1>4, SignRoom
<1>14. SignLast' /\ SigningIn!OvertakenByEarlier'
  BY <1>2, <1>4, SignOrder
<1> QED BY <1>6, <1>7, <1>9, <1>10, <1>11, <1>12, <1>13, <1>14 DEF SignIInv

LEMMA SignAccept == ASSUME SignIInv, NEW r \in Requests, SigningIn!Accept(r) PROVE SignIInv'
<1> DEFINE n == verifying[r]
           a == given[n].to
           other == challenges[a].nonce
<1>1. n \in 1..MaxChallenges /\ verifying \in [Requests -> 0..MaxChallenges]
  BY SignInAssumption DEF SigningIn!Accept, SigningIn!Idle, SignIInv, SignTypes
<1>2. given[n].to # 0
  BY <1>1 DEF SignIInv, SignGiven
<1>3. a \in Addresses /\ a # 0
  BY <1>1, <1>2 DEF SignIInv, SignTypes
<1>4. /\ UNCHANGED <<now, nextSweepAt, given>>
      /\ tokens' = [tokens EXCEPT ![n] = tokens[n] + 1]
      /\ overtaken' = overtaken \cup ({other} \ {0, n})
      /\ challenges' = [challenges EXCEPT ![a] = SigningIn!NoChallenge]
      /\ verifying' = [verifying EXCEPT ![r] = 0]
      /\ refused' = 0
  BY DEF SigningIn!Accept, SigningIn!To, SigningIn!Idle, SigningIn!Nobody
<1>5. n \in 1..MaxChallenges /\ verifying[r] = n /\ given[n].to = a /\ challenges[a].nonce = other
  BY <1>1
<1> HIDE DEF n, a, other
<1>6. other \in 0..MaxChallenges
  BY <1>3, <1>5 DEF SignIInv, SignTypes
<1>7. /\ \A m \in 1..MaxChallenges : tokens[m] \in Nat /\ (m # n => tokens'[m] = tokens[m])
      /\ tokens'[n] = tokens[n] + 1 /\ tokens'[n] > 0
      /\ tokens' \in [1..MaxChallenges -> Nat]
  <2>1. tokens \in [1..MaxChallenges -> Nat] /\ n \in 1..MaxChallenges
    BY <1>5 DEF SignIInv, SignTypes
  <2>2. /\ \A m \in 1..MaxChallenges : tokens[m] \in Nat /\ (m # n => tokens'[m] = tokens[m])
        /\ tokens'[n] = tokens[n] + 1
    BY ONLY <1>4, <2>1
  <2>3. tokens[n] + 1 \in Nat /\ tokens[n] + 1 > 0
    BY <2>1
  <2>4. tokens' \in [1..MaxChallenges -> Nat]
    BY ONLY <1>4, <2>1, <2>3
  <2> QED BY ONLY <2>2, <2>3, <2>4
<1>8. /\ challenges'[a] = SigningIn!NoChallenge
      /\ \A b \in Addresses : b # a => challenges'[b] = challenges[b]
  BY <1>3, <1>4 DEF SignIInv, SignTypes
<1>9. verifying'[r] = 0 /\ \A q \in Requests : q # r => verifying'[q] = verifying[q]
  BY <1>1, <1>4
<1>10. SignTypes'
  <2>1. SigningIn!NoChallenge \in [nonce : 0..MaxChallenges, createdAt : 0..MaxTime]
    BY SignInAssumption DEF SigningIn!NoChallenge
  <2>2. overtaken' \subseteq 1..MaxChallenges
    <3>1. overtaken \subseteq 1..MaxChallenges
      BY DEF SignIInv, SignTypes
    <3>2. {other} \ {0, n} \subseteq 1..MaxChallenges
      BY <1>6, SignInAssumption
    <3> QED BY <1>4, <3>1, <3>2
  <2>3. 0 \in 0..MaxChallenges
    BY SignInAssumption
  <2> QED BY <1>4, <1>7, <2>1, <2>2, <2>3 DEF SignIInv, SignTypes
<1>11. SignPending'
  BY <1>4, <1>8 DEF SignIInv, SignPending
<1>12. SignGiven'
  BY <1>2, <1>4, <1>5, <1>7, <1>9 DEF SignIInv, SignGiven
<1>13. SignTokens'
  <2> SUFFICES ASSUME NEW m \in 1..MaxChallenges
               PROVE tokens'[m] + Cardinality(Verifiers(m)') <= Cardinality(Requests)
    BY <1>4 DEF SignTokens
  <2>1. Verifiers(m)' = Verifiers(m) \ {r} /\ Verifiers(m) \in SUBSET Requests
        /\ (r \in Verifiers(m) <=> m = n)
    BY <1>5, <1>9 DEF Verifiers
  <2>2. IsFiniteSet(Verifiers(m)) /\ Cardinality(Verifiers(m)) \in Nat /\ Cardinality(Requests) \in Nat
    BY <2>1, SignFinite
  <2>3. Cardinality(Verifiers(m)') = IF m = n THEN Cardinality(Verifiers(m)) - 1 ELSE Cardinality(Verifiers(m))
    BY <2>1, <2>2, FS_RemoveElement
  <2>4. tokens[m] + Cardinality(Verifiers(m)) <= Cardinality(Requests)
    BY DEF SignIInv, SignTokens
  <2> QED BY ONLY <1>7, <2>2, <2>3, <2>4
<1>14. SigningIn!SpentIsGone'
  <2> SUFFICES ASSUME NEW b \in Addresses, challenges'[b] # SigningIn!NoChallenge
               PROVE tokens'[challenges'[b].nonce] = 0
    BY DEF SigningIn!SpentIsGone, SigningIn!Pending
  <2>1. b # a /\ challenges'[b] = challenges[b]
    BY <1>8
  <2>2. challenges[b].nonce \in 1..MaxChallenges /\ given[challenges[b].nonce].to = b
    BY <2>1 DEF SignIInv, SignPending
  <2>3. tokens[challenges[b].nonce] = 0
    BY <2>1 DEF SignIInv, SigningIn!SpentIsGone, SigningIn!Pending
  <2>4. challenges[b].nonce # n
    BY <1>5, <2>1, <2>2
  <2> QED BY <1>7, <2>1, <2>2, <2>3, <2>4
<1>15. SigningIn!LatestKept'
  <2> SUFFICES ASSUME NEW b \in Addresses, NEW m \in SigningIn!Latest(b)'
               PROVE  \/ challenges'[b].nonce = m
                      \/ tokens'[m] > 0
                      \/ m \in overtaken'
                      \/ Ttl > 0 /\ now' - given'[m].at >= Ttl
    BY DEF SigningIn!LatestKept
  <2>1. m \in SigningIn!Latest(b) /\ m \in 1..MaxChallenges
    BY <1>4 DEF SigningIn!Latest, SigningIn!To, SigningIn!Nonces
  <2>2. \/ challenges[b].nonce = m
        \/ tokens[m] > 0
        \/ m \in overtaken
        \/ Ttl > 0 /\ now - given[m].at >= Ttl
    BY <2>1 DEF SignIInv, SigningIn!LatestKept
  <2>3. CASE challenges[b].nonce = m
    <3>1. CASE b = a
      <4>1. m = other /\ m # 0
        BY <1>5, <2>1, <2>3, <3>1
      <4> QED BY <1>4, <1>7, <4>1
    <3>2. CASE b # a
      BY <1>8, <2>3, <3>2
    <3> QED BY <3>1, <3>2
  <2>4. CASE tokens[m] > 0
    BY <1>7, <2>1, <2>4
  <2> QED BY <1>4, <2>2, <2>3, <2>4
<1>16. SigningIn!RefusedWhenFull'
  BY <1>4, <1>8, SignRoom
<1>17. SignLast'
  BY <1>4, <1>8 DEF SignIInv, SignLast
<1>18. SigningIn!OvertakenByEarlier'
  <2> SUFFICES ASSUME NEW m \in overtaken'
               PROVE  \E k \in 1..(m - 1) : given[k].to = given[m].to /\ given[k].to # 0 /\ tokens'[k] > 0
    BY <1>4 DEF SigningIn!OvertakenByEarlier, SigningIn!To, SigningIn!Nobody
  <2>1. CASE m \in overtaken
    <3>1. m \in 1..MaxChallenges
      BY <2>1 DEF SignIInv, SignTypes
    <3>2. PICK k \in 1..(m - 1) : given[k].to = given[m].to /\ given[k].to # 0 /\ tokens[k] > 0
      BY <2>1 DEF SignIInv, SigningIn!OvertakenByEarlier, SigningIn!To, SigningIn!Nobody
    <3>3. k \in 1..MaxChallenges
      BY <3>1, SignInAssumption
    <3>4. tokens'[k] > 0
      BY <1>7, <3>2, <3>3
    <3> QED BY <3>2, <3>4
  <2>2. CASE m \notin overtaken
    <3>1. m = other /\ m # 0 /\ m # n
      BY <1>4, <2>2
    <3>2. challenges[a] # SigningIn!NoChallenge
      BY <1>5, <3>1 DEF SigningIn!NoChallenge
    <3>3. m \in 1..MaxChallenges /\ given[m].to = a
      BY <1>3, <1>5, <3>1, <3>2 DEF SignIInv, SignPending
    <3>4. ~ (n > m)
      BY <1>3, <1>5, <3>1, <3>2 DEF SignIInv, SignLast
    <3>5. n \in 1..(m - 1)
      <4>1. n \in 1..MaxChallenges /\ MaxChallenges \in Nat
        BY <1>5, SignInAssumption
      <4> QED BY ONLY <3>1, <3>3, <3>4, <4>1
    <3> QED BY <1>3, <1>5, <1>7, <3>3, <3>5
  <2> QED BY <2>1, <2>2
<1> QED BY <1>10, <1>11, <1>12, <1>13, <1>14, <1>15, <1>16, <1>17, <1>18 DEF SignIInv

LEMMA SignCreate ==
  ASSUME SignIInv, NEW a \in Addresses, SigningIn!CreateChallenge(a) PROVE SignIInv'
<1> DEFINE swept == SigningIn!AfterSweeps(a)
           table == swept.table
           Row == [nonce : 0..MaxChallenges, createdAt : 0..MaxTime]
<1>1. PICK n \in 1..MaxChallenges :
        /\ given[n].to = 0 /\ \A k \in 1..(n - 1) : given[k].to # 0
        /\ nextSweepAt' = swept.nextSweepAt
        /\ IF SigningIn!HasRoom(table, a)
             THEN /\ challenges' = [table EXCEPT ![a] = [nonce |-> n, createdAt |-> now]]
                  /\ given' = [given EXCEPT ![n] = [to |-> a, at |-> now]]
                  /\ refused' = 0
             ELSE /\ challenges' = table
                  /\ UNCHANGED given
                  /\ refused' = a
  BY DEF SigningIn!CreateChallenge, SigningIn!Nonces, SigningIn!To, SigningIn!Nobody
<1>2. UNCHANGED <<now, verifying, tokens, overtaken>>
  BY DEF SigningIn!CreateChallenge
<1>3. /\ table \in [Addresses -> Row]
      /\ swept.nextSweepAt \in 0..(MaxTime + SweepInterval)
      /\ \A b \in Addresses : table[b] # challenges[b] =>
           table[b] = SigningIn!NoChallenge /\ SigningIn!Expired(challenges[b])
      /\ ~ SigningIn!HasRoom(table, a) =>
           \A b \in Addresses : table[b] # SigningIn!NoChallenge => ~ SigningIn!Expired(table[b])
  BY SignSweeps
<1> HIDE DEF swept, table
<1>4. now \in 0..MaxTime /\ MaxTime \in Nat /\ a # 0
  BY SignInAssumption DEF SignIInv, SignTypes
<1>5. tokens[n] = 0 /\ \A k \in 1..MaxChallenges : k > n => given[k].to = 0
  BY <1>1 DEF SignIInv, SignGiven
<1>6. SigningIn!Pending(table) \subseteq SigningIn!Pending(challenges)
      /\ SigningIn!Pending(table) \in SUBSET Addresses
      /\ SigningIn!Pending(challenges) \in SUBSET Addresses
  BY <1>3 DEF SigningIn!Pending
<1> DEFINE waiting == Cardinality(SigningIn!Pending(table))
<1>7. waiting \in Nat /\ waiting <= MaxEntries /\ IsFiniteSet(SigningIn!Pending(table))
  <2>1. waiting <= Cardinality(SigningIn!Pending(challenges)) /\ waiting \in Nat
        /\ Cardinality(SigningIn!Pending(challenges)) \in Nat /\ IsFiniteSet(SigningIn!Pending(table))
    BY <1>6, SignFinite, FS_Subset
  <2>2. Cardinality(SigningIn!Pending(challenges)) <= MaxEntries
    BY SignCount DEF SignIInv, SigningIn!RefusedWhenFull
  <2> QED BY ONLY <2>1, <2>2, SignInAssumption
<1> HIDE DEF waiting
<1>8. ASSUME SigningIn!HasRoom(table, a) PROVE SignIInv'
  <2>1. /\ challenges' = [table EXCEPT ![a] = [nonce |-> n, createdAt |-> now]]
        /\ given' = [given EXCEPT ![n] = [to |-> a, at |-> now]]
        /\ refused' = 0
    BY <1>1, <1>8
  <2>2. /\ challenges'[a] = [nonce |-> n, createdAt |-> now]
        /\ \A b \in Addresses : b # a => challenges'[b] = table[b]
        /\ challenges' \in [Addresses -> Row]
    <3>1. [nonce |-> n, createdAt |-> now] \in Row
      BY <1>4
    <3> HIDE DEF Row
    <3> QED BY <1>3, <2>1, <3>1
  <2>3. /\ given'[n] = [to |-> a, at |-> now]
        /\ \A k \in 1..MaxChallenges : k # n => given'[k] = given[k]
        /\ given' \in [1..MaxChallenges -> [to : Addresses \cup {0}, at : 0..MaxTime]]
    BY <1>4, <2>1 DEF SignIInv, SignTypes
  <2>4. challenges'[a] # SigningIn!NoChallenge /\ challenges'[a].nonce = n
    BY <2>2 DEF SigningIn!NoChallenge
  <2>5. SignTypes'
    BY <1>1, <1>2, <1>3, <2>1, <2>2, <2>3 DEF SignIInv, SignTypes
  <2>6. SignPending'
    <3> SUFFICES ASSUME NEW b \in Addresses, challenges'[b] # SigningIn!NoChallenge
                 PROVE  /\ challenges'[b].nonce \in 1..MaxChallenges
                        /\ given'[challenges'[b].nonce].to = b
                        /\ given'[challenges'[b].nonce].at = challenges'[b].createdAt
      BY DEF SignPending
    <3>1. CASE b = a
      BY <2>2, <2>3, <3>1
    <3>2. CASE b # a
      <4>1. challenges'[b] = challenges[b]
        BY <1>3, <2>2, <3>2
      <4>2. /\ challenges[b].nonce \in 1..MaxChallenges
            /\ given[challenges[b].nonce].to = b
            /\ given[challenges[b].nonce].at = challenges[b].createdAt
        BY <4>1 DEF SignIInv, SignPending
      <4>3. challenges[b].nonce # n
        BY <1>1, <4>2, SignInAssumption
      <4> QED BY <2>3, <4>1, <4>2, <4>3
    <3> QED BY <3>1, <3>2
  <2>7. SignGiven'
    <3> SUFFICES ASSUME NEW m \in 1..MaxChallenges, given'[m].to = 0
                 PROVE  /\ tokens[m] = 0
                        /\ \A k \in 1..MaxChallenges : k > m => given'[k].to = 0
                        /\ \A r \in Requests : verifying[r] # m
      BY <1>2 DEF SignGiven
    <3>1. m # n
      BY <1>4, <2>3
    <3>2. given[m].to = 0
      BY <2>3, <3>1
    <3>3. m > n
      BY <1>1, <3>1, <3>2
    <3> QED BY <2>3, <3>2, <3>3 DEF SignIInv, SignGiven
  <2>8. SignTokens'
    BY <1>2 DEF SignIInv, SignTokens, Verifiers
  <2>9. SigningIn!SpentIsGone'
    <3> SUFFICES ASSUME NEW b \in Addresses, challenges'[b] # SigningIn!NoChallenge
                 PROVE  tokens[challenges'[b].nonce] = 0
      BY <1>2 DEF SigningIn!SpentIsGone, SigningIn!Pending
    <3>1. CASE b = a
      BY <1>5, <2>4, <3>1
    <3>2. CASE b # a
      <4>1. challenges'[b] = challenges[b]
        BY <1>3, <2>2, <3>2
      <4> QED BY <4>1 DEF SignIInv, SigningIn!SpentIsGone, SigningIn!Pending
    <3> QED BY <3>1, <3>2
  <2>10. SigningIn!LatestKept'
    <3> SUFFICES ASSUME NEW b \in Addresses, NEW m \in SigningIn!Latest(b)'
                 PROVE  \/ challenges'[b].nonce = m
                        \/ tokens'[m] > 0
                        \/ m \in overtaken'
                        \/ Ttl > 0 /\ now' - given'[m].at >= Ttl
      BY DEF SigningIn!LatestKept
    <3>1. /\ m \in 1..MaxChallenges /\ given'[m].to = b
          /\ \A k \in (m + 1)..MaxChallenges : given'[k].to # b
      BY DEF SigningIn!Latest, SigningIn!To, SigningIn!Nonces
    <3>2. CASE m = n
      BY <2>3, <2>4, <3>1, <3>2
    <3>3. CASE m # n
      <4>1. given[m].to = b /\ given'[m] = given[m]
        BY <2>3, <3>1, <3>3
      <4>2. m < n
        BY <1>5, <3>1, <3>3, <4>1, SignInAssumption
      <4>3. n \in (m + 1)..MaxChallenges
        BY <3>1, <4>2
      <4>4. b # a
        BY <2>3, <3>1, <4>3
      <4>5. \A k \in (m + 1)..MaxChallenges : given[k].to # b
        <5> SUFFICES ASSUME NEW k \in (m + 1)..MaxChallenges PROVE given[k].to # b
          OBVIOUS
        <5>1. k \in 1..MaxChallenges /\ given'[k].to # b
          BY <3>1
        <5>2. b # 0
          BY SignInAssumption
        <5> QED BY <1>1, <2>3, <5>1, <5>2
      <4>6. m \in SigningIn!Latest(b)
        BY <3>1, <4>1, <4>5 DEF SigningIn!Latest, SigningIn!To, SigningIn!Nonces
      <4>7. \/ challenges[b].nonce = m
            \/ tokens[m] > 0
            \/ m \in overtaken
            \/ Ttl > 0 /\ now - given[m].at >= Ttl
        BY <4>6 DEF SignIInv, SigningIn!LatestKept
      <4>8. ASSUME challenges[b].nonce = m, SigningIn!Expired(challenges[b])
            PROVE Ttl > 0 /\ now - given[m].at >= Ttl
        <5>1. challenges[b] # SigningIn!NoChallenge
          BY <3>1, <4>8 DEF SigningIn!NoChallenge
        <5> QED BY <4>8, <5>1 DEF SignIInv, SignPending, SigningIn!Expired
      <4>9. challenges'[b] = challenges[b] \/ SigningIn!Expired(challenges[b])
        BY <1>3, <2>2, <4>4
      <4> QED BY <1>2, <4>1, <4>7, <4>8, <4>9
    <3> QED BY <3>2, <3>3
  <2>11. SigningIn!RefusedWhenFull'
    <3>1. SigningIn!Pending(challenges)' = SigningIn!Pending(table) \cup {a}
      BY <2>2, <2>4 DEF SigningIn!Pending
    <3>2. Cardinality(SigningIn!Pending(challenges)') = IF a \in SigningIn!Pending(table) THEN waiting ELSE waiting + 1
      BY <1>7, <3>1, FS_AddElement DEF waiting
    <3>3. a \notin SigningIn!Pending(table) => waiting < MaxEntries
      BY <1>8, SignCount DEF SigningIn!HasRoom, SigningIn!Pending, waiting
    <3>4. SigningIn!Cardinality(SigningIn!Pending(challenges)') <= MaxEntries
      BY ONLY <1>7, <3>2, <3>3, SignCount, SignInAssumption
    <3> QED BY <2>1, <3>4 DEF SigningIn!RefusedWhenFull, SigningIn!Nobody
  <2>12. SignLast'
    <3> SUFFICES ASSUME NEW b \in Addresses, challenges'[b] # SigningIn!NoChallenge,
                        NEW k \in 1..MaxChallenges, k > challenges'[b].nonce
                 PROVE  given'[k].to # b
      BY DEF SignLast
    <3>1. CASE b = a
      <4>1. k > n /\ n \in 1..MaxChallenges
        BY <2>4, <3>1
      <4>2. given'[k] = given[k] /\ given[k].to = 0
        BY <1>5, <2>3, <4>1
      <4> QED BY <1>4, <3>1, <4>2
    <3>2. CASE b # a
      <4>1. challenges'[b] = challenges[b]
        BY <1>3, <2>2, <3>2
      <4>2. given[k].to # b
        BY <4>1 DEF SignIInv, SignLast
      <4> QED BY <2>3, <3>2, <4>2
    <3> QED BY <3>1, <3>2
  <2>13. SigningIn!OvertakenByEarlier'
    <3> SUFFICES ASSUME NEW m \in overtaken
                 PROVE  \E k \in 1..(m - 1) : given'[k].to = given'[m].to /\ given'[k].to # 0 /\ tokens[k] > 0
      BY <1>2 DEF SigningIn!OvertakenByEarlier, SigningIn!To, SigningIn!Nobody
    <3>1. m \in 1..MaxChallenges
      BY DEF SignIInv, SignTypes
    <3>2. PICK k \in 1..(m - 1) : given[k].to = given[m].to /\ given[k].to # 0 /\ tokens[k] > 0
      BY DEF SignIInv, SigningIn!OvertakenByEarlier, SigningIn!To, SigningIn!Nobody
    <3>3. k \in 1..MaxChallenges
      BY <3>1, SignInAssumption
    <3>4. k # n /\ m # n
      BY <1>1, <3>2
    <3> QED BY <2>3, <3>1, <3>2, <3>3, <3>4
  <2> QED BY <2>5, <2>6, <2>7, <2>8, <2>9, <2>10, <2>11, <2>12, <2>13 DEF SignIInv
<1>9. ASSUME ~ SigningIn!HasRoom(table, a) PROVE SignIInv'
  <2>1. challenges' = table /\ UNCHANGED given /\ refused' = a
    BY <1>1, <1>9
  <2>2. SignTypes'
    BY <1>1, <1>2, <1>3, <2>1 DEF SignIInv, SignTypes
  <2>3. SignPending' /\ SignGiven' /\ SignTokens'
    <3>1. SignPending'
      BY <1>3, <2>1 DEF SignIInv, SignPending
    <3>2. SignGiven'
      BY <1>2, <2>1 DEF SignIInv, SignGiven
    <3>3. SignTokens'
      BY <1>2 DEF SignIInv, SignTokens, Verifiers
    <3> QED BY <3>1, <3>2, <3>3
  <2>4. SigningIn!SpentIsGone'
    BY <1>2, <1>3, <2>1 DEF SignIInv, SigningIn!SpentIsGone, SigningIn!Pending
  <2>5. SigningIn!LatestKept'
    BY <1>2, <1>3, <1>4, <2>1, SignLatest
  <2>6. SigningIn!RefusedWhenFull'
    <3> DEFINE others == SigningIn!Pending(table)
    <3>1. others \in SUBSET (Addresses \ {a})
      BY <1>6, <1>9 DEF SigningIn!HasRoom, SigningIn!Pending
    <3>2. waiting = MaxEntries
      <4>1. ~ (waiting < MaxEntries)
        BY <1>9, SignCount DEF SigningIn!HasRoom, waiting
      <4> QED BY ONLY <1>7, <4>1, SignInAssumption
    <3>3. \A b \in others : challenges'[b] # SigningIn!NoChallenge /\ ~ SigningIn!Expired(challenges[b])'
      BY <1>2, <1>3, <1>9, <2>1 DEF SigningIn!Pending, SigningIn!Expired
    <3>4. SigningIn!Cardinality(others) = MaxEntries /\ SigningIn!Pending(challenges)' = others
      BY <2>1, <3>2, SignCount DEF waiting, SigningIn!Pending
    <3>5. MaxEntries <= MaxEntries
      BY SignInAssumption
    <3> HIDE DEF others
    <3> QED BY <2>1, <3>1, <3>3, <3>4, <3>5 DEF SigningIn!RefusedWhenFull
  <2>7. SignLast' /\ SigningIn!OvertakenByEarlier'
    BY <1>2, <1>3, <2>1, SignOrder
  <2> QED BY <2>2, <2>3, <2>4, <2>5, <2>6, <2>7 DEF SignIInv
<1> QED BY <1>8, <1>9

LEMMA SignStep == SignIInv /\ SigningIn!Next => SignIInv'
BY SignCreate, SignBegin, SignAccept, SignReject, SignTick DEF SigningIn!Next

LEMMA SignStutter == ASSUME SignIInv, UNCHANGED signInVars PROVE SignIInv'
BY DEF SignIInv, SignTypes, SignPending, SignGiven, SignTokens, SignLast, Verifiers, signInVars,
       SigningIn!SpentIsGone, SigningIn!Pending, SigningIn!LatestKept, SigningIn!Latest,
       SigningIn!To, SigningIn!RefusedWhenFull, SigningIn!Expired, SigningIn!OvertakenByEarlier

LEMMA SignGood ==
  SignIInv => /\ SigningIn!TypeOK /\ SigningIn!SpentIsGone /\ SigningIn!OnePerVerification
              /\ SigningIn!OvertakenByEarlier /\ SigningIn!LatestKept /\ SigningIn!RefusedWhenFull
<1> SUFFICES ASSUME SignIInv PROVE SigningIn!TypeOK /\ SigningIn!OnePerVerification
  BY DEF SignIInv
<1>1. SigningIn!TypeOK
  BY DEF SignIInv, SignTypes, SigningIn!TypeOK, SigningIn!Nonces, SigningIn!Nobody
<1>2. SigningIn!OnePerVerification
  <2> SUFFICES ASSUME NEW n \in 1..MaxChallenges
               PROVE  tokens[n] + Cardinality(Verifiers(n)) <= Cardinality(Requests)
    BY SignCount DEF SigningIn!OnePerVerification, SigningIn!Nonces, Verifiers
  <2> QED BY DEF SignIInv, SignTokens
<1> QED BY <1>1, <1>2

\* A challenge that has earned a token is found by no verification that begins later,
\* and earns no more tokens than verifications of it overlap (two in auth.ts, if both
\* look it up before either has checked the signature); the last challenge of an agent
\* is lost unexpired and unused only to the token of an older one of the same agent;
\* nobody is refused one but for a full table (ChallengesKept).  For any number of
\* addresses, challenges and verifications at once, any time to live and any limit.
THEOREM ChallengesAreKept == AroundSpec => []ChallengesKept
<1>1. AroundInit => SignIInv
  BY SignInit DEF AroundInit
<1>2. SignIInv /\ [AroundNext]_everything => SignIInv'
  BY SignStep, SignStutter
     DEF AroundNext, StartOnly, SignInOnly, FilesOnly, CallOnly, ListOnly, DrawerOnly,
         ClientOnly, serverVars, everything
<1>3. SignIInv => ChallengesKept
  BY SignGood DEF ChallengesKept
<1> QED BY <1>1, <1>2, <1>3, PTL DEF AroundSpec

-----------------------------------------------------------------------------
(* The lists of the dashboard.                                             *)

Entries == [query : Queries, page : 1..Pages]

ListTypes ==
  /\ query \in Queries /\ streamsLoaded \in BOOLEAN
  /\ list \in [items : Seq(Entries), nextCursor : 0..Pages]
  /\ loading \in BOOLEAN /\ load \in Queries \cup {0}
  /\ cancelled \subseteq Queries
  /\ more = Showing!NoMore \/ more \in [query : Queries, cursor : 1..Pages]
  /\ refresh \in Queries \cup {0}

\* The spinners turn as long as somebody waits for an answer, and nobody has asked
\* for lists that were not looked at.
ListSpinners ==
  /\ loading <=> load # 0
  /\ load # 0 => load = query
  /\ loadingMore <=> more # Showing!NoMore
  /\ refresh # 0 => refreshing
  /\ ~streamsLoaded => list = Showing!EmptyPage /\ load = 0 /\ more = Showing!NoMore /\ refresh = 0

\* A page that is under way for the query shown is the one that comes next, unless
\* requests crossed.
NextUnderWay ==
  ~crossed /\ more # Showing!NoMore /\ more.query = query =>
    Showing!FirstPages(list) /\ more.cursor = list.nextCursor /\ ~loading /\ ~refreshing

ListIInv == ListTypes /\ ListSpinners /\ NextUnderWay /\ Showing!ListInOrder

LEMMA CursorType == \A n \in 1..Pages : Showing!Cursor(n) \in 0..Pages
BY DashboardAssumption DEF Showing!Cursor, Showing!None

LEMMA FirstPageIsFirst ==
  ASSUME NEW q \in Queries
  PROVE  /\ Showing!FirstPage(q) \in [items : Seq(Entries), nextCursor : 0..Pages]
         /\ Len(Showing!FirstPage(q).items) = 1
         /\ Showing!FirstPage(q).items[1] = [query |-> q, page |-> 1]
         /\ Showing!FirstPage(q).nextCursor = Showing!Cursor(1)
<1> DEFINE e == [query |-> q, page |-> 1]
<1>1. e \in Entries /\ 1 \in 1..Pages
  BY DashboardAssumption DEF Entries
<1> HIDE DEF e
<1>2. <<e>> \in Seq(Entries) /\ Len(<<e>>) = 1 /\ <<e>>[1] = e
  BY <1>1
<1>3. Showing!Cursor(1) \in 0..Pages
  BY <1>1, CursorType
<1>4. Showing!FirstPage(q) = [items |-> <<e>>, nextCursor |-> Showing!Cursor(1)]
  BY DEF Showing!FirstPage, e
<1> QED BY <1>2, <1>3, <1>4 DEF e

LEMMA FirstPageInOrder ==
  ASSUME NEW q \in Queries, list' = Showing!FirstPage(q), query' = q
  PROVE  Showing!FirstPages(list)'
<1> DEFINE items == Showing!FirstPage(q).items
<1>1. Len(items) = 1 /\ items[1] = [query |-> q, page |-> 1]
      /\ Showing!FirstPage(q).nextCursor = Showing!Cursor(Len(items))
  BY FirstPageIsFirst
<1>2. list'.items = items /\ list'.nextCursor = Showing!Cursor(Len(items))
  BY <1>1
<1> HIDE DEF items
<1>3. \A n \in 1..Len(items) : items[n] = [query |-> query', page |-> n]
  <2>1. \A n \in 1..Len(items) : n = 1
    BY <1>1
  <2> QED BY <1>1, <2>1
<1>4. Len(items) >= 1
  BY <1>1
<1> QED BY ONLY <1>2, <1>3, <1>4 DEF Showing!FirstPages

LEMMA ListInit == Showing!Init => ListIInv
<1> SUFFICES ASSUME Showing!Init PROVE ListIInv
  OBVIOUS
<1>1. Showing!DefaultQuery \in Queries
  BY DEF Showing!Init, Showing!DefaultQuery
<1>2. Showing!EmptyPage \in [items : Seq(Entries), nextCursor : 0..Pages]
  BY DashboardAssumption DEF Showing!EmptyPage, Showing!None
<1>3. list \in [items : Seq(Entries), nextCursor : 0..Pages]
  BY <1>1, <1>2, FirstPageIsFirst DEF Showing!Init
<1>4. ListTypes
  BY <1>3 DEF Showing!Init, ListTypes, Showing!None
<1>5. ListSpinners /\ NextUnderWay /\ Showing!ListInOrder
  BY DashboardAssumption DEF Showing!Init, ListSpinners, NextUnderWay, Showing!ListInOrder, Showing!None
<1> QED BY <1>4, <1>5 DEF ListIInv

\* The page that was under way comes after the last one shown.
LEMMA NextPage ==
  ASSUME ListIInv, ~crossed, Showing!MoreLoaded, query = more.query
  PROVE  Showing!FirstPages(list)'
<1> DEFINE items == list.items
           page == [query |-> query, page |-> more.cursor]
<1>1. /\ more # Showing!NoMore /\ UNCHANGED query
      /\ list' = [items |-> IF \E i \in 1..Len(items) : items[i] = page THEN items ELSE Append(items, page),
                  nextCursor |-> Showing!Cursor(more.cursor)]
  BY DEF Showing!MoreLoaded, Showing!Contains, Showing!Page, Showing!asked
<1>2. more.cursor \in 1..Pages /\ items \in Seq(Entries) /\ Pages \in Nat
  BY <1>1, DashboardAssumption DEF ListIInv, ListTypes
<1>3. /\ Len(items) >= 1 /\ Len(items) \in Nat
      /\ \A n \in 1..Len(items) : items[n] = [query |-> query, page |-> n]
      /\ more.cursor = Showing!Cursor(Len(items))
  BY <1>1, <1>2 DEF ListIInv, NextUnderWay, Showing!FirstPages
<1>4. more.cursor = Len(items) + 1
  BY <1>2, <1>3 DEF Showing!Cursor, Showing!None
<1>5. ~ \E i \in 1..Len(items) : items[i] = page
  <2> SUFFICES ASSUME NEW i \in 1..Len(items), items[i] = page PROVE FALSE
    OBVIOUS
  <2>1. items[i] = [query |-> query, page |-> i]
    BY <1>3
  <2>2. items[i].page = i /\ page.page = Len(items) + 1
    BY <1>4, <2>1
  <2> QED BY <1>3, <2>2
<1>6. page \in Entries
  BY <1>2 DEF ListIInv, ListTypes, Entries
<1> DEFINE longer == Append(items, page)
<1>7. list'.items = longer /\ list'.nextCursor = Showing!Cursor(more.cursor)
  BY <1>1, <1>5
<1> HIDE DEF items, page
<1>8. /\ Len(longer) = Len(items) + 1
      /\ longer[Len(items) + 1] = page
      /\ \A n \in 1..Len(items) : longer[n] = items[n]
  BY <1>2, <1>6
<1> HIDE DEF longer
<1>9. \A n \in 1..Len(longer) : longer[n] = [query |-> query, page |-> n]
  <2> SUFFICES ASSUME NEW n \in 1..Len(longer) PROVE longer[n] = [query |-> query, page |-> n]
    OBVIOUS
  <2>1. n \in 1..Len(items) \/ n = Len(items) + 1
    BY <1>3, <1>8
  <2> QED BY <1>3, <1>4, <1>8, <2>1 DEF page
<1>10. Len(longer) >= 1 /\ list'.nextCursor = Showing!Cursor(Len(longer))
  BY <1>3, <1>4, <1>7, <1>8
<1> QED BY <1>1, <1>7, <1>9, <1>10 DEF Showing!FirstPages

LEMMA ListStep == ListIInv /\ Showing!ListNext => ListIInv'
<1> SUFFICES ASSUME ListIInv, Showing!ListNext PROVE ListIInv'
  OBVIOUS
<1> USE DashboardAssumption
<1>t. ListTypes /\ ListSpinners /\ NextUnderWay /\ Showing!ListInOrder
  BY DEF ListIInv
<1>e. Showing!NoMore = [query |-> 0, cursor |-> 0] /\ Showing!NoMore.query = 0
  BY DEF Showing!NoMore, Showing!None
<1>1. CASE Showing!ShowStreams
  <2> USE <1>1 DEF Showing!ShowStreams, Showing!LoadList
  <2>1. ListTypes'
    BY <1>t DEF ListTypes, Showing!None
  <2>2. ListSpinners'
    BY <1>t DEF ListTypes, ListSpinners
  <2>3. NextUnderWay' /\ Showing!ListInOrder'
    BY <1>t DEF ListSpinners, NextUnderWay, Showing!ListInOrder
  <2> QED BY <2>1, <2>2, <2>3 DEF ListIInv
<1>2. CASE Showing!ChangeQuery
  <2> USE <1>2 DEF Showing!ChangeQuery, Showing!LoadList
  <2>1. ListTypes'
    BY <1>t DEF ListTypes, Showing!None
  <2>2. ListSpinners'
    BY <1>t DEF ListTypes, ListSpinners
  <2>3. NextUnderWay'
    BY DEF NextUnderWay
  <2>4. Showing!ListInOrder'
    BY DEF Showing!ListInOrder
  <2> QED BY <2>1, <2>2, <2>3, <2>4 DEF ListIInv
<1>3. CASE Showing!Loaded
  <2> USE <1>3 DEF Showing!Loaded, Showing!asked, Showing!None
  <2>1. load \in Queries /\ load = query /\ query' = query
    BY <1>t DEF ListTypes, ListSpinners
  <2>2. Showing!FirstPage(load) \in [items : Seq(Entries), nextCursor : 0..Pages]
    BY <2>1, FirstPageIsFirst
  <2>3. Showing!FirstPages(list)'
    BY <2>1, FirstPageInOrder
  <2>4. ListTypes'
    BY <1>t, <2>2 DEF ListTypes
  <2>5. ListSpinners'
    BY <1>t DEF ListTypes, ListSpinners
  <2>6. NextUnderWay'
    BY DEF NextUnderWay
  <2>7. Showing!ListInOrder'
    BY <2>3 DEF Showing!ListInOrder
  <2> QED BY <2>4, <2>5, <2>6, <2>7 DEF ListIInv
<1>4. CASE Showing!LoadFails
  <2> USE <1>4 DEF Showing!LoadFails, Showing!asked, Showing!None
  <2>1. ListTypes'
    BY <1>t DEF ListTypes
  <2>2. ListSpinners'
    BY <1>t DEF ListTypes, ListSpinners
  <2>3. NextUnderWay'
    BY <1>t DEF NextUnderWay, ListSpinners, Showing!FirstPages
  <2>4. Showing!ListInOrder'
    BY DEF Showing!ListInOrder
  <2> QED BY <2>1, <2>2, <2>3, <2>4 DEF ListIInv
<1>5. CASE Showing!LoadMore
  <2> USE <1>5 DEF Showing!LoadMore, Showing!asked, Showing!None
  <2>1. list.nextCursor \in 1..Pages
    BY <1>t DEF ListTypes
  <2>2. ListTypes'
    BY <1>t, <2>1 DEF ListTypes
  <2>3. more' # Showing!NoMore
    BY <1>e
  <2>4. ListSpinners'
    BY <1>t, <2>3 DEF ListTypes, ListSpinners, Showing!EmptyPage
  <2>5. NextUnderWay'
    BY DEF NextUnderWay, Showing!FirstPages
  <2>6. Showing!ListInOrder'
    BY <1>t DEF Showing!ListInOrder, Showing!FirstPages
  <2> QED BY <2>2, <2>4, <2>5, <2>6 DEF ListIInv
<1>6. CASE Showing!RefreshAll
  <2> USE <1>6 DEF Showing!RefreshAll, Showing!asked, Showing!None
  <2>1. ListTypes'
    BY <1>t DEF ListTypes
  <2>2. ListSpinners'
    BY <1>t DEF ListTypes, ListSpinners
  <2>3. NextUnderWay'
    BY <1>t DEF NextUnderWay, ListSpinners
  <2>4. Showing!ListInOrder'
    BY <1>t DEF Showing!ListInOrder, Showing!FirstPages
  <2> QED BY <2>1, <2>2, <2>3, <2>4 DEF ListIInv
<1>7. CASE Showing!MoreLoaded
  <2> USE <1>7 DEF Showing!MoreLoaded, Showing!asked, Showing!None
  <2>1. ListTypes'
    <3>1. CASE query # more.query
      BY <1>t, <3>1 DEF ListTypes
    <3>2. CASE query = more.query
      <4>1. more.cursor \in 1..Pages /\ list.items \in Seq(Entries) /\ Showing!Page \in Entries
        BY <1>t, <3>2 DEF ListTypes, Entries, Showing!Page
      <4>2. Append(list.items, Showing!Page) \in Seq(Entries) /\ Showing!Cursor(more.cursor) \in 0..Pages
        BY <4>1, CursorType
      <4> DEFINE longer == Append(list.items, Showing!Page)
      <4>3. \/ list' = [items |-> list.items, nextCursor |-> Showing!Cursor(more.cursor)]
            \/ list' = [items |-> longer, nextCursor |-> Showing!Cursor(more.cursor)]
        BY <3>2
      <4> HIDE DEF longer
      <4>4. list' \in [items : Seq(Entries), nextCursor : 0..Pages]
        <5> DEFINE c == Showing!Cursor(more.cursor)
                   items == list.items
        <5>1. items \in Seq(Entries) /\ longer \in Seq(Entries) /\ c \in 0..Pages
          BY <4>1, <4>2 DEF longer
        <5>2. list' = [items |-> items, nextCursor |-> c] \/ list' = [items |-> longer, nextCursor |-> c]
          BY <4>3
        <5> HIDE DEF c, items
        <5> QED BY ONLY <5>1, <5>2
      <4> QED BY <1>t, <4>4 DEF ListTypes
    <3> QED BY <3>1, <3>2
  <2>2. ListSpinners'
    BY <1>t DEF ListTypes, ListSpinners
  <2>3. NextUnderWay'
    BY DEF NextUnderWay
  <2>4. Showing!ListInOrder'
    <3>1. CASE query # more.query
      BY <1>t, <3>1 DEF Showing!ListInOrder, Showing!FirstPages
    <3>2. CASE query = more.query
      BY <3>2, NextPage DEF Showing!ListInOrder
    <3> QED BY <3>1, <3>2
  <2> QED BY <2>1, <2>2, <2>3, <2>4 DEF ListIInv
<1>8. CASE Showing!MoreFails
  <2> USE <1>8 DEF Showing!MoreFails, Showing!asked, Showing!None
  <2>1. ListTypes'
    BY <1>t DEF ListTypes
  <2>2. ListSpinners'
    BY <1>t DEF ListTypes, ListSpinners
  <2>3. NextUnderWay' /\ Showing!ListInOrder'
    BY DEF NextUnderWay, Showing!ListInOrder
  <2> QED BY <2>1, <2>2, <2>3 DEF ListIInv
<1>9. CASE Showing!Refreshed
  <2> USE <1>9 DEF Showing!Refreshed, Showing!asked, Showing!None
  <2>1. CASE refresh = 0
    <3>1. UNCHANGED <<query, streamsLoaded, list, loading, load, cancelled, loadingMore, more, refresh, loadError, crossed>>
      BY <2>1
    <3>2. ListTypes'
      BY <1>t, <3>1 DEF ListTypes
    <3>3. ListSpinners'
      BY <1>t, <2>1, <3>1 DEF ListSpinners
    <3>4. NextUnderWay' /\ Showing!ListInOrder'
      BY <1>t, <3>1 DEF NextUnderWay, Showing!ListInOrder, Showing!FirstPages
    <3> QED BY <3>2, <3>3, <3>4 DEF ListIInv
  <2>2. CASE refresh # 0
    <3>1. refresh \in Queries /\ query' = query
      BY <1>t, <2>2 DEF ListTypes
    <3>2. Showing!FirstPage(refresh) \in [items : Seq(Entries), nextCursor : 0..Pages]
      BY <3>1, FirstPageIsFirst
    <3>3. ~ crossed' => Showing!FirstPages(list)'
      BY <2>2, <3>1, FirstPageInOrder
    <3>4. ListTypes'
      BY <1>t, <2>2, <3>2 DEF ListTypes
    <3>5. ListSpinners'
      BY <1>t, <2>2 DEF ListTypes, ListSpinners
    <3>6. NextUnderWay'
      BY <2>2 DEF NextUnderWay
    <3>7. Showing!ListInOrder'
      BY <3>3 DEF Showing!ListInOrder
    <3> QED BY <3>4, <3>5, <3>6, <3>7 DEF ListIInv
  <2> QED BY <2>1, <2>2
<1>10. CASE Showing!RefreshFails
  <2> USE <1>10 DEF Showing!RefreshFails, Showing!asked, Showing!None
  <2>1. ListTypes'
    BY <1>t DEF ListTypes
  <2>2. ListSpinners'
    BY <1>t DEF ListTypes, ListSpinners
  <2>3. NextUnderWay'
    BY <1>t DEF NextUnderWay, Showing!FirstPages
  <2>4. Showing!ListInOrder'
    BY DEF Showing!ListInOrder
  <2> QED BY <2>1, <2>2, <2>3, <2>4 DEF ListIInv
<1>11. ASSUME NEW q \in Queries, Showing!CancelledLoad(q) PROVE ListIInv'
  <2> USE <1>11 DEF Showing!CancelledLoad, Showing!asked
  <2>1. ListTypes'
    BY <1>t DEF ListTypes
  <2>2. ListSpinners'
    BY <1>t DEF ListSpinners
  <2>3. NextUnderWay' /\ Showing!ListInOrder'
    BY <1>t DEF NextUnderWay, Showing!ListInOrder, Showing!FirstPages
  <2> QED BY <2>1, <2>2, <2>3 DEF ListIInv
<1> QED BY <1>1, <1>2, <1>3, <1>4, <1>5, <1>6, <1>7, <1>8, <1>9, <1>10, <1>11
          DEF Showing!ListNext, Showing!ListAnswers

LEMMA ListStutter == ASSUME ListIInv, UNCHANGED Showing!listVars PROVE ListIInv'
BY DEF ListIInv, ListTypes, ListSpinners, NextUnderWay, Showing!ListInOrder, Showing!FirstPages,
       Showing!listVars

\* A drawer.  Its effect fetches what the address bar names, and nothing when it
\* names nothing.
DrawerIInv ==
  /\ open \in Ids \cup {0}
  /\ drawer \in [id : Ids \cup {0}, loading : BOOLEAN, error : BOOLEAN]
  /\ \/ fetching = Showing!NoFetch
     \/ open # 0 /\ \E step \in {1, 2} : fetching = [id |-> open, step |-> step]
  /\ Showing!DrawerMatches

LEMMA DrawerInit == Showing!Init => DrawerIInv
BY DashboardAssumption
   DEF Showing!Init, DrawerIInv, Showing!DrawerMatches, Showing!None, Showing!Closed

LEMMA DrawerStep == DrawerIInv /\ Showing!DrawerNext => DrawerIInv'
<1> SUFFICES ASSUME DrawerIInv, Showing!DrawerNext PROVE DrawerIInv'
  OBVIOUS
<1> USE DashboardAssumption DEF Showing!None, Showing!NoFetch, Showing!Closed
<1> DEFINE Drawers == [id : Ids \cup {0}, loading : BOOLEAN, error : BOOLEAN]
<1>t. /\ open \in Ids \cup {0}
      /\ drawer \in Drawers
      /\ \/ fetching = Showing!NoFetch
         \/ open # 0 /\ \E step \in {1, 2} : fetching = [id |-> open, step |-> step]
      /\ Showing!DrawerMatches
  BY DEF DrawerIInv
<1>1. CASE Showing!OpenDrawer
  <2>1. CASE open' = 0
    <3>1. drawer' = Showing!Closed /\ fetching' = Showing!NoFetch
      BY <1>1, <2>1 DEF Showing!OpenDrawer
    <3> QED BY <2>1, <3>1 DEF DrawerIInv, Showing!DrawerMatches
  <2>2. CASE open' # 0
    <3>1. /\ open' \in Ids
          /\ drawer' = [drawer EXCEPT !.loading = TRUE, !.error = FALSE]
          /\ fetching' = [id |-> open', step |-> 1]
      BY <1>1, <2>2 DEF Showing!OpenDrawer
    <3>2. drawer' \in Drawers /\ drawer'.loading
      BY <1>t, <3>1
    <3> QED BY <2>2, <3>1, <3>2 DEF DrawerIInv, Showing!DrawerMatches
  <2> QED BY <2>1, <2>2
<1>2. CASE Showing!FirstFetched
  BY <1>2, <1>t DEF Showing!FirstFetched, DrawerIInv, Showing!DrawerMatches
<1>3. CASE Showing!NotFound
  BY <1>3, <1>t DEF Showing!NotFound, DrawerIInv, Showing!DrawerMatches
<1>4. CASE Showing!Fetched
  BY <1>4, <1>t DEF Showing!Fetched, DrawerIInv, Showing!DrawerMatches
<1>5. CASE Showing!FetchFails
  <2>1. /\ fetching.id # 0 /\ open' = open /\ fetching' = Showing!NoFetch
        /\ drawer' = [drawer EXCEPT !.loading = FALSE, !.error = TRUE]
    BY <1>5 DEF Showing!FetchFails
  <2>2. drawer' \in Drawers /\ drawer'.error
    BY <1>t, <2>1
  <2>3. open # 0
    BY <1>t, <2>1
  <2> QED BY <1>t, <2>1, <2>2, <2>3 DEF DrawerIInv, Showing!DrawerMatches
<1>6. ASSUME NEW i \in Ids, Showing!DroppedFetch(i) PROVE DrawerIInv'
  BY <1>6, <1>t DEF Showing!DroppedFetch, DrawerIInv, Showing!DrawerMatches
<1> QED BY <1>1, <1>2, <1>3, <1>4, <1>5, <1>6 DEF Showing!DrawerNext, Showing!DrawerAnswers

LEMMA DrawerStutter ==
  ASSUME DrawerIInv, UNCHANGED <<open, drawer, fetching>> PROVE DrawerIInv'
BY DEF DrawerIInv, Showing!DrawerMatches

ViewIInv == ListIInv /\ DrawerIInv

LEMMA ViewStep == ViewIInv /\ [AroundNext]_everything => ViewIInv'
<1> SUFFICES ASSUME ViewIInv, [AroundNext]_everything PROVE ViewIInv'
  OBVIOUS
<1>1. CASE ListOnly /\ Showing!ListNext
  <2>1. UNCHANGED <<open, drawer, fetching>>
    BY <1>1 DEF Showing!ListNext, Showing!ListAnswers, Showing!ShowStreams, Showing!ChangeQuery,
                Showing!LoadMore, Showing!RefreshAll, Showing!Loaded, Showing!LoadFails,
                Showing!MoreLoaded, Showing!MoreFails, Showing!Refreshed, Showing!RefreshFails,
                Showing!CancelledLoad, Showing!drawerVars
  <2> QED BY <1>1, <2>1, ListStep, DrawerStutter DEF ViewIInv
<1>2. CASE DrawerOnly /\ Showing!DrawerNext
  <2>1. UNCHANGED Showing!listVars
    BY <1>2 DEF Showing!DrawerNext, Showing!DrawerAnswers, Showing!OpenDrawer, Showing!DroppedFetch,
                Showing!FirstFetched, Showing!NotFound, Showing!Fetched, Showing!FetchFails
  <2> QED BY <1>2, <2>1, DrawerStep, ListStutter DEF ViewIInv
<1>3. CASE UNCHANGED dashVars
  BY <1>3, ListStutter, DrawerStutter DEF ViewIInv, dashVars, Showing!listVars
<1> QED BY <1>1, <1>2, <1>3
        DEF AroundNext, StartOnly, SignInOnly, FilesOnly, CallOnly, ServerOnly, ClientOnly,
            clientVars, everything

LEMMA ViewGood == ViewIInv => Showing!TypeOK /\ Showing!ListInOrder /\ Showing!DrawerMatches
<1> SUFFICES ASSUME ViewIInv PROVE Showing!TypeOK
  BY DEF ViewIInv, ListIInv, DrawerIInv
<1>1. /\ list \in [items : Seq(Entries), nextCursor : 0..Pages]
      /\ drawer \in [id : Ids \cup {0}, loading : BOOLEAN, error : BOOLEAN]
      /\ open \in Ids \cup {0}
  BY DEF ViewIInv, ListIInv, ListTypes, DrawerIInv
<1>2. \A n \in 1..Len(list.items) : list.items[n] \in Entries
  <2>1. list.items \in Seq(Entries)
    BY <1>1
  <2> QED BY <2>1
<1>3. more \in [query : Queries \cup {0}, cursor : 0..Pages]
  BY DashboardAssumption DEF ViewIInv, ListIInv, ListTypes, Showing!NoMore, Showing!None
<1>4. drawer.id \in Ids \cup {0} /\ list.nextCursor \in 0..Pages
  BY <1>1
<1> QED BY <1>1, <1>2, <1>3, <1>4
        DEF ViewIInv, ListIInv, ListTypes, Showing!TypeOK, Showing!None, Entries

\* A list at rest shows the pages of its query from the first on unless requests
\* crossed, and a drawer at rest what the address bar names, for any number of
\* queries, pages, ids and requests under way (ViewsMatch).
THEOREM ViewsShowWhatIsAsked == AroundSpec => []ViewsMatch
<1>1. AroundInit => ViewIInv
  BY ListInit, DrawerInit DEF AroundInit, ViewIInv
<1>2. ViewIInv => ViewsMatch
  BY ViewGood DEF ViewsMatch
<1> QED BY <1>1, ViewStep, <1>2, PTL DEF AroundSpec

-----------------------------------------------------------------------------
(* The files of the command line client.                                   *)

StoredValues == [Files!Fields -> [value : Values \cup {0}, key : 0..MaxKeys]]

Registering ==
  {<<"walletAddress", "walletPrivateKey", "token">>, <<"walletPrivateKey", "token">>, <<"token">>}

Singles == {<<"walletAddress">>, <<"walletPrivateKey">>, <<"token">>}

SetCommands == {"register", "login", "setToken", "setAddress", "setKey"}

RemoveCommands == {"unsetToken", "unsetAddress", "unsetKey", "clear"}

CommandRecords ==
  [command : SetCommands \cup RemoveCommands \cup {"none"},
   todo : Registering \cup Singles \cup {<<"all">>, <<>>},
   at : {"idle", "load", "findKey", "createKey", "fillKey", "removeKey", "truncate", "fill"},
   value : Values \cup {0}, read : StoredValues, key : 0..MaxKeys, alone : BOOLEAN]

\* Where a command can be: one that sets something does not remove the key, and one
\* that removes something needs none.
CommandGood(c) ==
  \/ c = Files!Idle
  \/ /\ c.command \in SetCommands /\ c.value \in Values
     /\ c.at \in {"load", "findKey", "createKey", "fillKey", "truncate", "fill"}
     /\ c.todo \in IF c.command = "register" THEN Registering ELSE Singles
     /\ c.at \in {"findKey", "createKey", "fillKey"} => Head(c.todo) \in Files!Secrets
     /\ c.at \in {"createKey", "fillKey"} => c.key # 0
  \/ /\ c.command \in RemoveCommands /\ c.value = 0
     /\ c.at \in {"load", "removeKey", "truncate", "fill"}
     /\ c.todo \in IF c.command = "clear" THEN {<<"all">>} ELSE Singles
     /\ c.command = "clear" => c.read = Files!Nothing

\* What a register has written when it comes to the rest of its fields
Behind(todo) ==
  CASE todo = <<"walletPrivateKey", "token">> -> {"walletAddress"}
    [] todo = <<"token">> -> {"walletAddress", "walletPrivateKey"}
    [] OTHER -> {}

Written(values, key, F, v) ==
  \A f \in F : values[f].value = v /\ (f \in Files!Secrets => values[f].key = key /\ key \notin {0, -1})

\* A command that no other one overlaps finds the files as it left them.
AloneGood(c) ==
  /\ c.at = "createKey" => keyFile = 0
  /\ c.at = "fillKey" => keyFile = -1
  /\ c.at \in {"truncate", "fill"} /\ c.command = "clear" => keyFile = 0
  /\ c.at \in {"truncate", "fill"} /\ c.command \in SetCommands /\ Head(c.todo) \in Files!Secrets =>
       c.key = keyFile /\ c.key # 0
  /\ c.command = "register" /\ c.at = "load" => Written(config.values, keyFile, Behind(c.todo), c.value)
  /\ c.command = "register" /\ c.at # "load" => Written(c.read, keyFile, Behind(c.todo), c.value)

HasSecrets(values) == \E f \in Files!Secrets : values[f] # Files!Unset

\* The values are what is wanted, and the key is there when one of them needs it.
Match(values, key, want) ==
  /\ \A f \in Files!Fields :
       IF want[f] = 0
         THEN values[f] = Files!Unset
         ELSE /\ values[f] # Files!Unset /\ values[f].value = want[f]
              /\ f \in Files!Secrets => values[f].key = key
  /\ key # 0 <=> HasSecrets(values)

NewOf(c) ==
  [c.read EXCEPT ![Head(c.todo)] =
     IF c.command \in RemoveCommands THEN Files!Unset
     ELSE [value |-> c.value, key |-> IF Head(c.todo) \in Files!Secrets THEN c.key ELSE 0]]

NewWanted(c) == [wanted EXCEPT ![Head(c.todo)] = c.value]

\* How far a command has come that nothing disturbs
Underway(c) ==
  c.command # "clear" =>
    /\ c.at = "load" => Match(config.values, keyFile, wanted)
    /\ c.at \in {"findKey", "removeKey"} => Match(c.read, keyFile, wanted)
    /\ c.at \in {"createKey", "fillKey"} => Match(c.read, 0, wanted)
    /\ c.at \in {"truncate", "fill"} => Match(NewOf(c), keyFile, NewWanted(c))

FilesTypes ==
  /\ config \in [kind : {"absent", "empty", "whole", "torn"}, values : StoredValues]
  /\ config.kind # "whole" => config.values = Files!Nothing
  /\ keyFile \in {-1} \cup 0..MaxKeys
  /\ shell \in [Shells -> CommandRecords]
  /\ wanted \in [Files!Fields -> Values \cup {0}]
  /\ disturbed \in BOOLEAN /\ registered \in BOOLEAN
  /\ keys \in 0..MaxKeys

FilesIInv ==
  /\ FilesTypes
  /\ \A s \in Shells : CommandGood(shell[s])
  /\ \A s, t \in Shells : s # t /\ shell[s].alone => shell[t] = Files!Idle
  /\ \A s \in Shells : shell[s].alone => AloneGood(shell[s])
  /\ ~disturbed => \A s \in Shells : shell[s] = Files!Idle \/ (shell[s].alone /\ Underway(shell[s]))
  /\ ~disturbed /\ Files!AllIdle => Match(config.values, keyFile, wanted)
  /\ registered => Files!AllIdle /\ \E v \in Values : Written(config.values, keyFile, Files!Fields, v)

LEMMA FieldNames ==
  /\ Files!Secrets = {"token", "walletPrivateKey"}
  /\ Files!Fields = {"token", "walletPrivateKey", "walletAddress"}
BY DEF Files!Secrets, Files!Fields

LEMMA NothingStored ==
  /\ Files!Unset = [value |-> 0, key |-> 0]
  /\ Files!Nothing \in StoredValues
  /\ \A f \in Files!Fields : Files!Nothing[f] = Files!Unset
  /\ ~ HasSecrets(Files!Nothing)
BY FilesAssumption DEF Files!Unset, Files!Nothing, Files!NoKey, StoredValues, HasSecrets, Files!Fields,
   Files!Secrets

\* The fields that a command has still to write
LEMMA TodoFacts ==
  /\ \A todo \in Registering \cup Singles : Head(todo) \in Files!Fields
  /\ \A todo \in Singles : Len(todo) = 1
  /\ \A todo \in Registering :
       \/ Len(todo) = 1 /\ Behind(todo) \cup {Head(todo)} = Files!Fields
       \/ /\ Len(todo) # 1 /\ Tail(todo) \in Registering
          /\ Behind(Tail(todo)) = Behind(todo) \cup {Head(todo)}
  /\ \A todo \in Registering : Behind(todo) \subseteq Files!Fields /\ Head(todo) \notin Behind(todo)
  /\ Len(<<"all">>) = 1
<1> USE DEF Registering, Singles, Behind, Files!Fields, Files!Secrets
<1>1. /\ <<"walletAddress", "walletPrivateKey", "token">> # <<"walletPrivateKey", "token">>
      /\ <<"walletAddress", "walletPrivateKey", "token">> # <<"token">>
      /\ <<"walletPrivateKey", "token">> # <<"token">>
  OBVIOUS
<1>2. /\ Behind(<<"walletAddress", "walletPrivateKey", "token">>) = {}
      /\ Behind(<<"walletPrivateKey", "token">>) = {"walletAddress"}
      /\ Behind(<<"token">>) = {"walletAddress", "walletPrivateKey"}
  BY <1>1
<1>3. /\ Head(<<"walletAddress", "walletPrivateKey", "token">>) = "walletAddress"
      /\ Head(<<"walletPrivateKey", "token">>) = "walletPrivateKey"
      /\ Head(<<"token">>) = "token"
      /\ Head(<<"walletAddress">>) = "walletAddress"
      /\ Head(<<"walletPrivateKey">>) = "walletPrivateKey"
  OBVIOUS
<1>4. /\ Len(<<"walletAddress", "walletPrivateKey", "token">>) = 3
      /\ Len(<<"walletPrivateKey", "token">>) = 2
      /\ Len(<<"token">>) = 1 /\ Len(<<"walletAddress">>) = 1 /\ Len(<<"walletPrivateKey">>) = 1
      /\ Len(<<"all">>) = 1
  OBVIOUS
<1>5. /\ Tail(<<"walletAddress", "walletPrivateKey", "token">>) = <<"walletPrivateKey", "token">>
      /\ Tail(<<"walletPrivateKey", "token">>) = <<"token">>
  OBVIOUS
<1> HIDE DEF Behind
<1>6. \A todo \in Registering \cup Singles : Head(todo) \in Files!Fields
  BY <1>3
<1>7. \A todo \in Singles : Len(todo) = 1
  BY <1>4
<1>8. \A todo \in Registering : Behind(todo) \subseteq Files!Fields /\ Head(todo) \notin Behind(todo)
  BY <1>2, <1>3
<1>9. \A todo \in Registering :
       \/ Len(todo) = 1 /\ Behind(todo) \cup {Head(todo)} = Files!Fields
       \/ /\ Len(todo) # 1 /\ Tail(todo) \in Registering
          /\ Behind(Tail(todo)) = Behind(todo) \cup {Head(todo)}
  <2> TAKE todo \in Registering
  <2>1. CASE todo = <<"walletAddress", "walletPrivateKey", "token">>
    BY <1>2, <1>3, <1>4, <1>5, <2>1
  <2>2. CASE todo = <<"walletPrivateKey", "token">>
    BY <1>2, <1>3, <1>4, <1>5, <2>2
  <2>3. CASE todo = <<"token">>
    BY <1>2, <1>3, <1>4, <2>3
  <2> QED BY <2>1, <2>2, <2>3
<1> QED BY <1>4, <1>6, <1>7, <1>8, <1>9

LEMMA SecretsAreFields == Files!Secrets \subseteq Files!Fields
BY DEF Files!Secrets, Files!Fields

LEMMA MatchNothing ==
  ASSUME NEW want, \A f \in Files!Fields : want[f] = 0 PROVE Match(Files!Nothing, 0, want)
BY NothingStored DEF Match

\* Setting a field with the key that is there, or with a new one when there is none
LEMMA MatchSet ==
  ASSUME NEW values \in StoredValues, NEW key, NEW want \in [Files!Fields -> Values \cup {0}],
         Match(values, key, want), NEW f \in Files!Fields, NEW v \in Values, NEW e, NEW newKey,
         e.value = v, v # 0,
         IF f \in Files!Secrets THEN e.key = newKey /\ newKey # 0 /\ key \in {0, newKey}
                                ELSE newKey = key
  PROVE  Match([values EXCEPT ![f] = e], newKey, [want EXCEPT ![f] = v])
<1> DEFINE new == [values EXCEPT ![f] = e]
           newWant == [want EXCEPT ![f] = v]
<1>1. /\ new[f] = e /\ newWant[f] = v
      /\ \A g \in Files!Fields : g # f => new[g] = values[g] /\ newWant[g] = want[g]
  BY DEF StoredValues
<1>2. e # Files!Unset
  BY NothingStored
<1> HIDE DEF new, newWant
<1>3. ASSUME NEW g \in Files!Secrets, g # f, values[g] # Files!Unset PROVE key = newKey
  <2>1. key # 0
    BY <1>3 DEF Match, HasSecrets
  <2> QED BY <2>1
<1>4. ASSUME NEW g \in Files!Fields
      PROVE IF newWant[g] = 0
              THEN new[g] = Files!Unset
              ELSE /\ new[g] # Files!Unset /\ new[g].value = newWant[g]
                   /\ g \in Files!Secrets => new[g].key = newKey
  <2>1. CASE g = f
    BY <1>1, <1>2, <2>1
  <2>2. CASE g # f
    BY <1>1, <1>3, <2>2 DEF Match
  <2> QED BY <2>1, <2>2
<1>5. newKey # 0 <=> HasSecrets(new)
  <2>1. CASE f \in Files!Secrets
    BY <1>1, <1>2, <2>1 DEF HasSecrets
  <2>2. CASE f \notin Files!Secrets
    <3>1. \A g \in Files!Secrets : new[g] = values[g]
      BY <1>1, <2>2, SecretsAreFields
    <3> QED BY <2>2, <3>1 DEF HasSecrets, Match
  <2> QED BY <2>1, <2>2
<1> QED BY <1>4, <1>5 DEF Match, new, newWant

\* Removing a field, and the key with the last secret
LEMMA MatchRemove ==
  ASSUME NEW values \in StoredValues, NEW key, NEW want \in [Files!Fields -> Values \cup {0}],
         Match(values, key, want), NEW f \in Files!Fields, NEW new,
         new = [values EXCEPT ![f] = Files!Unset]
  PROVE  Match(new, IF HasSecrets(new) THEN key ELSE 0, [want EXCEPT ![f] = 0])
<1> DEFINE newWant == [want EXCEPT ![f] = 0]
           newKey == IF HasSecrets(new) THEN key ELSE 0
<1>1. /\ new[f] = Files!Unset /\ newWant[f] = 0
      /\ \A g \in Files!Fields : g # f => new[g] = values[g] /\ newWant[g] = want[g]
  BY DEF StoredValues
<1> HIDE DEF newWant
<1>2. HasSecrets(new) => HasSecrets(values)
  BY <1>1, SecretsAreFields DEF HasSecrets
<1>3. newKey # 0 <=> HasSecrets(new)
  BY <1>2 DEF Match
<1>4. ASSUME NEW g \in Files!Secrets, new[g] # Files!Unset PROVE newKey = key
  BY <1>4 DEF HasSecrets
<1> HIDE DEF newKey
<1>5. ASSUME NEW g \in Files!Fields
      PROVE IF newWant[g] = 0
              THEN new[g] = Files!Unset
              ELSE /\ new[g] # Files!Unset /\ new[g].value = newWant[g]
                   /\ g \in Files!Secrets => new[g].key = newKey
  <2>1. CASE g = f
    BY <1>1, <2>1
  <2>2. CASE g # f
    BY <1>1, <1>4, <2>2 DEF Match
  <2> QED BY <2>1, <2>2
<1> QED BY <1>3, <1>5 DEF Match, newWant, newKey

\* What a process is about to write
LEMMA NewValuesOf ==
  ASSUME FilesIInv, NEW s \in Shells, shell[s] # Files!Idle
  PROVE  /\ shell[s].command = "clear" => Files!NewValues(s) = Files!Nothing
         /\ shell[s].command # "clear" => Files!NewValues(s) = NewOf(shell[s])
<1> DEFINE c == shell[s]
<1>1. c.command \in RemoveCommands <=> Files!Removes(c.command)
  BY DEF Files!Removes, RemoveCommands
<1> QED BY <1>1 DEF Files!NewValues, NewOf, Files!Field, Files!NoKey

LEMMA NewOfType ==
  ASSUME NEW c \in CommandRecords, CommandGood(c), c # Files!Idle, c.command # "clear"
  PROVE  NewOf(c) \in StoredValues /\ Head(c.todo) \in Files!Fields
<1>1. Head(c.todo) \in Files!Fields
  BY TodoFacts DEF CommandGood
<1>2. c.value \in Values \cup {0} /\ c.key \in 0..MaxKeys /\ c.read \in StoredValues
  BY DEF CommandRecords
<1>3. Files!Unset \in [value : Values \cup {0}, key : 0..MaxKeys] /\ 0 \in 0..MaxKeys
  BY NothingStored, FilesAssumption
<1> QED BY <1>1, <1>2, <1>3 DEF NewOf, StoredValues

LEMMA FilesInit == Files!Init => FilesIInv
<1> SUFFICES ASSUME Files!Init PROVE FilesIInv
  OBVIOUS
<1>1. Files!Idle \in CommandRecords /\ Files!Idle.alone = FALSE
  <2>1. 0 \in 0..MaxKeys
    BY FilesAssumption
  <2> QED BY <2>1, NothingStored DEF Files!Idle, CommandRecords, Files!NoKey
<1>2. FilesTypes
  <2>1. shell \in [Shells -> CommandRecords] /\ wanted \in [Files!Fields -> Values \cup {0}]
    BY <1>1 DEF Files!Init, Files!NothingWanted
  <2>2. config \in [kind : {"absent", "empty", "whole", "torn"}, values : StoredValues]
        /\ config.values = Files!Nothing
    BY NothingStored DEF Files!Init
  <2>3. keyFile \in {-1} \cup 0..MaxKeys /\ keys \in 0..MaxKeys
    BY FilesAssumption DEF Files!Init, Files!NoKey
  <2>4. disturbed \in BOOLEAN /\ registered \in BOOLEAN
    BY DEF Files!Init
  <2> QED BY <2>1, <2>2, <2>3, <2>4 DEF FilesTypes
<1>3. Match(config.values, keyFile, wanted)
  BY MatchNothing DEF Files!Init, Files!NoKey, Files!NothingWanted
<1> QED BY <1>1, <1>2, <1>3 DEF Files!Init, FilesIInv, CommandGood

\* A command goes on.
LEMMA FilesMove ==
  ASSUME FilesIInv, NEW s \in Shells, shell[s] # Files!Idle, FilesTypes',
         \A t \in Shells : t # s => shell'[t] = shell[t],
         shell'[s] # Files!Idle, shell'[s].alone = shell[s].alone,
         CommandGood(shell[s])', shell[s].alone => AloneGood(shell[s])',
         ~disturbed => Underway(shell[s])',
         disturbed' = disturbed, registered' = registered
  PROVE  FilesIInv'
<1>1. \A t \in Shells : t # s => ~shell[t].alone
  BY DEF FilesIInv, FilesTypes, CommandRecords
<1>2. ~registered /\ ~Files!AllIdle'
  BY DEF FilesIInv, Files!AllIdle
<1>3. \A t \in Shells : CommandGood(shell[t])'
  <2> SUFFICES ASSUME NEW t \in Shells PROVE CommandGood(shell[t])'
    OBVIOUS
  <2>1. CASE t = s
    BY <2>1
  <2>2. CASE t # s
    BY <2>2 DEF FilesIInv, CommandGood
  <2> QED BY <2>1, <2>2
<1>4. \A t, u \in Shells : t # u /\ shell'[t].alone => shell'[u] = Files!Idle
  BY <1>1 DEF FilesIInv
<1>5. \A t \in Shells : shell'[t].alone => AloneGood(shell[t])'
  <2> SUFFICES ASSUME NEW t \in Shells, shell'[t].alone PROVE AloneGood(shell[t])'
    OBVIOUS
  <2>1. t = s
    BY <1>1
  <2> QED BY <2>1
<1>6. ~disturbed' => \A t \in Shells : shell'[t] = Files!Idle \/ (shell'[t].alone /\ Underway(shell[t])')
  <2> SUFFICES ASSUME ~disturbed, NEW t \in Shells
               PROVE shell'[t] = Files!Idle \/ (shell'[t].alone /\ Underway(shell[t])')
    OBVIOUS
  <2>1. CASE t = s
    BY <2>1 DEF FilesIInv
  <2>2. CASE t # s
    BY <1>1, <2>2 DEF FilesIInv
  <2> QED BY <2>1, <2>2
<1> QED BY <1>2, <1>3, <1>4, <1>5, <1>6 DEF FilesIInv

\* A command comes to its end, in the middle of what it does or not.
LEMMA FilesStop ==
  ASSUME FilesIInv, NEW s \in Shells, shell[s] # Files!Idle, FilesTypes',
         \A t \in Shells : t # s => shell'[t] = shell[t],
         shell'[s] = Files!Idle,
         ~disturbed' => shell[s].alone /\ Match(config.values, keyFile, wanted)',
         registered' => shell[s].alone /\ \E v \in Values : Written(config'.values, keyFile', Files!Fields, v)
  PROVE  FilesIInv'
<1>1. \A t \in Shells : t # s => ~shell[t].alone
  BY DEF FilesIInv, FilesTypes, CommandRecords
<1>2. Files!Idle.alone = FALSE
  BY DEF Files!Idle
<1>3. shell[s].alone => \A t \in Shells : shell'[t] = Files!Idle
  BY DEF FilesIInv
<1>4. \A t \in Shells : CommandGood(shell[t])'
  <2> SUFFICES ASSUME NEW t \in Shells PROVE CommandGood(shell[t])'
    OBVIOUS
  <2>1. CASE t = s
    BY <2>1 DEF CommandGood
  <2>2. CASE t # s
    BY <2>2 DEF FilesIInv, CommandGood
  <2> QED BY <2>1, <2>2
<1>5. \A t \in Shells : ~shell'[t].alone
  BY <1>1, <1>2
<1> QED BY <1>3, <1>4, <1>5 DEF FilesIInv, Files!AllIdle

\* What is known of a command under way
LEMMA FilesAt ==
  ASSUME FilesIInv, NEW s \in Shells, shell[s] # Files!Idle
  PROVE  /\ shell[s] \in CommandRecords
         /\ shell[s].read \in StoredValues /\ shell[s].key \in 0..MaxKeys /\ shell[s].alone \in BOOLEAN
         /\ CommandGood(shell[s])
         /\ shell[s].alone => AloneGood(shell[s])
         /\ ~disturbed => shell[s].alone /\ Underway(shell[s])
         /\ config.values \in StoredValues /\ Files!Loaded = config.values
         /\ Files!Removes(shell[s].command) <=> shell[s].command \in RemoveCommands
         /\ wanted \in [Files!Fields -> Values \cup {0}]
<1>1. shell[s] \in CommandRecords
  BY DEF FilesIInv, FilesTypes
<1>2. shell[s].read \in StoredValues /\ shell[s].key \in 0..MaxKeys /\ shell[s].alone \in BOOLEAN
  BY <1>1 DEF CommandRecords
<1>3. config.values \in StoredValues
  BY DEF FilesIInv, FilesTypes
<1>4. Files!Loaded = config.values
  BY DEF Files!Loaded, FilesIInv, FilesTypes
<1>5. Files!Removes(shell[s].command) <=> shell[s].command \in RemoveCommands
  BY DEF Files!Removes, RemoveCommands
<1> QED BY <1>1, <1>2, <1>3, <1>4, <1>5 DEF FilesIInv, FilesTypes

LEMMA IdleStored == Files!Idle \in CommandRecords /\ Files!Idle.alone = FALSE /\ Files!Idle.at = "idle"
<1>1. 0 \in 0..MaxKeys
  BY FilesAssumption
<1> QED BY <1>1, NothingStored DEF Files!Idle, CommandRecords, Files!NoKey

\* A process that ends with an error disturbs the files.
LEMMA FilesEnd ==
  ASSUME FilesIInv, NEW s \in Shells, shell[s] # Files!Idle,
         shell' = [shell EXCEPT ![s] = Files!Idle],
         disturbed' = TRUE, wanted' = Files!NothingWanted, UNCHANGED <<keyFile, keys, registered>>,
         config' = config \/ config' = [kind |-> "torn", values |-> Files!Nothing]
  PROVE  FilesIInv'
<1>1. shell \in [Shells -> CommandRecords] /\ keyFile \in {-1} \cup 0..MaxKeys /\ keys \in 0..MaxKeys
      /\ config \in [kind : {"absent", "empty", "whole", "torn"}, values : StoredValues]
      /\ (config.kind # "whole" => config.values = Files!Nothing)
      /\ registered \in BOOLEAN
  BY DEF FilesIInv, FilesTypes
<1>2. /\ shell'[s] = Files!Idle /\ shell' \in [Shells -> CommandRecords]
      /\ \A t \in Shells : t # s => shell'[t] = shell[t]
  BY <1>1, IdleStored
<1>3. config' \in [kind : {"absent", "empty", "whole", "torn"}, values : StoredValues]
      /\ (config'.kind # "whole" => config'.values = Files!Nothing)
  BY <1>1, NothingStored
<1>4. wanted' \in [Files!Fields -> Values \cup {0}]
  BY DEF Files!NothingWanted
<1>5. FilesTypes'
  BY <1>1, <1>2, <1>3, <1>4 DEF FilesTypes
<1>6. ~registered
  BY DEF FilesIInv, Files!AllIdle
<1> QED BY <1>2, <1>5, <1>6, FilesStop

LEMMA FilesFail == ASSUME FilesIInv, NEW s \in Shells, Files!Fails(s) PROVE FilesIInv'
BY FilesEnd DEF Files!Fails

LEMMA FilesLoad == ASSUME FilesIInv, NEW s \in Shells, Files!Load(s) PROVE FilesIInv'
<1> DEFINE c == shell[s]
<1>1. c.at = "load" /\ c # Files!Idle
  BY IdleStored DEF Files!Load
<1>2. CASE Files!Throw(s) /\ UNCHANGED failures
  BY <1>1, <1>2, FilesEnd DEF Files!Throw
<1>3. ASSUME shell' = [shell EXCEPT ![s].read = IF c.command = "clear" THEN Files!Nothing ELSE Files!Loaded,
                ![s].at = CASE Files!Removes(c.command) -> "removeKey"
                            [] ~Files!Removes(c.command) /\ Files!Field(s) \in Files!Secrets -> "findKey"
                            [] OTHER -> "truncate"],
             Files!Quiet, UNCHANGED <<config, keyFile, keys>>
      PROVE FilesIInv'
  <2>1. /\ c \in CommandRecords /\ CommandGood(c) /\ (c.alone => AloneGood(c))
        /\ (~disturbed => Underway(c))
        /\ config.values \in StoredValues /\ Files!Loaded = config.values
        /\ (Files!Removes(c.command) <=> c.command \in RemoveCommands)
        /\ wanted \in [Files!Fields -> Values \cup {0}]
    BY <1>1, FilesAt
  <2> DEFINE r == IF c.command = "clear" THEN Files!Nothing ELSE config.values
             a == IF c.command \in RemoveCommands THEN "removeKey"
                  ELSE IF Head(c.todo) \in Files!Secrets THEN "findKey" ELSE "truncate"
             d == shell'[s]
  <2>2. /\ shell' = [shell EXCEPT ![s] = [c EXCEPT !.read = r, !.at = a]]
        /\ shell \in [Shells -> CommandRecords]
    BY <1>3, <2>1 DEF Files!Field, FilesIInv, FilesTypes
  <2>3. d = [c EXCEPT !.read = r, !.at = a] /\ \A t \in Shells : t # s => shell'[t] = shell[t]
    BY <2>2
  <2>4. r \in StoredValues
    BY <2>1, NothingStored
  <2> HIDE DEF r
  <2>5. /\ d \in CommandRecords /\ d.command = c.command /\ d.todo = c.todo /\ d.value = c.value
        /\ d.key = c.key /\ d.alone = c.alone /\ d.read = r /\ d.at = a
    BY <2>1, <2>3, <2>4 DEF CommandRecords
  <2>6. shell' \in [Shells -> CommandRecords]
    BY <2>2, <2>3, <2>5
  <2> HIDE DEF d
  <2>7. UNCHANGED <<config, keyFile, keys, wanted, disturbed, registered>>
    BY <1>3 DEF Files!Quiet
  <2>8. FilesTypes'
    BY <2>6, <2>7 DEF FilesIInv, FilesTypes
  <2>9. d # Files!Idle
    BY <2>5, IdleStored
  <2>10. SetCommands \cap RemoveCommands = {} /\ "clear" \in RemoveCommands
    BY DEF SetCommands, RemoveCommands
  <2>11. CommandGood(d)
    BY <1>1, <2>1, <2>5, <2>10 DEF CommandGood, r
  <2>12. c.alone => AloneGood(d)
    BY <1>1, <2>1, <2>5, <2>10 DEF AloneGood, CommandGood, r, SetCommands
  <2>13. ~disturbed => Underway(d)
    <3> SUFFICES ASSUME ~disturbed, c.command # "clear" PROVE Underway(d)
      BY <2>5 DEF Underway
    <3>1. Match(r, keyFile, wanted) /\ r = config.values
      BY <1>1, <2>1 DEF Underway, r
    <3>2. CASE c.command \in RemoveCommands \/ Head(c.todo) \in Files!Secrets
      BY <2>5, <3>1, <3>2 DEF Underway
    <3>3. CASE c.command \notin RemoveCommands /\ Head(c.todo) \notin Files!Secrets
      <4>1. c.value \in Values /\ c.value # 0 /\ Head(c.todo) \in Files!Fields
        BY <1>1, <2>1, <3>3, TodoFacts, FilesAssumption DEF CommandGood
      <4> DEFINE e == [value |-> c.value, key |-> 0]
      <4>2. NewOf(d) = [r EXCEPT ![Head(c.todo)] = e] /\ NewWanted(d) = [wanted EXCEPT ![Head(c.todo)] = c.value]
        BY <2>5, <3>3 DEF NewOf, NewWanted
      <4>3. e.value = c.value
        OBVIOUS
      <4> HIDE DEF e
      <4> DEFINE f == Head(c.todo)
                 v == c.value
      <4>4. f \in Files!Fields /\ f \notin Files!Secrets /\ v \in Values /\ v # 0 /\ e.value = v
        BY <3>3, <4>1, <4>3
      <4>5. NewOf(d) = [r EXCEPT ![f] = e] /\ NewWanted(d) = [wanted EXCEPT ![f] = v]
        BY <4>2
      <4> HIDE DEF f, v
      <4>6. Match([r EXCEPT ![f] = e], keyFile, [wanted EXCEPT ![f] = v])
        BY ONLY <2>1, <2>4, <3>1, <4>4, MatchSet
      <4> QED BY <2>5, <3>3, <4>5, <4>6 DEF Underway
    <3> QED BY <3>2, <3>3
  <2>14. CommandGood(shell[s])' /\ (c.alone => AloneGood(shell[s])') /\ (~disturbed => Underway(shell[s])')
    BY <2>7, <2>11, <2>12, <2>13 DEF d, CommandGood, AloneGood, Underway, NewWanted
  <2> QED BY <1>1, <2>3, <2>5, <2>7, <2>8, <2>9, <2>14, FilesMove DEF d
<1> QED BY <1>1, <1>2, <1>3 DEF Files!Load

\* A command goes on to another place with the key it has found, and leaves the
\* configuration alone.
LEMMA FilesGoto ==
  ASSUME FilesIInv, NEW s \in Shells, shell[s] # Files!Idle,
         NEW k \in 0..MaxKeys,
         NEW a \in {"createKey", "fillKey", "truncate", "fill"},
         shell' = [shell EXCEPT ![s] = [shell[s] EXCEPT !.key = k, !.at = a]],
         UNCHANGED <<wanted, disturbed, registered>>,
         config' = config \/ config' = [kind |-> "empty", values |-> Files!Nothing],
         keyFile' \in {-1} \cup 0..MaxKeys, keys' \in 0..MaxKeys,
         CommandGood(shell[s])',
         shell[s].alone => AloneGood(shell[s])',
         ~disturbed => Underway(shell[s])'
  PROVE  FilesIInv'
<1> DEFINE c == shell[s]
<1>1. c \in CommandRecords /\ shell \in [Shells -> CommandRecords]
  BY FilesAt DEF FilesIInv, FilesTypes
<1>2. shell'[s] = [c EXCEPT !.key = k, !.at = a] /\ \A t \in Shells : t # s => shell'[t] = shell[t]
  BY <1>1
<1>3. shell'[s] \in CommandRecords /\ shell'[s].alone = c.alone /\ shell'[s].at = a
  BY <1>1, <1>2 DEF CommandRecords
<1>4. shell' \in [Shells -> CommandRecords]
  BY <1>1, <1>2, <1>3
<1>5. config' \in [kind : {"absent", "empty", "whole", "torn"}, values : StoredValues]
      /\ (config'.kind # "whole" => config'.values = Files!Nothing)
  BY NothingStored DEF FilesIInv, FilesTypes
<1>6. FilesTypes'
  BY <1>4, <1>5 DEF FilesIInv, FilesTypes
<1>7. shell'[s] # Files!Idle
  BY <1>3, IdleStored
<1> QED BY <1>2, <1>3, <1>6, <1>7, FilesMove

\* A field is about to be set with a key that fits.
LEMMA UnderwaySet ==
  ASSUME FilesIInv, NEW s \in Shells, shell[s] # Files!Idle,
         NEW d, NEW file, NEW old,
         d.command = shell[s].command, d.command \in SetCommands, d.todo = shell[s].todo,
         d.value = shell[s].value, d.value \in Values, d.read = shell[s].read,
         Head(d.todo) \in Files!Secrets,
         d.key = file, file # 0, old \in {0, file}, Match(d.read, old, wanted)
  PROVE  Match(NewOf(d), file, NewWanted(d))
<1> DEFINE f == Head(d.todo)
           e == [value |-> d.value, key |-> d.key]
           v == d.value
           values == d.read
<1>1. f \in Files!Fields /\ f \in Files!Secrets /\ v \in Values /\ v # 0
      /\ e.value = v /\ e.key = file /\ file # 0 /\ old \in {0, file}
  BY SecretsAreFields, FilesAssumption
<1>2. values \in StoredValues /\ wanted \in [Files!Fields -> Values \cup {0}] /\ Match(values, old, wanted)
  BY FilesAt
<1>3. d.command \notin RemoveCommands
  BY DEF SetCommands, RemoveCommands
<1>4. NewOf(d) = [values EXCEPT ![f] = e] /\ NewWanted(d) = [wanted EXCEPT ![f] = v]
  BY <1>1, <1>3 DEF NewOf, NewWanted
<1> HIDE DEF f, e, v, values
<1>5. Match([values EXCEPT ![f] = e], file, [wanted EXCEPT ![f] = v])
  BY ONLY <1>1, <1>2, MatchSet
<1> QED BY <1>4, <1>5

LEMMA FilesFindKey == ASSUME FilesIInv, NEW s \in Shells, Files!FindKey(s) PROVE FilesIInv'
<1> DEFINE c == shell[s]
<1>1. c.at = "findKey" /\ c # Files!Idle
  BY IdleStored DEF Files!FindKey
<1>2. /\ c \in CommandRecords /\ CommandGood(c) /\ (c.alone => AloneGood(c))
      /\ (~disturbed => Underway(c))
      /\ keyFile \in {-1} \cup 0..MaxKeys /\ keys \in 0..MaxKeys
  BY <1>1, FilesAt DEF FilesIInv, FilesTypes
<1>3. /\ c.command \in SetCommands /\ c.value \in Values /\ Head(c.todo) \in Files!Secrets
      /\ c.todo \in IF c.command = "register" THEN Registering ELSE Singles
  BY <1>1, <1>2 DEF CommandGood
<1>4. c.command # "clear"
  BY <1>3 DEF SetCommands
<1>5. CASE keyFile = -1 /\ Files!Throw(s) /\ UNCHANGED failures
  BY <1>1, <1>5, FilesEnd DEF Files!Throw
<1>6. ASSUME keyFile = 0, keys < MaxKeys, keys' = keys + 1,
             shell' = [shell EXCEPT ![s].key = keys', ![s].at = "createKey"],
             Files!Quiet, UNCHANGED <<config, keyFile>>
      PROVE FilesIInv'
  <2> DEFINE k == keys'
             d == shell'[s]
  <2>1. k \in 0..MaxKeys /\ k # 0
    BY <1>2, <1>6, FilesAssumption
  <2>2. shell' = [shell EXCEPT ![s] = [c EXCEPT !.key = k, !.at = "createKey"]]
    BY <1>2, <1>6 DEF FilesIInv, FilesTypes
  <2>3. d = [c EXCEPT !.key = k, !.at = "createKey"]
    BY <2>2 DEF FilesIInv, FilesTypes
  <2> HIDE DEF k
  <2>4. /\ d.command = c.command /\ d.todo = c.todo /\ d.value = c.value
        /\ d.key = k /\ d.read = c.read /\ d.at = "createKey"
    BY <1>2, <2>3 DEF CommandRecords
  <2> HIDE DEF d
  <2>5. CommandGood(d)
    BY <1>3, <2>1, <2>4 DEF CommandGood
  <2>6. c.alone => AloneGood(d)
    BY <1>1, <1>2, <1>6, <2>4 DEF AloneGood
  <2>7. ~disturbed => Underway(d)
    BY <1>1, <1>2, <1>4, <1>6, <2>4 DEF Underway
  <2>8. UNCHANGED <<config, keyFile, wanted, disturbed, registered>>
    BY <1>6 DEF Files!Quiet
  <2>9. CommandGood(shell[s])' /\ (c.alone => AloneGood(shell[s])') /\ (~disturbed => Underway(shell[s])')
    BY <2>5, <2>6, <2>7, <2>8 DEF d, CommandGood, AloneGood, Underway, NewWanted
  <2>10. keyFile' \in {-1} \cup 0..MaxKeys /\ keys' \in 0..MaxKeys
    BY <1>2, <2>1, <2>8 DEF k
  <2> QED BY <1>1, <2>1, <2>2, <2>8, <2>9, <2>10, FilesGoto
<1>7. ASSUME keyFile \notin {-1, 0},
             shell' = [shell EXCEPT ![s].key = keyFile, ![s].at = "truncate"],
             Files!Quiet, UNCHANGED <<config, keyFile, keys>>
      PROVE FilesIInv'
  <2> DEFINE d == shell'[s]
  <2>1. keyFile \in 0..MaxKeys /\ keyFile # 0
    BY <1>2, <1>7
  <2>2. shell' = [shell EXCEPT ![s] = [c EXCEPT !.key = keyFile, !.at = "truncate"]]
    BY <1>2, <1>7 DEF FilesIInv, FilesTypes
  <2>3. d = [c EXCEPT !.key = keyFile, !.at = "truncate"]
    BY <2>2 DEF FilesIInv, FilesTypes
  <2>4. /\ d.command = c.command /\ d.todo = c.todo /\ d.value = c.value
        /\ d.key = keyFile /\ d.read = c.read /\ d.at = "truncate"
    BY <1>2, <2>3 DEF CommandRecords
  <2> HIDE DEF d
  <2>5. CommandGood(d)
    BY <1>3, <2>1, <2>4 DEF CommandGood
  <2>6. c.alone => AloneGood(d)
    BY <1>1, <1>2, <1>4, <2>1, <2>4 DEF AloneGood
  <2>7. ~disturbed => Underway(d)
    <3> SUFFICES ASSUME ~disturbed PROVE Match(NewOf(d), keyFile, NewWanted(d))
      BY <2>4 DEF Underway
    <3>1. Match(c.read, keyFile, wanted)
      BY <1>1, <1>2, <1>4 DEF Underway
    <3> QED BY <1>1, <1>3, <2>1, <2>4, <3>1, UnderwaySet
  <2>8. UNCHANGED <<config, keyFile, keys, wanted, disturbed, registered>>
    BY <1>7 DEF Files!Quiet
  <2>9. CommandGood(shell[s])' /\ (c.alone => AloneGood(shell[s])') /\ (~disturbed => Underway(shell[s])')
    BY <2>5, <2>6, <2>7, <2>8 DEF d, CommandGood, AloneGood, Underway, NewWanted
  <2> QED BY <1>1, <1>2, <2>1, <2>2, <2>8, <2>9, FilesGoto
<1> QED BY <1>1, <1>5, <1>6, <1>7 DEF Files!FindKey, Files!Short, Files!NoKey

LEMMA FilesCreateKey == ASSUME FilesIInv, NEW s \in Shells, Files!CreateKey(s) PROVE FilesIInv'
<1> DEFINE c == shell[s]
           d == shell'[s]
<1>1. c.at = "createKey" /\ c # Files!Idle
  BY IdleStored DEF Files!CreateKey
<1>2. /\ c \in CommandRecords /\ CommandGood(c) /\ (c.alone => AloneGood(c))
      /\ (~disturbed => c.alone /\ Underway(c)) /\ c.key \in 0..MaxKeys
  BY <1>1, FilesAt
<1>3. /\ c.command \in SetCommands /\ c.value \in Values /\ Head(c.todo) \in Files!Secrets
      /\ c.todo \in IF c.command = "register" THEN Registering ELSE Singles
      /\ c.key # 0
  BY <1>1, <1>2 DEF CommandGood
<1>4. /\ keyFile' = -1 /\ UNCHANGED <<config, keys, wanted, disturbed, registered>>
      /\ shell' = [shell EXCEPT ![s].at = "fillKey"]
      /\ shell \in [Shells -> CommandRecords]
  BY DEF Files!CreateKey, Files!Quiet, Files!Goto, Files!Short, FilesIInv, FilesTypes
<1>5. shell' = [shell EXCEPT ![s] = [c EXCEPT !.key = c.key, !.at = "fillKey"]]
  <2>1. [c EXCEPT !.key = c.key, !.at = "fillKey"] = [c EXCEPT !.at = "fillKey"]
    BY <1>2 DEF CommandRecords
  <2> QED BY <1>4, <2>1
<1>6. /\ d.command = c.command /\ d.todo = c.todo /\ d.value = c.value
      /\ d.key = c.key /\ d.read = c.read /\ d.at = "fillKey"
  <2>1. d = [c EXCEPT !.at = "fillKey"]
    BY <1>4
  <2> QED BY <1>2, <2>1 DEF CommandRecords
<1> HIDE DEF d
<1>7. CommandGood(d)
  BY <1>3, <1>6 DEF CommandGood
<1>8. Behind(c.todo) \cap Files!Secrets = {} \/ ~c.alone \/ c.command # "register"
  BY <1>1, <1>2 DEF AloneGood, Written
<1>9. c.alone => AloneGood(shell[s])'
  <2>1. c.alone /\ c.command = "register" => Written(d.read, keyFile', Behind(d.todo), d.value)
    BY <1>1, <1>2, <1>6, <1>8 DEF AloneGood, Written
  <2>2. shell'[s].at = "fillKey" /\ shell'[s].command = c.command
    BY <1>6 DEF d
  <2> QED BY <1>4, <2>1, <2>2 DEF AloneGood, d
<1>10. ~disturbed => Underway(shell[s])'
  <2>1. c.command # "clear"
    BY <1>3 DEF SetCommands
  <2>2. ~disturbed => Match(c.read, 0, wanted)
    BY <1>1, <1>2, <2>1 DEF Underway
  <2>3. shell'[s].at = "fillKey" /\ shell'[s].read = c.read
    BY <1>6 DEF d
  <2> QED BY <1>4, <2>2, <2>3 DEF Underway
<1>11. CommandGood(shell[s])'
  BY <1>7 DEF d, CommandGood
<1>12. keyFile' \in {-1} \cup 0..MaxKeys /\ keys' \in 0..MaxKeys
  BY <1>4 DEF FilesIInv, FilesTypes
<1> QED BY <1>1, <1>2, <1>4, <1>5, <1>9, <1>10, <1>11, <1>12, FilesGoto

LEMMA FilesFillKey == ASSUME FilesIInv, NEW s \in Shells, Files!FillKey(s) PROVE FilesIInv'
<1> DEFINE c == shell[s]
           d == shell'[s]
<1>1. c.at = "fillKey" /\ c # Files!Idle
  BY IdleStored DEF Files!FillKey
<1>2. /\ c \in CommandRecords /\ CommandGood(c) /\ (c.alone => AloneGood(c))
      /\ (~disturbed => c.alone /\ Underway(c)) /\ c.key \in 0..MaxKeys
  BY <1>1, FilesAt
<1>3. /\ c.command \in SetCommands /\ c.value \in Values /\ Head(c.todo) \in Files!Secrets
      /\ c.todo \in IF c.command = "register" THEN Registering ELSE Singles
      /\ c.key # 0
  BY <1>1, <1>2 DEF CommandGood
<1>4. /\ keyFile' = c.key /\ UNCHANGED <<config, keys, wanted, disturbed, registered>>
      /\ shell' = [shell EXCEPT ![s].at = "truncate"]
      /\ shell \in [Shells -> CommandRecords]
  BY DEF Files!FillKey, Files!Quiet, Files!Goto, FilesIInv, FilesTypes
<1>5. shell' = [shell EXCEPT ![s] = [c EXCEPT !.key = c.key, !.at = "truncate"]]
  <2>1. [c EXCEPT !.key = c.key, !.at = "truncate"] = [c EXCEPT !.at = "truncate"]
    BY <1>2 DEF CommandRecords
  <2> QED BY <1>4, <2>1
<1>6. /\ d.command = c.command /\ d.todo = c.todo /\ d.value = c.value
      /\ d.key = c.key /\ d.read = c.read /\ d.at = "truncate"
  <2>1. d = [c EXCEPT !.at = "truncate"]
    BY <1>4
  <2> QED BY <1>2, <2>1 DEF CommandRecords
<1> HIDE DEF d
<1>7. CommandGood(d)
  BY <1>3, <1>6 DEF CommandGood
<1>8. c.command # "clear"
  BY <1>3 DEF SetCommands
<1>9. c.alone => AloneGood(shell[s])'
  <2>1. Behind(c.todo) \cap Files!Secrets = {} \/ ~c.alone \/ c.command # "register"
    BY <1>1, <1>2 DEF AloneGood, Written
  <2>2. c.alone /\ c.command = "register" => Written(d.read, keyFile', Behind(d.todo), d.value)
    BY <1>1, <1>2, <1>4, <1>6, <2>1 DEF AloneGood, Written
  <2>3. shell'[s].at = "truncate" /\ shell'[s].command = c.command /\ shell'[s].key = c.key
    BY <1>6 DEF d
  <2> QED BY <1>3, <1>4, <1>8, <2>2, <2>3 DEF AloneGood, d
<1>10. ~disturbed => Underway(shell[s])'
  <2> SUFFICES ASSUME ~disturbed PROVE Underway(shell[s])'
    OBVIOUS
  <2>1. Match(c.read, 0, wanted)
    BY <1>1, <1>2, <1>8 DEF Underway
  <2>2. Match(NewOf(d), keyFile', NewWanted(d))
    BY <1>1, <1>3, <1>4, <1>6, <2>1, UnderwaySet
  <2>3. shell'[s].at = "truncate"
    BY <1>6 DEF d
  <2> QED BY <1>4, <2>2, <2>3 DEF Underway, d, NewWanted
<1>11. CommandGood(shell[s])'
  BY <1>7 DEF d, CommandGood
<1>12. keyFile' \in {-1} \cup 0..MaxKeys /\ keys' \in 0..MaxKeys
  BY <1>2, <1>4 DEF FilesIInv, FilesTypes
<1> QED BY <1>1, <1>2, <1>4, <1>5, <1>9, <1>10, <1>11, <1>12, FilesGoto

LEMMA FilesRemoveKey == ASSUME FilesIInv, NEW s \in Shells, Files!RemoveKey(s) PROVE FilesIInv'
<1> DEFINE c == shell[s]
           d == shell'[s]
<1>1. c.at = "removeKey" /\ c # Files!Idle
  BY IdleStored DEF Files!RemoveKey
<1>2. /\ c \in CommandRecords /\ CommandGood(c) /\ (c.alone => AloneGood(c))
      /\ (~disturbed => c.alone /\ Underway(c)) /\ c.key \in 0..MaxKeys /\ c.read \in StoredValues
      /\ wanted \in [Files!Fields -> Values \cup {0}]
  BY <1>1, FilesAt
<1>3. /\ c.command \in RemoveCommands /\ c.value = 0
      /\ c.todo \in IF c.command = "clear" THEN {<<"all">>} ELSE Singles
      /\ (c.command = "clear" => c.read = Files!Nothing)
  BY <1>1, <1>2 DEF CommandGood
<1>4. /\ keyFile' = IF c.command # "clear" /\ Files!HasEncryptedSecrets(Files!NewValues(s)) THEN keyFile ELSE 0
      /\ UNCHANGED <<config, keys, wanted, disturbed, registered>>
      /\ shell' = [shell EXCEPT ![s].at = "truncate"]
      /\ shell \in [Shells -> CommandRecords]
  BY DEF Files!RemoveKey, Files!Quiet, Files!Goto, Files!NoKey, FilesIInv, FilesTypes
<1>5. shell' = [shell EXCEPT ![s] = [c EXCEPT !.key = c.key, !.at = "truncate"]]
  <2>1. [c EXCEPT !.key = c.key, !.at = "truncate"] = [c EXCEPT !.at = "truncate"]
    BY <1>2 DEF CommandRecords
  <2> QED BY <1>4, <2>1
<1>6. /\ d.command = c.command /\ d.todo = c.todo /\ d.value = c.value
      /\ d.key = c.key /\ d.read = c.read /\ d.at = "truncate"
  <2>1. d = [c EXCEPT !.at = "truncate"]
    BY <1>4
  <2> QED BY <1>2, <2>1 DEF CommandRecords
<1> HIDE DEF d
<1>7. CommandGood(d)
  BY <1>3, <1>6 DEF CommandGood
<1>8. c.command \notin SetCommands /\ c.command # "register"
  BY <1>3 DEF SetCommands, RemoveCommands
<1>9. c.alone => AloneGood(shell[s])'
  <2>1. shell'[s].at = "truncate" /\ shell'[s].command = c.command
    BY <1>6 DEF d
  <2> QED BY <1>4, <1>8, <2>1 DEF AloneGood
<1>10. ~disturbed => Underway(shell[s])'
  <2> SUFFICES ASSUME ~disturbed, c.command # "clear" PROVE Match(NewOf(d), keyFile', NewWanted(d))
    <3>1. shell'[s].at = "truncate" /\ shell'[s].command = c.command
      BY <1>6 DEF d
    <3> QED BY <1>4, <3>1 DEF Underway, d, NewWanted
  <2>1. Match(c.read, keyFile, wanted)
    BY <1>1, <1>2 DEF Underway
  <2> DEFINE f == Head(c.todo)
             new == NewOf(c)
  <2>2. f \in Files!Fields
    BY <1>3, TodoFacts
  <2>3. new = [c.read EXCEPT ![f] = Files!Unset]
    BY <1>3 DEF NewOf
  <2>4. keyFile' = IF HasSecrets(new) THEN keyFile ELSE 0
    BY <1>1, <1>4, NewValuesOf DEF Files!HasEncryptedSecrets, HasSecrets
  <2>5. NewOf(d) = new /\ NewWanted(d) = [wanted EXCEPT ![f] = 0]
    BY <1>3, <1>6 DEF NewOf, NewWanted
  <2> HIDE DEF f, new
  <2>6. Match(new, IF HasSecrets(new) THEN keyFile ELSE 0, [wanted EXCEPT ![f] = 0])
    BY <1>2, <2>1, <2>2, <2>3, MatchRemove
  <2> QED BY <2>4, <2>5, <2>6
<1>11. CommandGood(shell[s])'
  BY <1>7 DEF d, CommandGood
<1>12. keyFile' \in {-1} \cup 0..MaxKeys /\ keys' \in 0..MaxKeys
  BY <1>4, FilesAssumption DEF FilesIInv, FilesTypes
<1> QED BY <1>1, <1>2, <1>4, <1>5, <1>9, <1>10, <1>11, <1>12, FilesGoto

\* What a register writes next to what it has written before
LEMMA WrittenNext ==
  ASSUME NEW c \in CommandRecords, CommandGood(c), c # Files!Idle, AloneGood(c),
         c.command = "register", c.at \in {"truncate", "fill"}
  PROVE  Written(NewOf(c), keyFile, Behind(c.todo) \cup {Head(c.todo)}, c.value)
<1> DEFINE f == Head(c.todo)
           e == [value |-> c.value, key |-> IF f \in Files!Secrets THEN c.key ELSE 0]
<1>1. c.todo \in Registering /\ c.command \in SetCommands /\ c.command \notin RemoveCommands
      /\ c.value \in Values
  BY DEF CommandGood, SetCommands, RemoveCommands
<1>2. f \in Files!Fields /\ f \notin Behind(c.todo) /\ Behind(c.todo) \subseteq Files!Fields
  BY <1>1, TodoFacts
<1>3. f \in Files!Secrets => c.key = keyFile /\ c.key \notin {0, -1}
  <2>1. c.key \in 0..MaxKeys
    BY DEF CommandRecords
  <2>2. f \in Files!Secrets => c.key = keyFile /\ c.key # 0
    BY <1>1 DEF AloneGood
  <2> QED BY <2>1, <2>2, FilesAssumption
<1>4. c.read \in StoredValues /\ NewOf(c) = [c.read EXCEPT ![f] = e]
  BY <1>1 DEF NewOf, CommandRecords
<1>5. e.value = c.value /\ (f \in Files!Secrets => e.key = c.key)
  OBVIOUS
<1>6. Written(c.read, keyFile, Behind(c.todo), c.value)
  BY DEF AloneGood
<1> HIDE DEF f, e
<1>7. NewOf(c)[f] = e /\ \A g \in Files!Fields : g # f => NewOf(c)[g] = c.read[g]
  BY <1>2, <1>4 DEF StoredValues
<1>8. Written(NewOf(c), keyFile, Behind(c.todo) \cup {f}, c.value)
  BY <1>2, <1>3, <1>5, <1>6, <1>7 DEF Written
<1> QED BY <1>8 DEF f

\* A field is written.
LEMMA FilesDone ==
  ASSUME FilesIInv, NEW s \in Shells, shell[s].at \in {"truncate", "fill"}, Files!Done(s),
         config'.values = Files!NewValues(s),
         config' = [kind |-> "absent", values |-> Files!Nothing]
           \/ config' = [kind |-> "whole", values |-> Files!NewValues(s)]
  PROVE  FilesIInv'
<1> DEFINE c == shell[s]
<1>1. c # Files!Idle
  BY IdleStored
<1>2. /\ c \in CommandRecords /\ CommandGood(c) /\ (c.alone => AloneGood(c))
      /\ (~disturbed => c.alone /\ Underway(c)) /\ c.alone \in BOOLEAN /\ c.value \in Values \cup {0}
      /\ wanted \in [Files!Fields -> Values \cup {0}]
  BY <1>1, FilesAt DEF CommandRecords
<1>3. /\ UNCHANGED <<keyFile, keys>>
      /\ disturbed' = (disturbed /\ ~(c.command = "clear" /\ c.alone))
      /\ registered' = (Len(c.todo) = 1 /\ c.command = "register" /\ c.alone)
      /\ wanted' = IF disturbed' THEN Files!NothingWanted
                   ELSE [f \in Files!Fields |->
                          IF f \in (IF c.command = "clear" THEN Files!Fields ELSE {Head(c.todo)})
                            THEN c.value ELSE wanted[f]]
      /\ shell' = [shell EXCEPT ![s] = IF Len(c.todo) = 1 THEN Files!Idle
                     ELSE [c EXCEPT !.todo = Tail(c.todo), !.at = "load", !.read = Files!Nothing, !.key = 0]]
  BY DEF Files!Done, Files!Field, Files!NoKey
<1>4. shell \in [Shells -> CommandRecords] /\ disturbed \in BOOLEAN
      /\ keyFile \in {-1} \cup 0..MaxKeys /\ keys \in 0..MaxKeys
  BY DEF FilesIInv, FilesTypes
<1>5. Files!NewValues(s) \in StoredValues
  BY <1>1, <1>2, NewValuesOf, NewOfType, NothingStored
<1>6. config' \in [kind : {"absent", "empty", "whole", "torn"}, values : StoredValues]
      /\ (config'.kind # "whole" => config'.values = Files!Nothing)
  BY <1>5, NothingStored
<1>7. wanted' \in [Files!Fields -> Values \cup {0}]
  <2>1. Files!NothingWanted \in [Files!Fields -> Values \cup {0}]
    BY DEF Files!NothingWanted
  <2> QED BY <1>2, <1>3, <2>1
<1>8. disturbed' \in BOOLEAN /\ registered' \in BOOLEAN
  BY <1>3
<1>9. \A t \in Shells : t # s => shell'[t] = shell[t]
  BY <1>3, <1>4
<1>10. shell' \in [Shells -> CommandRecords] => FilesTypes'
  BY <1>3, <1>4, <1>6, <1>7, <1>8 DEF FilesTypes
<1>11. ASSUME c.command = "clear" PROVE FilesIInv'
  <2>1. c.todo = <<"all">> /\ c.value = 0 /\ c.command # "register"
    BY <1>1, <1>2, <1>11 DEF CommandGood, SetCommands
  <2>2. shell'[s] = Files!Idle /\ shell' \in [Shells -> CommandRecords]
    BY <1>3, <1>4, <2>1, TodoFacts, IdleStored
  <2>3. ~disturbed' => c.alone /\ keyFile' = 0
    BY <1>2, <1>3, <1>11 DEF AloneGood
  <2>4. ~disturbed' => \A f \in Files!Fields : wanted'[f] = 0
    BY <1>3, <1>11, <2>1
  <2>5. config'.values = Files!Nothing
    BY <1>1, <1>11, NewValuesOf
  <2>6. ~disturbed' => Match(config.values, keyFile, wanted)'
    BY <2>3, <2>4, <2>5, MatchNothing
  <2>7. ~registered'
    BY <1>3, <2>1
  <2> QED BY <1>1, <1>9, <1>10, <2>2, <2>3, <2>6, <2>7, FilesStop
<1>12. ASSUME c.command # "clear" PROVE FilesIInv'
  <2>1. config'.values = NewOf(c) /\ Head(c.todo) \in Files!Fields
    BY <1>1, <1>2, <1>12, NewValuesOf, NewOfType
  <2>2. disturbed' = disturbed
    BY <1>3, <1>4, <1>12
  <2>3. ~disturbed => wanted' = NewWanted(c)
    <3>1. ASSUME ~disturbed PROVE wanted' = [f \in Files!Fields |-> IF f = Head(c.todo) THEN c.value ELSE wanted[f]]
      BY <1>3, <1>12, <2>2, <3>1
    <3> QED BY <1>2, <2>1, <3>1 DEF NewWanted
  <2>4. ~disturbed => c.alone /\ Match(config.values, keyFile, wanted)'
    <3>1. ASSUME ~disturbed PROVE Match(NewOf(c), keyFile, NewWanted(c))
      BY <1>2, <1>12, <3>1 DEF Underway
    <3> QED BY <1>2, <1>3, <2>1, <2>3, <3>1
  <2>5. c.alone /\ c.command = "register" =>
          Written(config'.values, keyFile', Behind(c.todo) \cup {Head(c.todo)}, c.value)
    BY <1>1, <1>2, <1>3, <2>1, WrittenNext
  <2>6. CASE Len(c.todo) = 1
    <3>1. shell'[s] = Files!Idle /\ shell' \in [Shells -> CommandRecords]
      BY <1>3, <1>4, <2>6, IdleStored
    <3>2. ASSUME registered'
          PROVE c.alone /\ \E v \in Values : Written(config'.values, keyFile', Files!Fields, v)
      <4>1. c.alone /\ c.command = "register"
        BY <1>3, <3>2
      <4>2. c.todo \in Registering /\ c.value \in Values
        BY <1>1, <1>2, <4>1 DEF CommandGood, RemoveCommands
      <4>3. Behind(c.todo) \cup {Head(c.todo)} = Files!Fields
        BY <2>6, <4>2, TodoFacts
      <4> QED BY <2>5, <4>1, <4>2, <4>3
    <3> QED BY <1>1, <1>9, <1>10, <2>2, <2>4, <3>1, <3>2, FilesStop
  <2>7. CASE Len(c.todo) # 1
    <3> DEFINE d == shell'[s]
    <3>1. c.command = "register" /\ c.todo \in Registering /\ c.value \in Values
      BY <1>1, <1>2, <1>12, <2>7, TodoFacts DEF CommandGood
    <3>2. Tail(c.todo) \in Registering /\ Behind(Tail(c.todo)) = Behind(c.todo) \cup {Head(c.todo)}
      BY <2>7, <3>1, TodoFacts
    <3>3. d = [c EXCEPT !.todo = Tail(c.todo), !.at = "load", !.read = Files!Nothing, !.key = 0]
      BY <1>3, <1>4, <2>7
    <3>4. 0 \in 0..MaxKeys
      BY FilesAssumption
    <3>5. /\ d \in CommandRecords /\ d.command = "register" /\ d.todo = Tail(c.todo) /\ d.value = c.value
          /\ d.alone = c.alone /\ d.at = "load"
      BY <1>2, <3>1, <3>2, <3>3, <3>4, NothingStored DEF CommandRecords
    <3>6. shell' \in [Shells -> CommandRecords]
      BY <1>3, <1>4, <1>9, <3>5
    <3> HIDE DEF d
    <3>7. CommandGood(d)
      BY <3>1, <3>2, <3>5 DEF CommandGood, SetCommands
    <3>8. shell'[s] = d
      BY DEF d
    <3>9. CommandGood(shell[s])'
      BY <3>7, <3>8 DEF CommandGood
    <3>10. c.alone => AloneGood(shell[s])'
      BY <2>5, <3>1, <3>2, <3>5, <3>8 DEF AloneGood
    <3>11. ~disturbed => Underway(shell[s])'
      BY <2>4, <3>5, <3>8 DEF Underway
    <3>12. registered' = registered
      <4>1. ~registered'
        BY <1>3, <2>7
      <4>2. ~registered /\ registered \in BOOLEAN
        BY <1>1 DEF FilesIInv, Files!AllIdle, FilesTypes
      <4> QED BY <1>8, <4>1, <4>2
    <3>13. shell'[s] # Files!Idle
      BY <3>5, <3>8, IdleStored
    <3> QED BY <1>1, <1>9, <1>10, <2>2, <3>5, <3>6, <3>8, <3>9, <3>10, <3>11, <3>12, <3>13, FilesMove
  <2> QED BY <2>6, <2>7
<1> QED BY <1>11, <1>12

LEMMA FilesTruncate == ASSUME FilesIInv, NEW s \in Shells, Files!Truncate(s) PROVE FilesIInv'
<1> DEFINE c == shell[s]
           d == shell'[s]
<1>1. c.at = "truncate" /\ c # Files!Idle
  BY IdleStored DEF Files!Truncate
<1>2. CASE Files!NewValues(s) = Files!Nothing
  BY <1>1, <1>2, FilesDone DEF Files!Truncate
<1>3. CASE Files!NewValues(s) # Files!Nothing
  <2>1. /\ c \in CommandRecords /\ CommandGood(c) /\ (c.alone => AloneGood(c))
        /\ (~disturbed => c.alone /\ Underway(c)) /\ c.key \in 0..MaxKeys
    BY <1>1, FilesAt
  <2>2. /\ config' = [kind |-> "empty", values |-> Files!Nothing]
        /\ UNCHANGED <<keyFile, keys, wanted, disturbed, registered>>
        /\ shell' = [shell EXCEPT ![s].at = "fill"]
        /\ shell \in [Shells -> CommandRecords]
    BY <1>3 DEF Files!Truncate, Files!Quiet, Files!Goto, FilesIInv, FilesTypes
  <2>3. shell' = [shell EXCEPT ![s] = [c EXCEPT !.key = c.key, !.at = "fill"]]
    <3>1. [c EXCEPT !.key = c.key, !.at = "fill"] = [c EXCEPT !.at = "fill"]
      BY <2>1 DEF CommandRecords
    <3> QED BY <2>2, <3>1
  <2>4. /\ d.command = c.command /\ d.todo = c.todo /\ d.value = c.value
        /\ d.key = c.key /\ d.read = c.read /\ d.at = "fill"
    <3>1. d = [c EXCEPT !.at = "fill"]
      BY <2>2
    <3> QED BY <2>1, <3>1 DEF CommandRecords
  <2> HIDE DEF d
  <2>5. CommandGood(d)
    BY <1>1, <2>1, <2>4 DEF CommandGood
  <2>6. c.alone => AloneGood(d)
    BY <1>1, <2>1, <2>4 DEF AloneGood
  <2>7. NewOf(d) = NewOf(c) /\ NewWanted(d) = NewWanted(c)
    BY <2>4 DEF NewOf, NewWanted
  <2>8. ~disturbed => Underway(d)
    BY <1>1, <2>1, <2>4, <2>7 DEF Underway
  <2>9. shell'[s] = d
    BY DEF d
  <2>10. CommandGood(shell[s])'
    BY <2>5, <2>9 DEF CommandGood
  <2>11. c.alone => AloneGood(shell[s])'
    BY <2>2, <2>4, <2>6, <2>9 DEF AloneGood
  <2>12. ~disturbed => Underway(shell[s])'
    BY <2>2, <2>4, <2>8, <2>9 DEF Underway, NewWanted
  <2>13. keyFile' \in {-1} \cup 0..MaxKeys /\ keys' \in 0..MaxKeys
    BY <2>2 DEF FilesIInv, FilesTypes
  <2> QED BY <1>1, <2>1, <2>2, <2>3, <2>10, <2>11, <2>12, <2>13, FilesGoto
<1> QED BY <1>2, <1>3

LEMMA FilesFill == ASSUME FilesIInv, NEW s \in Shells, Files!Fill(s) PROVE FilesIInv'
BY FilesDone DEF Files!Fill

LEMMA EffectsOf ==
  /\ DOMAIN Files!Effects = SetCommands \cup RemoveCommands
  /\ \A command \in SetCommands :
       Files!Effects[command] \in IF command = "register" THEN Registering ELSE Singles
  /\ \A command \in RemoveCommands :
       Files!Effects[command] \in IF command = "clear" THEN {<<"all">>} ELSE Singles
  /\ Behind(Files!Effects["register"]) = {}
<1>1. Behind(<<"walletAddress", "walletPrivateKey", "token">>) = {}
  BY DEF Behind
<1>2. /\ Files!Effects["register"] = <<"walletAddress", "walletPrivateKey", "token">>
      /\ Files!Effects["login"] = <<"token">>
      /\ Files!Effects["setToken"] = <<"token">>
      /\ Files!Effects["setAddress"] = <<"walletAddress">>
      /\ Files!Effects["setKey"] = <<"walletPrivateKey">>
      /\ Files!Effects["unsetToken"] = <<"token">>
      /\ Files!Effects["unsetAddress"] = <<"walletAddress">>
      /\ Files!Effects["unsetKey"] = <<"walletPrivateKey">>
      /\ Files!Effects["clear"] = <<"all">>
  BY DEF Files!Effects
<1>3. DOMAIN Files!Effects = SetCommands \cup RemoveCommands
  BY DEF Files!Effects, SetCommands, RemoveCommands
<1> QED BY <1>1, <1>2, <1>3 DEF SetCommands, RemoveCommands, Registering, Singles

LEMMA FilesBegin == ASSUME FilesIInv, NEW s \in Shells, Files!Begin(s) PROVE FilesIInv'
<1>1. PICK command \in DOMAIN Files!Effects, v \in Values :
        shell' = [t \in Shells |->
             IF t = s
               THEN [Files!Idle EXCEPT !.command = command, !.todo = Files!Effects[command], !.at = "load",
                                 !.value = IF Files!Removes(command) THEN 0 ELSE v, !.alone = Files!AllIdle]
               ELSE [shell[t] EXCEPT !.alone = FALSE]]
  BY DEF Files!Begin
<1>2. /\ shell[s] = Files!Idle
      /\ disturbed' = (disturbed \/ ~Files!AllIdle)
      /\ wanted' = IF disturbed' THEN Files!NothingWanted ELSE wanted
      /\ registered' = FALSE
      /\ UNCHANGED <<config, keyFile, keys>>
  BY DEF Files!Begin
<1>3. /\ shell \in [Shells -> CommandRecords] /\ wanted \in [Files!Fields -> Values \cup {0}]
      /\ disturbed \in BOOLEAN
  BY DEF FilesIInv, FilesTypes
<1>4. Files!AllIdle \in BOOLEAN
  BY DEF Files!AllIdle
<1> DEFINE d == shell'[s]
           todo == Files!Effects[command]
           value == IF command \in RemoveCommands THEN 0 ELSE v
           alone == Files!AllIdle
<1>5. Files!Removes(command) <=> command \in RemoveCommands
  BY DEF Files!Removes, RemoveCommands
<1>6. d = [Files!Idle EXCEPT !.command = command, !.todo = todo, !.at = "load", !.value = value, !.alone = alone]
  BY <1>1, <1>5
<1>7. command \in SetCommands \cup RemoveCommands /\ todo \in Registering \cup Singles \cup {<<"all">>}
  BY EffectsOf
<1>8. value \in Values \cup {0} /\ alone \in BOOLEAN
  BY <1>4
<1>9. /\ command \in SetCommands => todo \in IF command = "register" THEN Registering ELSE Singles
      /\ command \in RemoveCommands => todo \in IF command = "clear" THEN {<<"all">>} ELSE Singles
      /\ command = "register" => Behind(todo) = {}
  BY <1>7, EffectsOf
<1>10. SetCommands \cap RemoveCommands = {}
  BY DEF SetCommands, RemoveCommands
<1>11. Files!Idle \in CommandRecords /\ Files!Idle.read = Files!Nothing
  BY IdleStored DEF Files!Idle
<1> HIDE DEF todo
<1>12. /\ d \in CommandRecords /\ d.command = command /\ d.todo = todo /\ d.at = "load"
       /\ d.value = value /\ d.alone = alone /\ d.read = Files!Nothing
  <2> HIDE DEF value, alone, d
  <2> QED BY <1>6, <1>7, <1>8, <1>11 DEF CommandRecords
<1>13. \A t \in Shells : t # s =>
         /\ shell'[t] = [shell[t] EXCEPT !.alone = FALSE]
         /\ shell'[t] \in CommandRecords /\ ~shell'[t].alone
         /\ shell[t] = Files!Idle => shell'[t] = Files!Idle
  <2> SUFFICES ASSUME NEW t \in Shells, t # s
               PROVE  /\ shell'[t] = [shell[t] EXCEPT !.alone = FALSE]
                      /\ shell'[t] \in CommandRecords /\ ~shell'[t].alone
                      /\ shell[t] = Files!Idle => shell'[t] = Files!Idle
    OBVIOUS
  <2>1. shell'[t] = [shell[t] EXCEPT !.alone = FALSE] /\ shell[t] \in CommandRecords
    BY <1>1, <1>3
  <2>2. shell'[t] \in CommandRecords /\ ~shell'[t].alone
    BY <2>1 DEF CommandRecords
  <2>3. ASSUME shell[t] = Files!Idle PROVE shell'[t] = Files!Idle
    <3> DEFINE c == shell[t]
    <3>1. c \in CommandRecords /\ c.alone = FALSE
      BY <2>1, <2>3, IdleStored
    <3> HIDE DEF c
    <3>2. [c EXCEPT !.alone = FALSE] = c
      BY <3>1 DEF CommandRecords
    <3> QED BY <2>1, <2>3, <3>2 DEF c
  <2> QED BY <2>1, <2>2, <2>3
<1>14. shell' \in [Shells -> CommandRecords]
  <2>1. shell' = [t \in Shells |-> shell'[t]]
    BY <1>1
  <2>2. \A t \in Shells : shell'[t] \in CommandRecords
    BY <1>12, <1>13
  <2> HIDE DEF d
  <2> QED BY ONLY <2>1, <2>2
<1> HIDE DEF d
<1>d. shell'[s] = d
  BY DEF d
<1>15. FilesTypes'
  <2>1. Files!NothingWanted \in [Files!Fields -> Values \cup {0}]
    BY DEF Files!NothingWanted
  <2>2. wanted' \in [Files!Fields -> Values \cup {0}] /\ disturbed' \in BOOLEAN /\ registered' \in BOOLEAN
    BY <1>2, <1>3, <2>1
  <2> QED BY <1>2, <1>14, <2>2 DEF FilesIInv, FilesTypes
<1>16. \A t \in Shells : CommandGood(shell[t])'
  <2> SUFFICES ASSUME NEW t \in Shells PROVE CommandGood(shell[t])'
    OBVIOUS
  <2>1. CASE t = s
    <3>1. CommandGood(d)
      BY <1>7, <1>9, <1>10, <1>12 DEF CommandGood
    <3> QED BY <1>d, <2>1, <3>1 DEF CommandGood
  <2>2. CASE t # s
    <3> DEFINE c == shell[t]
               e == shell'[t]
    <3>1. e = [c EXCEPT !.alone = FALSE] /\ c \in CommandRecords /\ (c = Files!Idle => e = Files!Idle)
      BY <1>3, <1>13, <2>2
    <3>2. CommandGood(c)
      BY DEF FilesIInv
    <3>3. e.command = c.command /\ e.todo = c.todo /\ e.at = c.at /\ e.value = c.value /\ e.key = c.key
          /\ e.read = c.read
      BY <3>1 DEF CommandRecords
    <3> HIDE DEF c, e
    <3>4. CommandGood(e)
      BY <3>1, <3>2, <3>3 DEF CommandGood
    <3> QED BY <3>4 DEF CommandGood, e
  <2> QED BY <2>1, <2>2
<1>17. \A t, u \in Shells : t # u /\ shell'[t].alone => shell'[u] = Files!Idle
  BY <1>d, <1>12, <1>13 DEF Files!AllIdle
<1>18. \A t \in Shells : shell'[t].alone => AloneGood(shell[t])'
  <2> SUFFICES ASSUME NEW t \in Shells, shell'[t].alone PROVE AloneGood(shell[t])'
    OBVIOUS
  <2>1. t = s
    BY <1>13
  <2>2. command = "register" => Behind(d.todo) = {}
    BY <1>9, <1>12
  <2> QED BY <1>d, <1>12, <2>1, <2>2 DEF AloneGood, Written
<1>19. ~disturbed' => \A t \in Shells : shell'[t] = Files!Idle \/ (shell'[t].alone /\ Underway(shell[t])')
  <2> SUFFICES ASSUME ~disturbed', NEW t \in Shells
               PROVE shell'[t] = Files!Idle \/ (shell'[t].alone /\ Underway(shell[t])')
    OBVIOUS
  <2>1. ~disturbed /\ Files!AllIdle /\ wanted' = wanted
    BY <1>2
  <2>2. Match(config.values, keyFile, wanted)
    BY <2>1 DEF FilesIInv
  <2>3. CASE t = s
    BY <1>d, <1>2, <1>12, <2>1, <2>2, <2>3 DEF Underway
  <2>4. CASE t # s
    BY <1>13, <2>1, <2>4 DEF Files!AllIdle
  <2> QED BY <2>3, <2>4
<1>20. ~Files!AllIdle'
  BY <1>d, <1>12, IdleStored DEF Files!AllIdle
<1> QED BY <1>2, <1>15, <1>16, <1>17, <1>18, <1>19, <1>20 DEF FilesIInv

LEMMA FilesStep == FilesIInv /\ Files!Next => FilesIInv'
BY FilesBegin, FilesLoad, FilesFindKey, FilesCreateKey, FilesFillKey, FilesRemoveKey, FilesTruncate,
   FilesFill, FilesFail DEF Files!Next

LEMMA FilesStutter == ASSUME FilesIInv, UNCHANGED cliVars PROVE FilesIInv'
BY DEF FilesIInv, FilesTypes, CommandGood, AloneGood, Underway, NewWanted, Files!AllIdle, cliVars

LEMMA FilesGood ==
  FilesIInv => Files!TypeOK /\ Files!SettingsKept /\ Files!KeyNeeded /\ Files!RegisterUsable
<1> SUFFICES ASSUME FilesIInv
             PROVE Files!TypeOK /\ Files!SettingsKept /\ Files!KeyNeeded /\ Files!RegisterUsable
  OBVIOUS
<1>1. Files!TypeOK
  <2>1. \A s \in Shells : shell[s].read \in StoredValues /\ shell[s].key \in 0..MaxKeys
    BY DEF FilesIInv, FilesTypes, CommandRecords
  <2> QED BY <2>1 DEF FilesIInv, FilesTypes, Files!TypeOK, StoredValues, Files!Short
<1>2. Files!SettingsKept
  BY DEF FilesIInv, Match, Files!SettingsKept, Files!Decrypts, Files!Readable
<1>3. Files!KeyNeeded
  BY DEF FilesIInv, Match, Files!KeyNeeded, HasSecrets, Files!HasEncryptedSecrets, Files!NoKey
<1>4. Files!RegisterUsable
  <2> SUFFICES ASSUME registered
               PROVE \E v \in Values : (\A f \in Files!Fields : Files!Decrypts(config.values, f, v))
                                       /\ Files!CanLogin(config.values)
    BY DEF Files!RegisterUsable
  <2>1. PICK v \in Values : Written(config.values, keyFile, Files!Fields, v)
    BY DEF FilesIInv
  <2>2. \A f \in Files!Fields : Files!Decrypts(config.values, f, v)
    <3> SUFFICES ASSUME NEW f \in Files!Fields PROVE Files!Decrypts(config.values, f, v)
      OBVIOUS
    <3>1. config.values[f].value = v /\ (f \in Files!Secrets => config.values[f].key = keyFile)
      BY <2>1 DEF Written
    <3>2. config.values[f] # Files!Unset
      BY <3>1, NothingStored, FilesAssumption
    <3> QED BY <3>1, <3>2 DEF Files!Decrypts, Files!Readable
  <2>3. "walletPrivateKey" \in Files!Fields /\ "walletAddress" \in Files!Fields
    BY FieldNames
  <2>4. Files!CanLogin(config.values)
    BY <2>2, <2>3 DEF Files!CanLogin, Files!Decrypts
  <2> QED BY <2>2, <2>4
<1> QED BY <1>1, <1>2, <1>3, <1>4

\* What commands that did not overlap or fail half-way have set can be read back, the
\* key is there exactly as long as a secret needs it, and after a register the wallet
\* and its token can be used, for any number of processes, commands, failures and
\* values (FilesKept).
THEOREM SettingsCanBeReadBack == AroundSpec => []FilesKept
<1>1. AroundInit => FilesIInv
  BY FilesInit DEF AroundInit
<1>2. FilesIInv /\ [AroundNext]_everything => FilesIInv'
  BY FilesStep, FilesStutter
     DEF AroundNext, StartOnly, SignInOnly, FilesOnly, CallOnly, ListOnly, DrawerOnly,
         ServerOnly, clientVars, everything
<1>3. FilesIInv => FilesKept
  BY FilesGood DEF FilesKept
<1> QED BY <1>1, <1>2, <1>3, PTL DEF AroundSpec

-----------------------------------------------------------------------------
(* Snapshots and rows.                                                     *)

\* The operator of the instance is that of the library.
LEMMA SameCardinality == \A S : Synchronised!Cardinality(S) = Cardinality(S)
BY DEF Synchronised!Cardinality, Cardinality

SnapshotFields ==
  {"profile", "source", "balance", "count", "intentions", "dispute", "meta", "activities"}
RowFields ==
  {"profile", "balance", "count", "intentions", "dispute", "activities", "revision", "commits"}

Statuses == {"ACTIVE", "BANNED"}
Activities == [actor : Members, time : 1..MaxCommits + 1]

\* A function on some of the members.
TableOf(f, S) ==
  /\ f = [a \in DOMAIN f |-> f[a]]
  /\ DOMAIN f \subseteq Members
  /\ \A a \in DOMAIN f : f[a] \in S

LEMMA TablesTyped ==
  ASSUME NEW f, NEW S
  PROVE  f \in UNION {[as -> S] : as \in SUBSET Members} <=> TableOf(f, S)
<1>1. ASSUME f \in UNION {[as -> S] : as \in SUBSET Members}
      PROVE  TableOf(f, S)
  BY <1>1 DEF TableOf
<1>2. ASSUME TableOf(f, S)
      PROVE  f \in UNION {[as -> S] : as \in SUBSET Members}
  <2>1. f \in [DOMAIN f -> S] /\ DOMAIN f \in SUBSET Members
    BY <1>2 DEF TableOf
  <2> QED BY <2>1
<1> QED BY <1>1, <1>2

\* The fields of a snapshot, one by one.
Typed(s) ==
  /\ DOMAIN s = SnapshotFields
  /\ s = [x \in DOMAIN s |-> s[x]]
  /\ TableOf(s.profile, Statuses)
  /\ s.source \subseteq Members
  /\ TableOf(s.balance, 1..MaxBalance)
  /\ s.count \in 0..Cardinality(Members)
  /\ s.intentions \subseteq Members
  /\ s.dispute \in {"none", "OPEN", "RESOLVED"}
  /\ s.meta \in {"none", "paid", "noted"}
  /\ s.activities \subseteq Activities

LEMMA SnapshotsTyped ==
  ASSUME NEW s
  PROVE  s \in Synchronised!Snapshot <=> Typed(s)
<1> DEFINE P == UNION {[as -> Statuses] : as \in SUBSET Members}
           B == UNION {[as -> 1..MaxBalance] : as \in SUBSET Members}
<1>1. Synchronised!Snapshot =
        [profile : P, source : SUBSET Members, balance : B, count : 0..Cardinality(Members),
         intentions : SUBSET Members, dispute : {"none", "OPEN", "RESOLVED"},
         meta : {"none", "paid", "noted"}, activities : SUBSET Activities]
  BY SameCardinality DEF Synchronised!Snapshot, Statuses, Activities
<1>2. \A f : f \in P <=> TableOf(f, Statuses)
  BY TablesTyped
<1>3. \A f : f \in B <=> TableOf(f, 1..MaxBalance)
  BY TablesTyped
<1> HIDE DEF P, B
<1>4. s \in Synchronised!Snapshot <=>
        /\ DOMAIN s = SnapshotFields
        /\ s = [x \in DOMAIN s |-> s[x]]
        /\ s.profile \in P /\ s.source \in SUBSET Members /\ s.balance \in B
        /\ s.count \in 0..Cardinality(Members) /\ s.intentions \in SUBSET Members
        /\ s.dispute \in {"none", "OPEN", "RESOLVED"} /\ s.meta \in {"none", "paid", "noted"}
        /\ s.activities \in SUBSET Activities
  BY <1>1 DEF SnapshotFields
<1> QED BY <1>2, <1>3, <1>4 DEF Typed

\* What is read of rows.
LEMMA LoadedFields ==
  ASSUME NEW rows
  PROVE  LET s == Synchronised!Loaded(rows)
         IN /\ DOMAIN s = SnapshotFields
            /\ s = [x \in DOMAIN s |-> s[x]]
            /\ s.profile = [a \in DOMAIN rows.profile |-> rows.profile[a].status]
            /\ s.source = {a \in DOMAIN rows.profile : rows.profile[a].source # "none"}
            /\ s.balance = rows.balance /\ s.count = rows.count
            /\ s.intentions = rows.intentions
            /\ s.dispute = rows.dispute.status /\ s.meta = rows.dispute.meta
            /\ s.activities = rows.activities
BY DEF Synchronised!Loaded, SnapshotFields

\* Rows that can be read as a snapshot.
RowsTyped(rows) ==
  /\ DOMAIN rows = RowFields
  /\ DOMAIN rows.dispute = {"status", "meta"}
  /\ Typed(Synchronised!Loaded(rows))

\* When they can be read as one, column by column.
Readable(rows) ==
  /\ DOMAIN rows.profile \subseteq Members
  /\ \A a \in DOMAIN rows.profile : rows.profile[a].status \in Statuses
  /\ TableOf(rows.balance, 1..MaxBalance) /\ rows.count \in 0..Cardinality(Members)
  /\ rows.intentions \subseteq Members /\ rows.activities \subseteq Activities
  /\ rows.dispute.status \in {"none", "OPEN", "RESOLVED"}
  /\ rows.dispute.meta \in {"none", "paid", "noted"}

LEMMA ReadableTyped ==
  ASSUME NEW rows
  PROVE  Typed(Synchronised!Loaded(rows)) <=> Readable(rows)
<1> DEFINE s == Synchronised!Loaded(rows)
<1>1. /\ DOMAIN s = SnapshotFields
      /\ s = [x \in DOMAIN s |-> s[x]]
      /\ s.profile = [a \in DOMAIN rows.profile |-> rows.profile[a].status]
      /\ s.source = {a \in DOMAIN rows.profile : rows.profile[a].source # "none"}
      /\ s.balance = rows.balance /\ s.count = rows.count
      /\ s.intentions = rows.intentions
      /\ s.dispute = rows.dispute.status /\ s.meta = rows.dispute.meta
      /\ s.activities = rows.activities
  BY LoadedFields
<1> HIDE DEF s
<1>2. TableOf(s.profile, Statuses) <=>
        /\ DOMAIN rows.profile \subseteq Members
        /\ \A a \in DOMAIN rows.profile : rows.profile[a].status \in Statuses
  BY <1>1 DEF TableOf
<1>3. DOMAIN rows.profile \subseteq Members => s.source \subseteq Members
  BY <1>1
<1>4. Typed(s) <=> Readable(rows)
  BY <1>1, <1>2, <1>3 DEF Typed, Readable
<1> QED BY <1>4 DEF s

\* What the other columns say is what the rows say they derive from.
RowsSound(rows) ==
  /\ \A a \in DOMAIN rows.profile :
       rows.profile[a].latest = Synchronised!Newest(rows.activities, a)
  /\ rows.count = Cardinality(rows.intentions)
  /\ \A x \in rows.activities : x.actor \in DOMAIN rows.profile

\* What applying a difference does to each table.
Remaining(rows, before, after, scope) ==
  IF "activities" \in scope
  THEN Synchronised!Exchanged(rows.activities, before.activities, after.activities)
  ELSE rows.activities

Removed(before, after, scope) ==
  IF "profiles" \in scope THEN Synchronised!Gone(before.profile, after.profile) ELSE {}

LEMMA AppliedFields ==
  ASSUME NEW rows, DOMAIN rows = RowFields, NEW before, NEW after, NEW scope
  PROVE  LET new == Synchronised!Applied(rows, before, after, scope)
         IN /\ DOMAIN new = RowFields
            /\ new.profile = Synchronised!ProfileRows(rows.profile, before, after, scope)
            /\ new.balance = IF "balances" \in scope
                 THEN Synchronised!Upserted(rows.balance, before.balance, after.balance)
                 ELSE rows.balance
            /\ new.count = IF "tasks" \in scope /\ before.count # after.count
                 THEN after.count ELSE rows.count
            /\ new.intentions = IF "intentions" \in scope
                 THEN Synchronised!Exchanged(rows.intentions, before.intentions, after.intentions)
                 ELSE rows.intentions
            /\ new.dispute = IF "disputes" \in scope
                 THEN Synchronised!DisputeRow(rows.dispute, before, after) ELSE rows.dispute
            /\ new.activities = {x \in Remaining(rows, before, after, scope) :
                                   x.actor \notin Removed(before, after, scope)}
            /\ new.revision = rows.revision /\ new.commits = rows.commits
BY DEF Synchronised!Applied, RowFields, Remaining, Removed

-----------------------------------------------------------------------------
(* A difference between a snapshot of the rows and another one, written to *)
(* the rows, makes them the other one.                                     *)

\* A snapshot whose parts fit each other.
Coherent(s) ==
  /\ s.source \subseteq DOMAIN s.profile
  /\ \A x \in s.activities : x.actor \in DOMAIN s.profile

\* The snapshots differ at most in the tables of the scope.
DifferWithin(scope, before, after) ==
  /\ "profiles" \notin scope => after.profile = before.profile /\ after.source = before.source
  /\ "balances" \notin scope => after.balance = before.balance
  /\ "tasks" \notin scope => after.count = before.count
  /\ "intentions" \notin scope => after.intentions = before.intentions
  /\ "disputes" \notin scope => after.dispute = before.dispute /\ after.meta = before.meta
  /\ "activities" \notin scope => after.activities = before.activities

\* A table keyed by agents, when it was as the first snapshot says.
LEMMA UpsertedTable ==
  ASSUME NEW before, NEW after, after = [a \in DOMAIN after |-> after[a]]
  PROVE  Synchronised!Upserted(before, before, after) = after
BY DEF Synchronised!Upserted, Synchronised!Differing, Synchronised!Gone

LEMMA ExchangedSet ==
  ASSUME NEW before, NEW after
  PROVE  Synchronised!Exchanged(before, before, after) = after
BY DEF Synchronised!Exchanged

\* The rows of profiles, table by table.
LEMMA ProfilesWritten ==
  ASSUME NEW rows, NEW before, NEW after, NEW scope,
         Typed(before), Typed(after), Coherent(after), before = Synchronised!Loaded(rows),
         DifferWithin(scope, before, after)
  PROVE  LET new == Synchronised!ProfileRows(rows.profile, before, after, scope)
         IN /\ DOMAIN new = DOMAIN after.profile
            /\ \A a \in DOMAIN new :
                 /\ new[a].status = after.profile[a]
                 /\ new[a].source # "none" <=> a \in after.source
                 /\ \/ new[a].latest = Synchronised!Newest(after.activities, a)
                    \/ /\ a \in DOMAIN rows.profile /\ new[a].latest = rows.profile[a].latest
                       /\ a \notin Synchronised!Touched(before, after)
<1> DEFINE new == Synchronised!ProfileRows(rows.profile, before, after, scope)
           written == IF "profiles" \in scope
                      THEN Synchronised!Differing(before.profile, after.profile) ELSE {}
           banned == IF "profiles" \in scope
                     THEN (before.source \ after.source) \cup (after.source \ before.source) ELSE {}
           touched == IF "activities" \in scope THEN Synchronised!Touched(before, after) ELSE {}
<1>1. /\ DOMAIN new = (DOMAIN rows.profile \cup written) \ Removed(before, after, scope)
      /\ \A a \in DOMAIN new :
           /\ new[a].status = IF a \in written THEN after.profile[a] ELSE rows.profile[a].status
           /\ new[a].source = IF a \in written \cup banned THEN Synchronised!SourceOf(after, a)
                              ELSE rows.profile[a].source
           /\ new[a].latest = IF a \in written \cup touched
                              THEN Synchronised!Newest(after.activities, a)
                              ELSE rows.profile[a].latest
  BY DEF Synchronised!ProfileRows, Removed
<1> HIDE DEF new
<1>2. /\ DOMAIN before.profile = DOMAIN rows.profile
      /\ \A a \in DOMAIN rows.profile : before.profile[a] = rows.profile[a].status
      /\ \A a \in DOMAIN rows.profile : a \in before.source <=> rows.profile[a].source # "none"
      /\ before.source \subseteq DOMAIN rows.profile
  BY DEF Synchronised!Loaded
<1>3. /\ DOMAIN new = DOMAIN after.profile
      /\ \A a \in DOMAIN new : new[a].status = after.profile[a]
  BY <1>1, <1>2 DEF Removed, Synchronised!Differing, Synchronised!Gone, DifferWithin
<1>4. \A a \in DOMAIN new : new[a].source # "none" <=> a \in after.source
  <2> TAKE a \in DOMAIN new
  <2>1. CASE a \in written \cup banned
    BY <2>1, <1>1 DEF Synchronised!SourceOf
  <2>2. CASE a \notin written \cup banned
    <3>1. a \in DOMAIN rows.profile /\ new[a].source = rows.profile[a].source
      BY <2>2, <1>1
    <3>2. a \in before.source <=> a \in after.source
      BY <2>2 DEF DifferWithin
    <3> QED BY <3>1, <3>2, <1>2
  <2> QED BY <2>1, <2>2
<1>5. ASSUME NEW a \in DOMAIN new
      PROVE  \/ new[a].latest = Synchronised!Newest(after.activities, a)
             \/ /\ a \in DOMAIN rows.profile /\ new[a].latest = rows.profile[a].latest
                /\ a \notin Synchronised!Touched(before, after)
  <2>1. CASE a \in written \cup touched
    BY <2>1, <1>1
  <2>2. CASE a \notin written \cup touched
    <3>1. a \in DOMAIN rows.profile /\ new[a].latest = rows.profile[a].latest
      BY <2>2, <1>1
    <3>2. a \notin Synchronised!Touched(before, after)
      BY <2>2 DEF DifferWithin, Synchronised!Touched
    <3> QED BY <3>1, <3>2
  <2> QED BY <2>1, <2>2
<1> QED BY <1>3, <1>4, <1>5 DEF new

\* Only the activities of the agent matter.
LEMMA NewestOfSame ==
  ASSUME NEW A, NEW B, NEW a,
         {y \in A : y.actor = a} = {y \in B : y.actor = a}
  PROVE  Synchronised!Newest(A, a) = Synchronised!Newest(B, a)
BY DEF Synchronised!Newest

LEMMA UntouchedNewest ==
  ASSUME NEW before, NEW after, NEW a, a \notin Synchronised!Touched(before, after)
  PROVE  Synchronised!Newest(after.activities, a) = Synchronised!Newest(before.activities, a)
<1>1. {y \in after.activities : y.actor = a} = {y \in before.activities : y.actor = a}
  BY DEF Synchronised!Touched
<1> QED BY <1>1, NewestOfSame

\* Nothing is lost on the way through the tables, and the derived columns follow.
LEMMA DifferenceApplied ==
  ASSUME NEW rows, RowsTyped(rows), RowsSound(rows), NEW after, Typed(after), Coherent(after),
         after.count = Cardinality(after.intentions),
         NEW scope, DifferWithin(scope, Synchronised!Loaded(rows), after)
  PROVE  LET new == Synchronised!Applied(rows, Synchronised!Loaded(rows), after, scope)
         IN Synchronised!Loaded(new) = after /\ RowsTyped(new) /\ RowsSound(new)
<1> DEFINE before == Synchronised!Loaded(rows)
           new == Synchronised!Applied(rows, before, after, scope)
<1>1. /\ before.balance = rows.balance /\ before.count = rows.count
      /\ before.intentions = rows.intentions /\ before.activities = rows.activities
      /\ before.dispute = rows.dispute.status /\ before.meta = rows.dispute.meta
      /\ DOMAIN before.profile = DOMAIN rows.profile
      /\ DOMAIN rows = RowFields /\ DOMAIN rows.dispute = {"status", "meta"} /\ Typed(before)
  BY DEF Synchronised!Loaded, RowsTyped
<1>2. before = Synchronised!Loaded(rows) /\ DifferWithin(scope, before, after)
  OBVIOUS
<1> HIDE DEF before
<1>3. /\ DOMAIN new = RowFields
      /\ new.profile = Synchronised!ProfileRows(rows.profile, before, after, scope)
      /\ new.balance = IF "balances" \in scope
           THEN Synchronised!Upserted(rows.balance, before.balance, after.balance)
           ELSE rows.balance
      /\ new.count = IF "tasks" \in scope /\ before.count # after.count
           THEN after.count ELSE rows.count
      /\ new.intentions = IF "intentions" \in scope
           THEN Synchronised!Exchanged(rows.intentions, before.intentions, after.intentions)
           ELSE rows.intentions
      /\ new.dispute = IF "disputes" \in scope
           THEN Synchronised!DisputeRow(rows.dispute, before, after) ELSE rows.dispute
      /\ new.activities = {x \in Remaining(rows, before, after, scope) :
                             x.actor \notin Removed(before, after, scope)}
  BY <1>1, AppliedFields
<1> HIDE DEF new
<1>4. /\ DOMAIN new.profile = DOMAIN after.profile
      /\ \A a \in DOMAIN new.profile :
           /\ new.profile[a].status = after.profile[a]
           /\ new.profile[a].source # "none" <=> a \in after.source
           /\ \/ new.profile[a].latest = Synchronised!Newest(after.activities, a)
              \/ /\ a \in DOMAIN rows.profile
                 /\ new.profile[a].latest = rows.profile[a].latest
                 /\ a \notin Synchronised!Touched(before, after)
  BY <1>1, <1>2, <1>3, ProfilesWritten
<1>5. new.balance = after.balance
  <2>1. Synchronised!Upserted(before.balance, before.balance, after.balance) = after.balance
    BY UpsertedTable DEF Typed, TableOf
  <2> QED BY <2>1, <1>1, <1>2, <1>3 DEF DifferWithin
<1>6. new.count = after.count
  BY <1>1, <1>2, <1>3 DEF DifferWithin
<1>7. new.intentions = after.intentions
  BY <1>1, <1>2, <1>3, ExchangedSet DEF DifferWithin
<1>8. DOMAIN new.dispute = {"status", "meta"} /\ new.dispute.status = after.dispute
      /\ new.dispute.meta = after.meta
  <2>1. CASE "disputes" \in scope
    BY <2>1, <1>1, <1>3, <1>2 DEF Synchronised!DisputeRow
  <2>2. CASE "disputes" \notin scope
    BY <2>2, <1>1, <1>2, <1>3 DEF DifferWithin
  <2> QED BY <2>1, <2>2
<1>9. new.activities = after.activities
  <2>1. Remaining(rows, before, after, scope) = after.activities
    BY <1>1, <1>2, ExchangedSet DEF Remaining, DifferWithin
  <2>2. \A x \in after.activities : x.actor \notin Removed(before, after, scope)
    BY DEF Coherent, Removed, Synchronised!Gone
  <2> QED BY <2>1, <2>2, <1>3
<1>10. Synchronised!Loaded(new) = after
  <2> DEFINE s == Synchronised!Loaded(new)
  <2>1. /\ DOMAIN s = SnapshotFields
        /\ s = [x \in DOMAIN s |-> s[x]]
        /\ s.profile = [a \in DOMAIN new.profile |-> new.profile[a].status]
        /\ s.source = {a \in DOMAIN new.profile : new.profile[a].source # "none"}
        /\ s.balance = new.balance /\ s.count = new.count
        /\ s.intentions = new.intentions
        /\ s.dispute = new.dispute.status /\ s.meta = new.dispute.meta
        /\ s.activities = new.activities
    BY LoadedFields
  <2> HIDE DEF s
  <2>2. s.profile = after.profile
    BY <2>1, <1>4 DEF Typed, TableOf
  <2>3. s.source = after.source
    BY <2>1, <1>4 DEF Coherent
  <2>4. /\ s.balance = after.balance /\ s.count = after.count /\ s.intentions = after.intentions
        /\ s.dispute = after.dispute /\ s.meta = after.meta /\ s.activities = after.activities
    BY <2>1, <1>5, <1>6, <1>7, <1>8, <1>9
  <2>5. DOMAIN after = SnapshotFields /\ after = [x \in DOMAIN after |-> after[x]]
    BY DEF Typed
  <2>6. \A x \in SnapshotFields : s[x] = after[x]
    BY <2>2, <2>3, <2>4 DEF SnapshotFields
  <2>7. s = after
    BY <2>1, <2>5, <2>6
  <2> QED BY <2>7 DEF s
<1>11. RowsTyped(new)
  BY <1>3, <1>8, <1>10 DEF RowsTyped
<1>12. RowsSound(new)
  <2>1. ASSUME NEW a \in DOMAIN new.profile
        PROVE  new.profile[a].latest = Synchronised!Newest(new.activities, a)
    <3>1. CASE new.profile[a].latest = Synchronised!Newest(after.activities, a)
      BY <3>1, <1>9
    <3>2. CASE /\ a \in DOMAIN rows.profile
               /\ new.profile[a].latest = rows.profile[a].latest
               /\ a \notin Synchronised!Touched(before, after)
      <4>1. rows.profile[a].latest = Synchronised!Newest(rows.activities, a)
        BY <3>2 DEF RowsSound
      <4>2. Synchronised!Newest(after.activities, a) = Synchronised!Newest(before.activities, a)
        BY <3>2, UntouchedNewest
      <4> QED BY <4>1, <4>2, <3>2, <1>1, <1>9
    <3> QED BY <3>1, <3>2, <1>4
  <2>2. new.count = Cardinality(new.intentions)
    BY <1>6, <1>7
  <2>3. \A x \in new.activities : x.actor \in DOMAIN new.profile
    BY <1>4, <1>9 DEF Coherent
  <2> QED BY <2>1, <2>2, <2>3 DEF RowsSound
<1> QED BY <1>10, <1>11, <1>12 DEF new, before

LEMMA EverythingWithin ==
  ASSUME NEW before, NEW after
  PROVE  DifferWithin(Synchronised!AllTables, before, after)
BY DEF DifferWithin, Synchronised!AllTables

\* A difference of other snapshots than that of the rows leaves rows that can be read.
LEMMA AppliedTyped ==
  ASSUME NEW rows, RowsTyped(rows), NEW before, NEW after, Typed(before), Typed(after), NEW scope
  PROVE  RowsTyped(Synchronised!Applied(rows, before, after, scope))
<1> DEFINE new == Synchronised!Applied(rows, before, after, scope)
<1>1. DOMAIN rows = RowFields /\ DOMAIN rows.dispute = {"status", "meta"}
      /\ Typed(Synchronised!Loaded(rows))
  BY DEF RowsTyped
<1>2. Readable(rows)
  BY <1>1, ReadableTyped
<1>3. /\ DOMAIN new = RowFields
      /\ new.profile = Synchronised!ProfileRows(rows.profile, before, after, scope)
      /\ new.balance = IF "balances" \in scope
           THEN Synchronised!Upserted(rows.balance, before.balance, after.balance)
           ELSE rows.balance
      /\ new.count = IF "tasks" \in scope /\ before.count # after.count
           THEN after.count ELSE rows.count
      /\ new.intentions = IF "intentions" \in scope
           THEN Synchronised!Exchanged(rows.intentions, before.intentions, after.intentions)
           ELSE rows.intentions
      /\ new.dispute = IF "disputes" \in scope
           THEN Synchronised!DisputeRow(rows.dispute, before, after) ELSE rows.dispute
      /\ new.activities = {x \in Remaining(rows, before, after, scope) :
                             x.actor \notin Removed(before, after, scope)}
  BY <1>1, AppliedFields
<1> HIDE DEF new
<1>4. /\ DOMAIN new.profile \subseteq Members
      /\ \A a \in DOMAIN new.profile : new.profile[a].status \in Statuses
  BY <1>2, <1>3 DEF Readable, Synchronised!ProfileRows, Synchronised!Differing, Typed, TableOf
<1>5. TableOf(new.balance, 1..MaxBalance)
  <2> DEFINE b == Synchronised!Upserted(rows.balance, before.balance, after.balance)
  <2>1. /\ b = [a \in DOMAIN b |-> b[a]]
        /\ DOMAIN b \subseteq DOMAIN rows.balance \cup DOMAIN after.balance
        /\ \A a \in DOMAIN b :
             \/ (a \in DOMAIN after.balance /\ b[a] = after.balance[a])
             \/ (a \in DOMAIN rows.balance /\ b[a] = rows.balance[a])
    BY DEF Synchronised!Upserted, Synchronised!Differing
  <2> HIDE DEF b
  <2>2. TableOf(rows.balance, 1..MaxBalance) /\ TableOf(after.balance, 1..MaxBalance)
    BY <1>2 DEF Readable, Typed
  <2>3. TableOf(b, 1..MaxBalance)
    BY <2>1, <2>2 DEF TableOf
  <2>4. new.balance = b \/ new.balance = rows.balance
    BY <1>3 DEF b
  <2> QED BY <2>2, <2>3, <2>4
<1>6. /\ new.count \in 0..Cardinality(Members)
      /\ new.intentions \subseteq Members /\ new.activities \subseteq Activities
  BY <1>2, <1>3 DEF Readable, Synchronised!Exchanged, Remaining, Typed
<1>7. /\ DOMAIN new.dispute = {"status", "meta"}
      /\ new.dispute.status \in {"none", "OPEN", "RESOLVED"}
      /\ new.dispute.meta \in {"none", "paid", "noted"}
  BY <1>1, <1>2, <1>3 DEF Readable, Synchronised!DisputeRow, Typed
<1>8. Typed(Synchronised!Loaded(new))
  BY <1>4, <1>5, <1>6, <1>7, ReadableTyped DEF Readable
<1> QED BY <1>3, <1>7, <1>8 DEF RowsTyped, new

-----------------------------------------------------------------------------
(* Operations.                                                             *)

LEMMA RestoredFields ==
  ASSUME NEW s, Typed(s)
  PROVE  LET r == Synchronised!Restored(s)
         IN /\ Typed(r) /\ r.count = Cardinality(r.intentions)
            /\ r.profile = s.profile /\ r.source = s.source /\ r.balance = s.balance
            /\ r.intentions = s.intentions /\ r.dispute = s.dispute /\ r.meta = s.meta
            /\ r.activities = s.activities
            /\ s.count = Cardinality(s.intentions) => r = s
<1>1. Cardinality(s.intentions) \in 0..Cardinality(Members)
  <2>1. s.intentions \subseteq Members
    BY DEF Typed
  <2> QED BY <2>1, MembersAssumption, FS_Subset, FS_CardinalityType
<1> QED BY <1>1, SameCardinality DEF Synchronised!Restored, Typed, SnapshotFields

\* An operation the snapshot allows makes another snapshot of it, whose parts fit if
\* those of the first do, and changes only the tables of its scope.
LEMMA OperationDone ==
  ASSUME NEW s, Typed(s), s.count = Cardinality(s.intentions),
         NEW o \in Synchronised!Operations, Synchronised!Allowed(o, s),
         NEW t \in 1..MaxCommits + 1
  PROVE  LET d == Synchronised!Done(o, s, t)
         IN /\ Typed(d) /\ d.count = Cardinality(d.intentions)
            /\ Coherent(s) => Coherent(d)
            /\ DifferWithin(Synchronised!ScopeOf(o), s, d)
<1> DEFINE d == Synchronised!Done(o, s, t)
<1>0. /\ DOMAIN s = SnapshotFields /\ s = [x \in DOMAIN s |-> s[x]]
      /\ o.agent \in Members
  BY MembersAssumption DEF Typed, Synchronised!Operations
<1>1. CASE o.kind = "register"
  <2>1. d = [s EXCEPT !.profile = Synchronised!With(s.profile, o.agent, "ACTIVE"),
                      !.balance = Synchronised!With(s.balance, o.agent, 1)]
    BY <1>1 DEF Synchronised!Done
  <2> HIDE DEF d
  <2>2. TableOf(d.profile, Statuses) /\ DOMAIN d.profile = DOMAIN s.profile \cup {o.agent}
    BY <2>1, <1>0 DEF Typed, TableOf, Synchronised!With, Statuses, SnapshotFields
  <2>3. TableOf(d.balance, 1..MaxBalance)
    BY <2>1, <1>0, MembersAssumption DEF Typed, TableOf, Synchronised!With, SnapshotFields
  <2>4. /\ d = [x \in DOMAIN d |-> d[x]] /\ DOMAIN d = SnapshotFields
        /\ d.source = s.source /\ d.count = s.count /\ d.intentions = s.intentions
        /\ d.dispute = s.dispute /\ d.meta = s.meta /\ d.activities = s.activities
    BY <2>1, <1>0 DEF SnapshotFields
  <2>5. Typed(d) /\ d.count = Cardinality(d.intentions)
    BY <2>2, <2>3, <2>4 DEF Typed
  <2>6. Coherent(s) => Coherent(d)
    BY <2>2, <2>4 DEF Coherent
  <2>7. DifferWithin(Synchronised!ScopeOf(o), s, d)
    BY <1>1, <2>4 DEF DifferWithin, Synchronised!ScopeOf
  <2> QED BY <2>5, <2>6, <2>7 DEF d
<1>2. CASE o.kind = "pay"
  <2>0. s.balance[o.agent] < MaxBalance
    BY <1>2 DEF Synchronised!Allowed
  <2>1. d = [s EXCEPT !.balance = [@ EXCEPT ![o.agent] = s.balance[o.agent] + 1]]
    BY <1>2 DEF Synchronised!Done
  <2> HIDE DEF d
  <2>3. TableOf(d.balance, 1..MaxBalance)
    BY <2>0, <2>1, <1>0, MembersAssumption DEF Typed, TableOf, SnapshotFields
  <2>4. /\ d = [x \in DOMAIN d |-> d[x]] /\ DOMAIN d = SnapshotFields /\ d.profile = s.profile
        /\ d.source = s.source /\ d.count = s.count /\ d.intentions = s.intentions
        /\ d.dispute = s.dispute /\ d.meta = s.meta /\ d.activities = s.activities
    BY <2>1, <1>0 DEF SnapshotFields
  <2>5. Typed(d) /\ d.count = Cardinality(d.intentions)
    BY <2>3, <2>4 DEF Typed
  <2>6. Coherent(s) => Coherent(d)
    BY <2>4 DEF Coherent
  <2>7. DifferWithin(Synchronised!ScopeOf(o), s, d)
    BY <1>2, <2>4 DEF DifferWithin, Synchronised!ScopeOf
  <2> QED BY <2>5, <2>6, <2>7 DEF d
<1>3. CASE o.kind = "intend"
  <2>0. o.agent \notin s.intentions
    BY <1>3 DEF Synchronised!Allowed
  <2>1. d = [s EXCEPT !.intentions = s.intentions \cup {o.agent}, !.count = s.count + 1]
    BY <1>3 DEF Synchronised!Done
  <2> HIDE DEF d
  <2>2. /\ d.intentions = s.intentions \cup {o.agent} /\ d.count = s.count + 1
        /\ d = [x \in DOMAIN d |-> d[x]] /\ DOMAIN d = SnapshotFields /\ d.profile = s.profile
        /\ d.source = s.source /\ d.balance = s.balance
        /\ d.dispute = s.dispute /\ d.meta = s.meta /\ d.activities = s.activities
    BY <2>1, <1>0 DEF SnapshotFields
  <2>3. d.intentions \subseteq Members /\ s.intentions \subseteq Members
    BY <2>2, <1>0 DEF Typed
  <2>4. IsFiniteSet(d.intentions) /\ IsFiniteSet(s.intentions)
    BY <2>3, MembersAssumption, FS_Subset
  <2>5. d.count = Cardinality(d.intentions)
    BY <2>0, <2>2, <2>4, FS_AddElement
  <2>6. d.count \in 0..Cardinality(Members)
    BY <2>3, <2>4, <2>5, MembersAssumption, FS_Subset, FS_CardinalityType
  <2>7. Typed(d)
    BY <2>2, <2>3, <2>6 DEF Typed
  <2>8. Coherent(s) => Coherent(d)
    BY <2>2 DEF Coherent
  <2>9. DifferWithin(Synchronised!ScopeOf(o), s, d)
    BY <1>3, <2>2 DEF DifferWithin, Synchronised!ScopeOf
  <2> QED BY <2>5, <2>7, <2>8, <2>9 DEF d
<1>4. CASE o.kind = "resolve"
  <2>0. o.agent \in DOMAIN s.profile
    BY <1>4 DEF Synchronised!Allowed
  <2> DEFINE recorded == {[actor |-> a, time |-> t] : a \in DOMAIN s.profile}
  <2>1. d = [s EXCEPT !.profile = [@ EXCEPT ![o.agent] = "BANNED"],
                      !.source = s.source \cup {o.agent},
                      !.dispute = "RESOLVED", !.meta = "paid",
                      !.activities = s.activities \cup recorded]
    BY <1>4 DEF Synchronised!Done
  <2> HIDE DEF d
  <2>2. /\ d.profile = [s.profile EXCEPT ![o.agent] = "BANNED"]
        /\ d.source = s.source \cup {o.agent} /\ d.activities = s.activities \cup recorded
        /\ d = [x \in DOMAIN d |-> d[x]] /\ DOMAIN d = SnapshotFields
        /\ d.balance = s.balance /\ d.count = s.count /\ d.intentions = s.intentions
        /\ d.dispute = "RESOLVED" /\ d.meta = "paid"
    BY <2>1, <1>0 DEF SnapshotFields
  <2>3. TableOf(d.profile, Statuses) /\ DOMAIN d.profile = DOMAIN s.profile
    BY <2>2 DEF Typed, TableOf, Statuses
  <2>4. recorded \subseteq Activities /\ \A x \in recorded : x.actor \in DOMAIN s.profile
    BY DEF Activities, Typed, TableOf
  <2> HIDE DEF recorded
  <2>5. Typed(d) /\ d.count = Cardinality(d.intentions)
    BY <2>2, <2>3, <2>4, <1>0 DEF Typed
  <2>6. Coherent(s) => Coherent(d)
    BY <2>0, <2>2, <2>3, <2>4 DEF Coherent
  <2>7. DifferWithin(Synchronised!ScopeOf(o), s, d)
    BY <1>4, <2>2 DEF DifferWithin, Synchronised!ScopeOf
  <2> QED BY <2>5, <2>6, <2>7 DEF d
<1>5. CASE o.kind = "reopen"
  <2>1. d = [s EXCEPT !.profile = [a \in DOMAIN s.profile |->
                                     IF a \in s.source THEN "ACTIVE" ELSE s.profile[a]],
                      !.source = {}, !.dispute = "OPEN", !.meta = "none", !.activities = {}]
    BY <1>5 DEF Synchronised!Done
  <2> HIDE DEF d
  <2>2. /\ d.profile = [a \in DOMAIN s.profile |->
                          IF a \in s.source THEN "ACTIVE" ELSE s.profile[a]]
        /\ d.source = {} /\ d.activities = {}
        /\ d = [x \in DOMAIN d |-> d[x]] /\ DOMAIN d = SnapshotFields
        /\ d.balance = s.balance /\ d.count = s.count /\ d.intentions = s.intentions
        /\ d.dispute = "OPEN" /\ d.meta = "none"
    BY <2>1, <1>0 DEF SnapshotFields
  <2>3. TableOf(d.profile, Statuses) /\ DOMAIN d.profile = DOMAIN s.profile
    BY <2>2 DEF Typed, TableOf, Statuses
  <2>5. Typed(d) /\ d.count = Cardinality(d.intentions)
    BY <2>2, <2>3 DEF Typed
  <2>6. Coherent(d)
    BY <2>2 DEF Coherent
  <2>7. DifferWithin(Synchronised!ScopeOf(o), s, d)
    BY <1>5, <2>2 DEF DifferWithin, Synchronised!ScopeOf
  <2> QED BY <2>5, <2>6, <2>7 DEF d
<1>6. CASE o.kind = "note"
  <2>1. d = [s EXCEPT !.meta = "noted"]
    BY <1>6 DEF Synchronised!Done
  <2> HIDE DEF d
  <2>2. /\ d = [x \in DOMAIN d |-> d[x]] /\ DOMAIN d = SnapshotFields /\ d.profile = s.profile
        /\ d.source = s.source /\ d.balance = s.balance /\ d.count = s.count
        /\ d.intentions = s.intentions /\ d.dispute = s.dispute /\ d.activities = s.activities
        /\ d.meta = "noted"
    BY <2>1, <1>0 DEF SnapshotFields
  <2>5. Typed(d) /\ d.count = Cardinality(d.intentions)
    BY <2>2 DEF Typed
  <2>6. Coherent(s) => Coherent(d)
    BY <2>2 DEF Coherent
  <2>7. DifferWithin(Synchronised!ScopeOf(o), s, d)
    BY <1>6, <2>2 DEF DifferWithin, Synchronised!ScopeOf
  <2> QED BY <2>5, <2>6, <2>7 DEF d
<1>7. o.kind \in {"register", "pay", "intend", "resolve", "reopen", "note"}
  BY DEF Synchronised!Operations
<1> QED BY <1>1, <1>2, <1>3, <1>4, <1>5, <1>6, <1>7

-----------------------------------------------------------------------------
(* What the database, the process and its calls know of each other.  The   *)
(* rows are given with the instant and whether an update has been          *)
(* overwritten.                                                            *)

RowsFit(rows, time, over) ==
  /\ RowsTyped(rows) /\ rows.commits \in 0..MaxCommits
  /\ time \in 1..rows.commits + 1 /\ rows.revision \in 1..time
  /\ over \in BOOLEAN
  /\ ~over => RowsSound(rows)

\* A snapshot of the n-th commit, as long as that is the last.
Current(n, s, rows, over) == ~over /\ n = rows.commits => s = Synchronised!Loaded(rows)

ProcessFits(p, rows, time, over) ==
  /\ DOMAIN p = {"state", "revision", "dirty", "of", "revisionOf"}
  /\ Typed(p.state) /\ p.dirty \in BOOLEAN
  /\ p.of \in 0..rows.commits /\ Current(p.of, p.state, rows, over)
  /\ p.revision \in 0..time /\ p.revisionOf \in Nat /\ p.revision <= p.revisionOf + 1

\* What a call found and made of it.
FoundAndDone(x, rows, time, over) ==
  /\ Typed(x.before) /\ x.of \in 0..rows.commits /\ Current(x.of, x.before, rows, over)
  /\ \E o \in Synchronised!Operations, t \in 1..time :
       /\ x.ops = {o} /\ Synchronised!Allowed(o, x.before)
       /\ x.after = Synchronised!Done(o, Synchronised!Restored(x.before), t)

CallFields == {"at", "ops", "attempt"}
CallFits(x, rows, time, over) ==
  CASE x.at = "idle" -> x = Synchronised!Idle
    [] x.at \in {"load", "stamp", "work"} ->
         DOMAIN x = CallFields /\ x.ops \subseteq Synchronised!Operations
    [] x.at = "rest" ->
         /\ DOMAIN x = CallFields \cup {"part", "of"} /\ x.ops \subseteq Synchronised!Operations
         /\ Typed(x.part) /\ x.of \in 0..rows.commits /\ Current(x.of, x.part, rows, over)
    [] x.at = "submit" ->
         /\ DOMAIN x = CallFields \cup {"before", "after", "of"}
         /\ FoundAndDone(x, rows, time, over)
    [] x.at = "sync" ->
         /\ DOMAIN x = CallFields \cup {"before", "after", "of", "expected", "expectedOf"}
         /\ FoundAndDone(x, rows, time, over)
         /\ x.expected \in Nat /\ x.expectedOf \in Nat /\ x.expected <= x.expectedOf + 1
    [] x.at = "finish" ->
         /\ Typed(x.after) /\ x.of \in 0..rows.commits /\ Current(x.of, x.after, rows, over)
         /\ x.revision \in 0..time /\ x.revision <= x.of + 1
    [] OTHER -> FALSE

SnapshotInv ==
  /\ RowsFit(stored, instant, overwritten)
  /\ ProcessFits(process, stored, instant, overwritten)
  /\ call = [c \in Calls |-> call[c]]
  /\ \A c \in Calls : CallFits(call[c], stored, instant, overwritten)
  /\ direct \in BOOLEAN

-----------------------------------------------------------------------------
(* Time goes on.                                                           *)

Later(rows, time, rows2, time2) ==
  /\ rows.commits \in Nat /\ rows2.commits \in Nat /\ rows.commits < rows2.commits
  /\ time \in Nat /\ time2 \in Nat /\ time <= time2

LEMMA CurrentLater ==
  ASSUME NEW n, NEW s, NEW rows, NEW over, NEW rows2, NEW over2,
         n \in 0..rows.commits, rows.commits \in Nat, rows2.commits \in Nat,
         rows.commits < rows2.commits
  PROVE  Current(n, s, rows2, over2) /\ n \in 0..rows2.commits
BY DEF Current

LEMMA ProcessLater ==
  ASSUME NEW p, NEW rows, NEW time, NEW over, NEW rows2, NEW time2, NEW over2,
         ProcessFits(p, rows, time, over), Later(rows, time, rows2, time2)
  PROVE  ProcessFits(p, rows2, time2, over2)
<1>1. Current(p.of, p.state, rows2, over2) /\ p.of \in 0..rows2.commits
  BY CurrentLater DEF ProcessFits, Later
<1>2. p.revision \in 0..time2
  BY DEF ProcessFits, Later
<1> QED BY <1>1, <1>2 DEF ProcessFits

LEMMA FoundLater ==
  ASSUME NEW x, NEW rows, NEW time, NEW over, NEW rows2, NEW time2, NEW over2,
         FoundAndDone(x, rows, time, over), Later(rows, time, rows2, time2)
  PROVE  FoundAndDone(x, rows2, time2, over2)
<1>1. Current(x.of, x.before, rows2, over2) /\ x.of \in 0..rows2.commits
  BY CurrentLater DEF FoundAndDone, Later
<1>2. \A t \in 1..time : t \in 1..time2
  BY DEF Later
<1> QED BY <1>1, <1>2 DEF FoundAndDone

LEMMA CallLater ==
  ASSUME NEW x, NEW rows, NEW time, NEW over, NEW rows2, NEW time2, NEW over2,
         CallFits(x, rows, time, over), Later(rows, time, rows2, time2)
  PROVE  CallFits(x, rows2, time2, over2)
<1>1. CASE x.at \in {"idle", "load", "stamp", "work"}
  BY <1>1 DEF CallFits
<1>2. CASE x.at = "rest"
  <2>1. Current(x.of, x.part, rows2, over2) /\ x.of \in 0..rows2.commits
    BY <1>2, CurrentLater DEF CallFits, Later
  <2> QED BY <1>2, <2>1 DEF CallFits
<1>3. CASE x.at \in {"submit", "sync"}
  <2>1. FoundAndDone(x, rows, time, over)
    BY <1>3 DEF CallFits
  <2>2. FoundAndDone(x, rows2, time2, over2)
    BY <2>1, FoundLater
  <2> QED BY <1>3, <2>2 DEF CallFits
<1>4. CASE x.at = "finish"
  <2>1. Current(x.of, x.after, rows2, over2) /\ x.of \in 0..rows2.commits
    BY <1>4, CurrentLater DEF CallFits, Later
  <2>2. x.revision \in 0..time2
    BY <1>4 DEF CallFits, Later
  <2> QED BY <1>4, <2>1, <2>2 DEF CallFits
<1>5. x.at \in {"idle", "load", "stamp", "work", "rest", "submit", "sync", "finish"}
  BY DEF CallFits
<1> QED BY <1>1, <1>2, <1>3, <1>4, <1>5

\* A transaction commits these rows.
LEMMA RowsCommitted ==
  ASSUME NEW rows, RowsTyped(rows), rows.commits = stored.commits,
         RowsFit(stored, instant, overwritten), Synchronised!Commits(rows)
  PROVE  /\ RowsTyped(stored')
         /\ RowsSound(rows) => RowsSound(stored')
         /\ Synchronised!Loaded(stored') = Synchronised!Loaded(rows)
         /\ stored'.commits = stored.commits + 1 /\ stored'.commits \in 0..MaxCommits
         /\ instant' \in 1..stored'.commits + 1 /\ stored'.revision = instant'
         /\ instant' \in 1..MaxCommits + 1
         /\ Later(stored, instant, stored', instant')
<1>1. /\ stored.commits \in 0..MaxCommits /\ stored.commits < MaxCommits
      /\ instant \in 1..stored.commits + 1 /\ instant' \in {instant, instant + 1}
      /\ stored' = [rows EXCEPT !.revision = instant', !.commits = stored.commits + 1]
      /\ DOMAIN rows = RowFields
  BY DEF RowsFit, RowsTyped, Synchronised!Commits
<1>2. /\ DOMAIN stored' = RowFields
      /\ stored'.profile = rows.profile /\ stored'.balance = rows.balance
      /\ stored'.count = rows.count /\ stored'.intentions = rows.intentions
      /\ stored'.dispute = rows.dispute /\ stored'.activities = rows.activities
      /\ stored'.revision = instant' /\ stored'.commits = stored.commits + 1
  BY <1>1 DEF RowFields
<1>3. Synchronised!Loaded(stored') = Synchronised!Loaded(rows)
  BY <1>2 DEF Synchronised!Loaded
<1>4. RowsTyped(stored')
  BY <1>2, <1>3 DEF RowsTyped
<1>5. RowsSound(rows) => RowsSound(stored')
  BY <1>2 DEF RowsSound
<1>6. /\ stored'.commits \in 0..MaxCommits /\ instant' \in 1..stored'.commits + 1
      /\ instant' \in 1..MaxCommits + 1
      /\ Later(stored, instant, stored', instant')
  BY <1>1, <1>2, MembersAssumption DEF Later
<1> QED BY <1>2, <1>3, <1>4, <1>5, <1>6

\* What is known after a step.
SnapshotStep ==
  SnapshotInv' /\ Synchronised!SerialCommit /\ Synchronised!OvertakenOnlyUnseen

\* An operation on what the rows say, in either scope.
LEMMA OperationApplied ==
  ASSUME RowsFit(stored, instant, overwritten), ~overwritten,
         NEW o \in Synchronised!Operations,
         Synchronised!Allowed(o, Synchronised!Loaded(stored)),
         NEW t \in 1..MaxCommits + 1,
         NEW scope \in {Synchronised!AllTables, Synchronised!ScopeOf(o)}
  PROVE  LET before == Synchronised!Loaded(stored)
             after == Synchronised!Done(o, before, t)
             rows == Synchronised!Applied(stored, before, after, scope)
         IN /\ Typed(after) /\ Synchronised!Loaded(rows) = after
            /\ RowsTyped(rows) /\ RowsSound(rows) /\ rows.commits = stored.commits
<1> DEFINE before == Synchronised!Loaded(stored)
           after == Synchronised!Done(o, before, t)
           rows == Synchronised!Applied(stored, before, after, scope)
<1>1. RowsTyped(stored) /\ RowsSound(stored)
  BY DEF RowsFit
<1>2. Typed(before)
  BY <1>1 DEF RowsTyped
<1>3. before.count = Cardinality(before.intentions) /\ Coherent(before)
  BY <1>1 DEF RowsSound, Coherent, Synchronised!Loaded
<1>4. /\ Typed(after) /\ after.count = Cardinality(after.intentions) /\ Coherent(after)
      /\ DifferWithin(Synchronised!ScopeOf(o), before, after)
  <2> HIDE DEF before
  <2>1. Synchronised!Allowed(o, before)
    BY DEF before
  <2> QED BY <1>2, <1>3, <2>1, OperationDone
<1>5. DifferWithin(scope, before, after)
  BY <1>4, EverythingWithin
<1>6. Synchronised!Loaded(rows) = after /\ RowsTyped(rows) /\ RowsSound(rows)
  <2> HIDE DEF after
  <2> QED BY <1>1, <1>4, <1>5, DifferenceApplied
<1>7. rows.commits = stored.commits
  <2>1. DOMAIN stored = RowFields
    BY <1>1 DEF RowsTyped
  <2> HIDE DEF before, after
  <2> QED BY <2>1, AppliedFields
<1> QED BY <1>4, <1>6, <1>7

\* A commit that is not of a call.
LEMMA OthersCommit ==
  ASSUME SnapshotInv, NEW rows, RowsTyped(rows), RowsSound(rows),
         rows.commits = stored.commits, Synchronised!Commits(rows),
         ProcessFits(process', stored, instant, overwritten),
         UNCHANGED <<call, overwritten>>, direct' \in BOOLEAN
  PROVE  SnapshotInv'
<1>0. RowsFit(stored, instant, overwritten)
  BY DEF SnapshotInv
<1>1. /\ RowsTyped(stored')
      /\ RowsSound(rows) => RowsSound(stored')
      /\ Synchronised!Loaded(stored') = Synchronised!Loaded(rows)
      /\ stored'.commits = stored.commits + 1 /\ stored'.commits \in 0..MaxCommits
      /\ instant' \in 1..stored'.commits + 1 /\ stored'.revision = instant'
      /\ instant' \in 1..MaxCommits + 1
      /\ Later(stored, instant, stored', instant')
  BY <1>0, RowsCommitted
<1>2. RowsFit(stored', instant', overwritten')
  BY <1>1 DEF SnapshotInv, RowsFit
<1>3. ProcessFits(process', stored', instant', overwritten')
  BY <1>1, ProcessLater
<1>4. \A c \in Calls : CallFits(call'[c], stored', instant', overwritten')
  <2> TAKE c \in Calls
  <2>1. CallFits(call[c], stored, instant, overwritten)
    BY DEF SnapshotInv
  <2>2. CallFits(call[c], stored', instant', overwritten')
    BY <1>1, <2>1, CallLater
  <2> QED BY <2>2
<1>5. call' = [c \in Calls |-> call'[c]]
  BY DEF SnapshotInv
<1> QED BY <1>2, <1>3, <1>4, <1>5 DEF SnapshotInv

\* A step that commits nothing.
LEMMA NothingCommitted ==
  ASSUME SnapshotInv, UNCHANGED <<stored, instant, overwritten>>,
         ProcessFits(process', stored, instant, overwritten),
         call' = [c \in Calls |-> call'[c]],
         \A c \in Calls : call'[c] = call[c] \/ CallFits(call'[c], stored, instant, overwritten),
         direct' \in BOOLEAN
  PROVE  SnapshotStep
<1>1. SnapshotInv'
  BY DEF SnapshotInv
<1>2. Synchronised!SerialCommit /\ Synchronised!OvertakenOnlyUnseen
  BY DEF Synchronised!SerialCommit, Synchronised!OvertakenOnlyUnseen
<1> QED BY <1>1, <1>2 DEF SnapshotStep

\* Serial as soon as it is one operation on the rows as they were.
LEMMA SerialOperation ==
  ASSUME NEW o \in Synchronised!Operations,
         Synchronised!Allowed(o, Synchronised!Loaded(stored)),
         NEW t \in 1..instant',
         Synchronised!Loaded(stored') = Synchronised!Done(o, Synchronised!Loaded(stored), t)
  PROVE  Synchronised!SerialCommit
BY DEF Synchronised!SerialCommit

LEMMA DirectWrites == SnapshotInv /\ ~overwritten /\ Synchronised!Direct => SnapshotStep
<1> SUFFICES ASSUME SnapshotInv, ~overwritten, Synchronised!Direct
             PROVE  SnapshotStep
  OBVIOUS
<1>1. PICK o \in Synchronised!Operations :
        /\ Synchronised!Allowed(o, Synchronised!Loaded(stored))
        /\ Synchronised!Commits(Synchronised!Applied(stored, Synchronised!Loaded(stored),
              Synchronised!Done(o, Synchronised!Loaded(stored), instant'), Synchronised!AllTables))
  BY DEF Synchronised!Direct
<1> DEFINE after == Synchronised!Done(o, Synchronised!Loaded(stored), instant')
           rows == Synchronised!Applied(stored, Synchronised!Loaded(stored), after,
                                        Synchronised!AllTables)
<1>2. instant' \in 1..MaxCommits + 1
  BY <1>1, MembersAssumption DEF SnapshotInv, RowsFit, Synchronised!Commits
<1>3. /\ Synchronised!Loaded(rows) = after
      /\ RowsTyped(rows) /\ RowsSound(rows) /\ rows.commits = stored.commits
  BY <1>1, <1>2, OperationApplied DEF SnapshotInv
<1>4. UNCHANGED <<process, call, overwritten>> /\ direct' = TRUE
  BY DEF Synchronised!Direct
<1>5. SnapshotInv'
  <2>1. ProcessFits(process', stored, instant, overwritten)
    BY <1>4 DEF SnapshotInv
  <2> HIDE DEF rows
  <2>2. Synchronised!Commits(rows)
    BY <1>1 DEF rows
  <2> QED BY <1>3, <1>4, <2>1, <2>2, OthersCommit
<1>6. Synchronised!SerialCommit
  <2>1. Synchronised!Loaded(stored') = after /\ instant' \in 1..instant'
    <3> HIDE DEF rows, after
    <3>2. Synchronised!Commits(rows)
      BY <1>1 DEF rows, after
    <3> QED BY <1>2, <1>3, <3>2, RowsCommitted DEF SnapshotInv
  <2> QED BY <1>1, <2>1, SerialOperation
<1>7. Synchronised!OvertakenOnlyUnseen
  BY <1>4 DEF Synchronised!OvertakenOnlyUnseen
<1> QED BY <1>5, <1>6, <1>7 DEF SnapshotStep

LEMMA OthersRun == SnapshotInv /\ ~overwritten /\ Synchronised!RunLocked => SnapshotStep
<1> SUFFICES ASSUME SnapshotInv, ~overwritten, Synchronised!RunLocked
             PROVE  SnapshotStep
  OBVIOUS
<1>0. Synchronised!Restored(Synchronised!Loaded(stored)) = Synchronised!Loaded(stored)
  <2>1. RowsTyped(stored) /\ RowsSound(stored)
    BY DEF SnapshotInv, RowsFit
  <2>2. Typed(Synchronised!Loaded(stored))
    BY <2>1 DEF RowsTyped
  <2>3. Synchronised!Loaded(stored).count = Cardinality(Synchronised!Loaded(stored).intentions)
    BY <2>1 DEF RowsSound, Synchronised!Loaded
  <2> QED BY <2>2, <2>3, RestoredFields
<1>1. PICK o \in Synchronised!Operations :
        /\ Synchronised!Allowed(o, Synchronised!Loaded(stored))
        /\ Synchronised!Commits(Synchronised!Applied(stored, Synchronised!Loaded(stored),
              Synchronised!Done(o, Synchronised!Loaded(stored), instant'), Synchronised!AllTables))
  BY <1>0 DEF Synchronised!RunLocked
<1> DEFINE after == Synchronised!Done(o, Synchronised!Loaded(stored), instant')
           rows == Synchronised!Applied(stored, Synchronised!Loaded(stored), after,
                                        Synchronised!AllTables)
<1>2. instant' \in 1..MaxCommits + 1
  BY <1>1, MembersAssumption DEF SnapshotInv, RowsFit, Synchronised!Commits
<1>3. /\ Synchronised!Loaded(rows) = after
      /\ RowsTyped(rows) /\ RowsSound(rows) /\ rows.commits = stored.commits
  BY <1>1, <1>2, OperationApplied DEF SnapshotInv
<1>4. UNCHANGED <<process, call, direct, overwritten>>
  BY DEF Synchronised!RunLocked
<1>5. SnapshotInv'
  <2>1. ProcessFits(process', stored, instant, overwritten) /\ direct' \in BOOLEAN
    BY <1>4 DEF SnapshotInv
  <2> HIDE DEF rows
  <2>2. Synchronised!Commits(rows)
    BY <1>1 DEF rows
  <2> QED BY <1>3, <1>4, <2>1, <2>2, OthersCommit
<1>6. Synchronised!SerialCommit
  <2>1. Synchronised!Loaded(stored') = after /\ instant' \in 1..instant'
    <3> HIDE DEF rows, after
    <3>2. Synchronised!Commits(rows)
      BY <1>1 DEF rows, after
    <3> QED BY <1>2, <1>3, <3>2, RowsCommitted DEF SnapshotInv
  <2> QED BY <1>1, <2>1, SerialOperation
<1>7. Synchronised!OvertakenOnlyUnseen
  BY <1>4 DEF Synchronised!OvertakenOnlyUnseen
<1> QED BY <1>5, <1>6, <1>7 DEF SnapshotStep

LEMMA FirstTyped ==
  LET s == Synchronised!FirstSnapshot
  IN Typed(s) /\ Coherent(s) /\ s.count = Cardinality(s.intentions)
<1> DEFINE s == Synchronised!FirstSnapshot
<1>1. Cardinality({}) = 0 /\ Cardinality(Members) \in Nat
  BY FS_EmptySet, MembersAssumption, FS_CardinalityType
<1>2. /\ s.profile = [a \in {1} |-> "ACTIVE"] /\ s.source = {}
      /\ s.balance = [a \in {1} |-> 1] /\ s.count = 0 /\ s.intentions = {}
      /\ s.dispute = "none" /\ s.meta = "none" /\ s.activities = {}
      /\ DOMAIN s = SnapshotFields /\ s = [x \in DOMAIN s |-> s[x]]
  BY DEF Synchronised!FirstSnapshot, SnapshotFields
<1> HIDE DEF s
<1>3. TableOf(s.profile, Statuses)
  BY <1>2, MembersAssumption DEF TableOf, Statuses
<1>4. TableOf(s.balance, 1..MaxBalance)
  BY <1>2, MembersAssumption DEF TableOf
<1>5. Typed(s) /\ Coherent(s) /\ s.count = Cardinality(s.intentions)
  BY <1>1, <1>2, <1>3, <1>4 DEF Typed, Coherent
<1> QED BY <1>5 DEF s

LEMMA Replaced == SnapshotInv /\ ~overwritten /\ Synchronised!Replace => SnapshotStep
<1> SUFFICES ASSUME SnapshotInv, ~overwritten, Synchronised!Replace
             PROVE  SnapshotStep
  OBVIOUS
<1> DEFINE before == Synchronised!Loaded(stored)
           rows == Synchronised!Applied(stored, before, Synchronised!FirstSnapshot,
                                        Synchronised!AllTables)
<1>1. Synchronised!Commits(rows) /\ UNCHANGED <<process, call, direct, overwritten>>
  BY DEF Synchronised!Replace
<1>2. RowsTyped(stored) /\ RowsSound(stored)
  BY DEF SnapshotInv, RowsFit
<1>3. Synchronised!Loaded(rows) = Synchronised!FirstSnapshot /\ RowsTyped(rows) /\ RowsSound(rows)
  BY <1>2, FirstTyped, EverythingWithin, DifferenceApplied
<1>4. rows.commits = stored.commits
  <2>1. DOMAIN stored = RowFields
    BY <1>2 DEF RowsTyped
  <2> HIDE DEF before
  <2> QED BY <2>1, AppliedFields
<1>5. SnapshotInv'
  <2>1. ProcessFits(process', stored, instant, overwritten) /\ direct' \in BOOLEAN
    BY <1>1 DEF SnapshotInv
  <2> HIDE DEF rows
  <2> QED BY <1>1, <1>3, <1>4, <2>1, OthersCommit
<1>6. Synchronised!SerialCommit
  <2>1. Synchronised!Loaded(stored') = Synchronised!FirstSnapshot
    <3> HIDE DEF rows
    <3> QED BY <1>1, <1>3, <1>4, RowsCommitted DEF SnapshotInv
  <2> QED BY <2>1 DEF Synchronised!SerialCommit
<1>7. Synchronised!OvertakenOnlyUnseen
  BY <1>1 DEF Synchronised!OvertakenOnlyUnseen
<1> QED BY <1>5, <1>6, <1>7 DEF SnapshotStep

LEMMA DirectIsNoted == SnapshotInv /\ Synchronised!DirectNoted => SnapshotStep
<1> SUFFICES ASSUME SnapshotInv, Synchronised!DirectNoted
             PROVE  SnapshotStep
  OBVIOUS
<1>1. /\ process' = [process EXCEPT !.dirty = TRUE, !.revision = Synchronised!NoRevision]
      /\ UNCHANGED <<stored, call, instant, overwritten>> /\ direct' = FALSE
  BY DEF Synchronised!DirectNoted
<1>2. ProcessFits(process, stored, instant, overwritten) /\ instant \in Nat
  BY DEF SnapshotInv, RowsFit
<1>3. ProcessFits(process', stored, instant, overwritten)
  BY <1>1, <1>2 DEF ProcessFits, Synchronised!NoRevision
<1> QED BY <1>1, <1>3, NothingCommitted DEF SnapshotInv

-----------------------------------------------------------------------------
(* A call of mutate.                                                       *)

\* One call goes on and the process stays as it is, or changes.
LEMMA OneGoesOn ==
  ASSUME SnapshotInv, UNCHANGED <<stored, direct, instant, overwritten>>,
         ProcessFits(process', stored, instant, overwritten),
         NEW c \in Calls, NEW x, call' = [call EXCEPT ![c] = x],
         CallFits(x, stored, instant, overwritten)
  PROVE  SnapshotStep
<1>1. call' = [d \in Calls |-> call'[d]]
  BY DEF SnapshotInv
<1>2. \A d \in Calls : call'[d] = call[d] \/ CallFits(call'[d], stored, instant, overwritten)
  BY DEF SnapshotInv
<1> QED BY <1>1, <1>2, NothingCommitted DEF SnapshotInv

LEMMA CallBegins ==
  ASSUME NEW c \in Calls, SnapshotInv, Synchronised!Begin(c)
  PROVE  SnapshotStep
<1> DEFINE x == [at |-> IF process.dirty THEN "load" ELSE "work",
                 ops |-> Synchronised!Operations, attempt |-> 1]
<1>1. call' = [call EXCEPT ![c] = x] /\ UNCHANGED <<stored, process, direct, instant, overwritten>>
  BY DEF Synchronised!Begin
<1>2. CallFits(x, stored, instant, overwritten)
  BY DEF CallFits, CallFields
<1> HIDE DEF x
<1> QED BY <1>1, <1>2, OneGoesOn DEF SnapshotInv

LEMMA FirstTablesLoaded ==
  ASSUME NEW c \in Calls, SnapshotInv, Synchronised!LoadFirst(c)
  PROVE  SnapshotStep
<1> DEFINE y == call[c]
           x == [f \in DOMAIN y \cup {"part", "of"} |->
                   CASE f = "at" -> "rest" [] f = "part" -> Synchronised!Loaded(stored)
                     [] f = "of" -> stored.commits [] OTHER -> y[f]]
<1>1. /\ call' = [call EXCEPT ![c] = x] /\ y.at = "load"
      /\ UNCHANGED <<stored, process, direct, instant, overwritten>>
  BY DEF Synchronised!LoadFirst
<1>2. DOMAIN y = CallFields /\ y.ops \subseteq Synchronised!Operations
  BY <1>1 DEF SnapshotInv, CallFits
<1> HIDE DEF y
<1>3. /\ x.at = "rest" /\ x.part = Synchronised!Loaded(stored) /\ x.of = stored.commits
      /\ x.ops = y.ops /\ DOMAIN x = CallFields \cup {"part", "of"}
  BY <1>2 DEF CallFields
<1> HIDE DEF x
<1>4. Typed(x.part) /\ x.of \in 0..stored.commits /\ Current(x.of, x.part, stored, overwritten)
  BY <1>3 DEF SnapshotInv, RowsFit, RowsTyped, Current
<1>5. CallFits(x, stored, instant, overwritten)
  BY <1>2, <1>3, <1>4 DEF CallFits
<1> QED BY <1>1, <1>5, OneGoesOn DEF SnapshotInv

\* What has been loaded in two parts can be read, and is what the rows say if nothing
\* has been committed in between.
LEMMA RestLoaded ==
  ASSUME NEW c \in Calls, SnapshotInv, ~overwritten, Synchronised!LoadRest(c)
  PROVE  SnapshotStep
<1> DEFINE y == call[c]
           x == [f \in DOMAIN y \ {"part", "of"} |-> IF f = "at" THEN "stamp" ELSE y[f]]
           torn == [y.part EXCEPT !.intentions = stored.intentions,
                      !.dispute = stored.dispute.status, !.meta = stored.dispute.meta,
                      !.activities = stored.activities]
           s == Synchronised!Restored(torn)
<1>1. /\ call' = [call EXCEPT ![c] = x] /\ y.at = "rest"
      /\ process' = [process EXCEPT !.state = s, !.of = y.of]
      /\ UNCHANGED <<stored, direct, instant, overwritten>>
  BY DEF Synchronised!LoadRest
<1>2. /\ DOMAIN y = CallFields \cup {"part", "of"} /\ y.ops \subseteq Synchronised!Operations
      /\ Typed(y.part) /\ y.of \in 0..stored.commits /\ Current(y.of, y.part, stored, overwritten)
  BY <1>1 DEF SnapshotInv, CallFits
<1> HIDE DEF y
<1>3. x.at = "stamp" /\ x.ops = y.ops /\ DOMAIN x = CallFields
  BY <1>2 DEF CallFields
<1>4. CallFits(x, stored, instant, overwritten)
  BY <1>2, <1>3 DEF CallFits
<1> HIDE DEF x
<1>5. /\ RowsTyped(stored) /\ Readable(stored) /\ RowsSound(stored)
      /\ Typed(Synchronised!Loaded(stored))
  <2>1. RowsTyped(stored) /\ RowsSound(stored)
    BY DEF SnapshotInv, RowsFit
  <2> QED BY <2>1, ReadableTyped DEF RowsTyped
<1>6. Typed(torn)
  <2>1. /\ torn.profile = y.part.profile /\ torn.source = y.part.source
        /\ torn.balance = y.part.balance /\ torn.count = y.part.count
        /\ torn.intentions = stored.intentions /\ torn.dispute = stored.dispute.status
        /\ torn.meta = stored.dispute.meta /\ torn.activities = stored.activities
        /\ DOMAIN torn = SnapshotFields /\ torn = [f \in DOMAIN torn |-> torn[f]]
    BY <1>2 DEF Typed, SnapshotFields
  <2> HIDE DEF torn
  <2> QED BY <1>2, <1>5, <2>1 DEF Typed, Readable
<1>7. Typed(s)
  <2> HIDE DEF torn
  <2> QED BY <1>6, RestoredFields
<1>8. Current(y.of, s, stored, overwritten)
  <2> SUFFICES ASSUME y.of = stored.commits PROVE s = Synchronised!Loaded(stored)
    BY DEF Current
  <2>1. y.part = Synchronised!Loaded(stored)
    BY <1>2 DEF Current
  <2>2. torn = Synchronised!Loaded(stored)
    <3> DEFINE r == Synchronised!Loaded(stored)
    <3>1. /\ DOMAIN r = SnapshotFields /\ r = [f \in DOMAIN r |-> r[f]]
          /\ r.intentions = stored.intentions /\ r.dispute = stored.dispute.status
          /\ r.meta = stored.dispute.meta /\ r.activities = stored.activities
      BY LoadedFields
    <3> HIDE DEF r
    <3>2. y.part = r
      BY <2>1 DEF r
    <3>3. torn = r
      BY <3>1, <3>2 DEF SnapshotFields
    <3> QED BY <3>3 DEF r
  <2>3. Synchronised!Loaded(stored).count = Cardinality(Synchronised!Loaded(stored).intentions)
    BY <1>5 DEF RowsSound, Synchronised!Loaded
  <2> HIDE DEF torn
  <2> QED BY <1>5, <2>2, <2>3, RestoredFields
<1> HIDE DEF s
<1>9. ProcessFits(process', stored, instant, overwritten)
  <2>1. ProcessFits(process, stored, instant, overwritten)
    BY DEF SnapshotInv
  <2> QED BY <1>1, <1>2, <1>7, <1>8, <2>1 DEF ProcessFits
<1> QED BY <1>1, <1>4, <1>9, OneGoesOn

LEMMA Stamped ==
  ASSUME NEW c \in Calls, SnapshotInv, Synchronised!Stamp(c)
  PROVE  SnapshotStep
<1> DEFINE x == [call[c] EXCEPT !.at = "work"]
<1>1. /\ call' = [call EXCEPT ![c] = x] /\ call[c].at = "stamp"
      /\ process' = [process EXCEPT !.revision = stored.revision, !.revisionOf = stored.commits,
                                    !.dirty = process.dirty /\ call[c].attempt > 1]
      /\ UNCHANGED <<stored, direct, instant, overwritten>>
  BY DEF Synchronised!Stamp, SnapshotInv
<1>2. CallFits(x, stored, instant, overwritten)
  BY <1>1 DEF SnapshotInv, CallFits, CallFields
<1> HIDE DEF x
<1>3. ProcessFits(process, stored, instant, overwritten) /\ RowsFit(stored, instant, overwritten)
  BY DEF SnapshotInv
<1>4. ProcessFits(process', stored, instant, overwritten)
  BY <1>1, <1>3 DEF ProcessFits, RowsFit
<1> QED BY <1>1, <1>2, <1>4, OneGoesOn

LEMMA Worked ==
  ASSUME NEW c \in Calls, SnapshotInv, Synchronised!Work(c)
  PROVE  SnapshotStep
<1> DEFINE y == call[c]
           done(o) == [at |-> "submit", ops |-> {o}, attempt |-> y.attempt,
                       before |-> process.state,
                       after |-> Synchronised!Done(o, Synchronised!Restored(process.state), instant),
                       of |-> process.of]
<1>1. /\ y.at = "work"
      /\ UNCHANGED <<stored, process, direct, instant, overwritten>>
      /\ \E o \in y.ops :
           call' = [call EXCEPT ![c] = IF Synchronised!Allowed(o, process.state)
                                       THEN done(o) ELSE Synchronised!Idle]
  BY DEF Synchronised!Work, SnapshotInv
<1>2. PICK o \in y.ops :
        call' = [call EXCEPT ![c] = IF Synchronised!Allowed(o, process.state)
                                    THEN done(o) ELSE Synchronised!Idle]
  BY <1>1
<1>3. o \in Synchronised!Operations
  BY <1>1, <1>2 DEF SnapshotInv, CallFits
<1>4. ProcessFits(process', stored, instant, overwritten)
  BY <1>1 DEF SnapshotInv
<1>5. CASE Synchronised!Allowed(o, process.state)
  <2> DEFINE x == done(o)
  <2>1. /\ Typed(process.state) /\ process.of \in 0..stored.commits
        /\ Current(process.of, process.state, stored, overwritten) /\ instant \in 1..instant
    BY DEF SnapshotInv, ProcessFits, RowsFit
  <2>2. /\ x.at = "submit" /\ x.before = process.state /\ x.of = process.of /\ x.ops = {o}
        /\ x.after = Synchronised!Done(o, Synchronised!Restored(x.before), instant)
        /\ DOMAIN x = CallFields \cup {"before", "after", "of"}
    BY DEF CallFields
  <2>3. call' = [call EXCEPT ![c] = x]
    BY <1>2, <1>5
  <2> HIDE DEF x, done
  <2>4. FoundAndDone(x, stored, instant, overwritten)
    BY <1>3, <1>5, <2>1, <2>2 DEF FoundAndDone
  <2>5. CallFits(x, stored, instant, overwritten)
    BY <2>2, <2>4 DEF CallFits
  <2> QED BY <1>1, <1>4, <2>3, <2>5, OneGoesOn
<1>6. CASE ~Synchronised!Allowed(o, process.state)
  <2>1. call' = [call EXCEPT ![c] = Synchronised!Idle]
    BY <1>2, <1>6
  <2>2. CallFits(Synchronised!Idle, stored, instant, overwritten)
    BY DEF CallFits, Synchronised!Idle
  <2> QED BY <1>1, <1>4, <2>1, <2>2, OneGoesOn
<1> QED BY <1>5, <1>6

LEMMA Submitted ==
  ASSUME NEW c \in Calls, SnapshotInv, Synchronised!Submit(c)
  PROVE  SnapshotStep
<1> DEFINE y == call[c]
           x == [f \in DOMAIN y \cup {"expected", "expectedOf"} |->
                   CASE f = "at" -> "sync" [] f = "expected" -> process.revision
                     [] f = "expectedOf" -> process.revisionOf [] OTHER -> y[f]]
<1>1. /\ call' = [call EXCEPT ![c] = x] /\ y.at = "submit"
      /\ UNCHANGED <<stored, process, direct, instant, overwritten>>
  BY DEF Synchronised!Submit
<1>2. DOMAIN y = CallFields \cup {"before", "after", "of"}
      /\ FoundAndDone(y, stored, instant, overwritten)
  BY <1>1 DEF SnapshotInv, CallFits
<1> HIDE DEF y
<1>3. /\ x.at = "sync" /\ x.expected = process.revision /\ x.expectedOf = process.revisionOf
      /\ x.ops = y.ops /\ x.before = y.before /\ x.after = y.after /\ x.of = y.of
      /\ DOMAIN x = CallFields \cup {"before", "after", "of", "expected", "expectedOf"}
  BY <1>2 DEF CallFields
<1> HIDE DEF x
<1>4. /\ x.expected \in Nat /\ x.expectedOf \in Nat /\ x.expected <= x.expectedOf + 1
  BY <1>3 DEF SnapshotInv, ProcessFits, RowsFit
<1>5. FoundAndDone(x, stored, instant, overwritten)
  BY <1>2, <1>3 DEF FoundAndDone
<1>6. CallFits(x, stored, instant, overwritten)
  BY <1>3, <1>4, <1>5 DEF CallFits
<1> QED BY <1>1, <1>6, OneGoesOn DEF SnapshotInv

LEMMA ConflictFound ==
  ASSUME NEW c \in Calls, SnapshotInv, Synchronised!SyncConflicts(c)
  PROVE  SnapshotStep
<1> DEFINE y == call[c]
           again == [at |-> "load", ops |-> y.ops, attempt |-> y.attempt + 1]
           x == IF y.attempt < Synchronised!Attempts THEN again ELSE Synchronised!Idle
<1>1. /\ call' = [call EXCEPT ![c] = x] /\ y.at = "sync"
      /\ UNCHANGED <<stored, process, direct, instant, overwritten>>
  BY DEF Synchronised!SyncConflicts, SnapshotInv
<1>2. y.ops \subseteq Synchronised!Operations
  BY <1>1 DEF SnapshotInv, CallFits, FoundAndDone
<1>3. CallFits(again, stored, instant, overwritten)
  BY <1>2 DEF CallFits, CallFields
<1>4. CallFits(Synchronised!Idle, stored, instant, overwritten)
  BY DEF CallFits, Synchronised!Idle
<1>5. CallFits(x, stored, instant, overwritten)
  BY <1>3, <1>4
<1> HIDE DEF x
<1> QED BY <1>1, <1>5, OneGoesOn DEF SnapshotInv

LEMMA SyncFailed ==
  ASSUME NEW c \in Calls, SnapshotInv, Synchronised!SyncFails(c)
  PROVE  SnapshotStep
<1>1. /\ call' = [call EXCEPT ![c] = Synchronised!Idle]
      /\ UNCHANGED <<stored, process, direct, instant, overwritten>>
  BY DEF Synchronised!SyncFails
<1>2. CallFits(Synchronised!Idle, stored, instant, overwritten)
  BY DEF CallFits, Synchronised!Idle
<1> QED BY <1>1, <1>2, OneGoesOn DEF SnapshotInv

LEMMA Finished ==
  ASSUME NEW c \in Calls, SnapshotInv, Synchronised!Finish(c)
  PROVE  SnapshotStep
<1> DEFINE p == [state |-> call[c].after, revision |-> call[c].revision, dirty |-> FALSE,
                 of |-> call[c].of, revisionOf |-> call[c].of]
<1>1. /\ call' = [call EXCEPT ![c] = Synchronised!Idle] /\ call[c].at = "finish"
      /\ process' = p /\ UNCHANGED <<stored, direct, instant, overwritten>>
  BY DEF Synchronised!Finish
<1>2. CallFits(Synchronised!Idle, stored, instant, overwritten)
  BY DEF CallFits, Synchronised!Idle
<1>3. CallFits(call[c], stored, instant, overwritten) /\ RowsFit(stored, instant, overwritten)
  BY DEF SnapshotInv
<1>4. ProcessFits(p, stored, instant, overwritten)
  BY <1>1, <1>3 DEF CallFits, ProcessFits, RowsFit
<1> QED BY <1>1, <1>2, <1>4, OneGoesOn

\* The difference of a call is committed: on the rows it was made of, where it is the
\* operation of the call, or on others, where the check of the revision saw nothing.
LEMMA SyncCommitted ==
  ASSUME NEW c \in Calls, SnapshotInv, ~overwritten, Synchronised!SyncCommits(c)
  PROVE  SnapshotStep
<1> DEFINE x == call[c]
           rows(scope) == Synchronised!Applied(stored, x.before, x.after, scope)
           made == [at |-> "finish", after |-> x.after, revision |-> instant',
                    of |-> stored.commits + 1]
<1>1. /\ x.at = "sync" /\ ~Synchronised!Conflicting(c)
      /\ \E scope \in {Synchronised!AllTables} \cup {Synchronised!ScopeOf(o) : o \in x.ops} :
           Synchronised!Commits(rows(scope))
      /\ overwritten' = (x.of # stored.commits)
      /\ call' = [call EXCEPT ![c] = made] /\ UNCHANGED <<process, direct>>
  BY DEF Synchronised!SyncCommits
<1>2. RowsFit(stored, instant, overwritten) /\ CallFits(x, stored, instant, overwritten)
      /\ ProcessFits(process, stored, instant, overwritten)
  BY DEF SnapshotInv
<1>3. /\ FoundAndDone(x, stored, instant, overwritten)
      /\ x.expected \in Nat /\ x.expectedOf \in Nat /\ x.expected <= x.expectedOf + 1
  BY <1>1, <1>2 DEF CallFits
<1>4. x.expected = 0 \/ stored.revision = x.expected
  BY <1>1 DEF Synchronised!Conflicting, Synchronised!NoRevision
<1>5. PICK scope \in {Synchronised!AllTables} \cup {Synchronised!ScopeOf(o) : o \in x.ops} :
        Synchronised!Commits(rows(scope))
  BY <1>1
<1>6. PICK o \in Synchronised!Operations, t \in 1..instant :
        /\ x.ops = {o} /\ Synchronised!Allowed(o, x.before)
        /\ x.after = Synchronised!Done(o, Synchronised!Restored(x.before), t)
  BY <1>3 DEF FoundAndDone
<1>7. scope \in {Synchronised!AllTables, Synchronised!ScopeOf(o)}
  BY <1>5, <1>6
<1>8. /\ Typed(x.before) /\ x.of \in 0..stored.commits
      /\ Current(x.of, x.before, stored, overwritten)
  BY <1>3 DEF FoundAndDone
<1>9. t \in 1..MaxCommits + 1 /\ stored.commits \in Nat /\ stored.revision <= stored.commits + 1
      /\ stored.revision \in Nat /\ instant \in Nat
  BY <1>2, <1>6, MembersAssumption DEF RowsFit
<1>10. Typed(x.after)
  <2> DEFINE r == Synchronised!Restored(x.before)
  <2>1. /\ Typed(r) /\ r.count = Cardinality(r.intentions)
        /\ r.profile = x.before.profile /\ r.balance = x.before.balance
        /\ r.intentions = x.before.intentions /\ r.dispute = x.before.dispute
        /\ r.meta = x.before.meta
    BY <1>8, RestoredFields
  <2> HIDE DEF r
  <2>2. Synchronised!Allowed(o, r)
    BY <1>6, <2>1 DEF Synchronised!Allowed
  <2>3. Typed(Synchronised!Done(o, r, t))
    BY <1>9, <2>1, <2>2, OperationDone
  <2> QED BY <1>6, <2>3 DEF r
<1>11. RowsTyped(stored) /\ DOMAIN stored = RowFields
  BY <1>2 DEF RowsFit, RowsTyped
<1>12. RowsTyped(rows(scope)) /\ rows(scope).commits = stored.commits
  <2>1. RowsTyped(rows(scope))
    BY <1>8, <1>10, <1>11, AppliedTyped
  <2> HIDE DEF x
  <2> QED BY <2>1, <1>11, AppliedFields
<1>13. /\ RowsTyped(stored')
       /\ RowsSound(rows(scope)) => RowsSound(stored')
       /\ Synchronised!Loaded(stored') = Synchronised!Loaded(rows(scope))
       /\ stored'.commits = stored.commits + 1 /\ stored'.commits \in 0..MaxCommits
       /\ instant' \in 1..stored'.commits + 1 /\ stored'.revision = instant'
       /\ instant' \in 1..MaxCommits + 1
       /\ Later(stored, instant, stored', instant')
  <2> DEFINE new == rows(scope)
  <2>1. RowsTyped(new) /\ new.commits = stored.commits /\ Synchronised!Commits(new)
    BY <1>5, <1>12
  <2> HIDE DEF new
  <2>2. /\ RowsTyped(stored')
        /\ RowsSound(new) => RowsSound(stored')
        /\ Synchronised!Loaded(stored') = Synchronised!Loaded(new)
        /\ stored'.commits = stored.commits + 1 /\ stored'.commits \in 0..MaxCommits
        /\ instant' \in 1..stored'.commits + 1 /\ stored'.revision = instant'
        /\ instant' \in 1..MaxCommits + 1
        /\ Later(stored, instant, stored', instant')
    BY <1>2, <2>1, RowsCommitted
  <2> QED BY <2>2 DEF new
<1>14. x.of = stored.commits =>
         /\ RowsSound(stored') /\ Synchronised!Loaded(stored') = x.after
         /\ Synchronised!SerialCommit
  <2> SUFFICES ASSUME x.of = stored.commits
               PROVE  /\ RowsSound(stored') /\ Synchronised!Loaded(stored') = x.after
                      /\ Synchronised!SerialCommit
    OBVIOUS
  <2>1. x.before = Synchronised!Loaded(stored)
    BY <1>8 DEF Current
  <2>2. Synchronised!Restored(x.before) = x.before
    <3>1. x.before.count = Cardinality(x.before.intentions)
      BY <1>2, <2>1 DEF RowsFit, RowsSound, Synchronised!Loaded
    <3> QED BY <3>1, <1>8, RestoredFields
  <2>3. /\ Synchronised!Allowed(o, Synchronised!Loaded(stored))
        /\ x.after = Synchronised!Done(o, Synchronised!Loaded(stored), t)
    BY <1>6, <2>1, <2>2
  <2>4. Synchronised!Loaded(rows(scope)) = x.after /\ RowsSound(rows(scope))
    <3> DEFINE before == Synchronised!Loaded(stored)
               after == Synchronised!Done(o, before, t)
               new == Synchronised!Applied(stored, before, after, scope)
    <3>1. Synchronised!Loaded(new) = after /\ RowsSound(new)
      BY <1>2, <1>7, <1>9, <2>3, OperationApplied
    <3>2. new = rows(scope) /\ after = x.after
      BY <2>1, <2>3
    <3> QED BY <3>1, <3>2
  <2>5. Synchronised!Loaded(stored') = Synchronised!Done(o, Synchronised!Loaded(stored), t)
    BY <1>13, <2>3, <2>4
  <2>6. t \in 1..instant'
    BY <1>6, <1>9, <1>13 DEF Later
  <2>7. Synchronised!SerialCommit
    BY <2>3, <2>5, <2>6, SerialOperation
  <2> QED BY <1>13, <2>4, <2>7
<1> HIDE DEF rows
<1>15. RowsFit(stored', instant', overwritten')
  <2>1. overwritten' \in BOOLEAN /\ (~overwritten' => RowsSound(stored'))
    <3>1. CASE x.of = stored.commits
      BY <3>1, <1>1, <1>14
    <3>2. CASE x.of # stored.commits
      BY <3>2, <1>1
    <3> QED BY <3>1, <3>2
  <2>2. stored'.revision \in 1..instant'
    BY <1>13
  <2> QED BY <1>13, <2>1, <2>2 DEF RowsFit
<1>16. ProcessFits(process', stored', instant', overwritten')
  BY <1>1, <1>2, <1>13, ProcessLater
<1>17. CallFits(made, stored', instant', overwritten')
  <2>1. /\ made.at = "finish" /\ made.after = x.after /\ made.revision = instant'
        /\ made.of = stored'.commits
    BY <1>13
  <2> HIDE DEF made
  <2>2. Current(made.of, made.after, stored', overwritten')
    BY <1>1, <1>14, <2>1 DEF Current
  <2>3. made.of \in 0..stored'.commits /\ made.revision \in 0..instant'
        /\ made.revision <= made.of + 1
    BY <1>13, <2>1
  <2> QED BY <1>10, <2>1, <2>2, <2>3 DEF CallFits
<1>18. \A d \in Calls : CallFits(call'[d], stored', instant', overwritten')
  <2> TAKE d \in Calls
  <2>1. CallFits(call[d], stored', instant', overwritten')
    <3>1. CallFits(call[d], stored, instant, overwritten)
      BY DEF SnapshotInv
    <3> QED BY <3>1, <1>13, CallLater
  <2>2. call'[d] = IF d = c THEN made ELSE call[d]
    BY <1>1 DEF SnapshotInv
  <2> QED BY <1>17, <2>1, <2>2
<1>19. SnapshotInv'
  <2>1. call' = [d \in Calls |-> call'[d]] /\ direct' \in BOOLEAN
    BY <1>1 DEF SnapshotInv
  <2> QED BY <1>15, <1>16, <1>18, <2>1 DEF SnapshotInv
<1>20. Synchronised!SerialCommit
  <2>1. CASE x.of = stored.commits
    BY <2>1, <1>14
  <2>2. CASE x.of # stored.commits
    BY <2>2, <1>1 DEF Synchronised!SerialCommit
  <2> QED BY <2>1, <2>2
<1>21. Synchronised!OvertakenOnlyUnseen
  <2> SUFFICES ASSUME x.of # stored.commits, x.expected # 0, x.expectedOf = x.of,
                      stored.revision = stored.commits + 1
               PROVE  FALSE
    <3>1. call[c].at = "sync" /\ call'[c].at = "finish"
      BY <1>1 DEF SnapshotInv
    <3> QED BY <3>1, <1>1 DEF Synchronised!OvertakenOnlyUnseen, Synchronised!NoRevision
  <2>1. x.expected = stored.commits + 1 /\ x.of < stored.commits
    BY <1>4, <1>8, <1>9
  <2> QED BY <2>1, <1>3, <1>8, <1>9
<1> QED BY <1>19, <1>20, <1>21 DEF SnapshotStep

-----------------------------------------------------------------------------
(* From the first state on.                                                *)

LEMMA SnapshotsInit == Synchronised!Init => SnapshotInv
<1> SUFFICES ASSUME Synchronised!Init PROVE SnapshotInv
  OBVIOUS
<1> DEFINE s == Synchronised!FirstSnapshot
<1>1. Typed(s) /\ Coherent(s) /\ s.count = Cardinality(s.intentions) /\ DOMAIN s = SnapshotFields
  BY FirstTyped DEF Typed
<1>2. /\ stored = Synchronised!Inserted(s)
      /\ process = [state |-> s, revision |-> 1, dirty |-> FALSE, of |-> 0, revisionOf |-> 0]
      /\ call = [c \in Calls |-> Synchronised!Idle] /\ direct = FALSE /\ instant = 1
      /\ overwritten = FALSE
  BY DEF Synchronised!Init
<1>3. s.source = {} /\ s.dispute = "none" /\ s.meta = "none"
  BY DEF Synchronised!FirstSnapshot
<1> HIDE DEF s
<1>4. /\ DOMAIN stored = RowFields
      /\ DOMAIN stored.profile = DOMAIN s.profile
      /\ \A a \in DOMAIN s.profile :
           /\ stored.profile[a].status = s.profile[a]
           /\ stored.profile[a].source = Synchronised!SourceOf(s, a)
           /\ stored.profile[a].latest = Synchronised!Newest(s.activities, a)
      /\ stored.balance = s.balance /\ stored.count = s.count /\ stored.intentions = s.intentions
      /\ DOMAIN stored.dispute = {"status", "meta"}
      /\ stored.dispute.status = s.dispute /\ stored.dispute.meta = s.meta
      /\ stored.activities = s.activities /\ stored.revision = 1 /\ stored.commits = 0
  BY <1>2 DEF Synchronised!Inserted, RowFields
<1>5. Synchronised!Loaded(stored) = s
  <2> DEFINE r == Synchronised!Loaded(stored)
  <2>1. /\ DOMAIN r = SnapshotFields
        /\ r = [x \in DOMAIN r |-> r[x]]
        /\ r.profile = [a \in DOMAIN stored.profile |-> stored.profile[a].status]
        /\ r.source = {a \in DOMAIN stored.profile : stored.profile[a].source # "none"}
        /\ r.balance = stored.balance /\ r.count = stored.count
        /\ r.intentions = stored.intentions
        /\ r.dispute = stored.dispute.status /\ r.meta = stored.dispute.meta
        /\ r.activities = stored.activities
    BY LoadedFields
  <2> HIDE DEF r
  <2>2. r.profile = s.profile
    BY <1>1, <1>4, <2>1 DEF Typed, TableOf
  <2>3. r.source = s.source
    BY <1>3, <1>4, <2>1 DEF Synchronised!SourceOf
  <2>4. \A x \in SnapshotFields : r[x] = s[x]
    BY <1>4, <2>1, <2>2, <2>3 DEF SnapshotFields
  <2>5. r = s
    BY <1>1, <2>1, <2>4 DEF Typed
  <2> QED BY <2>5 DEF r
<1>6. RowsTyped(stored) /\ RowsSound(stored)
  BY <1>1, <1>4, <1>5 DEF RowsTyped, RowsSound, Coherent
<1>7. RowsFit(stored, instant, overwritten)
  <2>1. stored.commits \in 0..MaxCommits
    BY <1>4, MembersAssumption
  <2>2. instant \in 1..stored.commits + 1 /\ stored.revision \in 1..instant
    BY <1>2, <1>4
  <2> QED BY <1>2, <1>6, <2>1, <2>2 DEF RowsFit
<1>8. ProcessFits(process, stored, instant, overwritten)
  BY <1>1, <1>2, <1>4, <1>5 DEF ProcessFits, Current
<1>9. CallFits(Synchronised!Idle, stored, instant, overwritten)
  BY DEF CallFits, Synchronised!Idle
<1> QED BY <1>2, <1>7, <1>8, <1>9 DEF SnapshotInv

LEMMA SnapshotsGoOn ==
  SnapshotInv /\ ~overwritten /\ (Synchronised!Committing \/ Synchronised!Underway) => SnapshotStep
<1> SUFFICES ASSUME SnapshotInv, ~overwritten, Synchronised!Committing \/ Synchronised!Underway
             PROVE  SnapshotStep
  OBVIOUS
<1>1. ~overwritten
  OBVIOUS
<1>2. CASE Synchronised!Direct
  BY <1>1, <1>2, DirectWrites
<1>3. CASE Synchronised!DirectNoted
  BY <1>3, DirectIsNoted
<1>4. CASE Synchronised!RunLocked
  BY <1>1, <1>4, OthersRun
<1>5. CASE Synchronised!Replace
  BY <1>1, <1>5, Replaced
<1>6. ASSUME NEW c \in Calls,
             \/ Synchronised!Begin(c) \/ Synchronised!LoadFirst(c) \/ Synchronised!LoadRest(c)
             \/ Synchronised!Stamp(c) \/ Synchronised!Work(c) \/ Synchronised!Submit(c)
             \/ Synchronised!SyncConflicts(c) \/ Synchronised!SyncCommits(c)
             \/ Synchronised!SyncFails(c) \/ Synchronised!Finish(c)
      PROVE  SnapshotStep
  BY <1>1, <1>6, CallBegins, FirstTablesLoaded, RestLoaded, Stamped, Worked, Submitted,
     ConflictFound, SyncCommitted, SyncFailed, Finished
<1> QED BY <1>2, <1>3, <1>4, <1>5, <1>6 DEF Synchronised!Committing, Synchronised!Underway

\* The other methods of the engine do not touch the snapshots.
LEMMA SnapshotsStay ==
  SnapshotInv /\ UNCHANGED snapshotVars => SnapshotInv'
BY DEF SnapshotInv, snapshotVars

LEMMA SnapshotsImply == SnapshotInv => SnapshotsTrue
<1> SUFFICES ASSUME SnapshotInv PROVE SnapshotsTrue
  OBVIOUS
<1>1. /\ RowsFit(stored, instant, overwritten)
      /\ ProcessFits(process, stored, instant, overwritten)
      /\ \A c \in Calls : CallFits(call[c], stored, instant, overwritten)
      /\ direct \in BOOLEAN
  BY DEF SnapshotInv
<1>2. Synchronised!TypeOK
  <2>1. Synchronised!Loaded(stored) \in Synchronised!Snapshot
    BY <1>1, SnapshotsTyped DEF RowsFit, RowsTyped
  <2>2. process.state \in Synchronised!Snapshot
    BY <1>1, SnapshotsTyped DEF ProcessFits
  <2>3. \A c \in Calls : call[c].at \in
          {"idle", "load", "rest", "stamp", "work", "submit", "sync", "finish"}
    BY <1>1 DEF CallFits
  <2>4. instant \in 1..MaxCommits + 1
    BY <1>1, MembersAssumption DEF RowsFit
  <2> QED BY <1>1, <2>1, <2>2, <2>3, <2>4 DEF Synchronised!TypeOK, RowsFit, ProcessFits
<1>3. Synchronised!DerivedAgree
  BY <1>1, SameCardinality DEF RowsFit, RowsSound, Synchronised!DerivedAgree
<1>4. Synchronised!EngineCurrent
  BY <1>1 DEF ProcessFits, Current, Synchronised!EngineCurrent
<1> QED BY <1>2, <1>3, <1>4 DEF SnapshotsTrue

LEMMA SnapshotInvariant == EngineSpec => []SnapshotInv
<1>1. EngineInit => SnapshotInv
  BY SnapshotsInit DEF EngineInit
<1>2. SnapshotInv /\ [EngineNext]_<<about, engineVars, snapshotVars>> => SnapshotInv'
  <2>1. ASSUME SnapshotInv, EngineNext PROVE SnapshotInv'
    BY <2>1, SnapshotsGoOn, SnapshotsStay DEF EngineNext, Synchronised!Next, SnapshotStep
  <2>2. ASSUME SnapshotInv, UNCHANGED <<about, engineVars, snapshotVars>> PROVE SnapshotInv'
    BY <2>2, SnapshotsStay
  <2> QED BY <2>1, <2>2
<1> QED BY <1>1, <1>2, PTL DEF EngineSpec

\* Whatever is written, loaded and synchronised in whatever order, and whatever a torn or
\* stale load makes of the engine: as long as no update has been overwritten, the columns
\* that are derived agree with the rows, and an engine of the last commit is what the
\* tables say.
THEOREM SnapshotsAreTrue == EngineSpec => []SnapshotsTrue
BY SnapshotInvariant, SnapshotsImply, PTL

\* Every commit is one operation on the database as it was, or the check of the revision
\* could not see that it is not.
THEOREM CommitsAreSerial == EngineSpec => CommitsSerial
<1> DEFINE Serial == Synchronised!SerialCommit /\ Synchronised!OvertakenOnlyUnseen
<1>1. SnapshotInv /\ [EngineNext]_<<about, engineVars, snapshotVars>> => [Serial]_snapshotVars
  <2>1. ASSUME SnapshotInv, EngineNext PROVE [Serial]_snapshotVars
    BY <2>1, SnapshotsGoOn DEF EngineNext, Synchronised!Next, SnapshotStep
  <2>2. ASSUME UNCHANGED <<about, engineVars, snapshotVars>> PROVE [Serial]_snapshotVars
    BY <2>2
  <2> QED BY <2>1, <2>2
<1>2. EngineSpec => [][Serial]_snapshotVars
  <2> HIDE DEF Serial
  <2> QED BY <1>1, SnapshotInvariant, PTL DEF EngineSpec
<1> QED BY <1>2 DEF CommitsSerial

-----------------------------------------------------------------------------
(* The answer about a dispute.                                             *)

LEMMA AnswersCardinality == \A S : Answers!Cardinality(S) = Cardinality(S)
BY DEF Answers!Cardinality, Cardinality

\* What is counted of votes is a number of voters.
LEMMA VotesCounted ==
  ASSUME NEW v, DOMAIN v \subseteq Voters, NEW choice
  PROVE  Answers!ForIn(v, choice) \in 0..Cardinality(Voters)
<1> DEFINE S == {a \in DOMAIN v : v[a] = choice}
<1>1. S \subseteq Voters /\ IsFiniteSet(Voters)
  BY ReadsAssumption
<1>2. IsFiniteSet(S) /\ Cardinality(S) <= Cardinality(Voters)
  BY <1>1, FS_Subset
<1>3. Cardinality(S) \in Nat /\ Cardinality(Voters) \in Nat
  BY <1>1, <1>2, FS_CardinalityType
<1>4. Answers!ForIn(v, choice) = Cardinality(S)
  BY AnswersCardinality DEF Answers!ForIn
<1> QED BY <1>2, <1>3, <1>4

\* The resolution the dispute was decided by, and what the answer has of it.
Resolved == dispute.status = "RESOLVED_COMPLETED"
Count(choice) == Answers!ForIn(decided, choice)

AnswerTyped ==
  answer \in [stage : {"idle", "bare", "row", "counting", "resolved"},
              status : {"OPEN", "RESOLVED_COMPLETED"}, round : 0..MaxRounds,
              payout : Answers!Payouts,
              completed : {Answers!None} \cup 0..Cardinality(Voters),
              notCompleted : {Answers!None} \cup 0..Cardinality(Voters)]

AnswerFits ==
  /\ answer.stage = "idle" => answer = Answers!Idle
  /\ answer.stage = "bare" /\ answer.status # "OPEN" => dispute.round > answer.round
  /\ answer.round <= dispute.round
  /\ answer.stage \in {"row", "counting", "resolved"} => answer.status # "OPEN"
  /\ answer.stage \in {"counting", "resolved"} => answer.payout # "none"
  /\ answer.stage = "row" => answer.completed = Answers!None /\ answer.notCompleted = Answers!None
  /\ answer.stage \in {"row", "counting", "resolved"} /\ answer.round = dispute.round =>
       /\ Resolved
       /\ answer.stage # "row" => answer.payout = dispute.payout
       /\ answer.completed \in {Answers!None, Count("COMPLETED")}
       /\ answer.notCompleted \in {Answers!None, Count("NOT_COMPLETED")}
  /\ answer.stage = "resolved" =>
       answer.completed # Answers!None /\ answer.notCompleted # Answers!None

\* While the dispute is decided, the votes are those it was decided by; an answer
\* of its round has read them.
AnswerInv ==
  /\ dispute \in [status : {"OPEN", "RESOLVED_COMPLETED"}, payout : Answers!Payouts,
                  round : 1..MaxRounds]
  /\ votes \in [DOMAIN votes -> Answers!VoteChoices] /\ DOMAIN votes \subseteq Voters
  /\ DOMAIN decided \subseteq Voters
  /\ Resolved => decided = votes /\ dispute.payout # "none"
  /\ AnswerTyped /\ AnswerFits

LEMMA AnswerInit == Answers!Init => AnswerInv
<1> SUFFICES ASSUME Answers!Init PROVE AnswerInv
  OBVIOUS
<1>1. /\ dispute = [status |-> "OPEN", payout |-> "none", round |-> 1]
      /\ votes = << >> /\ decided = << >> /\ answer = Answers!Idle
  BY DEF Answers!Init
<1>2. 1 \in 1..MaxRounds /\ 0 \in 0..MaxRounds
  BY ReadsAssumption
<1>3. AnswerTyped
  BY <1>1, <1>2 DEF AnswerTyped, Answers!Idle, Answers!Payouts
<1>4. AnswerFits
  BY <1>1 DEF AnswerFits, Answers!Idle
<1>5. votes \in [DOMAIN votes -> Answers!VoteChoices] /\ DOMAIN votes = {} /\ DOMAIN decided = {}
  BY <1>1
<1> QED BY <1>1, <1>2, <1>3, <1>4, <1>5 DEF AnswerInv, Resolved, Answers!Payouts

\* Nobody has to do with the answer.
LEMMA RoundStep ==
  AnswerInv /\ (\/ \E a \in Voters, choice \in Answers!VoteChoices : Answers!Vote(a, choice)
                \/ \E payout \in Answers!Payouts \ {"none"} : Answers!Resolve(payout)
                \/ Answers!Reopen)
    => AnswerInv'
<1> USE ReadsAssumption
<1>1. ASSUME AnswerInv, NEW a \in Voters, NEW choice \in Answers!VoteChoices, Answers!Vote(a, choice)
      PROVE  AnswerInv'
  <2>1. /\ dispute.status = "OPEN" /\ UNCHANGED <<dispute, decided, answer>>
        /\ votes' = [o \in DOMAIN votes \cup {a} |-> IF o = a THEN choice ELSE votes[o]]
    BY <1>1 DEF Answers!Vote, Answers!Votes, Answers!Voted
  <2>2. votes' \in [DOMAIN votes' -> Answers!VoteChoices] /\ DOMAIN votes' \subseteq Voters
    BY <1>1, <2>1 DEF AnswerInv
  <2>3. AnswerTyped' /\ AnswerFits'
    BY <1>1, <2>1 DEF AnswerInv, AnswerTyped, AnswerFits, Resolved, Count, Answers!ForIn
  <2> QED BY <1>1, <2>1, <2>2, <2>3 DEF AnswerInv, Resolved
<1>2. ASSUME AnswerInv, NEW payout \in Answers!Payouts \ {"none"}, Answers!Resolve(payout)
      PROVE  AnswerInv'
  <2>1. /\ dispute.status = "OPEN" /\ UNCHANGED <<votes, answer>> /\ decided' = votes
        /\ dispute' = [dispute EXCEPT !.status = "RESOLVED_COMPLETED", !.payout = payout]
    BY <1>2 DEF Answers!Resolve
  <2>2. /\ dispute' \in [status : {"OPEN", "RESOLVED_COMPLETED"}, payout : Answers!Payouts,
                         round : 1..MaxRounds]
        /\ dispute'.status = "RESOLVED_COMPLETED" /\ dispute'.payout = payout
        /\ dispute'.round = dispute.round
    BY <1>2, <2>1 DEF AnswerInv
  <2>3. AnswerTyped' /\ AnswerFits'
    BY <1>2, <2>1, <2>2 DEF AnswerInv, AnswerTyped, AnswerFits, Resolved
  <2> QED BY <1>2, <2>1, <2>2, <2>3 DEF AnswerInv, Resolved
<1>3. ASSUME AnswerInv, Answers!Reopen PROVE AnswerInv'
  <2>1. /\ dispute.round < MaxRounds /\ UNCHANGED <<decided, answer>> /\ votes' = << >>
        /\ dispute' = [status |-> "OPEN", payout |-> "none", round |-> dispute.round + 1]
    BY <1>3 DEF Answers!Reopen
  <2>2. /\ dispute' \in [status : {"OPEN", "RESOLVED_COMPLETED"}, payout : Answers!Payouts,
                         round : 1..MaxRounds]
        /\ dispute'.status = "OPEN" /\ dispute'.round = dispute.round + 1 /\ dispute.round \in Int
    BY <1>3, <2>1 DEF AnswerInv, Answers!Payouts
  <2>3. AnswerTyped' /\ AnswerFits'
    <3>1. answer.round <= dispute.round /\ answer.round \in Int
      BY <1>3 DEF AnswerInv, AnswerFits, AnswerTyped
    <3>2. answer'.round < dispute'.round
      BY <2>1, <2>2, <3>1
    <3> QED BY <1>3, <2>1, <2>2, <3>1, <3>2 DEF AnswerInv, AnswerTyped, AnswerFits
  <2>4. votes' \in [DOMAIN votes' -> Answers!VoteChoices] /\ DOMAIN votes' = {}
    BY <2>1
  <2> QED BY <1>3, <2>1, <2>2, <2>3, <2>4 DEF AnswerInv, Resolved
<1> QED BY <1>1, <1>2, <1>3

LEMMA AnswerStep == AnswerInv /\ Answers!Next => AnswerInv'
<1> SUFFICES ASSUME AnswerInv, Answers!Next PROVE AnswerInv'
  OBVIOUS
<1> USE ReadsAssumption
<1>1. CASE \/ \E a \in Voters, choice \in Answers!VoteChoices : Answers!Vote(a, choice)
           \/ \E payout \in Answers!Payouts \ {"none"} :
                Answers!Evaluate(payout) \/ Answers!Override(payout)
           \/ Answers!Reopen
  BY <1>1, RoundStep DEF Answers!Evaluate, Answers!Override
<1>2. ASSUME UNCHANGED <<dispute, votes, decided>>, AnswerTyped', AnswerFits' PROVE AnswerInv'
  BY <1>2 DEF AnswerInv, Resolved
<1>3. \A choice : Answers!For(choice) \in 0..Cardinality(Voters) /\ Cardinality(Voters) \in Nat
  BY VotesCounted, FS_CardinalityType DEF AnswerInv, Answers!For
<1>4. Resolved => \A choice : Answers!For(choice) = Count(choice)
  BY DEF AnswerInv, Answers!For, Count
<1>0. /\ dispute.round \in 0..MaxRounds /\ dispute.round \in Int
      /\ dispute.status \in {"OPEN", "RESOLVED_COMPLETED"} /\ dispute.payout \in Answers!Payouts
      /\ "none" \in Answers!Payouts
  BY DEF AnswerInv, Answers!Payouts
<1>5. CASE Answers!AnswerFromEngine
  <2>1. UNCHANGED <<dispute, votes, decided>> /\ answer = Answers!Idle
    BY <1>5 DEF Answers!AnswerFromEngine, Answers!Read, AnswerInv, AnswerFits
  <2>2. CASE dispute.status = "OPEN"
    <3>1. answer' = [Answers!Idle EXCEPT !.stage = "bare", !.status = dispute.status,
                                        !.round = dispute.round]
      BY <1>5, <2>1, <2>2 DEF Answers!AnswerFromEngine
    <3>2. AnswerTyped'
      BY <1>0, <2>2, <3>1 DEF AnswerTyped, Answers!Idle
    <3>3. AnswerFits'
      BY <1>0, <2>1, <2>2, <3>1 DEF AnswerFits, Answers!Idle, Resolved
    <3> QED BY <1>2, <2>1, <3>2, <3>3
  <2>3. CASE dispute.status # "OPEN"
    <3>1. answer' = [Answers!Idle EXCEPT !.stage = "resolved", !.status = dispute.status,
               !.round = dispute.round, !.payout = dispute.payout,
               !.completed = Answers!For("COMPLETED"), !.notCompleted = Answers!For("NOT_COMPLETED")]
      BY <1>5, <2>1, <2>3 DEF Answers!AnswerFromEngine
    <3>2. Resolved
      BY <2>3 DEF AnswerInv, Resolved
    <3>3. AnswerTyped'
      BY <1>0, <1>3, <3>1 DEF AnswerTyped, Answers!Idle
    <3>4. /\ Answers!For("COMPLETED") = Count("COMPLETED") /\ Answers!For("COMPLETED") # -1
          /\ Answers!For("NOT_COMPLETED") = Count("NOT_COMPLETED")
          /\ Answers!For("NOT_COMPLETED") # -1
      BY <1>3, <1>4, <3>2
    <3>5. Resolved' /\ Count("COMPLETED")' = Count("COMPLETED")
          /\ Count("NOT_COMPLETED")' = Count("NOT_COMPLETED")
      BY <2>1, <3>2 DEF Resolved, Count, Answers!ForIn
    <3>6. AnswerFits'
      BY <2>1, <2>3, <3>1, <3>2, <3>4, <3>5 DEF AnswerInv, AnswerFits, Answers!Idle, Resolved, Answers!None
    <3> QED BY <1>2, <2>1, <3>3, <3>6
  <2> QED BY <2>2, <2>3
<1>6. CASE Answers!ReadDispute
  <2>1. UNCHANGED <<dispute, votes, decided>> /\ answer = Answers!Idle
    BY <1>6 DEF Answers!ReadDispute, Answers!Read, AnswerInv, AnswerFits
  <2>2. answer' = [Answers!Idle EXCEPT !.stage = IF dispute.status = "OPEN" THEN "bare" ELSE "row",
                                      !.status = dispute.status, !.round = dispute.round]
    BY <1>6, <2>1 DEF Answers!ReadDispute
  <2>3. AnswerTyped'
    BY <1>0, <2>2 DEF AnswerTyped, Answers!Idle
  <2>4. AnswerFits'
    BY <2>1, <2>2 DEF AnswerInv, AnswerFits, Answers!Idle, Resolved, Answers!None
  <2> QED BY <1>2, <2>1, <2>3, <2>4
<1>7. CASE Answers!ReadResolution
  <2>1. UNCHANGED <<dispute, votes, decided>> /\ answer.stage = "row"
    BY <1>7 DEF Answers!ReadResolution, Answers!Read
  <2>2. answer' = IF dispute.status = "OPEN" THEN [answer EXCEPT !.stage = "bare"]
                  ELSE [answer EXCEPT !.stage = "counting", !.payout = dispute.payout]
    BY <1>7 DEF Answers!ReadResolution
  <2>3. AnswerTyped'
    BY <2>1, <2>2 DEF AnswerInv, AnswerTyped
  <2>4. AnswerFits'
    <3>1. answer.round \in Int /\ dispute.round \in Int /\ AnswerTyped
      BY DEF AnswerInv, AnswerTyped
    <3> QED BY <2>1, <2>2, <3>1 DEF AnswerInv, AnswerFits, AnswerTyped, Resolved, Count, Answers!ForIn
  <2> QED BY <1>2, <2>1, <2>3, <2>4
<1>8. CASE Answers!CountCompleted
  <2>1. /\ UNCHANGED <<dispute, votes, decided>> /\ answer.stage = "counting"
        /\ answer' = [answer EXCEPT !.completed = Answers!For("COMPLETED")]
    BY <1>8 DEF Answers!CountCompleted, Answers!Read
  <2>2. AnswerTyped'
    BY <1>3, <2>1 DEF AnswerInv, AnswerTyped
  <2>3. AnswerFits'
    BY <1>4, <2>1 DEF AnswerInv, AnswerFits, AnswerTyped, Resolved, Count, Answers!ForIn
  <2> QED BY <1>2, <2>1, <2>2, <2>3
<1>9. CASE Answers!CountNotCompleted
  <2>1. /\ UNCHANGED <<dispute, votes, decided>> /\ answer.stage = "counting"
        /\ answer' = [answer EXCEPT !.notCompleted = Answers!For("NOT_COMPLETED")]
    BY <1>9 DEF Answers!CountNotCompleted, Answers!Read
  <2>2. AnswerTyped'
    BY <1>3, <2>1 DEF AnswerInv, AnswerTyped
  <2>3. AnswerFits'
    BY <1>4, <2>1 DEF AnswerInv, AnswerFits, AnswerTyped, Resolved, Count, Answers!ForIn
  <2> QED BY <1>2, <2>1, <2>2, <2>3
<1>10. CASE Answers!AnswerFromTables
  <2>1. /\ UNCHANGED <<dispute, votes, decided>> /\ answer.stage = "counting"
        /\ answer.completed # Answers!None /\ answer.notCompleted # Answers!None
        /\ answer' = [answer EXCEPT !.stage = "resolved"]
    BY <1>10 DEF Answers!AnswerFromTables, Answers!Read
  <2>2. AnswerTyped'
    BY <2>1 DEF AnswerInv, AnswerTyped
  <2>3. AnswerFits'
    BY <2>1 DEF AnswerInv, AnswerFits, AnswerTyped, Resolved, Count, Answers!ForIn
  <2> QED BY <1>2, <2>1, <2>2, <2>3
<1>11. CASE Answers!Receive
  <2>1. UNCHANGED <<dispute, votes, decided>> /\ answer' = Answers!Idle
    BY <1>11 DEF Answers!Receive, Answers!Read
  <2>2. AnswerTyped'
    BY <2>1 DEF AnswerTyped, Answers!Idle, Answers!Payouts
  <2>3. AnswerFits'
    BY <2>1 DEF AnswerInv, AnswerFits, Answers!Idle
  <2> QED BY <1>2, <2>1, <2>2, <2>3
<1> QED BY <1>1, <1>5, <1>6, <1>7, <1>8, <1>9, <1>10, <1>11 DEF Answers!Next

LEMMA AnswerImplies == AnswerInv => DisputeRight
<1> SUFFICES ASSUME AnswerInv PROVE DisputeRight
  OBVIOUS
<1>1. Answers!TypeOK
  BY AnswersCardinality, ReadsAssumption DEF AnswerInv, AnswerTyped, Answers!TypeOK, Answers!Voted
<1>2. Answers!AnswerCoherent
  BY DEF AnswerInv, AnswerFits, Answers!AnswerCoherent, Count
<1>3. Answers!ResolutionFits
  BY DEF AnswerInv, AnswerFits, Answers!ResolutionFits
<1> QED BY <1>1, <1>2, <1>3 DEF DisputeRight

\* However votes, decisions, reopenings and the statements of an answer follow each
\* other: the resolution in it is the one the dispute was decided by, until somebody
\* reopens it.
THEOREM AnswersAreResolutions == ReadsSpec => []DisputeRight
<1>1. ReadsInit => AnswerInv
  BY AnswerInit DEF ReadsInit
<1>2. AnswerInv /\ [ReadsNext]_<<vars, listVars, dayVars, disputeVars, reading>> => AnswerInv'
  <2>1. AnswerInv /\ UNCHANGED disputeVars => AnswerInv'
    BY DEF AnswerInv, AnswerTyped, AnswerFits, Resolved, Count, Answers!ForIn, disputeVars
  <2> QED BY <2>1, AnswerStep DEF ReadsNext
<1>3. ReadsSpec => []AnswerInv
  BY <1>1, <1>2, PTL DEF ReadsSpec
<1> QED BY <1>3, AnswerImplies, PTL

-----------------------------------------------------------------------------
(* The days of a zone.                                                     *)

\* An instant lies in the day that division gives for its local time.
LEMMA DayFound ==
  ASSUME NEW n \in Int
  PROVE  /\ n \div DayLength \in Int
         /\ (n \div DayLength) * DayLength <= n
         /\ n < (n \div DayLength + 1) * DayLength
BY ReadsAssumption

LEMMA DayDecided ==
  ASSUME NEW n \in Int, NEW d \in Int, d * DayLength <= n, n < (d + 1) * DayLength
  PROVE  n \div DayLength = d
<1> DEFINE q == n \div DayLength
<1>1. q \in Int /\ q * DayLength <= n /\ n < (q + 1) * DayLength
  BY DayFound
<1>2. DayLength \in Nat /\ DayLength > 0
  BY ReadsAssumption
<1> HIDE DEF q
<1>3. ~(q + 1 <= d)
  <2>1. SUFFICES ASSUME q + 1 <= d PROVE FALSE
    OBVIOUS
  <2>2. (q + 1) * DayLength <= d * DayLength
    BY <1>1, <1>2, <2>1
  <2>3. q * DayLength \in Int /\ d * DayLength \in Int /\ (q + 1) * DayLength \in Int
    BY <1>1, <1>2
  <2> QED BY <1>1, <2>2, <2>3
<1>4. ~(d + 1 <= q)
  <2>1. SUFFICES ASSUME d + 1 <= q PROVE FALSE
    OBVIOUS
  <2>2. (d + 1) * DayLength <= q * DayLength
    BY <1>1, <1>2, <2>1
  <2>3. q * DayLength \in Int /\ d * DayLength \in Int /\ (d + 1) * DayLength \in Int
    BY <1>1, <1>2
  <2> QED BY <1>1, <2>2, <2>3
<1> QED BY <1>1, <1>3, <1>4 DEF q

\* Midnight before and after the clocks are changed.
Early(d) == d * DayLength - zone.before
Late(d) == Early(d) - zone.jump
Closer(d, i) == d * DayLength - Days!Offset(i)

LEMMA ZoneTyped ==
  ASSUME zone \in Days!Zones
  PROVE  /\ zone.before \in Int /\ zone.jump \in {-1, 1} /\ zone.at \in Int
         /\ -(DayLength - 1) < zone.before /\ zone.before < DayLength - 1
         /\ DayLength \in Nat /\ DayLength >= 2
BY ReadsAssumption DEF Days!Zones

LEMMA DaysCardinality == \A S : Days!Cardinality(S) = Cardinality(S)
BY DEF Days!Cardinality, Cardinality

LEMMA LocalTyped ==
  ASSUME zone \in Days!Zones, NEW i \in Int
  PROVE  /\ Days!LocalTime(i) \in Int
         /\ Days!LocalTime(i) = i + zone.before + (IF i >= zone.at THEN zone.jump ELSE 0)
BY ZoneTyped DEF Days!LocalTime, Days!Offset

\* Clocks are not set back further than they have come.
LEMMA LocalGrows ==
  ASSUME zone \in Days!Zones, NEW i \in Int, NEW k \in Int, i <= k
  PROVE  Days!LocalTime(i) <= Days!LocalTime(k)
BY ZoneTyped, LocalTyped

LEMMA DayBounds ==
  ASSUME zone \in Days!Zones, NEW d \in Int
  PROVE  /\ d * DayLength \in Int /\ Early(d) \in Int /\ Late(d) \in Int
         /\ (d - 1) * DayLength = d * DayLength - DayLength
         /\ (d + 1) * DayLength = d * DayLength + DayLength
         /\ Early(d + 1) = Early(d) + DayLength /\ Late(d + 1) = Late(d) + DayLength
<1>1. DayLength \in Int /\ zone.before \in Int /\ zone.jump \in Int
  BY ZoneTyped
<1>2. d * DayLength \in Int
  BY <1>1
<1>3. (d - 1) * DayLength = d * DayLength - DayLength
  BY <1>1
<1>4. (d + 1) * DayLength = d * DayLength + DayLength
  BY <1>1
<1> QED BY <1>1, <1>2, <1>3, <1>4 DEF Early, Late

LEMMA CloserIs ==
  ASSUME zone \in Days!Zones, NEW d \in Int, NEW i \in Int
  PROVE  /\ Closer(d, i) = IF i < zone.at THEN Early(d) ELSE Late(d)
         /\ Closer(d, i) \in Int
         /\ Days!LocalTime(i) = d * DayLength <=> i = Closer(d, i)
<1>0. zone.before \in Int /\ zone.jump \in Int /\ zone.at \in Int
  BY ZoneTyped
<1>1. d * DayLength \in Int /\ zone.before \in Int /\ zone.jump \in Int /\ zone.at \in Int
  BY <1>0, DayBounds
<1> DEFINE midnight == d * DayLength
<1> HIDE DEF midnight
<1>2. Closer(d, i) = midnight - (zone.before + (IF i >= zone.at THEN zone.jump ELSE 0))
  BY DEF Closer, Days!Offset, midnight
<1>3. Early(d) = midnight - zone.before /\ Late(d) = midnight - zone.before - zone.jump
  BY DEF Early, Late, midnight
<1>4. Days!LocalTime(i) = i + zone.before + (IF i >= zone.at THEN zone.jump ELSE 0)
  BY LocalTyped
<1>5. midnight \in Int
  BY <1>1 DEF midnight
<1>6. Days!LocalTime(i) = midnight <=> i = Closer(d, i)
  BY <1>1, <1>2, <1>4, <1>5
<1> QED BY <1>1, <1>2, <1>3, <1>5, <1>6 DEF midnight

\* The search for midnight takes four steps.
LEMMA MidnightIterated ==
  ASSUME zone \in Days!Zones, NEW d \in Int
  PROVE  Days!Midnight(d) = Closer(d, Closer(d, Closer(d, Closer(d, d * DayLength))))
<1> DEFINE Search(f) == f = [k \in 0..4 |->
             IF k = 0 THEN d * DayLength
             ELSE d * DayLength - Days!Offset(f[k - 1])]
           utc == CHOOSE f : Search(f)
           c0 == d * DayLength
           c1 == Closer(d, c0)
           c2 == Closer(d, c1)
           c3 == Closer(d, c2)
           c4 == Closer(d, c3)
           g == [k \in 0..4 |-> CASE k = 0 -> c0 [] k = 1 -> c1
                                  [] k = 2 -> c2 [] k = 3 -> c3 [] OTHER -> c4]
<1>1. Search(g)
  <2>1. g[0] = c0 /\ g[1] = c1 /\ g[2] = c2 /\ g[3] = c3 /\ g[4] = c4
    OBVIOUS
  <2>2. \A k \in 0..4 :
          g[k] = IF k = 0 THEN d * DayLength
                 ELSE d * DayLength - Days!Offset(g[k - 1])
    <3> TAKE k \in 0..4
    <3> HIDE DEF g
    <3>1. k = 0 \/ k = 1 \/ k = 2 \/ k = 3 \/ k = 4
      OBVIOUS
    <3>2. 1 - 1 = 0 /\ 2 - 1 = 1 /\ 3 - 1 = 2 /\ 4 - 1 = 3
      OBVIOUS
    <3> QED BY <2>1, <3>1, <3>2 DEF Closer
  <2>3. g = [k \in 0..4 |-> g[k]]
    OBVIOUS
  <2> HIDE DEF g
  <2> QED BY <2>2, <2>3
<1>2. Search(utc)
  BY <1>1
<1>3. Days!Midnight(d) = utc[4]
  BY DEF Days!Midnight
<1> HIDE DEF utc
<1>4. \A k \in 0..4 :
        utc[k] = IF k = 0 THEN c0 ELSE c0 - Days!Offset(utc[k - 1])
  BY <1>2
<1>5. utc[0] = c0
  BY <1>4
<1>6. utc[1] = Closer(d, utc[0])
  BY <1>4 DEF Closer
<1>7. utc[2] = Closer(d, utc[1])
  BY <1>4 DEF Closer
<1>8. utc[3] = Closer(d, utc[2])
  BY <1>4 DEF Closer
<1>9. utc[4] = Closer(d, utc[3])
  BY <1>4 DEF Closer
<1> QED BY <1>3, <1>5, <1>6, <1>7, <1>8, <1>9

LEMMA MidnightNear ==
  ASSUME zone \in Days!Zones, NEW d \in Int
  PROVE  /\ Days!Midnight(d) \in {Early(d), Late(d)} /\ Days!Midnight(d) \in Int
         /\ Early(d) < zone.at /\ Late(d) < zone.at => Days!Midnight(d) = Early(d)
         /\ Early(d) >= zone.at /\ Late(d) >= zone.at => Days!Midnight(d) = Late(d)
<1>1. d * DayLength \in Int /\ Early(d) \in Int /\ Late(d) \in Int
  BY DayBounds
<1>2. \A i \in Int : Closer(d, i) \in {Early(d), Late(d)} /\ Closer(d, i) \in Int
                     /\ Closer(d, i) = IF i < zone.at THEN Early(d) ELSE Late(d)
  BY CloserIs
<1> DEFINE c1 == Closer(d, d * DayLength)
           c2 == Closer(d, c1)
           c3 == Closer(d, c2)
<1>3. \E i \in {Early(d), Late(d)} : Days!Midnight(d) = Closer(d, i)
  <2>1. c1 \in Int
    BY <1>1, <1>2
  <2>2. c2 \in Int
    BY <1>2, <2>1
  <2>3. c3 \in {Early(d), Late(d)}
    BY <1>2, <2>2
  <2>4. Days!Midnight(d) = Closer(d, c3)
    BY MidnightIterated
  <2> QED BY <2>3, <2>4
<1>4. PICK i \in {Early(d), Late(d)} : Days!Midnight(d) = Closer(d, i)
  BY <1>3
<1>5. /\ i \in Int /\ zone.at \in Int
      /\ Days!Midnight(d) = IF i < zone.at THEN Early(d) ELSE Late(d)
  <2>1. i \in Int
    BY <1>1, <1>4
  <2>2. zone.at \in Int
    BY ZoneTyped
  <2> QED BY <1>2, <1>4, <2>1, <2>2
<1> QED BY <1>1, <1>4, <1>5

LEMMA MidnightsFollow ==
  ASSUME zone \in Days!Zones, NEW d \in Int, NEW o \in Int, d <= o
  PROVE  /\ Days!Midnight(d) <= Days!Midnight(o)
         /\ d < o => Days!Midnight(d + 1) <= Days!Midnight(o)
<1>1. /\ Days!Midnight(d) \in {Early(d), Late(d)} /\ Days!Midnight(o) \in {Early(o), Late(o)}
      /\ Days!Midnight(d + 1) \in {Early(d + 1), Late(d + 1)}
  BY MidnightNear
<1>2. /\ Early(d) \in Int /\ Early(o) \in Int /\ Early(d + 1) = Early(d) + DayLength
      /\ Late(d) = Early(d) - zone.jump /\ Late(o) = Early(o) - zone.jump
      /\ Late(d + 1) = Late(d) + DayLength
  BY DayBounds DEF Late
<1>3. zone.jump \in {-1, 1} /\ DayLength \in Nat /\ DayLength >= 2
  BY ZoneTyped
<1>4. \A n \in Nat : Early(d + n) = Early(d) + n * DayLength
  <2> TAKE n \in Nat
  <2>1. (d + n) * DayLength = d * DayLength + n * DayLength
    BY <1>3
  <2>2. d * DayLength \in Int /\ n * DayLength \in Int /\ zone.before \in Int
    BY <1>3, ZoneTyped
  <2> QED BY <2>1, <2>2 DEF Early
<1>5. \A n \in Nat : n * DayLength \in Nat /\ (n >= 1 => n * DayLength >= DayLength)
                     /\ (n >= 2 => n * DayLength >= DayLength + DayLength)
  <2> TAKE n \in Nat
  <2>1. n >= 1 => (n - 1) * DayLength >= 0
    BY <1>3
  <2>2. n >= 2 => (n - 2) * DayLength >= 0
    BY <1>3
  <2> QED BY <1>3, <2>1, <2>2
<1>6. CASE o = d
  BY <1>1, <1>6, MidnightNear
<1>7. CASE o = d + 1
  BY <1>1, <1>2, <1>3, <1>7, MidnightNear
<1>8. CASE o >= d + 2
  <2> DEFINE n == o - d
  <2>1. n \in Nat /\ n >= 2 /\ o = d + n
    BY <1>8
  <2>2. Early(o) = Early(d) + n * DayLength /\ n * DayLength \in Nat
        /\ n * DayLength >= DayLength + DayLength
    BY <1>4, <1>5, <2>1
  <2> HIDE DEF n
  <2> QED BY <1>1, <1>2, <1>3, <2>2
<1> QED BY <1>6, <1>7, <1>8

\* An hour that is shown once is the one the search finds.
LEMMA MidnightRight ==
  ASSUME zone \in Days!Zones, NEW d \in Int, Days!BeginsOnce(d)
  PROVE  /\ Days!LocalTime(Days!Midnight(d)) = d * DayLength
         /\ \A i \in Int : Days!LocalTime(i) = d * DayLength => i = Days!Midnight(d)
<1> DEFINE near == ((d - 1) * DayLength)..((d + 1) * DayLength)
           S == {i \in near : Days!LocalTime(i) = d * DayLength}
           m == Days!Midnight(d)
<1>1. /\ d * DayLength \in Int /\ (d - 1) * DayLength = d * DayLength - DayLength
      /\ (d + 1) * DayLength = d * DayLength + DayLength
      /\ Early(d) \in Int /\ Late(d) \in Int
  BY DayBounds
<1>2. /\ zone.before \in Int /\ zone.jump \in {-1, 1} /\ zone.at \in Int /\ DayLength \in Nat
      /\ -(DayLength - 1) < zone.before /\ zone.before < DayLength - 1
  BY ZoneTyped
<1>3. Early(d) \in near /\ Late(d) \in near
  BY <1>1, <1>2 DEF Early, Late
<1>4. \A i \in Int : /\ Closer(d, i) = IF i < zone.at THEN Early(d) ELSE Late(d)
                     /\ Days!LocalTime(i) = d * DayLength <=> i = Closer(d, i)
  BY CloserIs
<1>5. IsFiniteSet(S) /\ Cardinality(S) = 1
  <2>1. IsFiniteSet(near)
    BY <1>1, <1>2, FS_Interval
  <2>2. IsFiniteSet(S)
    BY <2>1, FS_Subset
  <2>3. Days!Cardinality(S) = 1
    BY DEF Days!BeginsOnce
  <2> QED BY <2>2, <2>3, DaysCardinality
<1>6. PICK x : S = {x}
  BY <1>5, FS_Singleton
<1>7. \A i \in Int : Days!LocalTime(i) = d * DayLength => i \in S
  BY <1>3, <1>4
<1>8. x \in Int /\ x = Closer(d, x)
  BY <1>1, <1>2, <1>4, <1>6
<1>9. m = x
  <2>1. Early(d) < zone.at => Early(d) \in S
    BY <1>1, <1>4, <1>7
  <2>2. Late(d) >= zone.at => Late(d) \in S
    BY <1>1, <1>2, <1>4, <1>7
  <2>3. Early(d) # Late(d)
    BY <1>1, <1>2 DEF Late
  <2>4. (x = Early(d) /\ Early(d) < zone.at) \/ (x = Late(d) /\ Late(d) >= zone.at)
    <3>1. x < zone.at \/ x >= zone.at
      BY <1>2, <1>8
    <3>2. x = IF x < zone.at THEN Early(d) ELSE Late(d)
      <4>1. x \in Int
        BY <1>8
      <4>2. Closer(d, x) = IF x < zone.at THEN Early(d) ELSE Late(d)
        BY <4>1, CloserIs
      <4> QED BY <1>8, <4>2
    <3>3. CASE x < zone.at
      BY <3>2, <3>3
    <3>4. CASE ~(x < zone.at)
      BY <3>1, <3>2, <3>4
    <3> QED BY <3>3, <3>4
  <2>5. (Early(d) < zone.at /\ Late(d) < zone.at /\ x = Early(d))
        \/ (Early(d) >= zone.at /\ Late(d) >= zone.at /\ x = Late(d))
    BY <1>1, <1>2, <1>6, <2>1, <2>2, <2>3, <2>4
  <2> QED BY <2>5, MidnightNear
<1> QED BY <1>4, <1>6, <1>7, <1>8, <1>9

\* From midnight on it is at least midnight.
LEMMA AfterMidnight ==
  ASSUME zone \in Days!Zones, NEW d \in Int, Days!BeginsOnce(d), NEW i \in Int
  PROVE  Days!Midnight(d) <= i <=> d * DayLength <= Days!LocalTime(i)
<1> DEFINE m == Days!Midnight(d)
<1>1. m \in Int /\ d * DayLength \in Int
  BY MidnightNear, DayBounds
<1>2. /\ Days!LocalTime(m) = d * DayLength
      /\ Days!LocalTime(i) = d * DayLength => i = m
  BY MidnightRight
<1>3. Days!LocalTime(i) \in Int
  BY LocalTyped
<1>4. m <= i => d * DayLength <= Days!LocalTime(i)
  BY <1>1, <1>2, LocalGrows
<1>5. i <= m => Days!LocalTime(i) <= d * DayLength
  BY <1>1, <1>2, LocalGrows
<1> HIDE DEF m
<1>6. m <= i \/ i < m
  BY <1>1
<1>7. Days!Midnight(d) = m
  BY DEF m
<1> QED BY <1>1, <1>2, <1>3, <1>4, <1>5, <1>6, <1>7

\* The bounds that SQL is given hold what formatting takes for the day.
LEMMA DayBetween ==
  ASSUME zone \in Days!Zones, NEW d \in Int, Days!BeginsOnce(d), Days!BeginsOnce(d + 1),
         NEW i \in Int
  PROVE  Days!Midnight(d) <= i /\ i < Days!Midnight(d + 1) <=> Days!DayKey(i) = d
<1>1. Days!LocalTime(i) \in Int /\ Days!Midnight(d + 1) \in Int
  BY LocalTyped, MidnightNear
<1>2. Days!Midnight(d) <= i <=> d * DayLength <= Days!LocalTime(i)
  BY AfterMidnight
<1>3. Days!Midnight(d + 1) <= i <=> (d + 1) * DayLength <= Days!LocalTime(i)
  BY AfterMidnight
<1>4. (d + 1) * DayLength \in Int
  BY DayBounds
<1>5. Days!DayKey(i) = Days!LocalTime(i) \div DayLength
  BY DEF Days!DayKey
<1>6. d * DayLength <= Days!LocalTime(i) /\ Days!LocalTime(i) < (d + 1) * DayLength
        => Days!DayKey(i) = d
  BY <1>1, <1>5, DayDecided
<1>7. Days!DayKey(i) = d
        => d * DayLength <= Days!LocalTime(i) /\ Days!LocalTime(i) < (d + 1) * DayLength
  BY <1>1, <1>5, DayFound
<1> QED BY <1>1, <1>2, <1>3, <1>4, <1>6, <1>7

\* Where they do not, it is the day before or after.
LEMMA DayNearby ==
  ASSUME zone \in Days!Zones, NEW d \in Int, NEW i \in Int,
         Days!Midnight(d) <= i, i < Days!Midnight(d + 1), Days!DayKey(i) # d
  PROVE  Days!DayKey(i) \in {d - 1, d + 1}
<1> DEFINE k == d * DayLength
           l == Days!LocalTime(i)
<1>1. /\ k \in Int /\ Early(d) \in Int /\ Late(d) \in Int
      /\ (d - 1) * DayLength = k - DayLength /\ (d + 1) * DayLength = k + DayLength
      /\ Early(d + 1) = Early(d) + DayLength /\ Late(d + 1) = Late(d) + DayLength
      /\ Early(d) = k - zone.before /\ Late(d) = k - zone.before - zone.jump
  BY DayBounds DEF Early, Late
<1>2. ((d + 1) + 1) * DayLength = k + DayLength + DayLength
  BY <1>1, DayBounds
<1>3. /\ zone.before \in Int /\ zone.jump \in {-1, 1} /\ zone.at \in Int /\ DayLength \in Nat
      /\ DayLength >= 2
  BY ZoneTyped
<1>4. l \in Int /\ l = i + zone.before + (IF i >= zone.at THEN zone.jump ELSE 0)
  BY LocalTyped
<1>5. k - DayLength <= l
  <2>1. Days!Midnight(d) \in {k - zone.before, k - zone.before - zone.jump}
    BY <1>1, MidnightNear
  <2> HIDE DEF k, l
  <2> QED BY <1>1, <1>3, <1>4, <2>1
<1>6. l < k + DayLength + DayLength
  <2>1. Days!Midnight(d + 1) \in {k - zone.before + DayLength, k - zone.before - zone.jump + DayLength}
    <3>1. Days!Midnight(d + 1) \in {Early(d + 1), Late(d + 1)}
      BY MidnightNear
    <3> QED BY <1>1, <3>1
  <2> HIDE DEF k, l
  <2> QED BY <1>1, <1>3, <1>4, <2>1
<1>7. Days!DayKey(i) = l \div DayLength
  BY DEF Days!DayKey
<1>8. CASE l < k
  <2>1. (d - 1) * DayLength <= l /\ l < ((d - 1) + 1) * DayLength
    <3>1. (d - 1) + 1 = d
      OBVIOUS
    <3> QED BY <1>1, <1>5, <1>8, <3>1
  <2> HIDE DEF l
  <2>2. l \div DayLength = d - 1
    BY <1>4, <2>1, DayDecided
  <2> QED BY <1>7, <2>2 DEF l
<1>9. CASE k + DayLength <= l
  <2>1. (d + 1) * DayLength <= l /\ l < ((d + 1) + 1) * DayLength
    BY <1>1, <1>2, <1>6, <1>9
  <2> HIDE DEF l
  <2>2. l \div DayLength = d + 1
    BY <1>4, <2>1, DayDecided
  <2> QED BY <1>7, <2>2 DEF l
<1>10. ~(k <= l /\ l < k + DayLength)
  <2>1. SUFFICES ASSUME k <= l, l < k + DayLength PROVE FALSE
    OBVIOUS
  <2>2. l < (d + 1) * DayLength
    BY <1>1, <2>1
  <2>3. l \div DayLength = d
    BY <1>4, <2>1, <2>2, DayDecided
  <2> QED BY <1>7, <2>3
<1> HIDE DEF k, l
<1> QED BY <1>1, <1>3, <1>4, <1>8, <1>9, <1>10

-----------------------------------------------------------------------------
(* The dashboard in the model.                                             *)

\* What a summary has counted: nothing of another cycle, and nothing of another day.
CycleTold ==
  /\ \A e \in summary.ofCycle : events[e].cycle = summary.cycle
  /\ \A e \in Days!Counted(summary.before) :
       events[e].cycle = summary.cycle => e \in summary.ofCycle

InBounds(e) == Days!Midnight(summary.day) <= events[e].at /\ events[e].at < Days!Midnight(summary.day + 1)

TodayTold ==
  /\ \A e \in summary.today : InBounds(e)
  /\ \A e \in Days!Counted(summary.before) : InBounds(e) => e \in summary.today

DayTold ==
  /\ \A e \in summary.today : Days!DayKey(events[e].at) = summary.day
  /\ \A e \in Days!Counted(summary.before) :
       Days!DayKey(events[e].at) = summary.day => e \in summary.today

SummaryTyped ==
  /\ summary \in [stage : {"idle", "read", "asked", "answered"}, backend : {"memory", "tables"},
                  day : Int, before : SUBSET Days!Recorded, cycle : {Days!None} \cup 1..MaxCycles,
                  today : SUBSET Days!Recorded, ofCycle : SUBSET Days!Recorded,
                  pending : SUBSET {"today", "active", "cycle"}]
  /\ summary.today \cup summary.ofCycle \subseteq Days!Counted(Days!Recorded)

SummaryFits ==
  /\ summary.stage = "idle" => summary = Days!Idle
  /\ summary.stage = "read" => summary.backend = "memory" /\ CycleTold
  /\ summary.stage = "asked" =>
       /\ summary.backend = "tables"
       /\ summary.pending \cap {"active", "cycle"} = {} => CycleTold
       /\ "today" \notin summary.pending => TodayTold
  /\ summary.stage = "answered" =>
       /\ CycleTold
       /\ summary.backend = "tables" => TodayTold
       /\ summary.backend = "memory" => DayTold

EventsTyped ==
  /\ zone \in Days!Zones /\ clock \in 0..MaxClock /\ cycle \in 1..MaxCycles
  /\ Days!Recorded \subseteq Events /\ events \in [Days!Recorded -> Days!Row]

DaysInv == EventsTyped /\ SummaryTyped /\ SummaryFits

LEMMA DaysInit == Days!Init => DaysInv
<1> SUFFICES ASSUME Days!Init PROVE DaysInv
  OBVIOUS
<1>1. /\ zone \in Days!Zones /\ clock = 0 /\ cycle = 1 /\ events = << >> /\ summary = Days!Idle
  BY DEF Days!Init
<1>2. EventsTyped
  <2>1. Days!Recorded = {} /\ events \in [Days!Recorded -> Days!Row]
    BY <1>1 DEF Days!Recorded
  <2>2. 0 \in 0..MaxClock /\ 1 \in 1..MaxCycles
    BY ReadsAssumption
  <2> QED BY <1>1, <2>1, <2>2 DEF EventsTyped
<1>3. SummaryTyped
  BY <1>1 DEF SummaryTyped, Days!Idle
<1>4. SummaryFits
  BY <1>1 DEF SummaryFits, Days!Idle
<1> QED BY <1>2, <1>3, <1>4 DEF DaysInv

\* An activity that is recorded adds to what can be counted and changes nothing that
\* has been.
LEMMA RecordStep ==
  ASSUME DaysInv, NEW e \in Events, NEW type \in Days!Types, Days!Record(e, type)
  PROVE  DaysInv'
<1>1. /\ e \notin Days!Recorded /\ UNCHANGED <<zone, clock, cycle, summary>>
      /\ events' = [o \in Days!Recorded \cup {e} |->
            IF o = e THEN [at |-> clock, type |-> type, cycle |-> cycle] ELSE events[o]]
  BY DEF Days!Record
<1>2. /\ Days!Recorded' = Days!Recorded \cup {e}
      /\ \A o \in Days!Recorded : events'[o] = events[o]
  BY <1>1 DEF Days!Recorded
<1>3. EventsTyped'
  <2>1. events' \in [Days!Recorded' -> Days!Row]
    BY <1>1, <1>2 DEF DaysInv, EventsTyped, Days!Row
  <2> QED BY <1>1, <1>2, <2>1 DEF DaysInv, EventsTyped
<1>4. \A S : S \subseteq Days!Recorded => Days!Counted(S)' = Days!Counted(S)
  BY <1>2 DEF Days!Counted
<1>5. Days!Counted(Days!Recorded) \subseteq Days!Counted(Days!Recorded)'
  BY <1>2 DEF Days!Counted
<1>6. /\ summary.before \subseteq Days!Recorded /\ summary.today \subseteq Days!Recorded
      /\ summary.ofCycle \subseteq Days!Recorded
  BY DEF DaysInv, SummaryTyped
<1>7. SummaryTyped'
  BY <1>1, <1>2, <1>5, <1>6 DEF DaysInv, SummaryTyped
<1>8. Days!Counted(summary.before)' = Days!Counted(summary.before)
      /\ Days!Counted(summary.before) \subseteq Days!Recorded
  BY <1>1, <1>4, <1>6 DEF Days!Counted
<1>9. CycleTold => CycleTold'
  BY <1>1, <1>2, <1>6, <1>8 DEF CycleTold
<1>10. \A o \in Days!Recorded : InBounds(o)' = InBounds(o)
  BY <1>1, <1>2 DEF InBounds, Days!Midnight, Days!Offset
<1>11. TodayTold => TodayTold'
  BY <1>1, <1>6, <1>8, <1>10 DEF TodayTold
<1>12. \A o \in Days!Recorded : Days!DayKey(events[o].at)' = Days!DayKey(events[o].at)
  BY <1>1, <1>2 DEF Days!DayKey, Days!LocalTime, Days!Offset
<1>13. DayTold => DayTold'
  BY <1>1, <1>6, <1>8, <1>12 DEF DayTold
<1>14. SummaryFits'
  BY <1>1, <1>9, <1>11, <1>13 DEF DaysInv, SummaryFits
<1> QED BY <1>3, <1>7, <1>14 DEF DaysInv

\* The clock and the cycles go on.
LEMMA PassingStep == DaysInv /\ (Days!CloseCycle \/ Days!Tick) => DaysInv'
<1> SUFFICES ASSUME DaysInv, Days!CloseCycle \/ Days!Tick PROVE DaysInv'
  OBVIOUS
<1>1. UNCHANGED <<zone, events, summary>>
  BY DEF Days!CloseCycle, Days!Tick
<1>2. clock' \in 0..MaxClock /\ cycle' \in 1..MaxCycles
  BY ReadsAssumption DEF DaysInv, EventsTyped, Days!CloseCycle, Days!Tick
<1>3. EventsTyped'
  BY <1>1, <1>2 DEF DaysInv, EventsTyped, Days!Recorded
<1>4. SummaryTyped'
  BY <1>1 DEF DaysInv, SummaryTyped, Days!Recorded, Days!Counted
<1>5. \A o : InBounds(o)' = InBounds(o)
  BY <1>1 DEF InBounds, Days!Midnight, Days!Offset
<1>6. \A o : Days!DayKey(events[o].at)' = Days!DayKey(events[o].at)
  BY <1>1 DEF Days!DayKey, Days!LocalTime, Days!Offset
<1>7. SummaryFits'
  BY <1>1, <1>5, <1>6 DEF DaysInv, SummaryFits, CycleTold, TodayTold, DayTold, Days!Counted
<1> QED BY <1>3, <1>4, <1>7 DEF DaysInv

LEMMA KeyIsDay ==
  ASSUME zone \in Days!Zones, NEW i \in Int
  PROVE  Days!DayKey(i) \in Int
BY LocalTyped, DayFound DEF Days!DayKey

LEMMA SummaryStep ==
  ASSUME DaysInv,
         \/ Days!AskEngine \/ Days!AnswerFromEngine \/ Days!AskTables \/ Days!CountToday
         \/ Days!ReadActiveCycle \/ Days!CountCycle \/ Days!AnswerFromTables \/ Days!Receive
  PROVE  DaysInv'
<1>1. UNCHANGED <<zone, clock, cycle, events>>
  BY DEF Days!AskEngine, Days!AnswerFromEngine, Days!AskTables, Days!CountToday, Days!Ran,
         Days!ReadActiveCycle, Days!CountCycle, Days!AnswerFromTables, Days!Receive
<1>2. EventsTyped'
  BY <1>1 DEF DaysInv, EventsTyped, Days!Recorded
<1>3. \A e : /\ Days!DayKey(events[e].at)' = Days!DayKey(events[e].at)
             /\ \A d : Days!Midnight(d)' = Days!Midnight(d)
  BY <1>1 DEF Days!DayKey, Days!LocalTime, Days!Midnight, Days!Offset
<1>4. /\ Days!Recorded' = Days!Recorded
      /\ \A S : Days!Counted(S)' = Days!Counted(S) /\ Days!Counted(S) \subseteq S
  BY <1>1 DEF Days!Recorded, Days!Counted
<1>5. /\ SummaryTyped /\ SummaryFits /\ cycle \in 1..MaxCycles /\ clock \in Int /\ zone \in Days!Zones
      /\ Days!DayKey(clock) \in Int
  BY KeyIsDay DEF DaysInv, EventsTyped
<1>6. ASSUME SummaryTyped', SummaryFits' PROVE DaysInv'
  BY <1>2, <1>6 DEF DaysInv
<1>7. \A S : S \subseteq Days!Recorded => Days!Counted(S) \subseteq Days!Counted(Days!Recorded)
  BY DEF Days!Counted
<1> DEFINE Of(c) == Days!Counted({e \in Days!Recorded : events[e].cycle = c})
<1>8. \A c : /\ Of(c) \subseteq Days!Counted(Days!Recorded) /\ Of(c) \subseteq Days!Recorded
             /\ \A e \in Of(c) : events[e].cycle = c
             /\ \A e \in Days!Counted(Days!Recorded) : events[e].cycle = c => e \in Of(c)
             /\ Of(c)' = Of(c)
  BY <1>1 DEF Days!Counted, Days!Recorded
<1>9. CASE Days!AskEngine
  <2>1. summary' = [Days!Idle EXCEPT !.stage = "read", !.before = Days!Recorded, !.cycle = cycle,
                                     !.ofCycle = Of(cycle)]
    BY <1>9 DEF Days!AskEngine
  <2> HIDE DEF Of
  <2>2. SummaryTyped'
    <3>1. Of(cycle) \subseteq Days!Recorded' /\ Of(cycle) \subseteq Days!Counted(Days!Recorded)'
      BY <1>4, <1>8
    <3>2. cycle \in {Days!None} \cup 1..MaxCycles
      BY <1>5
    <3>3. /\ summary'.stage = "read" /\ summary'.backend = "memory" /\ summary'.day = 0
          /\ summary'.before = Days!Recorded /\ summary'.cycle = cycle
          /\ summary'.today = {} /\ summary'.ofCycle = Of(cycle) /\ summary'.pending = {}
      BY <2>1 DEF Days!Idle
    <3>4. summary' \in [stage : {"idle", "read", "asked", "answered"}, backend : {"memory", "tables"},
                        day : Int, before : SUBSET Days!Recorded,
                        cycle : {Days!None} \cup 1..MaxCycles, today : SUBSET Days!Recorded,
                        ofCycle : SUBSET Days!Recorded, pending : SUBSET {"today", "active", "cycle"}]
      <4>1. summary' = [stage |-> "read", backend |-> "memory", day |-> 0,
                        before |-> Days!Recorded, cycle |-> cycle, today |-> {},
                        ofCycle |-> Of(cycle), pending |-> {}]
        BY <2>1 DEF Days!Idle
      <4>2. Of(cycle) \in SUBSET Days!Recorded
        BY <1>8
      <4>3. /\ {} \in SUBSET Days!Recorded /\ Days!Recorded \in SUBSET Days!Recorded
            /\ 0 \in Int /\ {} \in SUBSET {"today", "active", "cycle"}
        OBVIOUS
      <4> QED BY <3>2, <4>1, <4>2, <4>3
    <3> QED BY <1>4, <3>1, <3>3, <3>4 DEF SummaryTyped
  <2>3. CycleTold'
    BY <1>1, <1>4, <1>8, <2>1 DEF CycleTold, Days!Idle
  <2>4. SummaryFits'
    BY <2>1, <2>3 DEF SummaryFits, Days!Idle
  <2> QED BY <1>6, <2>2, <2>4
<1>10. CASE Days!AnswerFromEngine
  <2> DEFINE today == Days!DayKey(clock)
             S == {e \in Days!Counted(summary.before) : Days!DayKey(events[e].at) = today}
  <2>1. /\ summary.stage = "read"
        /\ summary' = [summary EXCEPT !.stage = "answered", !.day = today, !.today = S]
    BY <1>10 DEF Days!AnswerFromEngine
  <2>2. S \subseteq Days!Recorded /\ S \subseteq Days!Counted(Days!Recorded)
    BY <1>4, <1>5, <1>7 DEF SummaryTyped
  <2>3. SummaryTyped'
    <3> HIDE DEF S
    <3> QED BY <1>4, <1>5, <2>1, <2>2 DEF SummaryTyped
  <2>4. /\ summary'.before = summary.before /\ summary'.cycle = summary.cycle
        /\ summary'.ofCycle = summary.ofCycle /\ summary'.stage = "answered"
        /\ summary'.backend = summary.backend /\ summary'.today = S /\ summary'.day = today
    <3> HIDE DEF S
    <3> QED BY <1>5, <2>1 DEF SummaryTyped
  <2>5. CycleTold'
    BY <1>1, <1>4, <1>5, <2>1, <2>4 DEF CycleTold, SummaryFits
  <2>6. DayTold'
    BY <1>3, <1>4, <2>4 DEF DayTold
  <2>7. SummaryFits'
    BY <1>5, <2>1, <2>4, <2>5, <2>6 DEF SummaryFits
  <2> QED BY <1>6, <2>3, <2>7
<1>11. CASE Days!AskTables
  <2>1. summary' = [Days!Idle EXCEPT !.stage = "asked", !.backend = "tables",
                      !.day = Days!DayKey(clock), !.before = Days!Recorded,
                      !.pending = {"today", "active"}]
    BY <1>11 DEF Days!AskTables
  <2>2. SummaryTyped'
    BY <1>4, <1>5, <2>1 DEF SummaryTyped, Days!Idle
  <2>3. SummaryFits'
    BY <2>1 DEF SummaryFits, Days!Idle
  <2> QED BY <1>6, <2>2, <2>3
<1>12. CASE Days!CountToday
  <2> DEFINE S == Days!Bucket(summary.day)
  <2>1. /\ summary.stage = "asked"
        /\ summary' = [summary EXCEPT !.pending = @ \ {"today"}, !.today = S]
    BY <1>12 DEF Days!CountToday, Days!Ran
  <2>2. /\ S \subseteq Days!Recorded /\ S \subseteq Days!Counted(Days!Recorded)
        /\ \A e : e \in S <=> e \in Days!Counted(Days!Recorded) /\ InBounds(e)
    BY <1>4 DEF Days!Bucket, InBounds
  <2> HIDE DEF S
  <2>3. SummaryTyped'
    BY <1>4, <1>5, <2>1, <2>2 DEF SummaryTyped
  <2>4. /\ summary'.before = summary.before /\ summary'.cycle = summary.cycle
        /\ summary'.ofCycle = summary.ofCycle /\ summary'.stage = "asked"
        /\ summary'.backend = summary.backend /\ summary'.today = S /\ summary'.day = summary.day
        /\ summary'.pending = summary.pending \ {"today"}
    BY <1>5, <2>1 DEF SummaryTyped
  <2>5. CycleTold => CycleTold'
    BY <1>1, <1>4, <2>4 DEF CycleTold
  <2>6. \A e : InBounds(e)' = InBounds(e)
    BY <1>1, <1>3, <2>4 DEF InBounds
  <2>7. TodayTold'
    <3>1. Days!Counted(summary.before) \subseteq Days!Counted(Days!Recorded)
      BY <1>5, <1>7 DEF SummaryTyped
    <3> QED BY <1>4, <2>2, <2>4, <2>6, <3>1 DEF TodayTold
  <2>8. SummaryFits'
    <3>1. summary'.pending \cap {"active", "cycle"} = summary.pending \cap {"active", "cycle"}
      BY <2>4
    <3> QED BY <1>5, <2>1, <2>4, <2>5, <2>7, <3>1 DEF SummaryFits
  <2> QED BY <1>6, <2>3, <2>8
<1>13. CASE Days!ReadActiveCycle
  <2>1. /\ summary.stage = "asked"
        /\ summary' = [summary EXCEPT !.pending = (@ \ {"active"}) \cup {"cycle"}, !.cycle = cycle]
    BY <1>13 DEF Days!ReadActiveCycle, Days!Ran
  <2>2. SummaryTyped'
    BY <1>4, <1>5, <2>1 DEF SummaryTyped
  <2>3. /\ summary'.before = summary.before /\ summary'.stage = "asked"
        /\ summary'.backend = summary.backend /\ summary'.today = summary.today
        /\ summary'.day = summary.day
        /\ summary'.pending = (summary.pending \ {"active"}) \cup {"cycle"}
    BY <1>5, <2>1 DEF SummaryTyped
  <2>4. \A e : InBounds(e)' = InBounds(e)
    BY <1>1, <1>3, <2>3 DEF InBounds
  <2>5. TodayTold => TodayTold'
    BY <1>4, <2>3, <2>4 DEF TodayTold
  <2>6. /\ "cycle" \in summary'.pending \cap {"active", "cycle"}
        /\ "today" \notin summary'.pending => "today" \notin summary.pending
    BY <2>3
  <2>7. SummaryFits'
    BY <1>5, <2>1, <2>3, <2>5, <2>6 DEF SummaryFits
  <2> QED BY <1>6, <2>2, <2>7
<1>14. CASE Days!CountCycle
  <2>1. /\ summary.stage = "asked"
        /\ summary' = [summary EXCEPT !.pending = @ \ {"cycle"}, !.ofCycle = Of(summary.cycle)]
    BY <1>14 DEF Days!CountCycle, Days!Ran
  <2> HIDE DEF Of
  <2>2. SummaryTyped'
    BY <1>4, <1>5, <1>8, <2>1 DEF SummaryTyped
  <2>3. /\ summary'.before = summary.before /\ summary'.stage = "asked"
        /\ summary'.backend = summary.backend /\ summary'.today = summary.today
        /\ summary'.day = summary.day /\ summary'.cycle = summary.cycle
        /\ summary'.ofCycle = Of(summary.cycle)
        /\ summary'.pending = summary.pending \ {"cycle"}
    BY <1>5, <2>1 DEF SummaryTyped
  <2>4. \A e : InBounds(e)' = InBounds(e)
    BY <1>1, <1>3, <2>3 DEF InBounds
  <2>5. TodayTold => TodayTold'
    BY <1>4, <2>3, <2>4 DEF TodayTold
  <2>6. CycleTold'
    <3>1. Days!Counted(summary.before) \subseteq Days!Counted(Days!Recorded)
      BY <1>5, <1>7 DEF SummaryTyped
    <3> QED BY <1>1, <1>4, <1>8, <2>3, <3>1 DEF CycleTold
  <2>7. "today" \notin summary'.pending => "today" \notin summary.pending
    BY <2>3
  <2>8. SummaryFits'
    BY <1>5, <2>1, <2>3, <2>5, <2>6, <2>7 DEF SummaryFits
  <2> QED BY <1>6, <2>2, <2>8
<1>15. CASE Days!AnswerFromTables
  <2>1. /\ summary.stage = "asked" /\ summary.pending = {}
        /\ summary' = [summary EXCEPT !.stage = "answered"]
    BY <1>15 DEF Days!AnswerFromTables
  <2>2. SummaryTyped'
    BY <1>4, <1>5, <2>1 DEF SummaryTyped
  <2>3. /\ summary'.before = summary.before /\ summary'.stage = "answered"
        /\ summary'.backend = summary.backend /\ summary'.today = summary.today
        /\ summary'.day = summary.day /\ summary'.cycle = summary.cycle
        /\ summary'.ofCycle = summary.ofCycle
    BY <1>5, <2>1 DEF SummaryTyped
  <2>4. \A e : InBounds(e)' = InBounds(e)
    BY <1>1, <1>3, <2>3 DEF InBounds
  <2>5. TodayTold'
    BY <1>4, <1>5, <2>1, <2>3, <2>4 DEF TodayTold, SummaryFits
  <2>6. CycleTold'
    BY <1>1, <1>4, <1>5, <2>1, <2>3 DEF CycleTold, SummaryFits
  <2>7. SummaryFits'
    BY <1>5, <2>1, <2>3, <2>5, <2>6 DEF SummaryFits
  <2> QED BY <1>6, <2>2, <2>7
<1>16. CASE Days!Receive
  <2>1. summary' = Days!Idle
    BY <1>16 DEF Days!Receive
  <2>2. SummaryTyped'
    BY <1>4, <2>1 DEF SummaryTyped, Days!Idle
  <2>3. SummaryFits'
    BY <2>1 DEF SummaryFits, Days!Idle
  <2> QED BY <1>6, <2>2, <2>3
<1> QED BY <1>9, <1>10, <1>11, <1>12, <1>13, <1>14, <1>15, <1>16

LEMMA DaysStep == DaysInv /\ Days!Next => DaysInv'
BY RecordStep, PassingStep, SummaryStep DEF Days!Next

-----------------------------------------------------------------------------

LEMMA LeastOf ==
  ASSUME NEW P \in SUBSET Nat, P # {}
  PROVE  \E k \in P : \A j \in P : k <= j
<1>1. IsWellFoundedOn(OpToRel(<, Nat), Nat)
  BY NatLessThanWellFounded
<1>2. PICK k \in P : \A j \in P : <<j, k>> \notin OpToRel(<, Nat)
  BY <1>1, WFMin
<1>3. \A j \in P : ~(j < k)
  BY <1>2 DEF OpToRel
<1> QED BY <1>3

\* The bounds of successive days leave no gap and do not overlap.
LEMMA OneDay ==
  ASSUME zone \in Days!Zones, NEW first \in Int, NEW last \in Int, NEW i \in Int, first <= last,
         Days!Midnight(first) <= i, i < Days!Midnight(last + 1)
  PROVE  \E d \in first..last : /\ Days!Midnight(d) <= i /\ i < Days!Midnight(d + 1)
                                /\ \A o \in first..last :
                                     Days!Midnight(o) <= i /\ i < Days!Midnight(o + 1) => o = d
<1> DEFINE Ends(k) == i < Days!Midnight(first + k + 1)
           P == {k \in Nat : Ends(k)}
<1>1. \A d \in Int : Days!Midnight(d) \in Int
  BY MidnightNear
<1>2. last - first \in P
  <2>1. last - first \in Nat /\ first + (last - first) + 1 = last + 1
    OBVIOUS
  <2> QED BY <2>1
<1>3. PICK k \in P : \A j \in P : k <= j
  BY <1>2, LeastOf
<1> DEFINE d == first + k
<1>4. k \in Nat /\ k <= last - first /\ d \in first..last /\ i < Days!Midnight(d + 1)
  <2>1. k \in Nat /\ Ends(k)
    BY <1>3
  <2>2. k <= last - first
    <3> HIDE DEF P
    <3> QED BY <1>2, <1>3
  <2>3. d \in first..last
    BY <2>1, <2>2
  <2>4. i < Days!Midnight(d + 1)
    BY <2>1
  <2> QED BY <2>1, <2>2, <2>3, <2>4
<1>5. Days!Midnight(d) <= i
  <2>1. CASE k = 0
    <3>1. d = first
      BY <2>1
    <3> QED BY <3>1
  <2>2. CASE k # 0
    <3>1. k - 1 \in Nat /\ ~(k <= k - 1)
      BY <1>4, <2>2
    <3>2. ~Ends(k - 1)
      BY <1>3, <3>1
    <3>3. first + (k - 1) + 1 = d /\ d \in Int
      BY <1>4
    <3>4. ~(i < Days!Midnight(d))
      BY <3>2, <3>3
    <3> QED BY <1>1, <3>3, <3>4
  <2> QED BY <2>1, <2>2
<1> HIDE DEF P, d
<1>6. ASSUME NEW o \in first..last, Days!Midnight(o) <= i, i < Days!Midnight(o + 1), o # d
      PROVE  FALSE
  <2>1. d \in Int /\ o \in Int /\ d + 1 \in Int /\ o + 1 \in Int
    BY <1>4
  <2>2. CASE o < d
    <3>1. Days!Midnight(o + 1) <= Days!Midnight(d)
      BY <2>1, <2>2, MidnightsFollow
    <3> QED BY <1>1, <1>5, <1>6, <2>1, <3>1
  <2>3. CASE d < o
    <3>1. Days!Midnight(d + 1) <= Days!Midnight(o)
      BY <2>1, <2>3, MidnightsFollow
    <3> QED BY <1>1, <1>4, <1>6, <2>1, <3>1
  <2> QED BY <1>6, <2>1, <2>2, <2>3
<1> QED BY <1>4, <1>5, <1>6

LEMMA DaysImply == DaysInv => DaysRight
<1> SUFFICES ASSUME DaysInv PROVE DaysRight
  OBVIOUS
<1>1. /\ zone \in Days!Zones /\ clock \in 0..MaxClock /\ clock \in Int
      /\ events \in [Days!Recorded -> Days!Row]
  BY DEF DaysInv, EventsTyped
<1>2. \A e \in Days!Recorded : events[e].at \in Int
  BY <1>1, ReadsAssumption DEF Days!Row
<1>3. Days!TypeOK
  BY DEF DaysInv, EventsTyped, SummaryTyped, Days!TypeOK
<1> DEFINE today == Days!DayKey(clock)
<1>4. today \in Int /\ Days!Labels = (today - (Window - 1))..today /\ Window \in Nat \ {0}
  BY <1>1, KeyIsDay, ReadsAssumption DEF Days!Labels
<1>5. \A S : Days!Counted(S) \subseteq S
  BY DEF Days!Counted
<1> HIDE DEF today
<1>6. ASSUME NEW d \in Int, Days!BeginsOnce(d), Days!BeginsOnce(d + 1)
      PROVE  Days!Bucket(d) = Days!Point(d)
  <2>1. \A e \in Days!Counted(Days!Recorded) :
          Days!Midnight(d) <= events[e].at /\ events[e].at < Days!Midnight(d + 1)
            <=> Days!DayKey(events[e].at) = d
    BY <1>1, <1>2, <1>5, <1>6, DayBetween
  <2> QED BY <2>1 DEF Days!Bucket, Days!Point
<1>7. Days!DaysAgree
  BY <1>4, <1>6 DEF Days!DaysAgree
<1>8. ASSUME NEW e \in Days!Counted(Days!Recorded),
             events[e].at >= Days!Midnight(today - (Window - 1)),
             events[e].at < Days!Midnight(today + 1)
      PROVE  Days!Cardinality({d \in Days!Labels : e \in Days!Bucket(d)}) = 1
  <2> DEFINE first == today - (Window - 1)
             i == events[e].at
  <2>1. i \in Int /\ first \in Int /\ first <= today
    BY <1>2, <1>4, <1>5, <1>8
  <2>2. Days!Midnight(first) \in Int
    BY <1>1, <2>1, MidnightNear
  <2>3. Days!Midnight(first) <= i /\ i < Days!Midnight(today + 1)
    BY <1>8, <2>1, <2>2
  <2>4. \A d : e \in Days!Bucket(d) <=> Days!Midnight(d) <= i /\ i < Days!Midnight(d + 1)
    BY <1>8 DEF Days!Bucket
  <2>5. Days!Labels = first..today
    BY <1>4
  <2> HIDE DEF first, i
  <2>6. PICK d \in first..today : /\ Days!Midnight(d) <= i /\ i < Days!Midnight(d + 1)
                                  /\ \A o \in first..today :
                                       Days!Midnight(o) <= i /\ i < Days!Midnight(o + 1) => o = d
    BY <1>1, <1>4, <2>1, <2>3, OneDay
  <2>7. {o \in Days!Labels : e \in Days!Bucket(o)} = {d}
    BY <2>4, <2>5, <2>6
  <2> QED BY <2>7, FS_Singleton, DaysCardinality
<1>9. ASSUME NEW e \in Days!Counted(Days!Recorded), NEW d \in Days!Labels,
             e \in Days!Bucket(d) \ Days!Point(d)
      PROVE  \E o \in {d, d + 1} : ~Days!BeginsOnce(o) /\ Days!DayKey(events[e].at) \in {d - 1, d + 1}
  <2>1. d \in Int /\ events[e].at \in Int
    BY <1>2, <1>4, <1>5, <1>9
  <2>2. ~(Days!BeginsOnce(d) /\ Days!BeginsOnce(d + 1))
    BY <1>6, <1>9, <2>1
  <2>3. /\ Days!Midnight(d) <= events[e].at /\ events[e].at < Days!Midnight(d + 1)
        /\ Days!DayKey(events[e].at) # d
    BY <1>9 DEF Days!Bucket, Days!Point
  <2>4. Days!DayKey(events[e].at) \in {d - 1, d + 1}
    BY <1>1, <2>1, <2>3, DayNearby
  <2> QED BY <2>2, <2>4
<1>10. Days!CountedOnce
  BY <1>8, <1>9 DEF Days!CountedOnce, today
<1>11. Days!SummaryTrue
  <2>1. SUFFICES ASSUME summary.stage = "answered"
        PROVE  /\ CycleTold
               /\ (summary.backend = "tables" => /\ Days!BeginsOnce(summary.day)
                                                 /\ Days!BeginsOnce(summary.day + 1)) => DayTold
    BY DEF Days!SummaryTrue, CycleTold, DayTold
  <2>2. /\ CycleTold
        /\ summary.backend = "tables" => TodayTold
        /\ summary.backend = "memory" => DayTold
        /\ summary.backend \in {"memory", "tables"} /\ summary.day \in Int
        /\ summary.today \subseteq Days!Recorded /\ summary.before \subseteq Days!Recorded
    BY <2>1 DEF DaysInv, SummaryFits, SummaryTyped
  <2>3. ASSUME Days!BeginsOnce(summary.day), Days!BeginsOnce(summary.day + 1), TodayTold
        PROVE  DayTold
    <3>1. \A e \in Days!Recorded : InBounds(e) <=> Days!DayKey(events[e].at) = summary.day
      BY <1>1, <1>2, <2>2, <2>3, DayBetween DEF InBounds
    <3> QED BY <1>5, <2>2, <2>3, <3>1 DEF TodayTold, DayTold
  <2> QED BY <2>2, <2>3
<1> QED BY <1>3, <1>7, <1>10, <1>11 DEF DaysRight

\* In every zone, whenever its clocks are changed: SQL counts for a day what formatting
\* counts for it if its midnights are shown once, every activity is counted for one day,
\* and a summary has what belongs to its day and its cycle and nothing else.
THEOREM DaysAreCounted == ReadsSpec => []DaysRight
<1>1. ReadsInit => DaysInv
  BY DaysInit DEF ReadsInit
<1>2. DaysInv /\ [ReadsNext]_<<vars, listVars, dayVars, disputeVars, reading>> => DaysInv'
  <2>1. ASSUME DaysInv, UNCHANGED dayVars PROVE DaysInv'
    <3>1. UNCHANGED <<zone, clock, cycle, events, summary>>
      BY <2>1 DEF dayVars
    <3>2. \A e : /\ InBounds(e)' = InBounds(e)
                 /\ Days!DayKey(events[e].at)' = Days!DayKey(events[e].at)
      BY <3>1 DEF InBounds, Days!Midnight, Days!DayKey, Days!LocalTime, Days!Offset
    <3>3. EventsTyped' /\ SummaryTyped'
      BY <2>1, <3>1 DEF DaysInv, EventsTyped, SummaryTyped, Days!Recorded, Days!Counted
    <3>4. SummaryFits'
      BY <2>1, <3>1, <3>2
         DEF DaysInv, SummaryFits, CycleTold, TodayTold, DayTold, Days!Counted
    <3> QED BY <3>3, <3>4 DEF DaysInv
  <2> QED BY <2>1, DaysStep DEF ReadsNext
<1>3. ReadsSpec => []DaysInv
  BY <1>1, <1>2, PTL DEF ReadsSpec
<1> QED BY <1>3, DaysImply, PTL

-----------------------------------------------------------------------------
(* Rows in order.                                                          *)

Sorted(R, S, q) ==
  /\ q \in [1..Cardinality(S) -> S]
  /\ \A i, j \in 1..Cardinality(S) : i < j => <<q[i], q[j]>> \in R

\* A finite set that is totally ordered can be put in order: by rank.
LEMMA SortedExists ==
  ASSUME NEW S, IsFiniteSet(S), NEW R, Orders(R, S)
  PROVE  \E q : Sorted(R, S, q)
<1> DEFINE n == Cardinality(S)
           rank(a) == Cardinality(Preceding(R, S, a))
           q == [i \in 1..n |-> CHOOSE a \in S : rank(a) = i - 1]
<1>1. n \in Nat
  BY FS_CardinalityType
<1>2. ASSUME NEW a \in S
      PROVE  IsFiniteSet(Preceding(R, S, a)) /\ rank(a) \in Nat
  BY FS_Subset, FS_CardinalityType DEF Preceding
<1>3. ASSUME NEW i \in 1..n
      PROVE  \E a \in S : rank(a) = i - 1
  <2> DEFINE A == FirstOf(R, S, i)
             B == FirstOf(R, S, i - 1)
  <2>1. i \in 0..n /\ i - 1 \in 0..n /\ i \in Int
    BY <1>1
  <2>2. Cardinality(A) = i /\ Cardinality(B) = i - 1
    <3> HIDE DEF n
    <3>1. \A k \in 0..n : Cardinality(FirstOf(R, S, k)) = k
      BY FirstCount DEF n
    <3> QED BY <2>1, <3>1
  <2>3. A \subseteq S /\ B \subseteq S
    BY DEF FirstOf
  <2>4. IsFiniteSet(A) /\ IsFiniteSet(B)
    BY <2>3, FS_Subset
  <2>5. ~(A \subseteq B)
    <3>1. ASSUME A \subseteq B PROVE Cardinality(A) <= Cardinality(B)
      <4> HIDE DEF A, B
      <4> QED BY <2>4, <3>1, FS_Subset
    <3> HIDE DEF A, B
    <3> QED BY <2>1, <2>2, <3>1
  <2>6. PICK a \in S : rank(a) < i /\ ~(rank(a) < i - 1)
    BY <2>5 DEF FirstOf
  <2>7. rank(a) = i - 1
    <3>1. rank(a) \in Nat
      BY <1>2
    <3> HIDE DEF rank
    <3> QED BY <2>1, <2>6, <3>1
  <2> QED BY <2>7
<1>4. \A i \in 1..n : q[i] \in S /\ rank(q[i]) = i - 1
  <2> TAKE i \in 1..n
  <2> HIDE DEF rank
  <2> QED BY <1>3
<1>5. ASSUME NEW i \in 1..n, NEW j \in 1..n, i < j
      PROVE  <<q[i], q[j]>> \in R
  <2>1. q[i] \in S /\ q[j] \in S /\ rank(q[i]) = i - 1 /\ rank(q[j]) = j - 1
    BY <1>4
  <2> HIDE DEF q
  <2>2. i \in Int /\ j \in Int
    OBVIOUS
  <2>3. ASSUME <<q[j], q[i]>> \in R PROVE FALSE
    <3>1. Preceding(R, S, q[j]) \in SUBSET Preceding(R, S, q[i])
      BY <2>1, <2>3 DEF Preceding, Orders
    <3>2. rank(q[j]) <= rank(q[i])
      BY <1>2, <2>1, <3>1, FS_Subset
    <3> HIDE DEF rank
    <3> QED BY <1>5, <2>1, <2>2, <3>2
  <2>4. q[i] # q[j]
    <3> HIDE DEF rank
    <3> QED BY <1>5, <2>1, <2>2
  <2> QED BY <2>1, <2>3, <2>4 DEF Orders
<1>6. q \in [1..n -> S]
  <2>1. q = [i \in 1..n |-> q[i]]
    OBVIOUS
  <2> HIDE DEF q
  <2> QED BY <1>4, <2>1
<1> HIDE DEF q
<1> QED BY <1>5, <1>6 DEF Sorted

\* A sorted sequence has every member.
LEMMA SortedOnto ==
  ASSUME NEW S, IsFiniteSet(S), NEW R, Orders(R, S), NEW q, Sorted(R, S, q)
  PROVE  \A a \in S : \E i \in 1..Cardinality(S) : q[i] = a
<1> DEFINE n == Cardinality(S)
<1>1. n \in Nat
  BY FS_CardinalityType
<1>2. IsFiniteSet(1..n) /\ Cardinality(1..n) = n
  <2> HIDE DEF n
  <2>1. 1 \in Int /\ n \in Int
    BY <1>1
  <2> QED BY <1>1, <2>1, FS_Interval
<1>3. \A i, j \in 1..n : q[i] = q[j] => i = j
  <2> SUFFICES ASSUME NEW i \in 1..n, NEW j \in 1..n, q[i] = q[j] PROVE i = j
    OBVIOUS
  <2>1. q[i] \in S /\ <<q[i], q[i]>> \notin R
    BY DEF Sorted, Orders
  <2>2. ~(i < j) /\ ~(j < i)
    BY <2>1 DEF Sorted
  <2>3. i \in Int /\ j \in Int
    OBVIOUS
  <2> QED BY <2>2, <2>3
<1>4. q \in Injection(1..n, S)
  BY <1>3 DEF Sorted, Injection, IsInjective
<1>5. q \in Surjection(1..n, S)
  <2> HIDE DEF n
  <2> QED BY <1>2, <1>4, FS_Injection DEF n
<1> QED BY <1>5 DEF Surjection

\* There is one way to sort a set.
LEMMA SortedUnique ==
  ASSUME NEW S, IsFiniteSet(S), NEW R, Orders(R, S), NEW q, Sorted(R, S, q),
         NEW s, Sorted(R, S, s)
  PROVE  q = s
<1> DEFINE n == Cardinality(S)
           D == {i \in 1..n : q[i] # s[i]}
<1>1. n \in Nat
  BY FS_CardinalityType
<1>2. ASSUME NEW f, NEW g, Sorted(R, S, f), Sorted(R, S, g), NEW i \in 1..n, f[i] # g[i],
             \A k \in 1..n : k < i => f[k] = g[k]
      PROVE  <<f[i], g[i]>> \notin R
  <2>1. f[i] \in S /\ g[i] \in S
    BY <1>2 DEF Sorted
  <2>2. PICK j \in 1..n : g[j] = f[i]
    BY <1>2, <2>1, SortedOnto
  <2>3. ~(j < i)
    <3>1. ASSUME j < i PROVE FALSE
      <4>1. f[j] = f[i] /\ <<f[j], f[i]>> \in R
        BY <1>2, <2>2, <3>1 DEF Sorted
      <4> QED BY <2>1, <4>1 DEF Orders
    <3> QED BY <3>1
  <2>4. j # i
    BY <1>2, <2>2
  <2>5. i < j
    <3>1. i \in Int /\ j \in Int
      OBVIOUS
    <3> QED BY <2>3, <2>4, <3>1
  <2>6. <<g[i], f[i]>> \in R
    BY <1>2, <2>2, <2>5 DEF Sorted
  <2> QED BY <2>1, <2>6 DEF Orders
<1>3. D = {}
  <2>1. SUFFICES ASSUME D # {} PROVE FALSE
    OBVIOUS
  <2>2. D \in SUBSET Nat
    BY <1>1
  <2>3. PICK i \in D : \A k \in D : i <= k
    <3> HIDE DEF D
    <3> QED BY <2>1, <2>2, LeastOf
  <2>4. i \in 1..n /\ q[i] # s[i] /\ \A k \in 1..n : k < i => q[k] = s[k]
    <3>1. i \in Int /\ \A k \in 1..n : k \in Int
      OBVIOUS
    <3> QED BY <2>3, <3>1
  <2>5. <<q[i], s[i]>> \notin R /\ <<s[i], q[i]>> \notin R
    <3> HIDE DEF D, n
    <3>1. \A k \in 1..n : k < i => s[k] = q[k]
      BY <2>4
    <3> QED BY <1>2, <2>4, <3>1
  <2>6. q[i] \in S /\ s[i] \in S
    BY <2>4 DEF Sorted
  <2> QED BY <2>4, <2>5, <2>6 DEF Orders
<1>4. q \in [1..n -> S] /\ s \in [1..n -> S]
  BY DEF Sorted
<1>5. \A i \in 1..n : q[i] = s[i]
  BY <1>3
<1>6. q = [i \in 1..n |-> q[i]] /\ s = [i \in 1..n |-> s[i]]
  BY <1>4
<1> QED BY <1>5, <1>6

\* What is left of it from some place on is sorted.
LEMMA SortedRest ==
  ASSUME NEW S, IsFiniteSet(S), NEW R, Orders(R, S), NEW q, Sorted(R, S, q),
         NEW first \in 1..(Cardinality(S) + 1), NEW T,
         \A a : a \in T <=> \E i \in first..Cardinality(S) : q[i] = a
  PROVE  /\ T \subseteq S /\ IsFiniteSet(T)
         /\ Sorted(R, T, SubSeq(q, first, Cardinality(S)))
<1> DEFINE n == Cardinality(S)
           s == SubSeq(q, first, n)
           m == n - first + 1
<1>1. n \in Nat /\ n \in Int /\ first \in Int /\ m \in Nat
  BY FS_CardinalityType
<1>2. \A i \in first..n : i \in 1..n /\ q[i] \in S
  BY <1>1 DEF Sorted
<1>3. T \subseteq S /\ IsFiniteSet(T)
  <2>1. T \in SUBSET S
    BY <1>2
  <2> QED BY <2>1, FS_Subset
<1>4. /\ s \in Seq(S) /\ Len(s) = m
      /\ \A i \in 1..m : s[i] = q[first + i - 1]
  <2> HIDE DEF n
  <2>1. /\ SubSeq(q, first, n) \in Seq(S)
        /\ Len(SubSeq(q, first, n)) = IF first <= n THEN n - first + 1 ELSE 0
        /\ \A i \in 1..(n - first + 1) : SubSeq(q, first, n)[i] = q[first + i - 1]
    BY <1>1, <1>2, SubSeqProperties
  <2> QED BY <1>1, <2>1 DEF n
<1>5. DOMAIN s = 1..m
  <2> HIDE DEF s, m
  <2> QED BY <1>1, <1>4
<1> HIDE DEF s
<1>6. \A i \in 1..m : first + i - 1 \in 1..n /\ s[i] \in T
  <2> TAKE i \in 1..m
  <2>1. first + i - 1 \in first..n
    BY <1>1
  <2> QED BY <1>2, <1>4, <2>1
<1>7. \A i, j \in 1..m : i < j => <<s[i], s[j]>> \in R
  <2> SUFFICES ASSUME NEW i \in 1..m, NEW j \in 1..m, i < j PROVE <<s[i], s[j]>> \in R
    OBVIOUS
  <2>1. first + i - 1 < first + j - 1
    BY <1>1
  <2> QED BY <1>4, <1>6, <2>1 DEF Sorted
<1>8. s \in [1..m -> T]
  BY <1>4, <1>5, <1>6
<1>9. s \in Bijection(1..m, T)
  <2>1. \A i, j \in 1..m : s[i] = s[j] => i = j
    <3> SUFFICES ASSUME NEW i \in 1..m, NEW j \in 1..m, s[i] = s[j] PROVE i = j
      OBVIOUS
    <3>1. <<s[i], s[i]>> \notin R
      BY <1>3, <1>6 DEF Orders
    <3>2. ~(i < j) /\ ~(j < i) /\ i \in Int /\ j \in Int
      BY <1>7, <3>1
    <3> QED BY <3>2
  <2>2. \A a \in T : \E i \in 1..m : s[i] = a
    <3> TAKE a \in T
    <3>1. PICK k \in first..n : q[k] = a
      OBVIOUS
    <3>2. k - first + 1 \in 1..m /\ first + (k - first + 1) - 1 = k
      BY <1>1
    <3> QED BY <1>4, <3>1, <3>2
  <2> HIDE DEF m
  <2> QED BY <1>8, <2>1, <2>2 DEF Bijection, Injection, Surjection, IsInjective
<1>10. Cardinality(T) = m
  <2>1. IsFiniteSet(1..m) /\ Cardinality(1..m) = m
    <3> HIDE DEF m
    <3>1. 1 \in Int /\ m \in Int /\ m - 1 + 1 = m /\ (1 > m => m = 0)
      BY <1>1
    <3>2. IsFiniteSet(1..m) /\ Cardinality(1..m) = IF 1 > m THEN 0 ELSE m - 1 + 1
      BY <3>1, FS_Interval
    <3> QED BY <3>1, <3>2
  <2>2. ExistsBijection(1..m, T)
    BY <1>9 DEF ExistsBijection
  <2> HIDE DEF m
  <2> QED BY <2>1, <2>2, FS_Bijection
<1>11. Sorted(R, T, s)
  <2> HIDE DEF m
  <2> QED BY <1>7, <1>8, <1>10 DEF Sorted
<1> QED BY <1>3, <1>11 DEF s

-----------------------------------------------------------------------------
(* The order of a list.                                                    *)

\* Whether key k with id r comes before key l with id o.
Prior(k, r, l, o) ==
  IF listing.order = "asc"
  THEN Paging!Text(k) < Paging!Text(l) \/ (Paging!Text(k) = Paging!Text(l) /\ r < o)
  ELSE Paging!Text(l) < Paging!Text(k) \/ (Paging!Text(k) = Paging!Text(l) /\ o < r)

ListTyped ==
  /\ listing \in [sort : Paging!Sorts, order : Paging!Orders]
  /\ present \in Paging!Times
  /\ entries \in [Rows -> [status : {"NONE", "SHOWN", "HIDDEN", "DELETED"}, key : Paging!Keys]]

\* The instance counts as this module does.
LEMMA PagingCardinality == \A S : Paging!Cardinality(S) = Cardinality(S)
BY DEF Paging!Cardinality, Cardinality

\* A key as a text is a number, and only the null key is 0.
LEMMA TextTyped ==
  /\ Paging!Text({}) = 0
  /\ \A t : Paging!Text({t}) = 1 + t
  /\ \A k \in Paging!Keys : k = {} \/ \E t \in Nat : k = {t}
<1>1. \A t : (CHOOSE x \in {t} : TRUE) = t
  OBVIOUS
<1>2. \A t : {t} # {}
  OBVIOUS
<1>3. Paging!Times \subseteq Nat
  BY ReadsAssumption DEF Paging!Times
<1>4. \A k \in Paging!Keys : k = {} \/ \E t \in Nat : k = {t}
  BY <1>3 DEF Paging!Keys, Paging!Null
<1> QED BY <1>1, <1>2, <1>4 DEF Paging!Text, Paging!Null

\* Keys are equal when their texts are.
LEMMA TextsDiffer ==
  ASSUME NEW k \in Paging!Keys, NEW l \in Paging!Keys
  PROVE  /\ Paging!Text(k) \in Nat /\ Paging!Text(l) \in Nat
         /\ Paging!Text(k) = Paging!Text(l) <=> k = l
         /\ Paging!Text(k) = 0 <=> k = {}
         /\ Paging!Below(k, l) <=> k # {} /\ Paging!Text(k) < Paging!Text(l)
         /\ Paging!Same(k, l) <=> k # {} /\ k = l
<1>1. CASE k = {}
  <2>1. CASE l = {}
    BY <1>1, <2>1, TextTyped DEF Paging!Below, Paging!Same
  <2>2. CASE l # {}
    <3>1. PICK t \in Nat : l = {t}
      BY <2>2, TextTyped
    <3> QED BY <1>1, <3>1, TextTyped DEF Paging!Below, Paging!Same
  <2> QED BY <2>1, <2>2
<1>2. CASE k # {}
  <2>1. PICK t \in Nat : k = {t}
    BY <1>2, TextTyped
  <2>2. CASE l = {}
    BY <2>1, <2>2, TextTyped DEF Paging!Below, Paging!Same
  <2>3. CASE l # {}
    <3>1. PICK u \in Nat : l = {u}
      BY <2>3, TextTyped
    <3>2. Paging!Text(k) = 1 + t /\ Paging!Text(l) = 1 + u
      BY <2>1, <3>1, TextTyped
    <3>3. k = l <=> t = u
      BY <2>1, <3>1
    <3>4. (Paging!Below(k, l) <=> t < u) /\ (Paging!Same(k, l) <=> t = u)
      BY <2>1, <3>1 DEF Paging!Below, Paging!Same
    <3> QED BY <1>2, <3>2, <3>3, <3>4
  <2> QED BY <2>2, <2>3
<1> QED BY <1>1, <1>2

\* It is a total order.
LEMMA PriorOrders ==
  ASSUME NEW k \in Paging!Keys, NEW l \in Paging!Keys, NEW m \in Paging!Keys,
         NEW r \in Nat, NEW o \in Nat, NEW p \in Nat
  PROVE  /\ ~Prior(k, r, k, r)
         /\ Prior(k, r, l, o) \/ Prior(l, o, k, r) \/ (k = l /\ r = o)
         /\ Prior(k, r, l, o) /\ Prior(l, o, m, p) => Prior(k, r, m, p)
<1>1. /\ Paging!Text(k) \in Nat /\ Paging!Text(l) \in Nat /\ Paging!Text(m) \in Nat
      /\ Paging!Text(k) = Paging!Text(l) => k = l
  BY TextsDiffer
<1> QED BY <1>1 DEF Prior

\* Every row has a key and a number.
LEMMA EntryTyped ==
  ASSUME ListTyped, NEW r \in Rows
  PROVE  entries[r].key \in Paging!Keys /\ r \in Nat
BY ReadsAssumption DEF ListTyped

\* The ORDER BY of the SQL is the order by text and row.
LEMMA OrderIsPrior ==
  ASSUME ListTyped, NEW r \in Rows, NEW o \in Rows
  PROVE  Paging!OrderBy(r, o) <=> Prior(entries[r].key, r, entries[o].key, o)
<1> DEFINE k == entries[r].key
           l == entries[o].key
<1>1. k \in Paging!Keys /\ l \in Paging!Keys /\ r \in Nat /\ o \in Nat
  BY EntryTyped
<1>2. Paging!Ascending(r, o) <=> (k = {} /\ l # {}) \/ Paging!Below(k, l) \/ (k = l /\ r < o)
  BY DEF Paging!Ascending, Paging!Null
<1>3. Paging!Ascending(o, r) <=> (l = {} /\ k # {}) \/ Paging!Below(l, k) \/ (k = l /\ o < r)
  BY DEF Paging!Ascending, Paging!Null
<1> HIDE DEF k, l
<1>4. /\ Paging!Text(k) \in Nat /\ Paging!Text(l) \in Nat
      /\ Paging!Text(k) = Paging!Text(l) <=> k = l
      /\ Paging!Text(k) = 0 <=> k = {}
      /\ Paging!Text(l) = 0 <=> l = {}
      /\ Paging!Below(k, l) <=> k # {} /\ Paging!Text(k) < Paging!Text(l)
      /\ Paging!Below(l, k) <=> l # {} /\ Paging!Text(l) < Paging!Text(k)
  BY <1>1, TextsDiffer
<1>5. Paging!Ascending(r, o) <=>
        Paging!Text(k) < Paging!Text(l) \/ (Paging!Text(k) = Paging!Text(l) /\ r < o)
  BY <1>2, <1>4
<1>6. Paging!Ascending(o, r) <=>
        Paging!Text(l) < Paging!Text(k) \/ (Paging!Text(k) = Paging!Text(l) /\ o < r)
  BY <1>3, <1>4
<1> QED BY <1>5, <1>6 DEF Paging!OrderBy, Prior, k, l

\* What the WHERE after a cursor lets through comes later in that order.
LEMMA WhereIsPrior ==
  ASSUME ListTyped, NEW c \in Paging!Cursor, NEW r \in Rows
  PROVE  Paging!KeysetWhere(c, r) <=> Prior(c.primary, c.id, entries[r].key, r)
<1> DEFINE k == c.primary
           l == entries[r].key
<1>1. k \in Paging!Keys /\ l \in Paging!Keys /\ r \in Nat /\ c.id \in Nat
  <2>1. c.primary \in Paging!Keys /\ c.id \in Rows \cup {0}
    BY DEF Paging!Cursor
  <2>2. l \in Paging!Keys /\ r \in Nat
    BY EntryTyped
  <2>3. \A i \in Rows \cup {0} : i \in Nat
    BY ReadsAssumption
  <2> QED BY <2>1, <2>2, <2>3
<1>2. listing.order = "asc" \/ listing.order = "desc"
  BY DEF ListTyped, Paging!Orders
<1>3. CASE listing.order = "asc"
  <2>1. Paging!KeysetWhere(c, r) <=>
          IF k = {} THEN (l = {} /\ r > c.id) \/ l # {}
          ELSE Paging!Below(k, l) \/ (Paging!Same(l, k) /\ r > c.id)
    BY <1>3 DEF Paging!KeysetWhere, Paging!Null
  <2> HIDE DEF k, l
  <2>2. /\ Paging!Text(k) \in Nat /\ Paging!Text(l) \in Nat
        /\ Paging!Text(k) = Paging!Text(l) <=> k = l
        /\ Paging!Text(k) = 0 <=> k = {}
        /\ Paging!Text(l) = 0 <=> l = {}
        /\ Paging!Below(k, l) <=> k # {} /\ Paging!Text(k) < Paging!Text(l)
        /\ Paging!Same(l, k) <=> l # {} /\ l = k
    BY <1>1, TextsDiffer
  <2>3. Paging!KeysetWhere(c, r) <=>
          Paging!Text(k) < Paging!Text(l) \/ (Paging!Text(k) = Paging!Text(l) /\ c.id < r)
    BY <1>1, <2>1, <2>2
  <2> QED BY <1>3, <2>3 DEF Prior, k, l
<1>4. CASE listing.order = "desc"
  <2>1. Paging!KeysetWhere(c, r) <=>
          IF k = {} THEN l = {} /\ r < c.id
          ELSE l = {} \/ Paging!Below(l, k) \/ (Paging!Same(l, k) /\ r < c.id)
    BY <1>4 DEF Paging!KeysetWhere, Paging!Null
  <2> HIDE DEF k, l
  <2>2. /\ Paging!Text(k) \in Nat /\ Paging!Text(l) \in Nat
        /\ Paging!Text(k) = Paging!Text(l) <=> k = l
        /\ Paging!Text(k) = 0 <=> k = {}
        /\ Paging!Text(l) = 0 <=> l = {}
        /\ Paging!Below(l, k) <=> l # {} /\ Paging!Text(l) < Paging!Text(k)
        /\ Paging!Same(l, k) <=> l # {} /\ l = k
    BY <1>1, TextsDiffer
  <2>3. Paging!KeysetWhere(c, r) <=>
          Paging!Text(l) < Paging!Text(k) \/ (Paging!Text(k) = Paging!Text(l) /\ r < c.id)
    BY <1>1, <2>1, <2>2
  <2> QED BY <1>4, <2>3 DEF Prior, k, l
<1> QED BY <1>2, <1>3, <1>4

\* Arrays are compared by a difference.
LEMMA DeltaIsPrior ==
  ASSUME ListTyped, NEW k \in Paging!Keys, NEW l \in Paging!Keys, NEW r \in Nat, NEW o \in Nat
  PROVE  /\ Paging!Towards(Paging!Delta(k, r, l, o)) < 0 <=> Prior(k, r, l, o)
         /\ Paging!Towards(Paging!Delta(k, r, l, o)) > 0 <=> Prior(l, o, k, r)
<1> DEFINE d == Paging!Delta(k, r, l, o)
<1>1. Paging!Text(k) \in Nat /\ Paging!Text(l) \in Nat
  BY TextsDiffer
<1>2. d = IF Paging!Text(k) # Paging!Text(l) THEN Paging!Text(k) - Paging!Text(l) ELSE r - o
  BY DEF Paging!Delta
<1>3. Paging!Towards(d) = IF listing.order = "asc" THEN d ELSE 0 - d
  BY DEF Paging!Towards
<1> HIDE DEF d
<1>4. d \in Int
  BY <1>1, <1>2
<1> QED BY <1>1, <1>2, <1>3, <1>4 DEF Prior, d

\* The pairs of rows that are in order.
InList == {p \in Rows \X Rows : Paging!OrderBy(p[1], p[2])}

\* Rows in order are totally ordered.
LEMMA InListOrders ==
  ASSUME ListTyped
  PROVE  /\ Orders(InList, Rows)
         /\ \A r, o \in Rows : <<r, o>> \in InList <=> Paging!OrderBy(r, o)
<1>1. \A r, o \in Rows : <<r, o>> \in InList <=> Paging!OrderBy(r, o)
  BY DEF InList
<1>2. \A r \in Rows : ~Paging!OrderBy(r, r)
  BY OrderIsPrior, PriorOrders, EntryTyped
<1>3. \A r, o \in Rows : r # o => Paging!OrderBy(r, o) \/ Paging!OrderBy(o, r)
  BY OrderIsPrior, PriorOrders, EntryTyped
<1>4. \A r, o, p \in Rows : Paging!OrderBy(r, o) /\ Paging!OrderBy(o, p) => Paging!OrderBy(r, p)
  BY OrderIsPrior, PriorOrders, EntryTyped
<1> QED BY <1>1, <1>2, <1>3, <1>4 DEF Orders

\* So are those of any subset, which is finite.
LEMMA RowsIn ==
  ASSUME ListTyped, NEW S \in SUBSET Rows
  PROVE  IsFiniteSet(S) /\ Orders(InList, S)
<1>1. IsFiniteSet(S)
  BY ReadsAssumption, FS_Subset
<1> QED BY <1>1, InListOrders DEF Orders

\* What SQL and what sorting finds.
LEMMA QueryIsSorted ==
  ASSUME ListTyped, NEW S \in SUBSET Rows
  PROVE  Sorted(InList, S, Paging!Query(S))
<1> DEFINE Fits(q) == \A i, j \in DOMAIN q : i < j => Paging!OrderBy(q[i], q[j])
           n == Cardinality(S)
<1>1. Paging!Query(S) = CHOOSE q \in [1..n -> S] : Fits(q)
  BY PagingCardinality DEF Paging!Query, Paging!InOrder
<1>2. \A q \in [1..n -> S] : Fits(q) <=> Sorted(InList, S, q)
  BY InListOrders DEF Sorted
<1>3. \E q \in [1..n -> S] : Fits(q)
  <2>1. PICK q : Sorted(InList, S, q)
    BY RowsIn, SortedExists
  <2>2. q \in [1..n -> S]
    BY <2>1 DEF Sorted
  <2> HIDE DEF Fits
  <2> QED BY <1>2, <2>1, <2>2
<1> HIDE DEF Fits, n
<1>4. Paging!Query(S) \in [1..n -> S] /\ Fits(Paging!Query(S))
  BY <1>1, <1>3
<1> QED BY <1>2, <1>4

Items == Paging!InOrder(Paging!Shown, LAMBDA r, o :
           Paging!Towards(Paging!Delta(entries[r].key, r, entries[o].key, o)) < 0)

\* What is shown is rows.
LEMMA ShownRows == Paging!Shown \in SUBSET Rows
BY DEF Paging!Shown

\* Arrays are sorted into what the SQL finds.
LEMMA ItemsAreQuery ==
  ASSUME ListTyped
  PROVE  Items = Paging!Query(Paging!Shown)
<1> DEFINE S == Paging!Shown
           Fits(q) == \A i, j \in DOMAIN q : i < j =>
                        Paging!Towards(Paging!Delta(entries[q[i]].key, q[i], entries[q[j]].key, q[j])) < 0
           n == Cardinality(S)
<1>0. S \in SUBSET Rows
  BY ShownRows
<1>1. Items = CHOOSE q \in [1..n -> S] : Fits(q)
  BY PagingCardinality DEF Items, Paging!InOrder
<1>2. \A q \in [1..n -> S] : Fits(q) <=> Sorted(InList, S, q)
  <2>1. \A r, o \in Rows : Paging!Towards(Paging!Delta(entries[r].key, r, entries[o].key, o)) < 0
                             <=> <<r, o>> \in InList
    BY DeltaIsPrior, EntryTyped, OrderIsPrior, InListOrders
  <2> QED BY <1>0, <2>1 DEF Sorted
<1>3. Sorted(InList, S, Paging!Query(S))
  BY <1>0, QueryIsSorted
<1>4. \E q \in [1..n -> S] : Fits(q)
  <2>1. Paging!Query(S) \in [1..n -> S]
    BY <1>3 DEF Sorted
  <2> HIDE DEF Fits
  <2> QED BY <1>2, <1>3, <2>1
<1>5. Sorted(InList, S, Items)
  <2> HIDE DEF Fits, n, S
  <2>1. Items \in [1..n -> S] /\ Fits(Items)
    BY <1>1, <1>4
  <2> QED BY <1>2, <2>1
<1> HIDE DEF S
<1> QED BY <1>0, <1>3, <1>5, RowsIn, SortedUnique DEF S

\* A sorted sequence of rows, as a sequence.
LEMMA SortedIsSeq ==
  ASSUME NEW S, IsFiniteSet(S), NEW R, NEW q, Sorted(R, S, q)
  PROVE  q \in Seq(S) /\ Len(q) = Cardinality(S) /\ Cardinality(S) \in Nat
<1> DEFINE n == Cardinality(S)
<1>1. n \in Nat
  BY FS_CardinalityType
<1>2. q \in [1..n -> S]
  BY DEF Sorted
<1> HIDE DEF n
<1>3. q \in Seq(S) /\ Len(q) = n
  BY <1>1, <1>2
<1> QED BY <1>1, <1>3 DEF n

\* What comes after a cursor.
Following(c) == {r \in Paging!Shown : Paging!KeysetWhere(c, r)}

\* From the first row after a cursor on, all rows are after it.
LEMMA FollowingFrom ==
  ASSUME ListTyped, NEW c \in Paging!Cursor, NEW r \in Rows, NEW o \in Rows
  PROVE  /\ Paging!KeysetWhere(c, r) /\ Paging!OrderBy(r, o) => Paging!KeysetWhere(c, o)
         /\ ~Paging!KeysetWhere(c, r) /\ Paging!KeysetWhere(c, o) => Paging!OrderBy(r, o)
<1> DEFINE k == entries[r].key
           l == entries[o].key
<1>1. /\ k \in Paging!Keys /\ l \in Paging!Keys /\ c.primary \in Paging!Keys
      /\ r \in Nat /\ o \in Nat /\ c.id \in Nat
  <2>1. c.primary \in Paging!Keys /\ c.id \in Rows \cup {0}
    BY DEF Paging!Cursor
  <2>2. \A i \in Rows \cup {0} : i \in Nat
    BY ReadsAssumption
  <2> QED BY <2>1, <2>2, EntryTyped
<1>2. /\ Paging!KeysetWhere(c, r) <=> Prior(c.primary, c.id, k, r)
      /\ Paging!KeysetWhere(c, o) <=> Prior(c.primary, c.id, l, o)
      /\ Paging!OrderBy(r, o) <=> Prior(k, r, l, o)
  BY WhereIsPrior, OrderIsPrior
<1> HIDE DEF k, l
<1>3. /\ Prior(c.primary, c.id, k, r) /\ Prior(k, r, l, o) => Prior(c.primary, c.id, l, o)
      /\ Prior(k, r, c.primary, c.id) /\ Prior(c.primary, c.id, l, o) => Prior(k, r, l, o)
      /\ \/ Prior(k, r, c.primary, c.id) \/ Prior(c.primary, c.id, k, r)
         \/ k = c.primary /\ r = c.id
  BY <1>1, PriorOrders
<1> QED BY <1>2, <1>3

\* A cursor made of a row gives the same page in arrays and in SQL.
LEMMA KeysetPagesAgree ==
  ASSUME ListTyped, NEW c \in Paging!Cursor, c.mode = "keyset"
  PROVE  Paging!SqlPage(c) = Paging!ArrayPage(c)
<1> DEFINE S == Paging!Shown
           n == Cardinality(S)
           q == Paging!Query(S)
           T == Following(c)
           after == {i \in DOMAIN q : Paging!Towards(Paging!Delta(entries[q[i]].key, q[i],
                                                                 c.primary, c.id)) > 0}
           start == IF after # {} THEN CHOOSE i \in after : \A j \in after : i <= j ELSE Len(q) + 1
<1>1. /\ S \in SUBSET Rows /\ IsFiniteSet(S) /\ Orders(InList, S) /\ Sorted(InList, S, q)
      /\ q \in Seq(S) /\ Len(q) = n /\ n \in Nat /\ q \in [1..n -> S]
  <2>1. S \in SUBSET Rows
    BY ShownRows
  <2>2. IsFiniteSet(S) /\ Orders(InList, S) /\ Sorted(InList, S, q)
    BY <2>1, RowsIn, QueryIsSorted
  <2>3. q \in Seq(S) /\ Len(q) = n /\ n \in Nat
    BY <2>2, SortedIsSeq
  <2> QED BY <2>1, <2>2, <2>3 DEF Sorted
<1>2. Paging!ArrayPage(c) = Paging!FirstOf(SubSeq(q, start, Len(q)), PageLimit + 1)
  <2> DEFINE from(items) ==
        {i \in DOMAIN items : Paging!Towards(Paging!Delta(entries[items[i]].key, items[i],
                                                           c.primary, c.id)) > 0}
             begin(items) ==
               CASE c.mode = "start" -> 1
                 [] c.mode = "offset" -> c.offset + 1
                 [] c.mode = "keyset" /\ from(items) # {} ->
                      CHOOSE i \in from(items) : \A j \in from(items) : i <= j
                 [] OTHER -> Len(items) + 1
  <2>1. Paging!ArrayPage(c) = Paging!FirstOf(SubSeq(Items, begin(Items), Len(Items)), PageLimit + 1)
    BY DEF Paging!ArrayPage, Items
  <2>2. Items = q
    BY ItemsAreQuery
  <2>3. from(q) = after
    OBVIOUS
  <2> HIDE DEF after, from, q
  <2>4. begin(q) = start
    <3>1. c.mode # "start" /\ c.mode # "offset"
      OBVIOUS
    <3>2. CASE after = {}
      BY <2>3, <3>1, <3>2
    <3>3. CASE after # {}
      BY <2>3, <3>1, <3>3
    <3> QED BY <3>2, <3>3
  <2> HIDE DEF begin, start
  <2> QED BY <2>1, <2>2, <2>4
<1>3. Paging!SqlPage(c) = Paging!FirstOf(Paging!Query(T), PageLimit + 1)
  BY DEF Paging!SqlPage, Following
<1> HIDE DEF q
<1>4. \A i \in 1..n : q[i] \in S /\ (i \in after <=> Paging!KeysetWhere(c, q[i]))
  <2> TAKE i \in 1..n
  <2>1. q[i] \in S /\ q[i] \in Rows /\ i \in DOMAIN q
    BY <1>1
  <2>2. /\ entries[q[i]].key \in Paging!Keys /\ q[i] \in Nat
        /\ c.primary \in Paging!Keys /\ c.id \in Nat
    <3>1. c.primary \in Paging!Keys /\ c.id \in Rows \cup {0}
      BY DEF Paging!Cursor
    <3>2. \A k \in Rows \cup {0} : k \in Nat
      BY ReadsAssumption
    <3> QED BY <2>1, <3>1, <3>2, EntryTyped
  <2>3. Paging!Towards(Paging!Delta(entries[q[i]].key, q[i], c.primary, c.id)) > 0
          <=> Prior(c.primary, c.id, entries[q[i]].key, q[i])
    BY <2>2, DeltaIsPrior
  <2>4. Paging!KeysetWhere(c, q[i]) <=> Prior(c.primary, c.id, entries[q[i]].key, q[i])
    BY <2>1, WhereIsPrior
  <2> QED BY <2>1, <2>3, <2>4
<1>5. after \subseteq 1..n
  BY <1>1
<1> HIDE DEF after
<1>6. /\ start \in 1..(n + 1)
      /\ after = {} => start = n + 1
      /\ after # {} => start \in after /\ \A j \in after : start <= j
  <2>1. CASE after = {}
    BY <1>1, <2>1
  <2>2. CASE after # {}
    <3>1. after \in SUBSET Nat
      BY <1>1, <1>5
    <3>2. \E i \in after : \A j \in after : i <= j
      BY <2>2, <3>1, LeastOf
    <3>3. start \in after /\ \A j \in after : start <= j
      BY <2>2, <3>2
    <3> HIDE DEF start
    <3> QED BY <1>1, <1>5, <2>2, <3>3
  <2> QED BY <2>1, <2>2
<1> HIDE DEF start, n, S
<1>7. \A a : a \in T <=> \E i \in start..n : q[i] = a
  <2>1. ASSUME NEW a \in T PROVE \E i \in start..n : q[i] = a
    <3>1. a \in S /\ Paging!KeysetWhere(c, a)
      BY <2>1 DEF Following, S
    <3>2. PICK i \in 1..n : q[i] = a
      BY <1>1, <3>1, SortedOnto DEF n
    <3>3. i \in after
      BY <1>4, <3>1, <3>2
    <3> QED BY <1>1, <1>6, <3>2, <3>3
  <2>2. ASSUME NEW i \in start..n PROVE q[i] \in T
    <3>1. i \in 1..n /\ start \in 1..n /\ start \in after /\ start <= i /\ i \in Int /\ start \in Int
      <4>1. start <= i /\ i <= n /\ i \in Int /\ start \in Int
        BY <1>1, <1>6
      <4> QED BY <1>1, <1>6, <4>1
    <3>2. Paging!KeysetWhere(c, q[start]) /\ q[start] \in Rows /\ q[i] \in Rows /\ q[i] \in S
      BY <1>1, <1>4, <3>1
    <3>3. CASE start = i
      BY <3>2, <3>3 DEF Following, S
    <3>4. CASE start # i
      <4>1. Paging!OrderBy(q[start], q[i])
        <5>1. <<q[start], q[i]>> \in InList
          BY <1>1, <3>1, <3>4 DEF Sorted, n
        <5> QED BY <3>2, <5>1, InListOrders
      <4>2. Paging!KeysetWhere(c, q[i])
        BY <3>2, <4>1, FollowingFrom
      <4> QED BY <3>2, <4>2 DEF Following, S
    <3> QED BY <3>3, <3>4
  <2> QED BY <2>1, <2>2
<1>8. T \subseteq S /\ IsFiniteSet(T) /\ Sorted(InList, T, SubSeq(q, start, n))
  <2> HIDE DEF T
  <2> QED BY <1>1, <1>6, <1>7, SortedRest DEF n
<1>9. T \in SUBSET Rows
  BY <1>1, <1>8
<1>10. Paging!Query(T) = SubSeq(q, start, n)
  <2>1. Sorted(InList, T, Paging!Query(T)) /\ Orders(InList, T)
    BY <1>9, QueryIsSorted, RowsIn
  <2> HIDE DEF T
  <2> QED BY <1>8, <2>1, SortedUnique
<1> QED BY <1>1, <1>2, <1>3, <1>10

\* So does every cursor.
LEMMA PagesAgreeing == ListTyped => Paging!PagesAgree
<1> SUFFICES ASSUME ListTyped,
                    NEW c \in [mode : {"keyset"}, offset : {0}, primary : Paging!Keys, id : Rows]
                              \cup {Paging!Start, Paging!Offset(1)}
             PROVE  Paging!SqlPage(c) = Paging!ArrayPage(c)
  BY DEF Paging!PagesAgree
<1>1. CASE c \in [mode : {"keyset"}, offset : {0}, primary : Paging!Keys, id : Rows]
  <2>1. c \in Paging!Cursor /\ c.mode = "keyset"
    BY <1>1 DEF Paging!Cursor
  <2> QED BY <2>1, KeysetPagesAgree
<1> DEFINE q == Paging!Query(Paging!Shown)
<1>2. q \in Seq(Rows)
  <2>1. /\ Paging!Shown \in SUBSET Rows /\ IsFiniteSet(Paging!Shown)
        /\ Sorted(InList, Paging!Shown, q)
    BY ShownRows, RowsIn, QueryIsSorted
  <2>2. q \in Seq(Paging!Shown)
    BY <2>1, SortedIsSeq
  <2> HIDE DEF q
  <2> QED BY <2>1, <2>2, SeqMonotonic
<1>3. CASE c = Paging!Start
  <2>1. c.mode = "start"
    BY <1>3 DEF Paging!Start
  <2>2. Paging!SqlPage(c) = Paging!FirstOf(q, PageLimit + 1)
    BY <2>1 DEF Paging!SqlPage
  <2>3. Paging!ArrayPage(c) = Paging!FirstOf(SubSeq(q, 1, Len(q)), PageLimit + 1)
    BY <2>1, ItemsAreQuery DEF Paging!ArrayPage, Items
  <2> HIDE DEF q
  <2>4. SubSeq(q, 1, Len(q)) = q
    BY <1>2, SubSeqFull
  <2> QED BY <2>2, <2>3, <2>4
<1>4. CASE c = Paging!Offset(1)
  <2>1. c.mode = "offset"
    BY <1>4 DEF Paging!Start, Paging!Offset
  <2>2. Paging!SqlPage(c) = Paging!FirstOf(SubSeq(q, c.offset + 1, Len(q)), PageLimit + 1)
    BY <2>1 DEF Paging!SqlPage
  <2>3. Paging!ArrayPage(c) = Paging!FirstOf(SubSeq(q, c.offset + 1, Len(q)), PageLimit + 1)
    BY <2>1, ItemsAreQuery DEF Paging!ArrayPage, Items
  <2> QED BY <2>2, <2>3
<1> QED BY <1>1, <1>3, <1>4

-----------------------------------------------------------------------------
(* A reader who follows the cursors.                                       *)

Has(rd, r) == \E i \in DOMAIN rd.delivered : rd.delivered[i] = r

\* The rows of K among those delivered are in order, and the cursor is after them.
Tidy(K, rd) ==
  /\ \A i, j \in DOMAIN rd.delivered :
       i < j /\ rd.delivered[i] \in K /\ rd.delivered[j] \in K =>
         Paging!OrderBy(rd.delivered[i], rd.delivered[j])
  /\ ~rd.done /\ rd.cursor.mode = "keyset" =>
       \A i \in DOMAIN rd.delivered :
         rd.delivered[i] \in K => ~Paging!KeysetWhere(rd.cursor, rd.delivered[i])

\* What can be counted on has been delivered or is still to come.
Reached(rd) ==
  /\ ~rd.done /\ rd.cursor.mode = "keyset" =>
       \A r \in rd.kept : Paging!KeysetWhere(rd.cursor, r) \/ Has(rd, r)
  /\ rd.done => \A r \in rd.kept : Has(rd, r)

\* By a key that never changes all that was delivered is in order.
Lasting(rd) ==
  listing.sort \in {"created", "log"} =>
    /\ Tidy(Rows, rd)
    /\ \A i \in DOMAIN rd.delivered : entries[rd.delivered[i]].status # "NONE"

ReaderTyped(rd) ==
  /\ rd \in [cursor : Paging!Cursor, done : BOOLEAN, delivered : Seq(Rows), kept : SUBSET Rows]
  /\ rd.kept \subseteq Paging!Shown
  /\ ~rd.done /\ rd.cursor.mode # "keyset" => rd.delivered = << >>

PageInv ==
  /\ ListTyped /\ ReaderTyped(reader)
  /\ Tidy(reader.kept, reader) /\ Reached(reader) /\ Lasting(reader)

\* A reader who has not begun has missed nothing.
LEMMA PagesInit == Paging!Init => PageInv
<1> SUFFICES ASSUME Paging!Init PROVE PageInv
  OBVIOUS
<1>1. ListTyped
  <2>1. present \in Paging!Times
    BY ReadsAssumption DEF Paging!Init, Paging!Times
  <2>2. entries = [r \in Rows |-> [status |-> "NONE", key |-> Paging!Null]]
        /\ Paging!Null \in Paging!Keys
    BY DEF Paging!Init, Paging!Keys
  <2> HIDE DEF Paging!Init
  <2>3. entries \in [Rows -> [status : {"NONE", "SHOWN", "HIDDEN", "DELETED"}, key : Paging!Keys]]
    BY <2>2
  <2> QED BY <2>1, <2>3 DEF ListTyped, Paging!Init
<1>2. reader = [cursor |-> Paging!Start, done |-> FALSE, delivered |-> << >>, kept |-> {}]
  BY DEF Paging!Init
<1>3. Paging!Start \in Paging!Cursor /\ Paging!Start.mode = "start"
  BY DEF Paging!Start, Paging!Cursor, Paging!Keys, Paging!Null
<1>4. ReaderTyped(reader)
  <2>1. << >> \in Seq(Rows) /\ {} \in SUBSET Rows
    OBVIOUS
  <2> QED BY <1>2, <1>3, <2>1 DEF ReaderTyped
<1>5. DOMAIN reader.delivered = {}
  BY <1>2
<1>6. Tidy(reader.kept, reader) /\ Reached(reader) /\ Lasting(reader)
  BY <1>2, <1>3, <1>5 DEF Tidy, Reached, Lasting
<1> QED BY <1>1, <1>4, <1>6 DEF PageInv

\* The cursor made of a row.
LEMMA AfterRow ==
  ASSUME ListTyped, NEW last \in Rows
  PROVE  /\ Paging!After(last) \in Paging!Cursor /\ Paging!After(last).mode = "keyset"
         /\ \A r \in Rows : Paging!KeysetWhere(Paging!After(last), r) <=> Paging!OrderBy(last, r)
<1> DEFINE c == Paging!After(last)
<1>1. Paging!Start \in Paging!Cursor
  BY DEF Paging!Start, Paging!Null, Paging!Keys, Paging!Cursor
<1>2. c \in Paging!Cursor
  <2>1. entries[last].key \in Paging!Keys /\ last \in Rows \cup {0}
        /\ "keyset" \in {"start", "offset", "keyset"}
    BY EntryTyped
  <2> QED BY <1>1, <2>1 DEF Paging!Cursor, Paging!After
<1>3. c.mode = "keyset" /\ c.primary = entries[last].key /\ c.id = last
  BY <1>1 DEF Paging!After, Paging!Cursor
<1> HIDE DEF c
<1>4. \A r \in Rows : Paging!KeysetWhere(c, r) <=> Paging!OrderBy(last, r)
  BY <1>2, <1>3, WhereIsPrior, OrderIsPrior
<1> QED BY <1>2, <1>3, <1>4 DEF c

Rest ==
  CASE reader.cursor.mode = "start" -> Paging!Shown
    [] reader.cursor.mode = "offset" ->
         {r \in Paging!Shown :
            \E i \in (reader.cursor.offset + 1)..Len(Paging!Query(Paging!Shown)) :
              Paging!Query(Paging!Shown)[i] = r}
    [] OTHER -> reader.kept

\* The rows of S come after what was delivered of K.
Beyond(K, S) ==
  \A i \in DOMAIN reader.delivered, o \in S :
    reader.delivered[i] \in K => Paging!OrderBy(reader.delivered[i], o)

\* Whatever the cursor is, a page is the first of a set of rows in order.
LEMMA PageFound ==
  ASSUME PageInv, ~reader.done
  PROVE  \E S \in SUBSET Rows :
           /\ S \subseteq Paging!Shown
           /\ Paging!SqlPage(reader.cursor) = Paging!FirstOf(Paging!Query(S), PageLimit + 1)
           /\ Rest \subseteq Paging!Shown
           /\ \A r \in Rest : r \in S \/ Has(reader, r)
           /\ \A K : Tidy(K, reader) => Beyond(K, S)
           /\ Tidy(Rest, reader)
<1> DEFINE c == reader.cursor
           q == Paging!Query(Paging!Shown)
<1>1. /\ ListTyped /\ c \in Paging!Cursor /\ reader.delivered \in Seq(Rows)
      /\ reader.kept \subseteq Paging!Shown /\ Paging!Shown \in SUBSET Rows
      /\ c.mode # "keyset" => reader.delivered = << >>
  BY ShownRows DEF PageInv, ReaderTyped
<1>2. c.mode = "start" \/ c.mode = "offset" \/ c.mode = "keyset"
  BY <1>1 DEF Paging!Cursor
<1>3. CASE c.mode = "start"
  <2>1. DOMAIN reader.delivered = {}
    BY <1>1, <1>3
  <2>2. Paging!SqlPage(c) = Paging!FirstOf(q, PageLimit + 1)
    BY <1>3 DEF Paging!SqlPage
  <2>3. Rest = Paging!Shown
    BY <1>3 DEF Rest
  <2>4. Tidy(Rest, reader)
    BY <1>3, <2>1 DEF Tidy
  <2> QED BY <1>1, <2>1, <2>2, <2>3, <2>4 DEF Beyond
<1>4. CASE c.mode = "offset"
  <2> DEFINE first == c.offset + 1
             n == Cardinality(Paging!Shown)
             T == {r \in Paging!Shown : \E i \in first..Len(q) : q[i] = r}
  <2>1. DOMAIN reader.delivered = {}
    BY <1>1, <1>4
  <2>2. Paging!SqlPage(c) = Paging!FirstOf(SubSeq(q, first, Len(q)), PageLimit + 1)
    BY <1>4 DEF Paging!SqlPage
  <2>3. Rest = T
    BY <1>4 DEF Rest
  <2>4. Tidy(T, reader)
    BY <1>4, <2>1 DEF Tidy
  <2>5. /\ IsFiniteSet(Paging!Shown) /\ Orders(InList, Paging!Shown)
        /\ Sorted(InList, Paging!Shown, q)
    BY <1>1, RowsIn, QueryIsSorted
  <2>6. q \in Seq(Paging!Shown) /\ Len(q) = n /\ n \in Nat
    BY <2>5, SortedIsSeq
  <2> HIDE DEF q
  <2>7. SubSeq(q, first, Len(q)) = Paging!Query(T)
    <3>1. first \in 1..2
      BY <1>1 DEF Paging!Cursor
    <3>2. CASE first \in 1..(n + 1)
      <4>1. \A a : a \in T <=> \E i \in first..n : q[i] = a
        <5>1. \A i \in first..n : q[i] \in Paging!Shown
          BY <2>6, <3>2
        <5> QED BY <2>6, <5>1
      <4>2. T \subseteq Paging!Shown /\ IsFiniteSet(T) /\ Sorted(InList, T, SubSeq(q, first, n))
        <5> HIDE DEF T, first
        <5> QED BY <2>5, <3>2, <4>1, SortedRest
      <4>3. T \in SUBSET Rows
        BY <1>1, <4>2
      <4>4. Sorted(InList, T, Paging!Query(T)) /\ Orders(InList, T)
        BY <1>1, <4>3, QueryIsSorted, RowsIn
      <4> HIDE DEF T, first
      <4> QED BY <2>6, <4>2, <4>4, SortedUnique
    <3>3. CASE first \notin 1..(n + 1)
      <4>1. n = 0 /\ first = 2
        BY <2>6, <3>1, <3>3
      <4>2. T = {} /\ SubSeq(q, first, Len(q)) = << >>
        BY <2>6, <4>1, SubSeqEmpty
      <4>3. {} \in SUBSET Rows /\ IsFiniteSet({}) /\ Cardinality({}) = 0
        BY FS_EmptySet
      <4>4. Sorted(InList, {}, Paging!Query({}))
        BY <1>1, <4>3, QueryIsSorted
      <4>5. Paging!Query({}) \in Seq({}) /\ Len(Paging!Query({})) = 0
        BY <4>3, <4>4, SortedIsSeq
      <4> HIDE DEF T, first
      <4>6. Paging!Query({}) = << >>
        BY <4>5, EmptySeq
      <4> QED BY <4>2, <4>6
    <3> QED BY <3>2, <3>3
  <2>8. T \in SUBSET Rows /\ T \subseteq Paging!Shown
    BY <1>1
  <2> HIDE DEF T, first
  <2> QED BY <2>1, <2>2, <2>3, <2>4, <2>7, <2>8 DEF Beyond
<1>5. CASE c.mode = "keyset"
  <2> DEFINE T == Following(c)
  <2>1. Paging!SqlPage(c) = Paging!FirstOf(Paging!Query(T), PageLimit + 1)
    BY <1>5 DEF Paging!SqlPage, Following
  <2>2. Rest = reader.kept
    BY <1>5 DEF Rest
  <2>3. \A r \in reader.kept : r \in T \/ Has(reader, r)
    BY <1>1, <1>5 DEF PageInv, Reached, Following
  <2>4. ASSUME NEW K, Tidy(K, reader), NEW i \in DOMAIN reader.delivered, NEW o \in T,
               reader.delivered[i] \in K
        PROVE  Paging!OrderBy(reader.delivered[i], o)
    <3>1. ~Paging!KeysetWhere(c, reader.delivered[i])
      BY <1>5, <2>4 DEF Tidy
    <3>2. reader.delivered[i] \in Rows /\ o \in Rows /\ Paging!KeysetWhere(c, o)
      BY <1>1, <2>4 DEF Following
    <3> QED BY <1>1, <3>1, <3>2, FollowingFrom
  <2>5. T \in SUBSET Rows /\ T \subseteq Paging!Shown
    BY <1>1 DEF Following
  <2>6. Tidy(Rest, reader)
    BY <2>2 DEF PageInv
  <2>7. \A K : Tidy(K, reader) => Beyond(K, T)
    BY <2>4 DEF Beyond
  <2> HIDE DEF T
  <2> QED BY <1>1, <2>1, <2>2, <2>3, <2>5, <2>6, <2>7
<1> QED BY <1>2, <1>3, <1>4, <1>5

\* The first elements of a sequence.
LEMMA CutShort ==
  ASSUME NEW q \in Seq(Rows), NEW k \in Nat
  PROVE  LET m == IF Len(q) < k THEN Len(q) ELSE k
             s == Paging!FirstOf(q, k)
         IN /\ m \in Nat /\ s \in Seq(Rows) /\ Len(s) = m
            /\ \A i \in 1..m : s[i] = q[i]
<1> DEFINE m == IF Len(q) < k THEN Len(q) ELSE k
<1>1. m \in Nat /\ m <= Len(q) /\ Len(q) \in Nat
  BY LenProperties
<1>2. Paging!FirstOf(q, k) = SubSeq(q, 1, m)
  BY DEF Paging!FirstOf
<1>3. \A i \in 1..m : q[i] \in Rows
  BY <1>1, ElementOfSeq
<1> HIDE DEF m
<1>4. /\ SubSeq(q, 1, m) \in Seq(Rows)
      /\ Len(SubSeq(q, 1, m)) = IF 1 <= m THEN m - 1 + 1 ELSE 0
      /\ \A i \in 1..(m - 1 + 1) : SubSeq(q, 1, m)[i] = q[1 + i - 1]
  BY <1>1, <1>3, SubSeqProperties
<1>5. /\ m - 1 + 1 = m /\ (~(1 <= m) => m = 0)
      /\ \A i \in 1..m : 1 + i - 1 = i
  BY <1>1
<1>6. Len(SubSeq(q, 1, m)) = m /\ \A i \in 1..m : SubSeq(q, 1, m)[i] = q[i]
  BY <1>4, <1>5
<1> QED BY <1>1, <1>2, <1>4, <1>6 DEF m

\* The first m of the n rows of S, in order f, are added to d.
Added(S, f, n, m, d, e) ==
  /\ \A i \in 1..n : f[i] \in S
  /\ \A r \in S : \E i \in 1..n : f[i] = r
  /\ \A i, j \in 1..n : i < j => Paging!OrderBy(f[i], f[j])
  /\ m <= n
  /\ e \in Seq(Rows) /\ Len(e) = Len(d) + m
  /\ \A i \in 1..Len(d) : e[i] = d[i]
  /\ \A i \in 1..m : e[Len(d) + i] = f[i]

\* What a page adds to what was delivered.
LEMMA PageAdded ==
  ASSUME PageInv, Paging!ReadPage
  PROVE  \E S \in SUBSET Rows, f \in Seq(Rows), n \in Nat, m \in Nat :
           /\ S \subseteq Paging!Shown /\ Rest \subseteq Paging!Shown
           /\ \A r \in Rest : r \in S \/ Has(reader, r)
           /\ \A K : Tidy(K, reader) => Beyond(K, S)
           /\ Tidy(Rest, reader)
           /\ Added(S, f, n, m, reader.delivered, reader'.delivered)
           /\ reader'.kept = Rest
           /\ \/ reader'.done = TRUE /\ m = n /\ reader'.cursor = reader.cursor
              \/ /\ reader'.done = FALSE /\ m \in 1..n
                 /\ reader'.cursor = Paging!After(f[m])
           /\ reader' = [cursor |-> reader'.cursor, done |-> reader'.done,
                         delivered |-> reader'.delivered, kept |-> reader'.kept]
<1>1. ~reader.done /\ Paging!Deliver(Paging!SqlPage(reader.cursor))
  BY DEF Paging!ReadPage
<1>2. PICK S \in SUBSET Rows :
           /\ S \subseteq Paging!Shown
           /\ Paging!SqlPage(reader.cursor) = Paging!FirstOf(Paging!Query(S), PageLimit + 1)
           /\ Rest \subseteq Paging!Shown
           /\ \A r \in Rest : r \in S \/ Has(reader, r)
           /\ \A K : Tidy(K, reader) => Beyond(K, S)
           /\ Tidy(Rest, reader)
  BY <1>1, PageFound
<1> DEFINE f == Paging!Query(S)
           n == Cardinality(S)
           page == Paging!FirstOf(f, PageLimit + 1)
           items == Paging!FirstOf(page, PageLimit)
           m == IF n < PageLimit THEN n ELSE PageLimit
           goesOn == Len(page) > PageLimit
<1>3. ListTyped /\ reader.delivered \in Seq(Rows) /\ PageLimit \in Nat /\ PageLimit >= 1
      /\ PageLimit + 1 \in Nat
  BY ReadsAssumption DEF PageInv, ReaderTyped
<1>4. IsFiniteSet(S) /\ Orders(InList, S) /\ Sorted(InList, S, f)
  BY <1>3, RowsIn, QueryIsSorted
<1>5. f \in Seq(S) /\ f \in Seq(Rows) /\ Len(f) = n /\ n \in Nat
  <2>1. f \in Seq(S) /\ Len(f) = n /\ n \in Nat
    BY <1>4, SortedIsSeq
  <2> HIDE DEF f, n
  <2> QED BY <2>1, SeqMonotonic
<1>6. \A r \in S : \E i \in 1..n : f[i] = r
  BY <1>4, SortedOnto
<1>7. \A i \in 1..n : f[i] \in S
  BY <1>4 DEF Sorted
<1>8. \A i, j \in 1..n : i < j => Paging!OrderBy(f[i], f[j])
  <2> SUFFICES ASSUME NEW i \in 1..n, NEW j \in 1..n, i < j PROVE Paging!OrderBy(f[i], f[j])
    OBVIOUS
  <2>1. <<f[i], f[j]>> \in InList
    BY <1>4 DEF Sorted
  <2>2. f[i] \in Rows /\ f[j] \in Rows
    BY <1>7
  <2> HIDE DEF f, n
  <2> QED BY <1>3, <2>1, <2>2, InListOrders
<1>9. reader' = [cursor |-> IF goesOn THEN Paging!After(items[PageLimit]) ELSE reader.cursor,
                 done |-> ~goesOn, delivered |-> reader.delivered \o items, kept |-> Rest]
  BY <1>1, <1>2 DEF Paging!Deliver, Rest
<1> HIDE DEF f, n
<1>10. /\ page \in Seq(Rows) /\ Len(page) = (IF n < PageLimit + 1 THEN n ELSE PageLimit + 1)
       /\ \A i \in 1..Len(page) : page[i] = f[i]
  BY <1>3, <1>5, CutShort
<1>11. /\ (goesOn <=> n > PageLimit)
       /\ Len(page) < PageLimit => Len(page) = n
       /\ ~(Len(page) < PageLimit) => ~(n < PageLimit)
       /\ m = (IF Len(page) < PageLimit THEN Len(page) ELSE PageLimit)
  BY <1>3, <1>5, <1>10
<1> HIDE DEF page
<1>12. /\ items \in Seq(Rows) /\ Len(items) = m /\ m \in Nat
       /\ \A i \in 1..m : items[i] = page[i]
  BY <1>3, <1>10, <1>11, CutShort
<1>13. /\ m <= n /\ m \in Nat /\ m <= Len(page)
       /\ goesOn => m = PageLimit /\ m \in 1..n
       /\ ~goesOn => m = n
  BY <1>3, <1>5, <1>10, <1>11
<1> HIDE DEF items, m, goesOn
<1>14. \A i \in 1..m : items[i] = f[i]
  <2>1. \A i \in 1..m : i \in 1..Len(page)
    BY <1>10, <1>13, LenProperties
  <2> QED BY <1>10, <1>12, <2>1
<1>15. /\ reader'.kept = Rest /\ reader'.done = ~goesOn
       /\ reader'.delivered = reader.delivered \o items
       /\ reader'.cursor = IF goesOn THEN Paging!After(items[PageLimit]) ELSE reader.cursor
  BY <1>9
<1>16. goesOn => reader'.cursor = Paging!After(f[m])
  <2>1. goesOn => items[PageLimit] = f[m]
    BY <1>13, <1>14
  <2> QED BY <1>15, <2>1
<1>17. /\ reader'.delivered \in Seq(Rows)
       /\ Len(reader'.delivered) = Len(reader.delivered) + m
       /\ \A i \in 1..Len(reader.delivered) : reader'.delivered[i] = reader.delivered[i]
       /\ \A i \in 1..m : reader'.delivered[Len(reader.delivered) + i] = f[i]
  <2> DEFINE d == reader.delivered
             e == d \o items
  <2>1. Len(d) \in Nat
    BY <1>3, LenProperties
  <2>2. /\ e \in Seq(Rows) /\ Len(e) = Len(d) + m
        /\ \A i \in 1..(Len(d) + m) : e[i] = IF i <= Len(d) THEN d[i] ELSE items[i - Len(d)]
    BY <1>3, <1>12, ConcatProperties
  <2> HIDE DEF d, e
  <2>3. \A i \in 1..Len(d) : i \in 1..(Len(d) + m) /\ i <= Len(d)
    BY <1>12, <2>1
  <2>4. \A i \in 1..m : /\ Len(d) + i \in 1..(Len(d) + m) /\ ~(Len(d) + i <= Len(d))
                        /\ Len(d) + i - Len(d) = i
    BY <1>12, <2>1
  <2>5. \A i \in 1..Len(d) : e[i] = d[i]
    BY <2>2, <2>3
  <2>6. \A i \in 1..m : e[Len(d) + i] = f[i]
    BY <1>14, <2>2, <2>4
  <2>7. reader'.delivered = e
    BY <1>15 DEF d, e
  <2> QED BY <2>2, <2>5, <2>6, <2>7 DEF d
<1>18. reader' = [cursor |-> reader'.cursor, done |-> reader'.done,
                  delivered |-> reader'.delivered, kept |-> reader'.kept]
  BY <1>9
<1>19. \/ reader'.done = TRUE /\ m = n /\ reader'.cursor = reader.cursor
       \/ reader'.done = FALSE /\ m \in 1..n /\ reader'.cursor = Paging!After(f[m])
  BY <1>13, <1>15, <1>16 DEF goesOn
<1> f \in Seq(Rows) /\ n \in Nat /\ m \in Nat
  BY <1>5, <1>12
<1> WITNESS S \in SUBSET Rows, f \in Seq(Rows), n \in Nat, m \in Nat
<1>20. Added(S, f, n, m, reader.delivered, reader'.delivered)
  BY <1>6, <1>7, <1>8, <1>13, <1>17 DEF Added
<1> QED BY <1>2, <1>15, <1>18, <1>19, <1>20

\* What was in order stays so with the next page.
LEMMA TidyAfter ==
  ASSUME PageInv, NEW K, Tidy(K, reader), NEW S \in SUBSET Rows, NEW f \in Seq(Rows),
         NEW n \in Nat, NEW m \in Nat, NEW rd, Beyond(K, S),
         Added(S, f, n, m, reader.delivered, rd.delivered),
         rd.done = TRUE \/ (m \in 1..n /\ rd.cursor = Paging!After(f[m]))
  PROVE  Tidy(K, rd)
<1> DEFINE d == reader.delivered
           e == rd.delivered
<1>0. /\ \A i \in 1..n : f[i] \in S
      /\ \A i, j \in 1..n : i < j => Paging!OrderBy(f[i], f[j])
      /\ m <= n
      /\ e \in Seq(Rows) /\ Len(e) = Len(d) + m
      /\ \A i \in 1..Len(d) : e[i] = d[i]
      /\ \A i \in 1..m : e[Len(d) + i] = f[i]
  BY DEF Added
<1>1. /\ ListTyped /\ d \in Seq(Rows) /\ Len(d) \in Nat /\ DOMAIN d = 1..Len(d)
      /\ DOMAIN e = 1..(Len(d) + m)
  BY <1>0, LenProperties DEF PageInv, ReaderTyped
<1>2. ASSUME NEW i \in DOMAIN e
      PROVE  \/ i \in DOMAIN d /\ e[i] = d[i]
             \/ i - Len(d) \in 1..m /\ i - Len(d) \in 1..n /\ e[i] = f[i - Len(d)]
  <2>1. i \in Int /\ 1 <= i /\ i <= Len(d) + m
    BY <1>1
  <2>2. CASE i <= Len(d)
    BY <1>0, <1>1, <2>1, <2>2
  <2>3. CASE ~(i <= Len(d))
    <3>1. i - Len(d) \in 1..m /\ Len(d) + (i - Len(d)) = i /\ i - Len(d) \in 1..n
      <4>1. \A k, l, o, t \in Int : /\ 1 <= k /\ k <= l + o
                                    /\ ~(k <= l) /\ o <= t
              => k - l \in 1..o /\ l + (k - l) = k /\ k - l \in 1..t
        OBVIOUS
      <4>2. i \in Int /\ Len(d) \in Int /\ m \in Int /\ n \in Int
        BY <1>1, <2>1
      <4>3. m <= n
        BY <1>0
      <4> QED BY <2>1, <2>3, <4>1, <4>2, <4>3
    <3>2. e[Len(d) + (i - Len(d))] = f[i - Len(d)]
      BY <1>0, <3>1
    <3> QED BY <3>1, <3>2
  <2> QED BY <2>2, <2>3
<1>3. \A i \in DOMAIN d : d[i] \in Rows
  BY <1>1
<1>4. \A i \in 1..n : f[i] \in Rows /\ f[i] \in S
  BY <1>0
<1> HIDE DEF d, e
<1>5. ASSUME NEW i \in DOMAIN e, NEW j \in DOMAIN e, i < j, e[i] \in K, e[j] \in K
      PROVE  Paging!OrderBy(e[i], e[j])
  <2>1. i \in Int /\ j \in Int
    BY <1>1
  <2>2. CASE j \in DOMAIN d /\ e[j] = d[j]
    <3>1. i \in DOMAIN d /\ e[i] = d[i]
      <4>1. ~(i - Len(d) \in 1..m)
        BY <1>1, <1>5, <2>1, <2>2
      <4> QED BY <1>2, <4>1
    <3> QED BY <1>5, <2>2, <3>1 DEF Tidy, d
  <2>3. CASE j - Len(d) \in 1..n /\ e[j] = f[j - Len(d)]
    <3>1. CASE i \in DOMAIN d /\ e[i] = d[i]
      BY <1>4, <1>5, <2>3, <3>1 DEF Beyond, d
    <3>2. CASE i - Len(d) \in 1..n /\ e[i] = f[i - Len(d)]
      <4>1. i - Len(d) < j - Len(d)
        BY <1>1, <1>5, <2>1
      <4> QED BY <1>0, <2>3, <3>2, <4>1
    <3> QED BY <1>2, <3>1, <3>2
  <2> QED BY <1>2, <2>2, <2>3
<1>6. ASSUME ~rd.done, NEW i \in DOMAIN e, e[i] \in K
      PROVE  ~Paging!KeysetWhere(rd.cursor, e[i])
  <2>1. m \in 1..n /\ rd.cursor = Paging!After(f[m]) /\ f[m] \in Rows /\ f[m] \in S
    BY <1>4, <1>6
  <2>2. e[i] \in Rows
    BY <1>2, <1>3, <1>4
  <2>3. Paging!KeysetWhere(rd.cursor, e[i]) <=> Paging!OrderBy(f[m], e[i])
    BY <1>1, <2>1, <2>2, AfterRow
  <2>4. Paging!OrderBy(e[i], f[m]) \/ e[i] = f[m]
    <3>1. CASE i \in DOMAIN d /\ e[i] = d[i]
      BY <1>6, <2>1, <3>1 DEF Beyond, d
    <3>2. CASE i - Len(d) \in 1..m /\ i - Len(d) \in 1..n /\ e[i] = f[i - Len(d)]
      <4>1. i - Len(d) < m \/ i - Len(d) = m
        BY <3>2
      <4> QED BY <1>0, <2>1, <3>2, <4>1
    <3> QED BY <1>2, <3>1, <3>2
  <2>5. \A r, o \in Rows : /\ ~Paging!OrderBy(r, r)
                           /\ Paging!OrderBy(r, o) => ~Paging!OrderBy(o, r)
    <3>1. Orders(InList, Rows) /\ \A r, o \in Rows : <<r, o>> \in InList <=> Paging!OrderBy(r, o)
      BY <1>1, InListOrders
    <3>2. \A r, o \in Rows : <<r, o>> \in InList => <<o, r>> \notin InList
      BY <3>1 DEF Orders
    <3> QED BY <3>1, <3>2 DEF Orders
  <2> QED BY <2>1, <2>2, <2>3, <2>4, <2>5
<1> QED BY <1>5, <1>6 DEF Tidy, e

\* As long as the rows stay, it is about the reader.
LEMMA ReaderOnly ==
  ASSUME UNCHANGED <<listing, entries>>, ListTyped', ReaderTyped(reader'),
         Tidy(reader'.kept, reader'), Reached(reader'), Lasting(reader')
  PROVE  PageInv'
<1>1. /\ Paging!Shown' = Paging!Shown
      /\ \A r, o : Paging!OrderBy(r, o)' = Paging!OrderBy(r, o)
      /\ \A r : Paging!KeysetWhere(reader.cursor, r)' = Paging!KeysetWhere(reader'.cursor, r)
  BY DEF Paging!Shown, Paging!OrderBy, Paging!Ascending, Paging!KeysetWhere
<1>3. ReaderTyped(reader)'
  BY <1>1 DEF ReaderTyped
<1>4. Tidy(reader.kept, reader)' /\ Tidy(Rows, reader)' = Tidy(Rows, reader')
  BY <1>1 DEF Tidy
<1>5. Reached(reader)'
  BY <1>1 DEF Reached, Has
<1>6. Lasting(reader)'
  BY <1>4 DEF Lasting
<1> QED BY <1>3, <1>4, <1>5, <1>6 DEF PageInv

\* The next page keeps what the reader can count on.
LEMMA ReadPageStep == PageInv /\ Paging!ReadPage => PageInv'
<1> SUFFICES ASSUME PageInv, Paging!ReadPage PROVE PageInv'
  OBVIOUS
<1>1. UNCHANGED <<listing, present, entries>> /\ ~reader.done
  BY DEF Paging!ReadPage
<1>2. PICK S \in SUBSET Rows, f \in Seq(Rows), n \in Nat, m \in Nat :
           /\ S \subseteq Paging!Shown /\ Rest \subseteq Paging!Shown
           /\ \A r \in Rest : r \in S \/ Has(reader, r)
           /\ \A K : Tidy(K, reader) => Beyond(K, S)
           /\ Tidy(Rest, reader)
           /\ Added(S, f, n, m, reader.delivered, reader'.delivered)
           /\ reader'.kept = Rest
           /\ \/ reader'.done = TRUE /\ m = n /\ reader'.cursor = reader.cursor
              \/ /\ reader'.done = FALSE /\ m \in 1..n
                 /\ reader'.cursor = Paging!After(f[m])
           /\ reader' = [cursor |-> reader'.cursor, done |-> reader'.done,
                         delivered |-> reader'.delivered, kept |-> reader'.kept]
  BY PageAdded
<1> DEFINE rd == reader'
           d == reader.delivered
<1>0. /\ \A i \in 1..n : f[i] \in S
      /\ \A r \in S : \E i \in 1..n : f[i] = r
      /\ \A i, j \in 1..n : i < j => Paging!OrderBy(f[i], f[j])
      /\ m <= n
      /\ rd.delivered \in Seq(Rows) /\ Len(rd.delivered) = Len(d) + m
      /\ \A i \in 1..Len(d) : rd.delivered[i] = d[i]
      /\ \A i \in 1..m : rd.delivered[Len(d) + i] = f[i]
  BY <1>2 DEF Added
<1>3. /\ ListTyped /\ d \in Seq(Rows) /\ Len(d) \in Nat /\ DOMAIN d = 1..Len(d)
      /\ DOMAIN rd.delivered = 1..(Len(d) + m)
  BY <1>0, <1>2, LenProperties DEF PageInv, ReaderTyped
<1>4. \A i \in 1..n : f[i] \in Rows
  BY <1>0, <1>2
<1>5. \A K : Tidy(K, reader) => Tidy(K, rd)
  <2> SUFFICES ASSUME NEW K, Tidy(K, reader) PROVE Tidy(K, rd)
    OBVIOUS
  <2>1. rd.done = TRUE \/ (m \in 1..n /\ rd.cursor = Paging!After(f[m]))
    BY <1>0, <1>2
  <2>2. Beyond(K, S) /\ Added(S, f, n, m, reader.delivered, rd.delivered)
    BY <1>0, <1>2
  <2> HIDE DEF rd, d
  <2> QED BY <2>1, <2>2, TidyAfter
<1>6. \A r : Has(reader, r) => Has(rd, r)
  <2>1. \A i \in 1..Len(d) : i \in DOMAIN rd.delivered /\ rd.delivered[i] = d[i]
    BY <1>0, <1>2, <1>3
  <2> QED BY <1>3, <2>1 DEF Has
<1>7. \A i \in 1..m : Has(rd, f[i])
  <2> TAKE i \in 1..m
  <2>1. Len(d) + i \in DOMAIN rd.delivered /\ rd.delivered[Len(d) + i] = f[i]
    BY <1>0, <1>2, <1>3
  <2> QED BY <2>1 DEF Has
<1>8. \A i \in DOMAIN rd.delivered : Has(reader, rd.delivered[i]) \/ rd.delivered[i] \in S
  <2> SUFFICES ASSUME NEW i \in 1..(Len(d) + m)
               PROVE  Has(reader, rd.delivered[i]) \/ rd.delivered[i] \in S
    BY <1>3
  <2>1. CASE i <= Len(d)
    <3>1. i \in DOMAIN d /\ rd.delivered[i] = d[i]
      BY <1>0, <1>2, <1>3, <2>1
    <3> QED BY <3>1 DEF Has
  <2>2. CASE ~(i <= Len(d))
    <3>1. i - Len(d) \in 1..m /\ Len(d) + (i - Len(d)) = i /\ i - Len(d) \in 1..n
      <4>1. m <= n /\ m \in Nat /\ n \in Nat /\ Len(d) \in Nat
        BY <1>0, <1>2, <1>3
      <4> QED BY <2>2, <4>1
    <3>2. rd.delivered[Len(d) + (i - Len(d))] = f[i - Len(d)]
      BY <1>0, <1>2, <3>1
    <3> QED BY <1>0, <1>2, <3>1, <3>2
  <2> QED BY <2>1, <2>2
<1>9. ReaderTyped(rd)
  <2>1. rd.cursor \in Paging!Cursor /\ (~rd.done => rd.cursor.mode = "keyset") /\ rd.done \in BOOLEAN
    <3>1. CASE rd.done = TRUE /\ rd.cursor = reader.cursor
      BY <3>1 DEF PageInv, ReaderTyped
    <3>2. CASE rd.done = FALSE /\ m \in 1..n /\ rd.cursor = Paging!After(f[m])
      BY <1>3, <1>4, <3>2, AfterRow
    <3> QED BY <1>0, <1>2, <3>1, <3>2
  <2>2. rd.kept \in SUBSET Rows /\ rd.kept \subseteq Paging!Shown /\ rd.delivered \in Seq(Rows)
    BY <1>0, <1>2, ShownRows
  <2>3. rd \in [cursor : Paging!Cursor, done : BOOLEAN, delivered : Seq(Rows), kept : SUBSET Rows]
    BY <1>0, <1>2, <2>1, <2>2
  <2> HIDE DEF rd
  <2> QED BY <2>1, <2>2, <2>3 DEF ReaderTyped
<1>10. Tidy(rd.kept, rd)
  BY <1>0, <1>2, <1>5
<1>11. Reached(rd)
  <2>1. ASSUME rd.done, NEW r \in rd.kept PROVE Has(rd, r)
    <3>1. m = n /\ (r \in S \/ Has(reader, r))
      BY <1>0, <1>2, <2>1
    <3>2. r \in S => \E i \in 1..m : f[i] = r
      BY <1>0, <1>2, <3>1
    <3> QED BY <1>6, <1>7, <3>1, <3>2
  <2>2. ASSUME ~rd.done, NEW r \in rd.kept PROVE Paging!KeysetWhere(rd.cursor, r) \/ Has(rd, r)
    <3>1. m \in 1..n /\ rd.cursor = Paging!After(f[m]) /\ (r \in S \/ Has(reader, r))
      BY <1>0, <1>2, <2>2
    <3>2. CASE r \in S
      <4>1. PICK i \in 1..n : f[i] = r
        BY <1>0, <1>2, <3>2
      <4>2. CASE i \in 1..m
        BY <1>7, <4>1, <4>2
      <4>3. CASE i \notin 1..m
        <5>1. m < i
          BY <3>1, <4>3
        <5>2. Paging!OrderBy(f[m], f[i])
          BY <1>0, <1>2, <3>1, <5>1
        <5> QED BY <1>3, <1>4, <3>1, <4>1, <5>2, AfterRow
      <4> QED BY <4>2, <4>3
    <3> QED BY <1>6, <3>1, <3>2
  <2> HIDE DEF rd
  <2> QED BY <2>1, <2>2 DEF Reached
<1>12. Lasting(rd)
  <2> SUFFICES ASSUME listing.sort \in {"created", "log"}
               PROVE  /\ Tidy(Rows, rd)
                      /\ \A i \in DOMAIN rd.delivered : entries[rd.delivered[i]].status # "NONE"
    BY DEF Lasting
  <2>1. Tidy(Rows, reader) /\ \A r : Has(reader, r) => entries[r].status # "NONE"
    BY DEF PageInv, Lasting, Has
  <2>2. \A r \in S : entries[r].status # "NONE"
    BY <1>0, <1>2 DEF Paging!Shown
  <2> HIDE DEF rd
  <2> QED BY <1>5, <1>8, <2>1, <2>2
<1>13. ListTyped'
  BY <1>1, <1>3 DEF ListTyped
<1> QED BY <1>1, <1>9, <1>10, <1>11, <1>12, <1>13, ReaderOnly

\* So does a cursor that is a plain number, as long as nothing was read.
LEMMA ReadFromStartStep == PageInv /\ (Paging!ReadFromStart(1) \/ Paging!Tick) => PageInv'
<1>1. ASSUME PageInv, Paging!ReadFromStart(1) PROVE PageInv'
  <2>1. /\ UNCHANGED <<listing, present, entries>> /\ reader.delivered = << >>
        /\ reader' = [reader EXCEPT !.cursor = Paging!Offset(1)]
    BY <1>1 DEF Paging!ReadFromStart
  <2>2. ListTyped /\ ListTyped' /\ ReaderTyped(reader)
    BY <1>1, <2>1 DEF PageInv, ListTyped
  <2>3. Paging!Offset(1) \in Paging!Cursor /\ Paging!Offset(1).mode = "offset"
    <3>1. Paging!Start \in Paging!Cursor
      BY DEF Paging!Start, Paging!Null, Paging!Keys, Paging!Cursor
    <3>2. 1 \in 0..1 /\ "offset" \in {"start", "offset", "keyset"}
      OBVIOUS
    <3>3. \A c \in Paging!Cursor :
             LET o == [c EXCEPT !.mode = "offset", !.offset = 1] IN
             o \in Paging!Cursor /\ o.mode = "offset"
      BY <3>2 DEF Paging!Cursor
    <3> QED BY <3>1, <3>3 DEF Paging!Offset
  <2>4. /\ reader'.cursor = Paging!Offset(1) /\ reader'.done = reader.done
        /\ reader'.delivered = << >> /\ reader'.kept = reader.kept
    BY <2>1, <2>2 DEF ReaderTyped
  <2>5. DOMAIN reader'.delivered = {}
    BY <2>4
  <2>6. ReaderTyped(reader')
    BY <2>1, <2>2, <2>3, <2>4 DEF ReaderTyped
  <2>7. Tidy(reader'.kept, reader') /\ Lasting(reader')
    BY <2>3, <2>4, <2>5 DEF Tidy, Lasting
  <2>8. Reached(reader')
    BY <1>1, <2>1, <2>3, <2>4 DEF PageInv, Reached, Has
  <2> QED BY <2>1, <2>2, <2>6, <2>7, <2>8, ReaderOnly
<1>2. ASSUME PageInv, Paging!Tick PROVE PageInv'
  <2>1. UNCHANGED <<listing, entries, reader>> /\ present' = present + 1 /\ present < MaxKey
    BY <1>2 DEF Paging!Tick
  <2>2. present' \in Paging!Times
    BY <1>2, <2>1, ReadsAssumption DEF PageInv, ListTyped, Paging!Times
  <2>3. ListTyped'
    BY <1>2, <2>1, <2>2 DEF PageInv, ListTyped, Paging!Times
  <2> QED BY <1>2, <2>1, <2>3, ReaderOnly DEF PageInv
<1> QED BY <1>1, <1>2

\* What is written takes the rows of W from what can be counted on.
LEMMA RowsWritten ==
  ASSUME PageInv, UNCHANGED <<listing, present>>, NEW W,
         entries' \in [Rows -> [status : {"NONE", "SHOWN", "HIDDEN", "DELETED"}, key : Paging!Keys]],
         \A r \in Rows : r \notin W => entries'[r] = entries[r],
         reader' = [reader EXCEPT !.kept = @ \ W],
         listing.sort \in {"created", "log"} =>
           \A r \in Rows : entries[r].status # "NONE" =>
             entries'[r].key = entries[r].key /\ entries'[r].status # "NONE"
  PROVE  PageInv'
<1>1. /\ reader'.cursor = reader.cursor /\ reader'.done = reader.done
      /\ reader'.delivered = reader.delivered /\ reader'.kept = reader.kept \ W
      /\ reader' \in [cursor : Paging!Cursor, done : BOOLEAN, delivered : Seq(Rows), kept : SUBSET Rows]
  BY DEF PageInv, ReaderTyped
<1>2. /\ ListTyped /\ ReaderTyped(reader) /\ reader.delivered \in Seq(Rows)
      /\ reader.kept \subseteq Rows
      /\ \A i \in DOMAIN reader.delivered : reader.delivered[i] \in Rows
  BY DEF PageInv, ReaderTyped
<1>3. ListTyped'
  BY <1>2 DEF ListTyped, Paging!Times
<1>4. \A r, o : entries'[r].key = entries[r].key /\ entries'[o].key = entries[o].key =>
        (Paging!OrderBy(r, o)' <=> Paging!OrderBy(r, o))
  BY DEF Paging!OrderBy, Paging!Ascending
<1>5. \A r : entries'[r].key = entries[r].key =>
        (Paging!KeysetWhere(reader.cursor, r)' <=> Paging!KeysetWhere(reader.cursor, r))
  BY <1>1 DEF Paging!KeysetWhere
<1>6. \A r \in reader'.kept : r \in Rows /\ r \in reader.kept /\ entries'[r] = entries[r]
  BY <1>1, <1>2
<1>7. ReaderTyped(reader)'
  BY <1>1, <1>2, <1>6 DEF ReaderTyped, Paging!Shown
<1>8. Tidy(reader.kept, reader)'
  <2>1. Tidy(reader.kept, reader)
    BY DEF PageInv
  <2> QED BY <1>1, <1>4, <1>5, <1>6, <2>1 DEF Tidy
<1>9. Reached(reader)'
  <2>1. Reached(reader)
    BY DEF PageInv
  <2> QED BY <1>1, <1>5, <1>6, <2>1 DEF Reached, Has
<1>10. Lasting(reader)'
  <2> SUFFICES ASSUME listing.sort \in {"created", "log"}
               PROVE  Lasting(reader)'
    BY DEF Lasting
  <2>1. Tidy(Rows, reader)
        /\ \A i \in DOMAIN reader.delivered : entries[reader.delivered[i]].status # "NONE"
    BY DEF PageInv, Lasting
  <2>2. \A i \in DOMAIN reader.delivered :
          /\ entries'[reader.delivered[i]].key = entries[reader.delivered[i]].key
          /\ entries'[reader.delivered[i]].status # "NONE"
    BY <1>2, <2>1
  <2>3. Tidy(Rows, reader)'
    BY <1>1, <1>2, <1>4, <1>5, <2>1, <2>2 DEF Tidy
  <2> QED BY <1>1, <2>2, <2>3 DEF Lasting
<1> QED BY <1>3, <1>7, <1>8, <1>9, <1>10 DEF PageInv

\* Rows that are inserted, changed, hidden or deleted.
LEMMA WriteStep ==
  ASSUME PageInv, NEW r \in Rows, Paging!Insert(r) \/ Paging!Change(r)
  PROVE  PageInv'
<1> DEFINE Row == [status : {"NONE", "SHOWN", "HIDDEN", "DELETED"}, key : Paging!Keys]
<1>1. ListTyped /\ entries \in [Rows -> Row] /\ entries[r] \in Row
  BY DEF PageInv, ListTyped
<1>2. /\ Paging!Null \in Paging!Keys
      /\ \A t \in Paging!Times : {t} \in Paging!Keys
      /\ \A t \in 0..present : t \in Paging!Times
  <2>1. present \in 0..MaxKey
    BY <1>1 DEF ListTyped, Paging!Times
  <2>2. \A t \in 0..present : t \in 0..MaxKey
    BY <2>1, ReadsAssumption
  <2> QED BY <2>2 DEF Paging!Keys, Paging!Times
<1>3. ASSUME NEW row \in Row, Paging!Write(r, row),
             listing.sort \in {"created", "log"} /\ entries[r].status # "NONE" =>
               row.key = entries[r].key /\ row.status # "NONE"
      PROVE  PageInv'
  <2>1. /\ entries' = [entries EXCEPT ![r] = row] /\ UNCHANGED <<listing, present>>
        /\ reader' = [reader EXCEPT !.kept = @ \ {r}]
    BY <1>3 DEF Paging!Write
  <2>2. entries' \in [Rows -> Row] /\ entries'[r] = row
        /\ \A o \in Rows : o # r => entries'[o] = entries[o]
    BY <1>1, <1>3, <2>1
  <2>3. \A o \in Rows : o \notin {r} => entries'[o] = entries[o]
    BY <2>2
  <2>4. listing.sort \in {"created", "log"} =>
          \A o \in Rows : entries[o].status # "NONE" =>
            entries'[o].key = entries[o].key /\ entries'[o].status # "NONE"
    BY <1>3, <2>2
  <2> QED BY <2>1, <2>2, <2>3, <2>4, RowsWritten
<1>4. \A status \in {"SHOWN", "HIDDEN"}, k \in Paging!Keys : [status |-> status, key |-> k] \in Row
  OBVIOUS
<1>5. CASE Paging!Insert(r)
  <2>1. entries[r].status = "NONE"
    BY <1>5 DEF Paging!Insert
  <2>2. \E status \in {"SHOWN", "HIDDEN"}, k \in Paging!Keys :
          Paging!Write(r, [status |-> status, key |-> k])
    <3>1. PICK status \in {"SHOWN", "HIDDEN"} :
            CASE listing.sort = "activity" -> Paging!Write(r, [status |-> status, key |-> Paging!Null])
              [] listing.sort = "log" -> \E t \in 0..present : Paging!Write(r, [status |-> "SHOWN", key |-> {t}])
              [] listing.sort = "metric" -> \E v \in Paging!Times : Paging!Write(r, [status |-> status, key |-> {v}])
              [] OTHER -> \E t \in 0..present : Paging!Write(r, [status |-> status, key |-> {t}])
      BY <1>5 DEF Paging!Insert
    <3> QED BY <1>2, <3>1
  <2> QED BY <1>3, <1>4, <2>1, <2>2
<1>6. CASE Paging!Change(r)
  <2>1. PICK status \in {"SHOWN", "HIDDEN"} :
          CASE listing.sort = "created" -> Paging!Write(r, [entries[r] EXCEPT !.status = status])
            [] listing.sort = "latest" -> \E t \in 0..present : Paging!Write(r, [status |-> status, key |-> {t}])
            [] listing.sort = "metric" -> \E v \in Paging!Times : Paging!Write(r, [status |-> status, key |-> {v}])
            [] listing.sort = "activity" ->
                 \E t \in 0..present : /\ entries[r].key = Paging!Null \/ Paging!Below(entries[r].key, {t})
                                       /\ Paging!Write(r, [status |-> "SHOWN", key |-> {t}])
            [] listing.sort = "log" -> FALSE
    BY <1>6 DEF Paging!Change
  <2>2. listing.sort \in {"created", "latest", "metric", "activity", "log"}
    BY <1>1 DEF ListTyped, Paging!Sorts, Paging!QueryTasks, Paging!QuerySubmissions,
                Paging!QueryDisputes, Paging!QueryAgents, Paging!QueryActivities,
                Paging!QueryTaskIntentions, Paging!QueryCycles, Paging!QueryRequestLogs,
                Paging!QueryAuditLogs, Paging!QueryFeedbackReports, Paging!ListRuntimeRuleAudits
  <2>3. CASE listing.sort = "created"
    <3> DEFINE row == [entries[r] EXCEPT !.status = status]
    <3>1. row \in Row /\ row.key = entries[r].key /\ row.status # "NONE"
      BY <1>1
    <3>2. Paging!Write(r, row)
      BY <2>1, <2>3
    <3> HIDE DEF row, Row
    <3> QED BY <1>3, <3>1, <3>2
  <2>4. CASE listing.sort \notin {"created", "log"}
    <3>1. \E k \in Paging!Keys, s \in {"SHOWN", "HIDDEN"} : Paging!Write(r, [status |-> s, key |-> k])
      BY <1>2, <2>1, <2>2, <2>4
    <3> QED BY <1>3, <1>4, <2>4, <3>1
  <2>5. CASE listing.sort = "log"
    BY <2>1, <2>5
  <2> QED BY <2>3, <2>4, <2>5
<1> QED BY <1>5, <1>6

\* Logs that are swept.
LEMMA CleanupStep ==
  ASSUME PageInv, NEW cutoff, Paging!Cleanup(cutoff)
  PROVE  PageInv'
<1> DEFINE Row == [status : {"NONE", "SHOWN", "HIDDEN", "DELETED"}, key : Paging!Keys]
<1>1. entries \in [Rows -> Row]
  BY DEF PageInv, ListTyped
<1>2. PICK batch : /\ entries' = [r \in Rows |-> IF r \in batch
                                    THEN [entries[r] EXCEPT !.status = "DELETED"] ELSE entries[r]]
                   /\ reader' = [reader EXCEPT !.kept = @ \ batch]
                   /\ UNCHANGED <<listing, present>>
  BY DEF Paging!Cleanup
<1>3. \A r \in Rows : /\ entries[r] \in Row
                      /\ [entries[r] EXCEPT !.status = "DELETED"] \in Row
                      /\ [entries[r] EXCEPT !.status = "DELETED"].key = entries[r].key
                      /\ [entries[r] EXCEPT !.status = "DELETED"].status = "DELETED"
  BY <1>1
<1>4. entries' \in [Rows -> Row]
  BY <1>2, <1>3
<1>5. \A r \in Rows : r \notin batch => entries'[r] = entries[r]
  BY <1>2
<1>6. \A r \in Rows : entries[r].status # "NONE" =>
        entries'[r].key = entries[r].key /\ entries'[r].status # "NONE"
  <2> TAKE r \in Rows
  <2>1. entries'[r] = entries[r] \/ entries'[r] = [entries[r] EXCEPT !.status = "DELETED"]
    BY <1>2
  <2> QED BY <1>3, <2>1
<1> QED BY <1>2, <1>4, <1>5, <1>6, RowsWritten

\* No step takes from the reader what can be counted on.
LEMMA PagesStep == PageInv /\ Paging!Next => PageInv'
BY ReadPageStep, ReadFromStartStep, WriteStep, CleanupStep DEF Paging!Next

LEMMA PagesImply == PageInv => PagesRight
<1> SUFFICES ASSUME PageInv PROVE PagesRight
  OBVIOUS
<1>1. ListTyped /\ ReaderTyped(reader) /\ reader.delivered \in Seq(Rows)
  BY DEF PageInv, ReaderTyped
<1>2. Paging!TypeOK
  <2>1. reader.cursor \in Paging!Cursor /\ reader.kept \subseteq Paging!Shown
    BY <1>1 DEF ReaderTyped
  <2> QED BY <1>1, <2>1 DEF ListTyped, Paging!TypeOK
<1>3. Paging!PagesAgree
  BY <1>1, PagesAgreeing
<1>4. Paging!InOrderOnce
  BY DEF PageInv, Tidy, Reached, Has, Paging!InOrderOnce
<1>5. Paging!NoRepetition
  <2> SUFFICES ASSUME listing.sort \in {"created", "log"},
                      NEW i \in DOMAIN reader.delivered, NEW j \in DOMAIN reader.delivered,
                      reader.delivered[i] = reader.delivered[j]
               PROVE  i = j
    BY DEF Paging!NoRepetition, Paging!IsInjective
  <2>1. Tidy(Rows, reader)
    BY DEF PageInv, Lasting
  <2>2. reader.delivered[i] \in Rows /\ i \in Int /\ j \in Int
    BY <1>1, LenProperties
  <2>3. ~Paging!OrderBy(reader.delivered[i], reader.delivered[i])
    BY <1>1, <2>2, InListOrders DEF Orders
  <2>4. ~(i < j) /\ ~(j < i)
    BY <2>1, <2>2, <2>3 DEF Tidy
  <2> QED BY <2>2, <2>4
<1> QED BY <1>2, <1>3, <1>4, <1>5 DEF PagesRight

\* However rows are inserted, changed, deleted and read page by page: arrays and SQL
\* give the same pages, a reader who follows the cursors gets each row that stays once
\* and in order, and where the key never changes none twice.
THEOREM PagesAreRight == ReadsSpec => []PagesRight
<1>1. ReadsInit => PageInv
  BY PagesInit DEF ReadsInit
<1>2. PageInv /\ [ReadsNext]_<<vars, listVars, dayVars, disputeVars, reading>> => PageInv'
  <2>1. ASSUME PageInv, UNCHANGED listVars PROVE PageInv'
    <3>1. UNCHANGED <<listing, present, entries, reader>>
      BY <2>1 DEF listVars
    <3>2. ListTyped'
      BY <2>1, <3>1 DEF PageInv, ListTyped, Paging!Times
    <3> QED BY <2>1, <3>1, <3>2, ReaderOnly DEF PageInv
  <2> QED BY <2>1, PagesStep DEF ReadsNext
<1>3. ReadsSpec => []PageInv
  BY <1>1, <1>2, PTL DEF ReadsSpec
<1> QED BY <1>3, PagesImply, PTL
=============================================================================
