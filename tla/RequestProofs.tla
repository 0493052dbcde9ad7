--------------------------- MODULE RequestProofs ---------------------------
(***************************************************************************)
(* What a request is told, what the audit log says of it and what the      *)
(* counters count, for every set of requests and every number of repeated  *)
(* transactions, bans and deaths of the process.  MCLogs takes two         *)
(* instances of Requests; what is proved here once is proved of both.      *)
(***************************************************************************)
EXTENDS Requests, FiniteSetTheorems, TLAPS

\* What every instance has to be.
Bounded ==
  /\ IsFiniteSet(Requests)
  /\ MaxRetries \in Nat /\ MaxBans \in Nat /\ MaxDeaths \in Nat

Codes == {0, 200, 400, 401, 403, 409, 429, 500}
Outcomes == {"no", "done", "lost", "refused", "conflict", "failed"}
EntryOrNone == Entries \cup {NoEntry}
Attempts == 0..MaxRetries

RequestRows ==
  [kind : Kinds, at : Stages, attempts : Attempts, code : Codes,
   entry : EntryOrNone, next : Stages, written : Outcomes]

\* Nothing has been decided about a request at these stages.
Early == {"unsent", "authenticating", "checking", "proving", "entering", "writing", "running"}

\* A request that waits for its entry in the audit log is where it goes next.
Stage(q) == IF q.at = "noting" THEN q.next ELSE q.at

\* What became of the write decides how often it was done and what is answered.
Told(q, n) ==
  /\ q.written = "no" => n = 0 /\ q.code \in {0, 400, 401, 403, 429, 500}
  /\ q.written = "done" => n = 1 /\ q.code = 200
  /\ q.written = "lost" => n = 1 /\ q.code = 500
  /\ q.written = "refused" => n = 0 /\ q.code = 409
  /\ q.written \in {"conflict", "failed"} => n = 0 /\ q.code = 500

\* What is known of a request at each stage.
Placed(q) ==
  /\ q.at \in Early => q.code = 0 /\ q.written = "no"
  /\ q.at = "writing" => HasRepository
  /\ q.at = "running" => ~HasRepository
  /\ Stage(q) = "failing" => q.written \in {"lost", "conflict", "failed"}
  /\ Stage(q) \in {"answering", "answered"} => q.code # 0
  /\ q.at = "noting" => deployment = "tables" /\ q.next \in {"failing", "answering", "answered"}

\* What is noted before the answer.
Noteworthy(q) == q.code \in {401, 500} \/ q.written # "no"

\* The entry that a request waits for is about it.
Pending(r, q) ==
  q.at = "noting" =>
    /\ q.entry \in Entries /\ q.entry.request = r
    /\ q.entry # Entry(r, "write", "success")
    /\ q.entry = Entry(r, "write", "failure") => q.written \notin {"no", "done"}
    /\ q.next \in {"failing", "answering"} => Noteworthy(q)
    /\ q.next = "answered" => q.code = 429

IsNoted(r, log, missed) == \E e \in log \cup missed : e.request = r

\* What the audit log, and what could not be written to it, say of a request.
Kept(r, q, log, missed) ==
  /\ Entry(r, "write", "success") \in log => q.written \in {"done", "lost"}
  /\ deployment = "tables" /\ q.written \in {"done", "lost"} => Entry(r, "write", "success") \in log
  /\ Entry(r, "write", "failure") \in log => q.written \notin {"no", "done"}
  /\ q.at \in Early => ~IsNoted(r, log, missed)
  /\ q.at \in {"failing", "answering"} => (Noteworthy(q) <=> IsNoted(r, log, missed))
  /\ q.at = "answered" => (Noteworthy(q) \/ q.code = 429 <=> IsNoted(r, log, missed))

\* Everything that is known of a request.
Fits(r, q, n, log, missed) == Told(q, n) /\ Placed(q) /\ Pending(r, q) /\ Kept(r, q, log, missed)

WorldTyped ==
  /\ deployment \in {"memory", "tables", "tables without audit"}
  /\ banned \in BOOLEAN /\ bans \in 0..MaxBans /\ deaths \in 0..MaxDeaths

RowsTyped ==
  /\ request \in [Requests -> RequestRows]
  /\ effects \in [Requests -> Nat]
  /\ audit \subseteq Entries /\ unaudited \subseteq Entries

ToldInv ==
  /\ WorldTyped /\ RowsTyped
  /\ \A r \in Requests : Fits(r, request[r], effects[r], audit, unaudited)

\* What the counters of a process that never died stand for.
Finished == {r \in Requests : Stage(request[r]) = "answered"}
FinishedWrong == {r \in Requests : Stage(request[r]) = "answered" /\ request[r].code >= 400}
Wrote == {r \in Requests : request[r].written # "no"}
WroteWrong == {r \in Requests : request[r].written \notin {"no", "done"}}

CountsInv ==
  /\ metrics \in [requests : Nat, errors : Nat, limited : Nat, writes : Nat, writeErrors : Nat]
  /\ deaths = 0 =>
       /\ \A r \in Requests : request[r].at \notin {"cut", "past"}
       /\ metrics.requests = Cardinality(Finished)
       /\ metrics.errors = Cardinality(FinishedWrong)
       /\ metrics.writeErrors <= Cardinality(WroteWrong)
       /\ HasRepository => /\ metrics.writes = Cardinality(Wrote)
                           /\ metrics.writeErrors = Cardinality(WroteWrong)

RequestsInv == ToldInv /\ CountsInv

-----------------------------------------------------------------------------
(* One request takes a step.                                               *)

\* What a step of one request changes.
Took(r, q, n, log, missed) ==
  /\ request' = [request EXCEPT ![r] = q]
  /\ effects' = [effects EXCEPT ![r] = n]
  /\ audit' = log /\ unaudited' = missed
  /\ UNCHANGED <<deployment, banned, bans, deaths>>

\* What one request does leaves what is said of the others.
LEMMA OneMoves ==
  ASSUME ToldInv, NEW r \in Requests, NEW q \in RequestRows, NEW n \in Nat,
         NEW X \in SUBSET Entries, NEW Y \in SUBSET Entries,
         \A e \in X \cup Y : e.request = r,
         Took(r, q, n, audit \cup X, unaudited \cup Y),
         Fits(r, q, n, audit \cup X, unaudited \cup Y)
  PROVE  ToldInv'
<1>1. WorldTyped'
  BY DEF ToldInv, WorldTyped, Took
<1>2. RowsTyped'
  BY DEF ToldInv, RowsTyped, Took
<1>3. ASSUME NEW s \in Requests PROVE Fits(s, request[s], effects[s], audit, unaudited)'
  <2>0. deployment' = deployment
    BY DEF Took
  <2>1. CASE s = r
    <3>1. request'[s] = q /\ effects'[s] = n /\ audit' = audit \cup X /\ unaudited' = unaudited \cup Y
      BY <2>1 DEF ToldInv, RowsTyped, Took
    <3> QED
      BY <3>1, <2>0, <2>1
      DEF Fits, Told, Placed, Pending, Kept, Stage, Noteworthy, IsNoted, HasRepository, Entry
  <2>2. CASE s # r
    <3>1. /\ request'[s] = request[s] /\ effects'[s] = effects[s]
          /\ audit' = audit \cup X /\ unaudited' = unaudited \cup Y
      BY <2>2 DEF ToldInv, RowsTyped, Took
    <3>2. Fits(s, request[s], effects[s], audit, unaudited)
      BY DEF ToldInv
    <3>3. IsNoted(s, audit \cup X, unaudited \cup Y) <=> IsNoted(s, audit, unaudited)
      BY <2>2 DEF IsNoted
    <3>4. \A about, outcome : Entry(s, about, outcome) \in audit \cup X <=> Entry(s, about, outcome) \in audit
      BY <2>2 DEF Entry
    <3>5. Kept(s, request[s], audit \cup X, unaudited \cup Y)
      BY <3>2, <3>3, <3>4 DEF Fits, Kept
    <3> QED
      BY <3>1, <3>2, <3>5, <2>0
      DEF Fits, Told, Placed, Pending, Kept, Stage, Noteworthy, IsNoted, HasRepository, Entry
  <2> QED
    BY <2>1, <2>2
<1> QED
  BY <1>1, <1>2, <1>3 DEF ToldInv

\* A request that notes nothing, and does nothing of what it asks for.
LEMMA QuietMove ==
  ASSUME ToldInv, NEW r \in Requests, NEW q \in RequestRows,
         request' = [request EXCEPT ![r] = q],
         UNCHANGED <<deployment, banned, bans, deaths, effects, audit, unaudited>>,
         Fits(r, q, effects[r], audit, unaudited)
  PROVE  ToldInv'
<1> DEFINE X == {}
           n == effects[r]
<1>1. n \in Nat
  BY DEF ToldInv, RowsTyped
<1>2. Took(r, q, n, audit \cup X, unaudited \cup X)
  BY DEF Took, ToldInv, RowsTyped
<1>3. Fits(r, q, n, audit \cup X, unaudited \cup X)
  <2>1. audit \cup X = audit /\ unaudited \cup X = unaudited
    OBVIOUS
  <2> QED
    BY <2>1
<1>4. X \in SUBSET Entries /\ \A e \in X \cup X : e.request = r
  OBVIOUS
<1> HIDE DEF X, n
<1> QED
  BY <1>1, <1>2, <1>3, <1>4, OneMoves

\* What Note makes of a request.
WhenNoted(q, entry) ==
  IF deployment = "tables"
  THEN [q EXCEPT !.entry = entry, !.at = "noting", !.next = q.at]
  ELSE q

\* The log when it has been noted at once, after the entries of X.
LogWith(X, entry) == audit \cup X \cup InProcess({entry})

\* An entry that may be noted of a request, once the log says what it says.
NoteFits(r, q, n, entry, log) ==
  /\ entry \in Entries /\ entry.request = r
  /\ entry # Entry(r, "write", "success")
  /\ entry = Entry(r, "write", "failure") => q.written \notin {"no", "done"}
  /\ Entry(r, "write", "success") \in log => q.written \in {"done", "lost"}
  /\ deployment = "tables" /\ q.written \in {"done", "lost"} => Entry(r, "write", "success") \in log
  /\ Entry(r, "write", "failure") \in log => q.written \notin {"no", "done"}
  /\ q.at \in {"failing", "answering", "answered"}
  /\ q.at \in {"failing", "answering"} => Noteworthy(q)
  /\ q.at = "answered" => q.code = 429
  /\ q.at = "failing" => q.written \in {"lost", "conflict", "failed"}
  /\ q.code # 0
  /\ Told(q, n)

\* A request that has something to note notes it, or waits until it can.
LEMMA NoteMoves ==
  ASSUME ToldInv, NEW r \in Requests, NEW q \in RequestRows, NEW n \in Nat,
         NEW entry, NEW X \in SUBSET Entries, \A e \in X : e.request = r,
         NoteFits(r, q, n, entry, audit \cup X),
         Took(r, WhenNoted(q, entry), n, LogWith(X, entry), unaudited)
  PROVE  ToldInv'
<1> DEFINE Y == {}
           Z == X \cup InProcess({entry})
           w == WhenNoted(q, entry)
<1>1. entry \in Entries /\ entry.request = r
  BY DEF NoteFits
<1>2. Z \in SUBSET Entries /\ Y \in SUBSET Entries /\ (\A e \in Z \cup Y : e.request = r)
  BY <1>1 DEF InProcess
<1>3. w \in RequestRows /\ w.code = q.code /\ w.written = q.written
  <2>1. entry \in EntryOrNone /\ "noting" \in Stages
    BY <1>1 DEF EntryOrNone, Stages
  <2> QED
    BY <2>1 DEF RequestRows, WhenNoted
<1>4. /\ deployment = "tables" => w.at = "noting" /\ w.entry = entry /\ w.next = q.at
      /\ deployment # "tables" => w = q
  BY DEF RequestRows, WhenNoted
<1>5. /\ Entry(r, "write", "success") \in audit \cup Z => q.written \in {"done", "lost"}
      /\ deployment = "tables" /\ q.written \in {"done", "lost"}
           => Entry(r, "write", "success") \in audit \cup Z
      /\ Entry(r, "write", "failure") \in audit \cup Z => q.written \notin {"no", "done"}
      /\ deployment # "tables" => IsNoted(r, audit \cup Z, unaudited \cup Y)
  BY <1>1 DEF NoteFits, InProcess, IsNoted
<1>6. Took(r, w, n, audit \cup Z, unaudited \cup Y)
  <2>1. audit \cup Z = LogWith(X, entry) /\ unaudited \cup Y = unaudited
    BY DEF LogWith
  <2> QED
    BY <2>1
<1> HIDE DEF w, Y, Z
<1>7. Fits(r, w, n, audit \cup Z, unaudited \cup Y)
  <2>1. Told(w, n)
    BY <1>3 DEF NoteFits, Told
  <2>2. Placed(w)
    BY <1>3, <1>4 DEF NoteFits, Placed, Stage, Early
  <2>3. Pending(r, w)
    BY <1>3, <1>4 DEF NoteFits, Pending, Noteworthy
  <2>4. Kept(r, w, audit \cup Z, unaudited \cup Y)
    BY <1>3, <1>4, <1>5 DEF NoteFits, Kept, Early, Noteworthy
  <2> QED
    BY <2>1, <2>2, <2>3, <2>4 DEF Fits
<1> QED
  BY <1>2, <1>3, <1>6, <1>7, OneMoves

-----------------------------------------------------------------------------
(* On the way in.                                                          *)

\* What the invariant says of one request.
LEMMA RequestKnown ==
  ASSUME ToldInv, NEW r \in Requests
  PROVE  /\ request[r] \in RequestRows /\ effects[r] \in Nat
         /\ Fits(r, request[r], effects[r], audit, unaudited)
         /\ Told(request[r], effects[r]) /\ Placed(request[r])
         /\ Pending(r, request[r]) /\ Kept(r, request[r], audit, unaudited)
         /\ effects = [effects EXCEPT ![r] = effects[r]]
BY DEF ToldInv, RowsTyped, Fits

LEMMA EntriesTyped ==
  ASSUME NEW r \in Requests, NEW about \in {"access", "write", "error", "rate"},
         NEW outcome \in {"success", "failure", "rejected"}
  PROVE  /\ Entry(r, about, outcome) \in Entries
         /\ Entry(r, about, outcome).request = r
         /\ Entry(r, about, outcome).about = about
         /\ Entry(r, about, outcome).outcome = outcome
BY DEF Entry, Entries

\* A request that was turned away or that meets an error nobody expected.
LEMMA EarlyNote ==
  ASSUME ToldInv, NEW r \in Requests, NEW entry \in Entries, NEW code \in {401, 500},
         request[r].at \in Early \cup {"failing"}, request[r].at # "unsent",
         request[r].at = "failing" => code = 500,
         entry.request = r, entry.about # "write",
         Note(r, entry, [request[r] EXCEPT !.code = code, !.at = "answering"]),
         audit' = audit \cup InProcess({entry}),
         UNCHANGED <<deployment, banned, bans, deaths, effects, unaudited>>
  PROVE  ToldInv'
<1> DEFINE X == {}
           n == effects[r]
           q == [request[r] EXCEPT !.code = code, !.at = "answering"]
<1>1. /\ q \in RequestRows /\ q.code = code /\ q.at = "answering"
      /\ q.written = request[r].written
  <2>1. request[r] \in RequestRows /\ code \in Codes /\ "answering" \in Stages
    BY RequestKnown DEF Codes, Stages
  <2> QED
    BY <2>1 DEF RequestRows
<1>2. Took(r, WhenNoted(q, entry), n, LogWith(X, entry), unaudited)
  <2>1. LogWith(X, entry) = audit \cup InProcess({entry})
    BY DEF LogWith
  <2> QED
    BY <2>1, RequestKnown DEF Note, Took, WhenNoted
<1> HIDE DEF q
<1>3. /\ request[r].at # "failing" => request[r].written = "no"
      /\ request[r].at = "failing" => request[r].written \in {"lost", "conflict", "failed"}
  BY RequestKnown DEF Placed, Stage, Early
<1>4. Told(q, n)
  BY <1>1, <1>3, RequestKnown DEF Told
<1>5. /\ entry # Entry(r, "write", "success")
      /\ entry # Entry(r, "write", "failure")
  BY EntriesTyped
<1>6. NoteFits(r, q, n, entry, audit \cup X)
  <2>1. /\ Entry(r, "write", "success") \in audit \cup X => q.written \in {"done", "lost"}
        /\ deployment = "tables" /\ q.written \in {"done", "lost"}
             => Entry(r, "write", "success") \in audit \cup X
        /\ Entry(r, "write", "failure") \in audit \cup X => q.written \notin {"no", "done"}
    BY <1>1, RequestKnown DEF Kept
  <2> QED
    BY <1>1, <1>4, <1>5, <2>1 DEF NoteFits, Noteworthy
<1>7. n \in Nat /\ X \in SUBSET Entries /\ (\A e \in X : e.request = r)
  BY RequestKnown
<1> HIDE DEF X, n
<1> QED
  BY <1>1, <1>2, <1>6, <1>7, NoteMoves

\* A request about which nothing was decided goes on, or is answered at once.
LEMMA QuietEarly ==
  ASSUME ToldInv, NEW r \in Requests, NEW q \in RequestRows,
         request[r].at \in Early,
         q.written = request[r].written,
         \/ q.at \in Early /\ q.code = 0
         \/ q.at = "answering" /\ q.code \in {400, 403, 429},
         q.at = "writing" => HasRepository, q.at = "running" => ~HasRepository,
         request' = [request EXCEPT ![r] = q],
         UNCHANGED <<deployment, banned, bans, deaths, effects, audit, unaudited>>
  PROVE  ToldInv'
<1>1. q.written = "no" /\ request[r].code = 0 /\ effects[r] = 0
  BY RequestKnown DEF Placed, Told
<1>2. Told(q, effects[r])
  BY <1>1 DEF Told, Early
<1>3. Placed(q)
  BY <1>1 DEF Placed, Stage, Early
<1>4. Pending(r, q)
  BY DEF Pending, Early
<1>5. Kept(r, q, audit, unaudited)
  <2>1. Kept(r, request[r], audit, unaudited)
    BY RequestKnown
  <2>2. ~IsNoted(r, audit, unaudited)
    BY <2>1 DEF Kept
  <2> QED
    BY <1>1, <2>1, <2>2 DEF Kept, Early, Noteworthy
<1>6. Fits(r, q, effects[r], audit, unaudited)
  BY <1>2, <1>3, <1>4, <1>5 DEF Fits
<1> QED
  BY <1>6, QuietMove

LEMMA ArriveStep ==
  ASSUME ToldInv, NEW r \in Requests, NEW kind \in Kinds, NEW allowed \in BOOLEAN,
         Arrive(r, kind, allowed)
  PROVE  ToldInv'
<1> DEFINE code == IF allowed THEN 0 ELSE 429
           at == IF allowed THEN "authenticating" ELSE "answering"
           q == [request[r] EXCEPT !.kind = kind, !.code = code, !.at = at]
<1>1. /\ code \in Codes /\ at \in Stages
      /\ (at = "authenticating" /\ code = 0) \/ (at = "answering" /\ code = 429)
  BY DEF Codes, Stages
<1>2. request' = [request EXCEPT ![r] = q]
  BY RequestKnown DEF Arrive, ToldInv, RowsTyped
<1> HIDE DEF code, at
<1>3. q \in RequestRows /\ q.code = code /\ q.at = at /\ q.written = request[r].written
  <2>1. request[r] \in RequestRows
    BY RequestKnown
  <2> QED
    BY <1>1, <2>1 DEF RequestRows
<1> HIDE DEF q
<1>4. /\ request[r].at \in Early
      /\ UNCHANGED <<deployment, banned, bans, deaths, effects, audit, unaudited>>
  BY DEF Arrive, Early
<1>5. /\ (q.at \in Early /\ q.code = 0) \/ (q.at = "answering" /\ q.code \in {400, 403, 429})
      /\ q.at # "writing" /\ q.at # "running"
  BY <1>1, <1>3 DEF Early
<1> QED
  BY <1>2, <1>3, <1>4, <1>5, QuietEarly

\* GoOn of a request about which nothing was decided.
LEMMA GoOnStep ==
  ASSUME ToldInv, NEW r \in Requests, NEW stage \in Early,
         request[r].at \in Early, GoOn(r, stage),
         stage = "writing" => HasRepository, stage = "running" => ~HasRepository,
         UNCHANGED <<deployment, banned, bans, deaths, effects, unaudited>>
  PROVE  ToldInv'
<1> DEFINE q == [request[r] EXCEPT !.at = stage]
<1>1. request[r] \in RequestRows /\ stage \in Stages
  BY RequestKnown DEF Early, Stages
<1>2. /\ q \in RequestRows /\ q.at = stage
      /\ q.code = request[r].code /\ q.written = request[r].written
  BY <1>1 DEF RequestRows
<1>3. request' = [request EXCEPT ![r] = q] /\ audit' = audit
  BY DEF GoOn
<1> HIDE DEF q
<1>4. q.code = 0
  BY <1>2, RequestKnown DEF Placed
<1> QED
  BY <1>2, <1>3, <1>4, QuietEarly

\* Refuse of one.
LEMMA RefuseStep ==
  ASSUME ToldInv, NEW r \in Requests, NEW code \in {400, 403},
         request[r].at \in Early, Refuse(r, code),
         UNCHANGED <<deployment, banned, bans, deaths, effects, unaudited>>
  PROVE  ToldInv'
<1> DEFINE q == [request[r] EXCEPT !.code = code, !.at = "answering"]
<1>1. request[r] \in RequestRows /\ code \in Codes /\ "answering" \in Stages
  BY RequestKnown DEF Codes, Stages
<1>2. /\ q \in RequestRows /\ q.at = "answering" /\ q.code = code
      /\ q.written = request[r].written
  BY <1>1 DEF RequestRows
<1>3. request' = [request EXCEPT ![r] = q] /\ audit' = audit
  BY DEF Refuse
<1> HIDE DEF q
<1> QED
  BY <1>2, <1>3, QuietEarly

LEMMA RejectStep ==
  ASSUME ToldInv, NEW r \in Requests, request[r].at \in Early, request[r].at # "unsent",
         Reject(r), UNCHANGED <<deployment, banned, bans, deaths, effects, unaudited>>
  PROVE  ToldInv'
<1> DEFINE entry == Entry(r, "access", "rejected")
<1>1. entry \in Entries /\ entry.request = r /\ entry.about # "write"
  BY EntriesTyped
<1>2. /\ Note(r, entry, [request[r] EXCEPT !.code = 401, !.at = "answering"])
      /\ audit' = audit \cup InProcess({entry})
  BY DEF Reject
<1>3. request[r].at # "failing" /\ 401 \in {401, 500}
  BY DEF Early
<1> HIDE DEF entry
<1> QED
  BY <1>1, <1>2, <1>3, EarlyNote

LEMMA FailStep ==
  ASSUME ToldInv, NEW r \in Requests,
         request[r].at \in Early \cup {"failing"}, request[r].at # "unsent",
         Fail(r), UNCHANGED <<deployment, banned, bans, deaths, effects, unaudited>>
  PROVE  ToldInv'
<1> DEFINE entry == Entry(r, "error", "failure")
<1>1. entry \in Entries /\ entry.request = r /\ entry.about # "write"
  BY EntriesTyped
<1>2. /\ Note(r, entry, [request[r] EXCEPT !.code = 500, !.at = "answering"])
      /\ audit' = audit \cup InProcess({entry})
  BY DEF Fail, Unexpected
<1>3. 500 \in {401, 500}
  OBVIOUS
<1> HIDE DEF entry
<1> QED
  BY <1>1, <1>2, <1>3, EarlyNote

\* The checks in front of the handler.
LEMMA WayInStep ==
  ASSUME ToldInv, NEW r \in Requests, NEW valid \in BOOLEAN,
         Authenticate(r, valid) \/ CheckActive(r, valid) \/ CheckAdmin(r, valid)
  PROVE  ToldInv'
<1>0. /\ "checking" \in Early /\ "proving" \in Early /\ "entering" \in Early
      /\ "checking" \notin {"writing", "running"} /\ "proving" \notin {"writing", "running"}
      /\ "entering" \notin {"writing", "running"}
      /\ 403 \in {400, 403}
  BY DEF Early
<1>1. ASSUME OnTheWayIn PROVE UNCHANGED <<deployment, banned, bans, deaths, effects, unaudited>>
  BY <1>1 DEF OnTheWayIn
<1>2. CASE Authenticate(r, valid)
  <2>1. request[r].at \in Early /\ request[r].at # "unsent" /\ OnTheWayIn
    BY <1>2 DEF Authenticate, Early
  <2>2. GoOn(r, "checking") \/ Reject(r)
    BY <1>2 DEF Authenticate
  <2>3. CASE GoOn(r, "checking")
    BY <2>1, <2>3, <1>0, <1>1, GoOnStep
  <2>4. CASE Reject(r)
    BY <2>1, <2>4, <1>1, RejectStep
  <2> QED
    BY <2>2, <2>3, <2>4
<1>3. CASE CheckActive(r, valid)
  <2>1. request[r].at \in Early /\ request[r].at # "unsent" /\ OnTheWayIn
    BY <1>3 DEF CheckActive, Early
  <2>2. Fail(r) \/ Refuse(r, 403) \/ GoOn(r, "proving") \/ GoOn(r, "entering")
    BY <1>3 DEF CheckActive
  <2>3. CASE Fail(r)
    BY <2>1, <2>3, <1>1, FailStep
  <2>4. CASE Refuse(r, 403)
    BY <2>1, <2>4, <1>0, <1>1, RefuseStep
  <2>5. CASE GoOn(r, "proving")
    BY <2>1, <2>5, <1>0, <1>1, GoOnStep
  <2>6. CASE GoOn(r, "entering")
    BY <2>1, <2>6, <1>0, <1>1, GoOnStep
  <2> QED
    BY <2>2, <2>3, <2>4, <2>5, <2>6
<1>4. CASE CheckAdmin(r, valid)
  <2>1. request[r].at \in Early /\ request[r].at # "unsent" /\ OnTheWayIn
    BY <1>4 DEF CheckAdmin, Early
  <2>2. GoOn(r, "entering") \/ Reject(r)
    BY <1>4 DEF CheckAdmin
  <2>3. CASE GoOn(r, "entering")
    BY <2>1, <2>3, <1>0, <1>1, GoOnStep
  <2>4. CASE Reject(r)
    BY <2>1, <2>4, <1>1, RejectStep
  <2> QED
    BY <2>2, <2>3, <2>4
<1> QED
  BY <1>2, <1>3, <1>4

LEMMA EnterStep ==
  ASSUME ToldInv, NEW r \in Requests, NEW outcome, Enter(r, outcome)
  PROVE  ToldInv'
<1>1. /\ request[r].at \in Early /\ request[r].at # "unsent"
      /\ UNCHANGED <<deployment, banned, bans, deaths, effects, unaudited>>
  BY DEF Enter, OnTheWayIn, Early
<1>2. \/ Fail(r)
      \/ Refuse(r, 400)
      \/ HasRepository /\ GoOn(r, "writing")
      \/ ~HasRepository /\ GoOn(r, "running")
  BY DEF Enter
<1>3. "writing" \in Early /\ "running" \in Early /\ 400 \in {400, 403}
  BY DEF Early
<1>4. CASE Fail(r)
  BY <1>1, <1>4, FailStep
<1>5. CASE Refuse(r, 400)
  BY <1>1, <1>3, <1>5, RefuseStep
<1>6. CASE HasRepository /\ GoOn(r, "writing")
  BY <1>1, <1>3, <1>6, GoOnStep
<1>7. CASE ~HasRepository /\ GoOn(r, "running")
  BY <1>1, <1>3, <1>7, GoOnStep
<1> QED
  BY <1>2, <1>4, <1>5, <1>6, <1>7

LEMMA HandleErrorStep ==
  ASSUME ToldInv, NEW r \in Requests, HandleError(r)
  PROVE  ToldInv'
<1>1. /\ request[r].at \in Early \cup {"failing"} /\ request[r].at # "unsent" /\ Fail(r)
      /\ UNCHANGED <<deployment, banned, bans, deaths, effects, unaudited>>
  BY DEF HandleError, OnTheWayIn
<1> QED
  BY <1>1, FailStep

-----------------------------------------------------------------------------
(* The write, and the answer.                                              *)

\* A request that wrote or was refused leaves one entry at once.
LEMMA WriteMoves ==
  ASSUME ToldInv, NEW r \in Requests, NEW q \in RequestRows, NEW n \in Nat,
         NEW outcome \in {"success", "failure"},
         request[r].at \in Early,
         q.at = "answering", q.written = IF outcome = "success" THEN "done" ELSE "refused",
         Told(q, n),
         outcome = "failure" => ~HasRepository,
         Took(r, q, n, audit \cup {Entry(r, "write", outcome)}, unaudited)
  PROVE  ToldInv'
<1> DEFINE X == {Entry(r, "write", outcome)}
           Y == {}
<1>1. X \in SUBSET Entries /\ Y \in SUBSET Entries /\ (\A e \in X \cup Y : e.request = r)
  BY EntriesTyped
<1>2. Took(r, q, n, audit \cup X, unaudited \cup Y)
  <2>1. unaudited \cup Y = unaudited
    OBVIOUS
  <2> QED
    BY <2>1
<1>3. /\ Entry(r, "write", "success") \notin audit
      /\ Entry(r, "write", "failure") \notin audit
  BY RequestKnown DEF Placed, Kept
<1>4. Entry(r, "write", "success") # Entry(r, "write", "failure")
  BY EntriesTyped
<1>5. IsNoted(r, audit \cup X, unaudited \cup Y)
  BY EntriesTyped DEF IsNoted
<1>6. /\ outcome = "success" => X = {Entry(r, "write", "success")}
      /\ outcome = "failure" => X = {Entry(r, "write", "failure")}
  OBVIOUS
<1> HIDE DEF X, Y
<1>7. Fits(r, q, n, audit \cup X, unaudited \cup Y)
  <2>1. Placed(q)
    BY DEF Placed, Stage, Early, Told
  <2>2. Pending(r, q)
    BY DEF Pending
  <2>3. Noteworthy(q)
    BY DEF Noteworthy
  <2>4. CASE outcome = "success"
    BY <1>3, <1>4, <1>5, <1>6, <2>1, <2>2, <2>3, <2>4 DEF Fits, Kept, Early
  <2>5. CASE outcome = "failure"
    BY <1>3, <1>4, <1>5, <1>6, <2>1, <2>2, <2>3, <2>5 DEF Fits, Kept, Early, HasRepository
  <2> QED
    BY <2>4, <2>5
<1> QED
  BY <1>1, <1>2, <1>7, OneMoves

LEMMA SucceedStep ==
  ASSUME ToldInv, NEW r \in Requests, request[r].at = "writing", Succeed(r),
         effects' = [effects EXCEPT ![r] = @ + 1],
         UNCHANGED <<deployment, banned, bans, deaths, unaudited>>
  PROVE  ToldInv'
<1> DEFINE q == [request[r] EXCEPT !.written = "done", !.code = 200, !.at = "answering"]
           n == effects[r] + 1
<1>1. request[r] \in RequestRows /\ 200 \in Codes /\ "done" \in Outcomes /\ "answering" \in Stages
  BY RequestKnown DEF Codes, Outcomes, Stages
<1>2. q \in RequestRows /\ q.at = "answering" /\ q.written = "done" /\ q.code = 200
  BY <1>1 DEF RequestRows
<1>3. effects[r] = 0 /\ request[r].at \in Early
  BY RequestKnown DEF Placed, Told, Early
<1>4. audit' = audit \cup {Entry(r, "write", "success")}
  BY DEF Succeed, NotedInTransaction, InProcess
<1>5. Took(r, q, n, audit \cup {Entry(r, "write", "success")}, unaudited)
  BY <1>4 DEF Succeed, Took
<1> HIDE DEF q
<1>6. n = 1 /\ n \in Nat
  BY <1>3
<1> HIDE DEF n
<1>7. Told(q, n)
  BY <1>2, <1>6 DEF Told
<1> QED
  BY <1>2, <1>3, <1>5, <1>6, <1>7, WriteMoves

LEMMA GoWrongStep ==
  ASSUME ToldInv, NEW r \in Requests, request[r].at = "writing",
         NEW written \in {"lost", "refused", "conflict", "failed"},
         GoWrong(r, written, IF written = "lost" THEN NotedInTransaction(r) ELSE {}),
         effects' = [effects EXCEPT ![r] = IF written = "lost" THEN @ + 1 ELSE @],
         UNCHANGED <<deployment, banned, bans, deaths, unaudited>>
  PROVE  ToldInv'
<1> DEFINE entry == Entry(r, "write", "failure")
           refused == written = "refused"
           code == IF refused THEN 409 ELSE 500
           at == IF refused THEN "answering" ELSE "failing"
           q == [request[r] EXCEPT !.written = written, !.code = code, !.at = at]
           n == IF written = "lost" THEN effects[r] + 1 ELSE effects[r]
           X == IF written = "lost" THEN NotedInTransaction(r) ELSE {}
<1>1. /\ code \in Codes /\ at \in Stages /\ written \in Outcomes
      /\ refused => code = 409 /\ at = "answering"
      /\ ~refused => code = 500 /\ at = "failing"
  BY DEF Codes, Stages, Outcomes
<1>2. Took(r, WhenNoted(q, entry), n, LogWith(X, entry), unaudited)
  <2>1. audit' = LogWith(X, entry)
    BY DEF GoWrong, LogWith
  <2>2. request' = [request EXCEPT ![r] = WhenNoted(q, entry)]
    BY DEF GoWrong, Note, WhenNoted
  <2>3. effects' = [effects EXCEPT ![r] = n]
    BY DEF ToldInv, RowsTyped
  <2> QED
    BY <2>1, <2>2, <2>3 DEF Took
<1> HIDE DEF code, at
<1>3. q \in RequestRows /\ q.at = at /\ q.written = written /\ q.code = code
  <2>1. request[r] \in RequestRows
    BY RequestKnown
  <2> QED
    BY <1>1, <2>1 DEF RequestRows
<1> HIDE DEF q
<1>4. effects[r] = 0 /\ request[r].written = "no"
  BY RequestKnown DEF Placed, Told, Early
<1>5. n \in Nat /\ (written = "lost" => n = 1) /\ (written # "lost" => n = 0)
  BY <1>4
<1>6. /\ Entry(r, "write", "success") \notin audit
      /\ Entry(r, "write", "failure") \notin audit
  BY <1>4, RequestKnown DEF Kept
<1>7. /\ entry \in Entries /\ entry.request = r
      /\ entry # Entry(r, "write", "success")
      /\ Entry(r, "write", "success").request = r /\ Entry(r, "write", "success") \in Entries
  BY EntriesTyped
<1>8. /\ X \in SUBSET Entries /\ \A e \in X : e.request = r
      /\ Entry(r, "write", "success") \in X <=> written = "lost" /\ deployment = "tables"
      /\ Entry(r, "write", "failure") \notin X
  BY <1>7 DEF NotedInTransaction
<1> HIDE DEF n, X
<1>9. Told(q, n)
  BY <1>1, <1>3, <1>5 DEF Told
<1>10. NoteFits(r, q, n, entry, audit \cup X)
  BY <1>1, <1>3, <1>6, <1>7, <1>8, <1>9 DEF NoteFits, Noteworthy
<1> HIDE DEF entry
<1> QED
  BY <1>2, <1>3, <1>5, <1>8, <1>10, NoteMoves

LEMMA AttemptStep ==
  ASSUME Bounded, ToldInv, NEW r \in Requests,
         NEW outcome \in {"done", "lost", "refused", "conflict", "failed"}, Attempt(r, outcome)
  PROVE  ToldInv'
<1>1. /\ request[r].at = "writing"
      /\ UNCHANGED <<deployment, banned, bans, deaths, unaudited>>
  BY DEF Attempt
<1>2. CASE outcome = "done"
  <2>1. Succeed(r) /\ effects' = [effects EXCEPT ![r] = @ + 1]
    BY <1>2 DEF Attempt
  <2> QED
    BY <1>1, <2>1, SucceedStep
<1>3. CASE outcome = "conflict" /\ request[r].attempts < MaxRetries
  <2> DEFINE q == [request[r] EXCEPT !.attempts = @ + 1]
  <2>1. Repeat(r) /\ effects' = [effects EXCEPT ![r] = @]
    BY <1>3 DEF Attempt
  <2>2. request[r] \in RequestRows /\ request[r].attempts + 1 \in Attempts
    <3>1. request[r] \in RequestRows
      BY RequestKnown
    <3> QED
      BY <3>1, <1>3 DEF RequestRows, Attempts, Bounded
  <2>3. /\ q \in RequestRows /\ q.at = request[r].at /\ q.code = request[r].code
        /\ q.written = request[r].written
    BY <2>2 DEF RequestRows
  <2>4. request' = [request EXCEPT ![r] = q] /\ audit' = audit /\ effects' = effects
    BY <2>1, RequestKnown DEF Repeat
  <2> HIDE DEF q
  <2>5. q.at \in Early /\ q.code = 0 /\ q.at = "writing" /\ HasRepository
    BY <1>1, <2>3, RequestKnown DEF Placed, Early
  <2> QED
    BY <1>1, <2>3, <2>4, <2>5, QuietEarly
<1>4. CASE outcome # "done" /\ ~(outcome = "conflict" /\ request[r].attempts < MaxRetries)
  <2>1. GoWrong(r, outcome, IF outcome = "lost" THEN NotedInTransaction(r) ELSE {})
    BY <1>4 DEF Attempt
  <2>2. effects' = [effects EXCEPT ![r] = IF outcome = "lost" THEN @ + 1 ELSE @]
    BY <1>4 DEF Attempt
  <2>3. outcome \in {"lost", "refused", "conflict", "failed"}
    BY <1>4
  <2> QED
    BY <1>1, <2>1, <2>2, <2>3, GoWrongStep
<1> QED
  BY <1>2, <1>3, <1>4

LEMMA CarriedOutStep ==
  ASSUME ToldInv, NEW r \in Requests, NEW kind, NEW outcome \in {"done", "refused"},
         CarriedOut(r, kind, outcome)
  PROVE  ToldInv'
<1> DEFINE code == IF outcome = "done" THEN 200 ELSE 409
           said == IF outcome = "done" THEN "success" ELSE "failure"
           q == [request[r] EXCEPT !.written = outcome, !.at = "answering", !.code = code]
           n == IF outcome = "done" THEN effects[r] + 1 ELSE effects[r]
<1>1. /\ code \in Codes /\ "answering" \in Stages /\ outcome \in Outcomes
      /\ said \in {"success", "failure"}
      /\ outcome = "done" => code = 200 /\ said = "success"
      /\ outcome # "done" => code = 409 /\ said = "failure" /\ outcome = "refused"
  BY DEF Codes, Stages, Outcomes
<1>2. Took(r, q, n, audit \cup {Entry(r, "write", said)}, unaudited)
  BY DEF CarriedOut, Took, ToldInv, RowsTyped
<1>3. request[r].at \in Early /\ ~HasRepository /\ effects[r] = 0
  BY RequestKnown DEF CarriedOut, Placed, Told, Early
<1> HIDE DEF code, said
<1>4. q \in RequestRows /\ q.at = "answering" /\ q.written = outcome /\ q.code = code
  <2>1. request[r] \in RequestRows
    BY RequestKnown
  <2> QED
    BY <1>1, <2>1 DEF RequestRows
<1>5. n \in Nat /\ (outcome = "done" => n = 1) /\ (outcome # "done" => n = 0)
  BY <1>3
<1> HIDE DEF q, n
<1>6. Told(q, n)
  BY <1>1, <1>4, <1>5 DEF Told
<1>7. q.written = IF said = "success" THEN "done" ELSE "refused"
  BY <1>1, <1>4
<1> QED
  BY <1>1, <1>2, <1>3, <1>4, <1>5, <1>6, <1>7, WriteMoves

\* recordAudit comes back, with or without the entry in the log.
LEMMA NotedStep ==
  ASSUME ToldInv, NEW r \in Requests, NEW written \in BOOLEAN, NEW answered,
         Noted(r, written, answered)
  PROVE  ToldInv'
<1> DEFINE entry == request[r].entry
           next == request[r].next
           q == [request[r] EXCEPT !.entry = NoEntry, !.at = next, !.next = "unsent"]
           n == effects[r]
           X == IF written THEN {entry} ELSE {}
           Y == IF written THEN {} ELSE {entry}
<1>1. /\ request[r] \in RequestRows /\ next \in Stages /\ NoEntry \in EntryOrNone /\ "unsent" \in Stages
  BY RequestKnown DEF RequestRows, EntryOrNone, Stages
<1>2. /\ q \in RequestRows /\ q.at = next
      /\ q.code = request[r].code /\ q.written = request[r].written
  BY <1>1 DEF RequestRows
<1>3. Took(r, q, n, audit \cup X, unaudited \cup Y)
  BY RequestKnown DEF Noted, Took
<1>4. /\ request[r].at = "noting" /\ next \in {"failing", "answering", "answered"}
      /\ next = "failing" => request[r].written \in {"lost", "conflict", "failed"}
      /\ request[r].code # 0 \/ next = "failing"
  BY RequestKnown DEF Noted, Placed, Stage
<1>5. /\ entry \in Entries /\ entry.request = r
      /\ entry # Entry(r, "write", "success")
      /\ entry = Entry(r, "write", "failure") => request[r].written \notin {"no", "done"}
      /\ next \in {"failing", "answering"} => Noteworthy(request[r])
      /\ next = "answered" => request[r].code = 429
  BY <1>4, RequestKnown DEF Pending
<1> HIDE DEF next, q
<1>6. X \in SUBSET Entries /\ Y \in SUBSET Entries /\ (\A e \in X \cup Y : e.request = r)
  BY <1>5
<1>7. IsNoted(r, audit \cup X, unaudited \cup Y)
  BY <1>5 DEF IsNoted
<1>8. /\ Entry(r, "write", "success") \notin X
      /\ Entry(r, "write", "failure") \in X => request[r].written \notin {"no", "done"}
  BY <1>5
<1> HIDE DEF entry, X, Y
<1>9. Fits(r, q, n, audit \cup X, unaudited \cup Y)
  <2>1. Told(q, n)
    BY <1>2, RequestKnown DEF Told
  <2>2. Placed(q)
    BY <1>2, <1>4 DEF Placed, Stage, Early
  <2>3. Pending(r, q)
    BY <1>2, <1>4 DEF Pending
  <2>4. Kept(r, q, audit \cup X, unaudited \cup Y)
    BY <1>2, <1>4, <1>5, <1>7, <1>8, RequestKnown DEF Kept, Early, Noteworthy
  <2> QED
    BY <2>1, <2>2, <2>3, <2>4 DEF Fits
<1>10. n \in Nat
  BY RequestKnown
<1> HIDE DEF n
<1> QED
  BY <1>2, <1>3, <1>6, <1>9, <1>10, OneMoves

LEMMA AnswerStep ==
  ASSUME ToldInv, NEW r \in Requests, Answer(r)
  PROVE  ToldInv'
<1> DEFINE entry == Entry(r, "rate", "rejected")
           q == [request[r] EXCEPT !.at = "answered"]
           n == effects[r]
           X == {}
<1>1. request[r] \in RequestRows /\ "answered" \in Stages
  BY RequestKnown DEF Stages
<1>2. /\ q \in RequestRows /\ q.at = "answered"
      /\ q.code = request[r].code /\ q.written = request[r].written
  BY <1>1 DEF RequestRows
<1>3. /\ request[r].at = "answering"
      /\ UNCHANGED <<deployment, banned, bans, effects, unaudited, deaths>>
  BY DEF Answer
<1>4. Told(q, n) /\ q.code # 0
  BY <1>2, <1>3, RequestKnown DEF Told, Placed, Stage
<1>5. /\ Entry(r, "write", "success") \in audit => q.written \in {"done", "lost"}
      /\ deployment = "tables" /\ q.written \in {"done", "lost"} => Entry(r, "write", "success") \in audit
      /\ Entry(r, "write", "failure") \in audit => q.written \notin {"no", "done"}
      /\ Noteworthy(q) <=> IsNoted(r, audit, unaudited)
  BY <1>2, <1>3, RequestKnown DEF Kept, Noteworthy
<1>6. CASE request[r].code # 429
  <2>1. request' = [request EXCEPT ![r] = q] /\ audit' = audit
    BY <1>6 DEF Answer, GoOn
  <2> HIDE DEF q
  <2>2. Placed(q)
    BY <1>2, <1>4 DEF Placed, Stage, Early
  <2>3. Pending(r, q)
    BY <1>2 DEF Pending
  <2>4. Kept(r, q, audit, unaudited)
    BY <1>2, <1>5, <1>6 DEF Kept, Early
  <2>5. Fits(r, q, effects[r], audit, unaudited)
    BY <1>4, <2>2, <2>3, <2>4 DEF Fits
  <2> QED
    BY <1>2, <1>3, <2>1, <2>5, QuietMove
<1>7. CASE request[r].code = 429
  <2>1. Took(r, WhenNoted(q, entry), n, LogWith(X, entry), unaudited)
    <3>1. Note(r, entry, q) /\ audit' = audit \cup InProcess({entry})
      BY <1>7 DEF Answer
    <3>2. LogWith(X, entry) = audit \cup InProcess({entry})
      BY DEF LogWith
    <3>3. effects' = [effects EXCEPT ![r] = n]
      BY <1>3, RequestKnown
    <3> QED
      BY <1>3, <3>1, <3>2, <3>3 DEF Took, Note, WhenNoted
  <2> HIDE DEF q
  <2>2. /\ entry \in Entries /\ entry.request = r
        /\ entry # Entry(r, "write", "success")
        /\ entry # Entry(r, "write", "failure")
    BY EntriesTyped
  <2> HIDE DEF entry
  <2>3. NoteFits(r, q, n, entry, audit \cup X)
    <3>1. audit \cup X = audit
      OBVIOUS
    <3> QED
      BY <1>2, <1>4, <1>5, <1>7, <2>2, <3>1 DEF NoteFits
  <2>4. n \in Nat /\ X \in SUBSET Entries /\ (\A e \in X : e.request = r)
    BY RequestKnown
  <2> HIDE DEF n, X
  <2> QED
    BY <1>2, <2>1, <2>3, <2>4, NoteMoves
<1> QED
  BY <1>6, <1>7

-----------------------------------------------------------------------------
(* What happens meanwhile.                                                 *)

LEMMA BanStep ==
  ASSUME Bounded, ToldInv, Ban
  PROVE  ToldInv'
<1>1. WorldTyped'
  <2>1. /\ bans < MaxBans /\ bans' = bans + 1 /\ banned' = ~banned
        /\ deployment' = deployment /\ deaths' = deaths
    BY DEF Ban
  <2>2. banned' \in BOOLEAN
    BY <2>1
  <2>3. bans' \in 0..MaxBans
    <3>1. bans \in 0..MaxBans /\ MaxBans \in Nat
      BY DEF ToldInv, WorldTyped, Bounded
    <3>2. bans < MaxBans /\ bans' = bans + 1
      BY <2>1
    <3> QED
      BY ONLY <3>1, <3>2
  <2> QED
    BY <2>1, <2>2, <2>3 DEF ToldInv, WorldTyped
<1>2. RowsTyped'
  BY DEF Ban, ToldInv, RowsTyped
<1>3. ASSUME NEW r \in Requests PROVE Fits(r, request[r], effects[r], audit, unaudited)'
  <2>1. Fits(r, request[r], effects[r], audit, unaudited)
    BY DEF ToldInv
  <2>2. UNCHANGED <<deployment, request, effects, audit, unaudited>>
    BY DEF Ban
  <2> QED
    BY <2>1, <2>2 DEF Fits, Told, Placed, Pending, Kept, Stage, Noteworthy, IsNoted, HasRepository, Entry
<1> QED
  BY <1>1, <1>2, <1>3 DEF ToldInv

LEMMA DieStep ==
  ASSUME Bounded, ToldInv, Die
  PROVE  ToldInv'
<1>1. WorldTyped'
  <2>1. /\ deaths < MaxDeaths /\ deaths' = deaths + 1
        /\ deployment' = deployment /\ banned' = banned /\ bans' = bans
    BY DEF Die
  <2>2. deaths' \in 0..MaxDeaths
    <3>1. deaths \in 0..MaxDeaths /\ MaxDeaths \in Nat
      BY DEF ToldInv, WorldTyped, Bounded
    <3>2. deaths < MaxDeaths /\ deaths' = deaths + 1
      BY <2>1
    <3> QED
      BY ONLY <3>1, <3>2
  <2> QED
    BY <2>1, <2>2 DEF ToldInv, WorldTyped
<1>2. ASSUME NEW r \in Requests
      PROVE  /\ request'[r] \in RequestRows
             /\ request'[r].code = request[r].code /\ request'[r].written = request[r].written
             /\ request'[r].at \in {"unsent", "cut", "past"}
             /\ request'[r].at = "unsent" => request[r].at = "unsent"
  <2>1. /\ request[r] \in RequestRows
        /\ "past" \in Stages /\ "cut" \in Stages
        /\ request[r].at = "unsent" => request[r].code = 0 /\ request[r].written = "no"
    BY RequestKnown DEF Placed, Early, Stages
  <2>2. CASE request[r].at = "unsent"
    <3>1. Unsent \in RequestRows
      BY Bounded DEF Unsent, RequestRows, Kinds, Stages, Attempts, Codes, EntryOrNone, Outcomes, Bounded
    <3>2. request'[r] = Unsent
      BY <2>2 DEF Die
    <3> QED
      BY <2>1, <2>2, <3>1, <3>2 DEF Unsent
  <2>3. CASE request[r].at = "answered"
    <3>1. request'[r] = [request[r] EXCEPT !.at = "past"]
      BY <2>3 DEF Die
    <3> QED
      BY <2>1, <3>1 DEF RequestRows
  <2>4. CASE request[r].at \notin {"unsent", "answered"}
    <3> DEFINE at == IF request[r].at = "past" THEN "past" ELSE "cut"
    <3>1. request'[r] = [request[r] EXCEPT !.at = at]
      BY <2>4 DEF Die
    <3>2. at \in {"past", "cut"} /\ at \in Stages
      BY <2>1
    <3> HIDE DEF at
    <3> QED
      BY <2>1, <3>1, <3>2 DEF RequestRows
  <2> QED
    BY <2>2, <2>3, <2>4
<1>3. RowsTyped'
  <2>1. request' = [r \in Requests |-> request'[r]]
    BY DEF Die
  <2>2. request' \in [Requests -> RequestRows]
    BY <1>2, <2>1
  <2>3. effects' = effects /\ unaudited' = unaudited /\ audit' \subseteq audit
    BY DEF Die
  <2> QED
    BY <2>2, <2>3 DEF ToldInv, RowsTyped
<1>4. ASSUME NEW r \in Requests PROVE Fits(r, request[r], effects[r], audit, unaudited)'
  <2> DEFINE q == request'[r]
  <2>1. /\ deployment' = deployment /\ effects' = effects /\ unaudited' = unaudited
        /\ audit' \subseteq audit /\ (deployment = "tables" => audit' = audit)
    BY DEF Die
  <2>2. /\ q.code = request[r].code /\ q.written = request[r].written
        /\ q.at \in {"unsent", "cut", "past"}
        /\ q.at = "unsent" => request[r].at = "unsent"
    BY <1>2
  <2>3. Told(request[r], effects[r]) /\ Placed(request[r]) /\ Kept(r, request[r], audit, unaudited)
    BY RequestKnown
  <2> HIDE DEF q
  <2>4. Told(q, effects[r])
    BY <2>2, <2>3 DEF Told
  <2>5. Placed(q)
    BY <2>2, <2>3 DEF Placed, Stage, Early
  <2>6. Pending(r, q)
    BY <2>2 DEF Pending
  <2>7. ~IsNoted(r, audit, unaudited) => ~IsNoted(r, audit', unaudited)
    BY <2>1 DEF IsNoted
  <2>8. Kept(r, q, audit', unaudited)
    BY <2>1, <2>2, <2>3, <2>7 DEF Kept, Early
  <2>9. Fits(r, q, effects[r], audit', unaudited)
    BY <2>4, <2>5, <2>6, <2>8 DEF Fits
  <2> QED
    BY <2>1, <2>9
    DEF q, Fits, Told, Placed, Pending, Kept, Stage, Noteworthy, IsNoted, HasRepository, Entry
<1> QED
  BY <1>1, <1>3, <1>4 DEF ToldInv

LEMMA ToldStep ==
  ASSUME Bounded, ToldInv, [Next]_requestVars
  PROVE  ToldInv'
<1>1. CASE UNCHANGED requestVars
  <2>1. UNCHANGED <<deployment, banned, bans, request, effects, audit, unaudited, deaths>>
    BY <1>1 DEF requestVars
  <2>2. WorldTyped' /\ RowsTyped'
    BY <2>1 DEF ToldInv, WorldTyped, RowsTyped
  <2>3. ASSUME NEW r \in Requests PROVE Fits(r, request[r], effects[r], audit, unaudited)'
    <3>1. Fits(r, request[r], effects[r], audit, unaudited)
      BY DEF ToldInv
    <3> QED
      BY <2>1, <3>1 DEF Fits, Told, Placed, Pending, Kept, Stage, Noteworthy, IsNoted, HasRepository, Entry
  <2> QED
    BY <2>2, <2>3 DEF ToldInv
<1>2. ASSUME NEW r \in Requests, NEW kind \in Kinds, NEW allowed \in BOOLEAN, Arrive(r, kind, allowed)
      PROVE  ToldInv'
  BY <1>2, ArriveStep
<1>3. ASSUME NEW r \in Requests, Proceed(r) PROVE ToldInv'
  <2>1. ASSUME NEW written \in BOOLEAN, NEW answered \in BOOLEAN, Noted(r, written, answered)
        PROVE  ToldInv'
    BY <2>1, NotedStep
  <2>2. ASSUME NEW valid \in BOOLEAN,
               Authenticate(r, valid) \/ CheckActive(r, valid) \/ CheckAdmin(r, valid)
        PROVE  ToldInv'
    BY <2>2, WayInStep
  <2>3. ASSUME NEW outcome, Enter(r, outcome) PROVE ToldInv'
    BY <2>3, EnterStep
  <2>4. ASSUME NEW outcome \in {"done", "lost", "refused", "conflict", "failed"}, Attempt(r, outcome)
        PROVE  ToldInv'
    BY <2>4, AttemptStep
  <2>5. ASSUME NEW outcome, RunMarket(r, outcome) PROVE ToldInv'
    <3>1. outcome \in {"done", "refused"} /\ CarriedOut(r, "market", outcome)
      BY <2>5 DEF RunMarket
    <3> QED
      BY <3>1, CarriedOutStep
  <2>6. ASSUME NEW outcome, RunSettings(r, outcome) PROVE ToldInv'
    <3>1. outcome \in {"done", "refused"} /\ CarriedOut(r, "settings", outcome)
      BY <2>6 DEF RunSettings
    <3> QED
      BY <3>1, CarriedOutStep
  <2>7. ASSUME RunFeedback(r) PROVE ToldInv'
    <3>1. CarriedOut(r, "feedback", "done") /\ "done" \in {"done", "refused"}
      BY <2>7 DEF RunFeedback
    <3> QED
      BY <3>1, CarriedOutStep
  <2>8. ASSUME HandleError(r) PROVE ToldInv'
    BY <2>8, HandleErrorStep
  <2>9. ASSUME Answer(r) PROVE ToldInv'
    BY <2>9, AnswerStep
  <2> QED
    BY <1>3, <2>1, <2>2, <2>3, <2>4, <2>5, <2>6, <2>7, <2>8, <2>9 DEF Proceed
<1>4. CASE Ban
  BY <1>4, BanStep
<1>5. CASE Die
  BY <1>5, DieStep
<1> QED
  BY <1>1, <1>2, <1>3, <1>4, <1>5 DEF Next

LEMMA ToldInit ==
  ASSUME Bounded, Init
  PROVE  ToldInv
<1>1. WorldTyped
  <2>1. 0 \in 0..MaxBans /\ 0 \in 0..MaxDeaths
    BY DEF Bounded
  <2> QED
    BY <2>1 DEF Init, WorldTyped
<1>2. Unsent \in RequestRows
  BY DEF Unsent, RequestRows, Kinds, Stages, Attempts, Codes, EntryOrNone, Outcomes, Bounded
<1>3. RowsTyped
  BY <1>2 DEF Init, RowsTyped
<1>4. ASSUME NEW r \in Requests PROVE Fits(r, request[r], effects[r], audit, unaudited)
  <2>1. /\ request[r].at = "unsent" /\ request[r].code = 0 /\ request[r].written = "no"
        /\ effects[r] = 0 /\ audit = {} /\ unaudited = {}
    BY DEF Init, Unsent
  <2> QED
    BY <2>1 DEF Fits, Told, Placed, Pending, Kept, Stage, Noteworthy, IsNoted, Early
<1> QED
  BY <1>1, <1>3, <1>4 DEF ToldInv

-----------------------------------------------------------------------------
(* The counters.                                                           *)

\* A set that one request may join.
LEMMA OneJoins ==
  ASSUME IsFiniteSet(Requests), NEW S \in SUBSET Requests, NEW T \in SUBSET Requests,
         NEW r \in Requests, T \ {r} = S \ {r}, r \in S => r \in T
  PROVE  /\ Cardinality(S) \in Nat /\ Cardinality(T) \in Nat
         /\ Cardinality(T) = Cardinality(S) + (IF r \in T /\ r \notin S THEN 1 ELSE 0)
<1>1. IsFiniteSet(S) /\ Cardinality(S) \in Nat
  BY FS_Subset, FS_CardinalityType
<1>2. CASE r \in T /\ r \notin S
  <2>1. T = S \cup {r}
    BY <1>2
  <2>2. Cardinality(T) = Cardinality(S) + 1
    BY <1>1, <1>2, <2>1, FS_AddElement
  <2> QED
    BY <1>1, <1>2, <2>2
<1>3. CASE ~(r \in T /\ r \notin S)
  <2>1. T = S
    BY <1>3
  <2> QED
    BY <1>1, <1>3, <2>1
<1> QED
  BY <1>2, <1>3

Metrics == [requests : Nat, errors : Nat, limited : Nat, writes : Nat, writeErrors : Nat]

\* What a step of a request adds to what the counters stand for.
Finishes(q, p) == Stage(p) = "answered" /\ Stage(q) # "answered"
Writes(q, p) == p.written # "no" /\ q.written = "no"
One(condition) == IF condition THEN 1 ELSE 0

\* The counters are counted up as the requests move on.
CountedUp(q, p) ==
  /\ metrics' \in Metrics
  /\ metrics'.requests = metrics.requests + One(Finishes(q, p))
  /\ metrics'.errors = metrics.errors + One(Finishes(q, p) /\ p.code >= 400)
  /\ HasRepository =>
       /\ metrics'.writes = metrics.writes + One(Writes(q, p))
       /\ metrics'.writeErrors = metrics.writeErrors + One(Writes(q, p) /\ p.written # "done")
  /\ metrics'.writeErrors <= metrics.writeErrors + One(Writes(q, p) /\ p.written # "done")

\* No request is finished or has written twice.
Forward(q, p) ==
  /\ p.at \notin {"cut", "past"}
  /\ Stage(q) = "answered" => Stage(p) = "answered" /\ p.code = q.code
  /\ q.written # "no" => p.written = q.written

LEMMA SetsMove ==
  ASSUME RowsTyped, NEW r \in Requests, NEW p, request' = [request EXCEPT ![r] = p]
  PROVE  /\ \A s \in Requests \ {r} : request'[s] = request[s]
         /\ request'[r] = p
BY DEF RowsTyped

LEMMA CountsMove ==
  ASSUME Bounded, RowsTyped, CountsInv, NEW r \in Requests, NEW p,
         request' = [request EXCEPT ![r] = p], UNCHANGED <<deployment, deaths>>,
         Forward(request[r], p), CountedUp(request[r], p)
  PROVE  CountsInv'
<1> DEFINE q == request[r]
<1>1. metrics' \in Metrics
  BY DEF CountedUp
<1>2. ASSUME deaths' = 0
      PROVE  /\ \A s \in Requests : request'[s].at \notin {"cut", "past"}
             /\ metrics'.requests = Cardinality(Finished')
             /\ metrics'.errors = Cardinality(FinishedWrong')
             /\ metrics'.writeErrors <= Cardinality(WroteWrong')
             /\ HasRepository => /\ metrics'.writes = Cardinality(Wrote')
                                 /\ metrics'.writeErrors = Cardinality(WroteWrong')
  <2>0. deaths = 0
    BY <1>2
  <2>1. /\ \A s \in Requests : request[s].at \notin {"cut", "past"}
        /\ metrics.requests = Cardinality(Finished)
        /\ metrics.errors = Cardinality(FinishedWrong)
        /\ metrics.writeErrors <= Cardinality(WroteWrong)
        /\ HasRepository => /\ metrics.writes = Cardinality(Wrote)
                            /\ metrics.writeErrors = Cardinality(WroteWrong)
    BY <2>0 DEF CountsInv
  <2>2. /\ \A s \in Requests \ {r} : request'[s] = request[s]
        /\ request'[r] = p
    BY SetsMove
  <2>3. /\ Finished \in SUBSET Requests /\ Finished' \in SUBSET Requests
        /\ Finished' \ {r} = Finished \ {r}
        /\ r \in Finished <=> Stage(q) = "answered"
        /\ r \in Finished' <=> Stage(p) = "answered"
    BY <2>2 DEF Finished, Stage
  <2>4. /\ FinishedWrong \in SUBSET Requests /\ FinishedWrong' \in SUBSET Requests
        /\ FinishedWrong' \ {r} = FinishedWrong \ {r}
        /\ r \in FinishedWrong <=> Stage(q) = "answered" /\ q.code >= 400
        /\ r \in FinishedWrong' <=> Stage(p) = "answered" /\ p.code >= 400
    BY <2>2 DEF FinishedWrong, Stage
  <2>5. /\ Wrote \in SUBSET Requests /\ Wrote' \in SUBSET Requests
        /\ Wrote' \ {r} = Wrote \ {r}
        /\ r \in Wrote <=> q.written # "no"
        /\ r \in Wrote' <=> p.written # "no"
    BY <2>2 DEF Wrote
  <2>6. /\ WroteWrong \in SUBSET Requests /\ WroteWrong' \in SUBSET Requests
        /\ WroteWrong' \ {r} = WroteWrong \ {r}
        /\ r \in WroteWrong <=> q.written \notin {"no", "done"}
        /\ r \in WroteWrong' <=> p.written \notin {"no", "done"}
    BY <2>2 DEF WroteWrong
  <2>7. IsFiniteSet(Requests)
    BY DEF Bounded
  <2>8. /\ Cardinality(Finished') = Cardinality(Finished) + One(Finishes(q, p))
        /\ Cardinality(Finished) \in Nat
    BY <2>3, <2>7, OneJoins DEF Forward, Finishes, One
  <2>9. /\ Cardinality(FinishedWrong') = Cardinality(FinishedWrong) + One(Finishes(q, p) /\ p.code >= 400)
        /\ Cardinality(FinishedWrong) \in Nat
    BY <2>4, <2>7, OneJoins DEF Forward, Finishes, One
  <2>10. Cardinality(Wrote') = Cardinality(Wrote) + One(Writes(q, p))
    BY <2>5, <2>7, OneJoins DEF Forward, Writes, One
  <2>11. /\ Cardinality(WroteWrong') = Cardinality(WroteWrong) + One(Writes(q, p) /\ p.written # "done")
         /\ Cardinality(WroteWrong) \in Nat
    BY <2>6, <2>7, OneJoins DEF Forward, Writes, One
  <2>12. \A s \in Requests : request'[s].at \notin {"cut", "past"}
    BY <2>1, <2>2 DEF Forward
  <2>13. metrics.writeErrors \in Nat /\ metrics'.writeErrors \in Nat
    BY <1>1 DEF CountsInv, Metrics
  <2>14. One(Writes(q, p) /\ p.written # "done") \in Nat
    BY DEF One
  <2> HIDE DEF q
  <2>15. CountedUp(q, p)
    BY DEF q
  <2>16. metrics'.writeErrors <= Cardinality(WroteWrong')
    BY <2>1, <2>11, <2>13, <2>14, <2>15 DEF CountedUp
  <2> QED
    BY <2>1, <2>8, <2>9, <2>10, <2>11, <2>12, <2>15, <2>16 DEF CountedUp
<1> QED
  BY <1>1, <1>2 DEF CountsInv, Metrics, HasRepository

\* A step that counts nothing; without a repository some writes are not counted.
LEMMA CountsSilent ==
  ASSUME Bounded, RowsTyped, CountsInv, NEW r \in Requests, NEW p,
         request' = [request EXCEPT ![r] = p], UNCHANGED <<deployment, deaths, metrics>>,
         p.at \notin {"cut", "past"},
         Stage(p) = "answered" <=> Stage(request[r]) = "answered",
         Stage(p) = "answered" => p.code = request[r].code,
         p.written = request[r].written \/ (~HasRepository /\ request[r].written = "no")
  PROVE  CountsInv'
<1>1. metrics \in Metrics
  BY DEF CountsInv, Metrics
<1>2. Forward(request[r], p)
  BY DEF Forward
<1>3. /\ ~Finishes(request[r], p)
      /\ HasRepository => ~Writes(request[r], p)
  BY DEF Finishes, Writes
<1>4. /\ metrics.requests \in Nat /\ metrics.errors \in Nat
      /\ metrics.writes \in Nat /\ metrics.writeErrors \in Nat
  BY <1>1 DEF Metrics
<1>5. CountedUp(request[r], p)
  <2>1. One(Finishes(request[r], p)) = 0 /\ One(Finishes(request[r], p) /\ p.code >= 400) = 0
    BY <1>3 DEF One
  <2>2. HasRepository => /\ One(Writes(request[r], p)) = 0
                         /\ One(Writes(request[r], p) /\ p.written # "done") = 0
    BY <1>3 DEF One
  <2>3. One(Writes(request[r], p) /\ p.written # "done") \in Nat
    BY DEF One
  <2> QED
    BY <1>1, <1>4, <2>1, <2>2, <2>3 DEF CountedUp
<1> QED
  BY <1>2, <1>5, CountsMove

\* A request that notes something is where it goes, for the counters.
LEMMA NoteCounts ==
  ASSUME NEW q \in RequestRows, NEW entry, q.at \in {"failing", "answering", "answered"}
  PROVE  /\ Stage(WhenNoted(q, entry)) = q.at
         /\ WhenNoted(q, entry).code = q.code /\ WhenNoted(q, entry).written = q.written
         /\ WhenNoted(q, entry).at \notin {"cut", "past"}
<1>1. CASE deployment = "tables"
  BY <1>1 DEF WhenNoted, RequestRows, Stage
<1>2. CASE deployment # "tables"
  BY <1>2 DEF WhenNoted, Stage
<1> QED
  BY <1>1, <1>2

\* On the way in, and at an error nobody expected, nothing is counted.
LEMMA EarlyCounts ==
  ASSUME Bounded, ToldInv, CountsInv, NEW r \in Requests,
         request[r].at \in Early \cup {"failing"},
         \/ \E stage \in Early : GoOn(r, stage)
         \/ \E code \in {400, 403} : Refuse(r, code)
         \/ Reject(r)
         \/ Fail(r),
         UNCHANGED <<deployment, deaths, metrics>>
  PROVE  CountsInv'
<1>0. RowsTyped /\ request[r] \in RequestRows /\ Stage(request[r]) # "answered"
  BY RequestKnown DEF ToldInv, Stage, Early
<1>1. ASSUME NEW stage \in Early, GoOn(r, stage) PROVE CountsInv'
  <2> DEFINE p == [request[r] EXCEPT !.at = stage]
  <2>1. p.at = stage /\ p.code = request[r].code /\ p.written = request[r].written
    BY <1>0 DEF RequestRows
  <2>2. request' = [request EXCEPT ![r] = p]
    BY <1>1 DEF GoOn
  <2> HIDE DEF p
  <2>3. Stage(p) # "answered" /\ p.at \notin {"cut", "past"}
    BY <2>1 DEF Stage, Early
  <2> QED
    BY <1>0, <2>1, <2>2, <2>3, CountsSilent
<1>2. ASSUME NEW code \in {400, 403}, Refuse(r, code) PROVE CountsInv'
  <2> DEFINE p == [request[r] EXCEPT !.code = code, !.at = "answering"]
  <2>1. p.at = "answering" /\ p.written = request[r].written
    BY <1>0 DEF RequestRows
  <2>2. request' = [request EXCEPT ![r] = p]
    BY <1>2 DEF Refuse
  <2> HIDE DEF p
  <2>3. Stage(p) # "answered" /\ p.at \notin {"cut", "past"}
    BY <2>1 DEF Stage
  <2> QED
    BY <1>0, <2>1, <2>2, <2>3, CountsSilent
<1>3. ASSUME NEW code \in {401, 500}, NEW entry,
             Note(r, entry, [request[r] EXCEPT !.code = code, !.at = "answering"])
      PROVE  CountsInv'
  <2> DEFINE q == [request[r] EXCEPT !.code = code, !.at = "answering"]
             p == WhenNoted(q, entry)
  <2>1. q \in RequestRows /\ q.at = "answering" /\ q.written = request[r].written
    <3>1. code \in Codes /\ "answering" \in Stages
      BY DEF Codes, Stages
    <3> QED
      BY <1>0, <3>1 DEF RequestRows
  <2>2. request' = [request EXCEPT ![r] = p]
    BY <1>3 DEF Note, WhenNoted
  <2> HIDE DEF q
  <2>3. Stage(p) # "answered" /\ p.written = request[r].written /\ p.at \notin {"cut", "past"}
    BY <2>1, NoteCounts
  <2> HIDE DEF p
  <2> QED
    BY <1>0, <2>2, <2>3, CountsSilent
<1>4. CASE Reject(r)
  BY <1>3, <1>4 DEF Reject
<1>5. CASE Fail(r)
  BY <1>3, <1>5 DEF Fail, Unexpected
<1> QED
  BY <1>1, <1>2, <1>4, <1>5

\* Arrive, and what happens until the write.
LEMMA WayInCounts ==
  ASSUME Bounded, ToldInv, CountsInv, NEW r \in Requests, NEW valid \in BOOLEAN, NEW outcome,
         NEW kind \in Kinds,
         \/ Arrive(r, kind, valid) \/ Authenticate(r, valid) \/ CheckActive(r, valid)
         \/ CheckAdmin(r, valid) \/ Enter(r, outcome) \/ HandleError(r)
  PROVE  CountsInv'
<1>0. /\ "checking" \in Early /\ "proving" \in Early /\ "entering" \in Early
      /\ "writing" \in Early /\ "running" \in Early /\ 400 \in {400, 403} /\ 403 \in {400, 403}
  BY DEF Early
<1>1. CASE Arrive(r, kind, valid)
  <2> DEFINE code == IF valid THEN 0 ELSE 429
             at == IF valid THEN "authenticating" ELSE "answering"
             p == [request[r] EXCEPT !.kind = kind, !.code = code, !.at = at]
  <2>1. request[r] \in RequestRows /\ RowsTyped
    BY RequestKnown DEF ToldInv
  <2>2. request' = [request EXCEPT ![r] = p]
    BY <1>1 DEF Arrive
  <2>3. UNCHANGED <<deployment, deaths, metrics>> /\ request[r].at = "unsent"
    BY <1>1 DEF Arrive
  <2>4. at \in {"authenticating", "answering"}
    OBVIOUS
  <2> HIDE DEF code, at
  <2>5. p.at = at /\ p.written = request[r].written
    BY <2>1 DEF RequestRows
  <2> HIDE DEF p
  <2>6. Stage(p) # "answered" /\ Stage(request[r]) # "answered" /\ p.at \notin {"cut", "past"}
    BY <2>3, <2>4, <2>5 DEF Stage
  <2> QED
    BY <2>1, <2>2, <2>3, <2>5, <2>6, CountsSilent
<1>2. CASE Authenticate(r, valid)
  <2>1. /\ request[r].at \in Early \cup {"failing"}
        /\ GoOn(r, "checking") \/ Reject(r)
        /\ UNCHANGED <<deployment, deaths, metrics>>
    BY <1>2 DEF Authenticate, OnTheWayIn, Early
  <2> QED
    BY <1>0, <2>1, EarlyCounts
<1>3. CASE CheckActive(r, valid)
  <2>1. /\ request[r].at \in Early \cup {"failing"}
        /\ UNCHANGED <<deployment, deaths, metrics>>
    BY <1>3 DEF CheckActive, OnTheWayIn, Early
  <2>2. Fail(r) \/ Refuse(r, 403) \/ GoOn(r, "proving") \/ GoOn(r, "entering")
    BY <1>3 DEF CheckActive
  <2> QED
    BY <1>0, <2>1, <2>2, EarlyCounts
<1>4. CASE CheckAdmin(r, valid)
  <2>1. /\ request[r].at \in Early \cup {"failing"}
        /\ GoOn(r, "entering") \/ Reject(r)
        /\ UNCHANGED <<deployment, deaths, metrics>>
    BY <1>4 DEF CheckAdmin, OnTheWayIn, Early
  <2> QED
    BY <1>0, <2>1, EarlyCounts
<1>5. CASE Enter(r, outcome)
  <2>1. /\ request[r].at \in Early \cup {"failing"}
        /\ UNCHANGED <<deployment, deaths, metrics>>
    BY <1>5 DEF Enter, OnTheWayIn, Early
  <2>2. Fail(r) \/ Refuse(r, 400) \/ GoOn(r, "writing") \/ GoOn(r, "running")
    BY <1>5 DEF Enter
  <2> QED
    BY <1>0, <2>1, <2>2, EarlyCounts
<1>6. CASE HandleError(r)
  <2>1. /\ request[r].at \in Early \cup {"failing"} /\ Fail(r)
        /\ UNCHANGED <<deployment, deaths, metrics>>
    BY <1>6 DEF HandleError, OnTheWayIn
  <2> QED
    BY <2>1, EarlyCounts
<1> QED
  BY <1>1, <1>2, <1>3, <1>4, <1>5, <1>6

\* recordAudit comes back: the request is where it was for the counters.
LEMMA NotedCounts ==
  ASSUME Bounded, ToldInv, CountsInv, NEW r \in Requests, NEW written, NEW answered,
         Noted(r, written, answered)
  PROVE  CountsInv'
<1> DEFINE next == request[r].next
           p == [request[r] EXCEPT !.entry = NoEntry, !.at = next, !.next = "unsent"]
<1>1. request[r] \in RequestRows /\ RowsTyped
  BY RequestKnown DEF ToldInv
<1>2. p.at = next /\ p.code = request[r].code /\ p.written = request[r].written
  BY <1>1 DEF RequestRows
<1>3. request' = [request EXCEPT ![r] = p] /\ UNCHANGED <<deployment, deaths, metrics>>
  BY DEF Noted
<1> HIDE DEF p
<1>4. /\ request[r].at = "noting" /\ Stage(request[r]) = next
      /\ next \in {"failing", "answering", "answered"}
  BY RequestKnown DEF Noted, Placed, Stage
<1>5. Stage(p) = next /\ p.at \notin {"cut", "past"}
  BY <1>2, <1>4 DEF Stage
<1> HIDE DEF next
<1> QED
  BY <1>1, <1>2, <1>3, <1>4, <1>5, CountsSilent

\* A write that is counted, with or without an error.
LEMMA WriteCounts ==
  ASSUME Bounded, ToldInv, CountsInv, NEW r \in Requests, NEW p, NEW errors \in {0, 1},
         request' = [request EXCEPT ![r] = p], UNCHANGED <<deployment, deaths>>,
         Counted(errors),
         request[r].at \in Early, Stage(p) # "answered", p.at \notin {"cut", "past"},
         p.written # "no", errors = One(p.written # "done")
  PROVE  CountsInv'
<1>1. RowsTyped /\ Stage(request[r]) # "answered" /\ request[r].written = "no"
  BY RequestKnown DEF ToldInv, Placed, Stage, Early
<1>2. metrics \in Metrics
  BY DEF CountsInv, Metrics
<1>3. /\ metrics' \in Metrics
      /\ metrics'.requests = metrics.requests /\ metrics'.errors = metrics.errors
      /\ metrics'.writes = metrics.writes + 1 /\ metrics'.writeErrors = metrics.writeErrors + errors
  <2> DEFINE w == metrics.writes + 1
             e == metrics.writeErrors + errors
  <2>1. w \in Nat /\ e \in Nat
    BY <1>2 DEF Metrics
  <2>2. metrics' = [metrics EXCEPT !.writes = w, !.writeErrors = e]
    BY DEF Counted
  <2>3. w = metrics.writes + 1 /\ e = metrics.writeErrors + errors
    OBVIOUS
  <2> HIDE DEF w, e
  <2> QED
    BY <1>2, <2>1, <2>2, <2>3 DEF Metrics
<1>4. /\ ~Finishes(request[r], p) /\ Writes(request[r], p)
      /\ Forward(request[r], p)
  BY <1>1 DEF Finishes, Writes, Forward
<1>5. /\ One(Finishes(request[r], p)) = 0
      /\ One(Finishes(request[r], p) /\ p.code >= 400) = 0
      /\ One(Writes(request[r], p)) = 1
      /\ One(Writes(request[r], p) /\ p.written # "done") = errors
  BY <1>4 DEF One
<1>6. /\ metrics.requests \in Nat /\ metrics.errors \in Nat
      /\ metrics.writes \in Nat /\ metrics.writeErrors \in Nat
  BY <1>2 DEF Metrics
<1>7. CountedUp(request[r], p)
  BY <1>3, <1>5, <1>6 DEF CountedUp
<1> QED
  BY <1>1, <1>4, <1>7, CountsMove

LEMMA AttemptCounts ==
  ASSUME Bounded, ToldInv, CountsInv, NEW r \in Requests,
         NEW outcome \in {"done", "lost", "refused", "conflict", "failed"}, Attempt(r, outcome)
  PROVE  CountsInv'
<1>1. /\ request[r].at = "writing" /\ request[r].at \in Early
      /\ UNCHANGED <<deployment, deaths>>
  BY DEF Attempt, Early
<1>2. request[r] \in RequestRows /\ RowsTyped
  BY RequestKnown DEF ToldInv
<1>3. CASE outcome = "done"
  <2> DEFINE p == [request[r] EXCEPT !.written = "done", !.code = 200, !.at = "answering"]
  <2>1. p.at = "answering" /\ p.written = "done"
    BY <1>2 DEF RequestRows
  <2>2. request' = [request EXCEPT ![r] = p] /\ Counted(0)
    BY <1>3 DEF Attempt, Succeed
  <2> HIDE DEF p
  <2>3. /\ Stage(p) # "answered" /\ p.at \notin {"cut", "past"} /\ p.written # "no"
        /\ 0 \in {0, 1} /\ 0 = One(p.written # "done")
    BY <2>1 DEF Stage, One
  <2> QED
    BY <1>1, <2>2, <2>3, WriteCounts
<1>4. CASE outcome = "conflict" /\ request[r].attempts < MaxRetries
  <2> DEFINE attempts == request[r].attempts + 1
             p == [request[r] EXCEPT !.attempts = attempts]
  <2>1. /\ p.at = request[r].at /\ p.code = request[r].code
        /\ p.written = request[r].written
    BY <1>2 DEF RequestRows
  <2>2. request' = [request EXCEPT ![r] = p] /\ metrics' = metrics
    BY <1>4 DEF Attempt, Repeat
  <2> HIDE DEF p
  <2>3. Stage(p) # "answered" /\ Stage(request[r]) # "answered" /\ p.at \notin {"cut", "past"}
    BY <1>1, <2>1 DEF Stage
  <2> QED
    BY <1>1, <1>2, <2>1, <2>2, <2>3, CountsSilent
<1>5. CASE outcome # "done" /\ ~(outcome = "conflict" /\ request[r].attempts < MaxRetries)
  <2> DEFINE entry == Entry(r, "write", "failure")
             refused == outcome = "refused"
             code == IF refused THEN 409 ELSE 500
             at == IF refused THEN "answering" ELSE "failing"
             q == [request[r] EXCEPT !.written = outcome, !.code = code, !.at = at]
             p == WhenNoted(q, entry)
  <2>1. GoWrong(r, outcome, IF outcome = "lost" THEN NotedInTransaction(r) ELSE {})
    BY <1>5 DEF Attempt
  <2>2. request' = [request EXCEPT ![r] = p] /\ Counted(1)
    BY <2>1 DEF GoWrong, Note, WhenNoted
  <2>3. /\ code \in Codes /\ at \in Stages /\ outcome \in Outcomes
        /\ at \in {"failing", "answering"}
    BY DEF Codes, Stages, Outcomes
  <2> HIDE DEF code, at
  <2>4. q \in RequestRows /\ q.at = at /\ q.written = outcome
    BY <1>2, <2>3 DEF RequestRows
  <2> HIDE DEF q, entry
  <2>5. Stage(p) # "answered" /\ p.at \notin {"cut", "past"} /\ p.written = outcome
    BY <2>3, <2>4, NoteCounts
  <2> HIDE DEF p
  <2>6. p.written # "no" /\ 1 \in {0, 1} /\ 1 = One(p.written # "done")
    BY <1>5, <2>5 DEF One
  <2> QED
    BY <1>1, <2>2, <2>5, <2>6, WriteCounts
<1> QED
  BY <1>3, <1>4, <1>5

\* Without a repository.
LEMMA CarriedOutCounts ==
  ASSUME Bounded, ToldInv, CountsInv, NEW r \in Requests, NEW kind, NEW outcome \in {"done", "refused"},
         CarriedOut(r, kind, outcome),
         metrics' = metrics \/ Counted(IF outcome = "done" THEN 0 ELSE 1)
  PROVE  CountsInv'
<1> DEFINE code == IF outcome = "done" THEN 200 ELSE 409
           p == [request[r] EXCEPT !.written = outcome, !.at = "answering", !.code = code]
<1>1. request[r] \in RequestRows /\ RowsTyped
  BY RequestKnown DEF ToldInv
<1>2. p.at = "answering" /\ p.written = outcome
  BY <1>1 DEF RequestRows
<1>3. /\ request' = [request EXCEPT ![r] = p] /\ UNCHANGED <<deployment, deaths>>
      /\ request[r].at = "running" /\ request[r].at \in Early
  BY DEF CarriedOut, Early
<1> HIDE DEF p
<1>4. /\ Stage(p) # "answered" /\ Stage(request[r]) # "answered" /\ p.at \notin {"cut", "past"}
      /\ p.written # "no"
  BY <1>2, <1>3 DEF Stage
<1>5. ~HasRepository /\ request[r].written = "no"
  BY <1>3, RequestKnown DEF Placed
<1>6. CASE metrics' = metrics
  BY <1>1, <1>3, <1>4, <1>5, <1>6, CountsSilent
<1>7. CASE Counted(IF outcome = "done" THEN 0 ELSE 1)
  <2> DEFINE errors == IF outcome = "done" THEN 0 ELSE 1
  <2>1. errors \in {0, 1} /\ errors = One(p.written # "done") /\ Counted(errors)
    BY <1>2, <1>7 DEF One
  <2> HIDE DEF errors
  <2> QED
    BY <1>3, <1>4, <2>1, WriteCounts
<1> QED
  BY <1>6, <1>7

LEMMA AnswerCounts ==
  ASSUME Bounded, ToldInv, CountsInv, NEW r \in Requests, Answer(r)
  PROVE  CountsInv'
<1> DEFINE entry == Entry(r, "rate", "rejected")
           q == [request[r] EXCEPT !.at = "answered"]
           p == IF request[r].code = 429 THEN WhenNoted(q, entry) ELSE q
           wrong == IF request[r].code >= 400 THEN 1 ELSE 0
           limited == IF request[r].code = 429 THEN 1 ELSE 0
<1>1. request[r] \in RequestRows /\ RowsTyped /\ "answered" \in Stages
  BY RequestKnown DEF ToldInv, Stages
<1>2. /\ q \in RequestRows /\ q.at = "answered"
      /\ q.code = request[r].code /\ q.written = request[r].written
  BY <1>1 DEF RequestRows
<1>3. /\ request' = [request EXCEPT ![r] = p] /\ UNCHANGED <<deployment, deaths>>
      /\ request[r].at = "answering"
      /\ metrics' = [metrics EXCEPT !.requests = @ + 1, !.errors = @ + wrong, !.limited = @ + limited]
  <2>1. CASE request[r].code = 429
    BY <2>1 DEF Answer, Note, WhenNoted
  <2>2. CASE request[r].code # 429
    BY <2>2 DEF Answer, GoOn
  <2> QED
    BY <2>1, <2>2
<1> HIDE DEF q
<1>4. /\ Stage(p) = "answered" /\ p.at \notin {"cut", "past"}
      /\ p.code = request[r].code /\ p.written = request[r].written
  <2>1. CASE request[r].code = 429
    BY <1>2, <2>1, NoteCounts
  <2>2. CASE request[r].code # 429
    BY <1>2, <2>2 DEF Stage
  <2> QED
    BY <2>1, <2>2
<1> HIDE DEF p
<1>5. /\ Finishes(request[r], p) /\ ~Writes(request[r], p) /\ Forward(request[r], p)
  BY <1>3, <1>4 DEF Finishes, Writes, Forward, Stage
<1>6. /\ metrics \in Metrics /\ wrong \in Nat /\ limited \in Nat
  BY DEF CountsInv, Metrics
<1>7. wrong = One(Finishes(request[r], p) /\ p.code >= 400)
  BY <1>4, <1>5 DEF One
<1> HIDE DEF wrong, limited
<1>8. /\ metrics' \in Metrics
      /\ metrics'.requests = metrics.requests + 1 /\ metrics'.errors = metrics.errors + wrong
      /\ metrics'.writes = metrics.writes /\ metrics'.writeErrors = metrics.writeErrors
  <2> DEFINE a == metrics.requests + 1
             e == metrics.errors + wrong
             l == metrics.limited + limited
  <2>1. a \in Nat /\ e \in Nat /\ l \in Nat
    BY <1>6 DEF Metrics
  <2>2. metrics' = [metrics EXCEPT !.requests = a, !.errors = e, !.limited = l]
    BY <1>3
  <2>3. a = metrics.requests + 1 /\ e = metrics.errors + wrong
    OBVIOUS
  <2> HIDE DEF a, e, l
  <2> QED
    BY <1>6, <2>1, <2>2, <2>3 DEF Metrics
<1>9. /\ One(Finishes(request[r], p)) = 1
      /\ One(Writes(request[r], p)) = 0 /\ One(Writes(request[r], p) /\ p.written # "done") = 0
  BY <1>5 DEF One
<1>10. metrics.writes \in Nat /\ metrics.writeErrors \in Nat
  BY <1>6 DEF Metrics
<1>11. CountedUp(request[r], p)
  BY <1>7, <1>8, <1>9, <1>10 DEF CountedUp
<1> QED
  BY <1>1, <1>3, <1>5, <1>11, CountsMove

\* A process that has died has forgotten its counters.
LEMMA DieCounts ==
  ASSUME Bounded, ToldInv, Die
  PROVE  CountsInv'
<1>1. deaths' = deaths + 1 /\ deaths \in Nat
  <2>1. deaths \in 0..MaxDeaths /\ MaxDeaths \in Nat
    BY DEF ToldInv, WorldTyped, Bounded
  <2>2. deaths' = deaths + 1
    BY DEF Die
  <2> QED
    BY <2>1, <2>2
<1>2. metrics' = NoMetrics
  BY DEF Die
<1> QED
  BY <1>1, <1>2 DEF CountsInv, NoMetrics

LEMMA CountsStep ==
  ASSUME Bounded, ToldInv, CountsInv, [Next]_requestVars
  PROVE  CountsInv'
<1>0. ASSUME UNCHANGED <<deployment, request, metrics, deaths>> PROVE CountsInv'
  BY <1>0 DEF CountsInv, Finished, FinishedWrong, Wrote, WroteWrong, Stage, HasRepository
<1>1. CASE UNCHANGED requestVars
  BY <1>0, <1>1 DEF requestVars
<1>2. ASSUME NEW r \in Requests, NEW kind \in Kinds, NEW allowed \in BOOLEAN, Arrive(r, kind, allowed)
      PROVE  CountsInv'
  BY <1>2, WayInCounts
<1>3. ASSUME NEW r \in Requests, Proceed(r) PROVE CountsInv'
  <2>1. ASSUME NEW written, NEW answered, Noted(r, written, answered)
        PROVE  CountsInv'
    BY <2>1, NotedCounts
  <2>2. ASSUME NEW valid \in BOOLEAN,
               Authenticate(r, valid) \/ CheckActive(r, valid) \/ CheckAdmin(r, valid)
        PROVE  CountsInv'
    <3>1. "market" \in Kinds
      BY DEF Kinds
    <3> QED
      BY <2>2, <3>1, WayInCounts
  <2>3. ASSUME NEW outcome, Enter(r, outcome) \/ HandleError(r) PROVE CountsInv'
    <3>1. "market" \in Kinds /\ TRUE \in BOOLEAN
      BY DEF Kinds
    <3> QED
      BY <2>3, <3>1, WayInCounts
  <2>4. ASSUME NEW outcome \in {"done", "lost", "refused", "conflict", "failed"}, Attempt(r, outcome)
        PROVE  CountsInv'
    BY <2>4, AttemptCounts
  <2>5. ASSUME NEW outcome, RunMarket(r, outcome) PROVE CountsInv'
    <3>1. /\ outcome \in {"done", "refused"} /\ CarriedOut(r, "market", outcome)
          /\ Counted(IF outcome = "done" THEN 0 ELSE 1)
      BY <2>5 DEF RunMarket
    <3> QED
      BY <3>1, CarriedOutCounts
  <2>6. ASSUME NEW outcome, RunSettings(r, outcome) PROVE CountsInv'
    <3>1. outcome \in {"done", "refused"} /\ CarriedOut(r, "settings", outcome) /\ metrics' = metrics
      BY <2>6 DEF RunSettings
    <3> QED
      BY <3>1, CarriedOutCounts
  <2>7. ASSUME RunFeedback(r) PROVE CountsInv'
    <3>1. CarriedOut(r, "feedback", "done") /\ "done" \in {"done", "refused"} /\ metrics' = metrics
      BY <2>7 DEF RunFeedback
    <3> QED
      BY <3>1, CarriedOutCounts
  <2>8. ASSUME HandleError(r) PROVE CountsInv'
    BY <2>3, <2>8
  <2>9. ASSUME Answer(r) PROVE CountsInv'
    BY <2>9, AnswerCounts
  <2> QED
    BY <1>3, <2>1, <2>2, <2>3, <2>4, <2>5, <2>6, <2>7, <2>8, <2>9 DEF Proceed
<1>4. CASE Ban
  BY <1>0, <1>4 DEF Ban
<1>5. CASE Die
  BY <1>5, DieCounts
<1> QED
  BY <1>1, <1>2, <1>3, <1>4, <1>5 DEF Next

LEMMA CountsInit ==
  ASSUME Bounded, Init
  PROVE  CountsInv
<1>1. ASSUME NEW r \in Requests
      PROVE  request[r].at = "unsent" /\ request[r].written = "no"
  BY DEF Init, Unsent
<1>2. Finished = {} /\ FinishedWrong = {} /\ Wrote = {} /\ WroteWrong = {}
  BY <1>1 DEF Finished, FinishedWrong, Wrote, WroteWrong, Stage
<1>3. Cardinality({}) = 0
  BY FS_EmptySet
<1>4. metrics = NoMetrics
  BY DEF Init
<1> QED
  BY <1>1, <1>2, <1>3, <1>4 DEF CountsInv, NoMetrics

-----------------------------------------------------------------------------
(* What follows.                                                           *)

LEMMA TypesFollow ==
  ASSUME RequestsInv
  PROVE  TypeOK
<1>1. /\ WorldTyped /\ RowsTyped
  BY DEF RequestsInv, ToldInv
<1>2. metrics \in [{"requests", "errors", "limited", "writes", "writeErrors"} -> Nat]
  <2>1. metrics \in [requests : Nat, errors : Nat, limited : Nat, writes : Nat, writeErrors : Nat]
    BY DEF RequestsInv, CountsInv
  <2> QED
    BY <2>1
<1>3. request \in [Requests -> [kind : Kinds, at : Stages, attempts : 0..MaxRetries,
                                code : {0, 200, 400, 401, 403, 409, 429, 500},
                                entry : Entries \cup {NoEntry}, next : Stages,
                                written : {"no", "done", "lost", "refused", "conflict", "failed"}]]
  BY <1>1 DEF RowsTyped, RequestRows, Attempts, Codes, EntryOrNone, Outcomes
<1> QED
  BY <1>1, <1>2, <1>3 DEF TypeOK, WorldTyped, RowsTyped

LEMMA AnswersFollow ==
  ASSUME ToldInv
  PROVE  AnswerTrue
<1> SUFFICES ASSUME NEW r \in Requests
             PROVE  /\ effects[r] <= 1
                    /\ request[r].code = 200 => effects[r] = 1
                    /\ request[r].code \in 400..499 => effects[r] = 0
                    /\ request[r].code = 500 /\ effects[r] = 1 => request[r].written = "lost"
  BY DEF AnswerTrue
<1>1. Told(request[r], effects[r]) /\ request[r].written \in Outcomes
  BY RequestKnown DEF RequestRows
<1> QED
  BY <1>1 DEF Told, Outcomes

LEMMA AuditFollows ==
  ASSUME ToldInv
  PROVE  AuditTrue
<1> SUFFICES ASSUME NEW r \in Requests
             PROVE  /\ Entry(r, "write", "success") \in audit => effects[r] = 1
                    /\ deployment = "tables" /\ effects[r] = 1 => Entry(r, "write", "success") \in audit
                    /\ Entry(r, "write", "failure") \in audit /\ effects[r] = 1 => request[r].written = "lost"
  BY DEF AuditTrue
<1>1. /\ Told(request[r], effects[r]) /\ request[r].written \in Outcomes
      /\ Kept(r, request[r], audit, unaudited)
  BY RequestKnown DEF RequestRows
<1> QED
  BY <1>1 DEF Told, Kept, Outcomes

LEMMA AccountsFollow ==
  ASSUME ToldInv
  PROVE  Accounted
<1> SUFFICES ASSUME NEW r \in Requests, request[r].at = "answered"
             PROVE  request[r].code \in {401, 429, 500} \/ request[r].written # "no" <=>
                      \E e \in audit \cup unaudited : e.request = r
  BY DEF Accounted
<1>1. Kept(r, request[r], audit, unaudited)
  BY RequestKnown
<1> QED
  BY <1>1 DEF Kept, Noteworthy, IsNoted

\* Two disjoint sets of requests make up a third.
LEMMA CountsAdd ==
  ASSUME IsFiniteSet(Requests), NEW S \in SUBSET Requests, NEW T \in SUBSET Requests,
         S \cap T = {}
  PROVE  /\ Cardinality(S) \in Nat /\ Cardinality(T) \in Nat
         /\ Cardinality(S \cup T) = Cardinality(S) + Cardinality(T)
<1>1. IsFiniteSet(S) /\ IsFiniteSet(T) /\ Cardinality(S) \in Nat /\ Cardinality(T) \in Nat
  BY FS_Subset, FS_CardinalityType
<1>2. Cardinality(S \cup T) = Cardinality(S) + Cardinality(T) - Cardinality(S \cap T)
  BY <1>1, FS_Union
<1>3. Cardinality(S \cap T) = 0
  BY FS_EmptySet
<1> QED
  BY <1>1, <1>2, <1>3

LEMMA CountersFollow ==
  ASSUME Bounded, RequestsInv
  PROVE  CountersAgree
<1> SUFFICES ASSUME \A r \in Requests : ~Awaited(r), deaths = 0
             PROVE  /\ metrics.requests = Number(Nat)
                    /\ metrics.errors = metrics.requests - Number({200})
                    /\ HasRepository => metrics.writes - metrics.writeErrors = Number({200})
                    /\ metrics.writeErrors <= metrics.errors
  BY DEF CountersAgree
<1> DEFINE Done == {r \in Requests : request[r].at = "answered" /\ request[r].code \in {200}}
<1>0. ToldInv /\ IsFiniteSet(Requests)
  BY DEF RequestsInv, Bounded
<1>1. /\ metrics.requests = Cardinality(Finished)
      /\ metrics.errors = Cardinality(FinishedWrong)
      /\ metrics.writeErrors <= Cardinality(WroteWrong)
      /\ HasRepository => /\ metrics.writes = Cardinality(Wrote)
                          /\ metrics.writeErrors = Cardinality(WroteWrong)
      /\ metrics.writeErrors \in Nat
  BY DEF RequestsInv, CountsInv
<1>2. ASSUME NEW r \in Requests
      PROVE  /\ request[r].at \in {"unsent", "answered"}
             /\ request[r].at = "unsent" => request[r].written = "no"
             /\ request[r].at = "answered" => request[r].code \in Codes \ {0}
             /\ Stage(request[r]) = "answered" <=> request[r].at = "answered"
             /\ request[r].written = "done" <=> request[r].code = 200
             /\ request[r].written \in Outcomes
             /\ request[r].written \notin {"no", "done"} => request[r].code >= 400
  <2>1. request[r].at \notin {"cut", "past"}
    BY DEF RequestsInv, CountsInv
  <2>2. request[r].at \in {"unsent", "answered"}
    BY <2>1 DEF Awaited
  <2>3. Told(request[r], effects[r]) /\ Placed(request[r]) /\ request[r] \in RequestRows
    BY <1>0, RequestKnown
  <2>4. request[r].written \in Outcomes /\ request[r].code \in Codes
    BY <2>3 DEF RequestRows
  <2>5. Stage(request[r]) = request[r].at
    BY <2>2 DEF Stage
  <2>6. /\ request[r].at = "unsent" => request[r].written = "no"
        /\ request[r].at = "answered" => request[r].code # 0
    BY <2>3, <2>5 DEF Placed, Early
  <2>7. /\ request[r].written = "done" <=> request[r].code = 200
        /\ request[r].written \notin {"no", "done"} => request[r].code >= 400
    BY <2>3, <2>4 DEF Told, Outcomes
  <2> QED
    BY <2>2, <2>4, <2>5, <2>6, <2>7
<1>3. Number(Nat) = Cardinality(Finished) /\ Number({200}) = Cardinality(Done)
  <2>1. {r \in Requests : request[r].at = "answered" /\ request[r].code \in Nat} = Finished
    BY <1>2 DEF Finished, Codes
  <2> QED
    BY <2>1 DEF Number
<1>4. Finished = Done \cup FinishedWrong /\ Done \cap FinishedWrong = {}
  BY <1>2 DEF Finished, FinishedWrong, Codes
<1>5. Wrote = Done \cup WroteWrong /\ Done \cap WroteWrong = {}
  BY <1>2 DEF Wrote, WroteWrong
<1>6. WroteWrong \subseteq FinishedWrong
  BY <1>2 DEF WroteWrong, FinishedWrong
<1>7. /\ Done \in SUBSET Requests /\ FinishedWrong \in SUBSET Requests /\ WroteWrong \in SUBSET Requests
  BY DEF FinishedWrong, WroteWrong
<1> HIDE DEF Done
<1>8. /\ Cardinality(Finished) = Cardinality(Done) + Cardinality(FinishedWrong)
      /\ Cardinality(Done) \in Nat /\ Cardinality(FinishedWrong) \in Nat
  BY <1>0, <1>4, <1>7, CountsAdd
<1>9. /\ Cardinality(Wrote) = Cardinality(Done) + Cardinality(WroteWrong)
      /\ Cardinality(WroteWrong) \in Nat
  BY <1>0, <1>5, <1>7, CountsAdd
<1>10. Cardinality(WroteWrong) <= Cardinality(FinishedWrong)
  <2>1. IsFiniteSet(FinishedWrong)
    BY <1>0, <1>7, FS_Subset
  <2> QED
    BY <1>6, <2>1, FS_Subset
<1> QED
  BY <1>1, <1>3, <1>8, <1>9, <1>10

\* Whatever a banned agent still changes is the settings' or, without a
\* repository, a report of feedback.
LEMMA BannedStopHolds ==
  ASSUME ToldInv, [Next]_requestVars
  PROVE  BannedStop
<1> SUFFICES ASSUME NEW r \in Requests, effects'[r] # effects[r], banned
             PROVE  request[r].kind = "settings" \/ (~HasRepository /\ request[r].kind = "feedback")
  BY DEF BannedStop
<1>0. effects \in [Requests -> Nat]
  BY DEF ToldInv, RowsTyped
<1>1. PICK s \in Requests :
        \/ \E outcome \in {"done", "lost", "refused", "conflict", "failed"} :
             Attempt(s, outcome) \/ RunMarket(s, outcome) \/ RunSettings(s, outcome)
        \/ RunFeedback(s)
  <2>1. effects' # effects
    OBVIOUS
  <2>2. ~ UNCHANGED requestVars /\ ~ Ban /\ ~ Die
    BY <2>1 DEF requestVars, Ban, Die
  <2>3. ASSUME NEW s \in Requests
        PROVE  /\ \A kind, allowed : ~ Arrive(s, kind, allowed)
               /\ \A written, answered : ~ Noted(s, written, answered)
               /\ \A valid : ~ Authenticate(s, valid) /\ ~ CheckActive(s, valid) /\ ~ CheckAdmin(s, valid)
               /\ \A outcome : ~ Enter(s, outcome)
               /\ ~ HandleError(s) /\ ~ Answer(s)
    BY <2>1 DEF Arrive, Noted, Authenticate, CheckActive, CheckAdmin, Enter, HandleError, Answer, OnTheWayIn
  <2> QED
    BY <2>2, <2>3 DEF Next, Proceed
<1>2. ASSUME NEW outcome, Attempt(s, outcome)
      PROVE  s = r /\ request[r].kind = "settings"
  <2>1. /\ outcome \in {"done", "lost"} => MayWrite(s)
        /\ effects' = [effects EXCEPT ![s] = IF outcome \in {"done", "lost"} THEN @ + 1 ELSE @]
    BY <1>2 DEF Attempt
  <2>2. s = r /\ outcome \in {"done", "lost"}
    BY <1>0, <2>1
  <2> QED
    BY <2>1, <2>2 DEF MayWrite
<1>3. ASSUME NEW kind, NEW outcome, CarriedOut(s, kind, outcome)
      PROVE  s = r /\ outcome = "done" /\ request[r].kind = kind /\ ~HasRepository
  <2>1. /\ request[s].at = "running" /\ request[s].kind = kind
        /\ effects' = [effects EXCEPT ![s] = IF outcome = "done" THEN @ + 1 ELSE @]
    BY <1>3 DEF CarriedOut
  <2>2. s = r /\ outcome = "done"
    BY <1>0, <2>1
  <2>3. ~HasRepository
    BY <2>1, RequestKnown DEF Placed
  <2> QED
    BY <2>1, <2>2, <2>3
<1>4. ASSUME NEW outcome, RunMarket(s, outcome) PROVE FALSE
  BY <1>3, <1>4 DEF RunMarket
<1>5. ASSUME NEW outcome, RunSettings(s, outcome) PROVE request[r].kind = "settings"
  BY <1>3, <1>5 DEF RunSettings
<1>6. ASSUME RunFeedback(s) PROVE ~HasRepository /\ request[r].kind = "feedback"
  BY <1>3, <1>6 DEF RunFeedback
<1> QED
  BY <1>1, <1>2, <1>4, <1>5, <1>6

-----------------------------------------------------------------------------

\* The three facts of the induction, and what it shows, for an instance.
LEMMA RequestsInit == Bounded /\ Init => RequestsInv
BY ToldInit, CountsInit DEF RequestsInv

LEMMA RequestsStep == Bounded /\ RequestsInv /\ [Next]_requestVars => RequestsInv'
BY ToldStep, CountsStep DEF RequestsInv

LEMMA RequestsFollow ==
  Bounded /\ RequestsInv => TypeOK /\ AnswerTrue /\ AuditTrue /\ Accounted /\ CountersAgree
<1> SUFFICES ASSUME Bounded, RequestsInv
             PROVE  TypeOK /\ AnswerTrue /\ AuditTrue /\ Accounted /\ CountersAgree
  OBVIOUS
<1>1. ToldInv
  BY DEF RequestsInv
<1> QED
  BY <1>1, TypesFollow, AnswersFollow, AuditFollows, AccountsFollow, CountersFollow

LEMMA RequestsStop == RequestsInv /\ [Next]_requestVars => BannedStop
BY BannedStopHolds DEF RequestsInv
=============================================================================
