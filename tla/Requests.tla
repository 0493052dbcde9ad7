------------------------------ MODULE Requests ------------------------------
(***************************************************************************)
(* What becomes of a request that writes (apps/server/src/app.ts and the   *)
(* routes of api/): it is let in or rejected, its operation runs in a      *)
(* transaction that may be repeated (infra/state-repository.ts), and the   *)
(* outcome is counted, noted in the audit log and answered.  Awaits take   *)
(* as long as they like, agents are banned meanwhile, answers of the       *)
(* database get lost, and the process may die.                             *)
(***************************************************************************)
EXTENDS Naturals, FiniteSets

CONSTANTS
    Requests,
    MaxRetries,     \* MAX_SERIALIZABLE_RETRIES
    MaxBans,        \* the agent is banned or unbanned so often,
    MaxDeaths       \* and the process dies so often

VARIABLES
    deployment,     \* no repository, or one with or without the audit log in it
    banned, bans,   \* the status of the agent that sends the requests
    request,        \* request -> what it is and how far it has come
    effects,        \* request -> how often what it asked for was done
    audit,          \* the audit log, in the database or the process
    unaudited,      \* entries that could not be written
    metrics,        \* the counters of the process
    deaths

requestVars == <<deployment, banned, bans, request, effects, audit, unaudited, metrics, deaths>>

\* Routes of the marketplace and the profile, of feedback, and of the settings.
Kinds == {"market", "feedback", "settings"}

NoEntry == [request |-> 0, about |-> "nothing", outcome |-> "none"]

Unsent ==
  [kind |-> "market", at |-> "unsent", attempts |-> 0, code |-> 0,
   entry |-> NoEntry, next |-> "unsent", written |-> "no"]

NoMetrics == [requests |-> 0, errors |-> 0, limited |-> 0, writes |-> 0, writeErrors |-> 0]

Init ==
  /\ deployment \in {"memory", "tables", "tables without audit"}
  /\ banned = FALSE /\ bans = 0
  /\ request = [r \in Requests |-> Unsent]
  /\ effects = [r \in Requests |-> 0]
  /\ audit = {} /\ unaudited = {}
  /\ metrics = NoMetrics
  /\ deaths = 0

HasRepository == deployment # "memory"

-----------------------------------------------------------------------------
(* The audit log.                                                          *)

Entry(r, about, outcome) == [request |-> r, about |-> about, outcome |-> outcome]

\* A success is noted in the transaction, if the log is in the database.
NotedInTransaction(r) ==
  IF deployment = "tables" THEN {Entry(r, "write", "success")} ELSE {}

\* recordAudit: the request goes on when the entry is in the log; in the log of
\* the process it is at once.
Note(r, entry, changed) ==
  IF deployment = "tables"
  THEN request' = [request EXCEPT ![r] =
                     [changed EXCEPT !.entry = entry, !.at = "noting", !.next = changed.at]]
  ELSE request' = [request EXCEPT ![r] = changed]

InProcess(entries) == IF deployment = "tables" THEN {} ELSE entries

\* recordAudit throws nothing, so that an entry that could not be written, or
\* whose answer was lost, changes nothing for the request.
Noted(r, written, answered) ==
  LET q == request[r]
  IN /\ q.at = "noting"
     /\ written \/ ~answered
     /\ audit' = audit \cup (IF written THEN {q.entry} ELSE {})
     /\ unaudited' = unaudited \cup (IF written THEN {} ELSE {q.entry})
     /\ request' = [request EXCEPT ![r] = [q EXCEPT !.entry = NoEntry, !.at = q.next, !.next = "unsent"]]
     /\ UNCHANGED <<deployment, banned, bans, effects, metrics, deaths>>

-----------------------------------------------------------------------------
(* On the way in.  The rate limiter, authenticate, requireActiveAgent and   *)
(* requireAdmin.                                                            *)

Arrive(r, kind, allowed) ==
  /\ request[r].at = "unsent"
  /\ request' = [request EXCEPT ![r] =
       [@ EXCEPT !.kind = kind,
                 !.code = IF allowed THEN 0 ELSE 429,
                 !.at = IF allowed THEN "authenticating" ELSE "answering"]]
  /\ UNCHANGED <<deployment, banned, bans, effects, audit, unaudited, metrics, deaths>>

Reject(r) ==
  /\ Note(r, Entry(r, "access", "rejected"), [request[r] EXCEPT !.code = 401, !.at = "answering"])
  /\ audit' = audit \cup InProcess({Entry(r, "access", "rejected")})

GoOn(r, stage) ==
  /\ request' = [request EXCEPT ![r].at = stage]
  /\ UNCHANGED audit

Refuse(r, code) ==
  /\ request' = [request EXCEPT ![r] = [@ EXCEPT !.code = code, !.at = "answering"]]
  /\ UNCHANGED audit

\* An error that nobody expected is noted before it is answered.
Unexpected(r, changed) ==
  Note(r, Entry(r, "error", "failure"), [changed EXCEPT !.code = 500, !.at = "answering"])

Fail(r) ==
  /\ Unexpected(r, request[r])
  /\ audit' = audit \cup InProcess({Entry(r, "error", "failure")})

OnTheWayIn == UNCHANGED <<deployment, banned, bans, effects, unaudited, metrics, deaths>>

Authenticate(r, valid) ==
  /\ request[r].at = "authenticating"
  /\ IF valid THEN GoOn(r, "checking") ELSE Reject(r)
  /\ OnTheWayIn

CheckActive(r, answered) ==
  /\ request[r].at = "checking"
  /\ HasRepository \/ answered
  /\ CASE ~answered -> Fail(r)
       [] answered /\ banned -> Refuse(r, 403)
       [] OTHER -> GoOn(r, IF request[r].kind = "settings" THEN "proving" ELSE "entering")
  /\ OnTheWayIn

CheckAdmin(r, valid) ==
  /\ request[r].at = "proving"
  /\ IF valid THEN GoOn(r, "entering") ELSE Reject(r)
  /\ OnTheWayIn

\* The routes that write, and whether their handlers read the rules again.
TaskRoutes ==
  [create |-> TRUE, intend |-> FALSE, submit |-> TRUE, terminate |-> FALSE,
   dismissMention |-> FALSE, confirm |-> FALSE, reject |-> TRUE]
DisputeRoutes == [open |-> TRUE, vote |-> FALSE, respond |-> TRUE]
ProfileRoutes == [update |-> FALSE]
FeedbackRoutes == [submit |-> FALSE]
SettingsRoutes == [update |-> FALSE, reset |-> FALSE]

Routes(kind) ==
  CASE kind = "market" -> {TaskRoutes, DisputeRoutes, ProfileRoutes}
    [] kind = "feedback" -> {FeedbackRoutes}
    [] kind = "settings" -> {SettingsRoutes}

MayRefresh(kind) == \E routes \in Routes(kind) : \E name \in DOMAIN routes : routes[name]

\* The handler parses its input and measures it against the rules, which it has
\* perhaps read again.
Enter(r, outcome) ==
  /\ request[r].at = "entering"
  /\ outcome = "fails" => HasRepository /\ MayRefresh(request[r].kind)
  /\ CASE outcome = "fails" -> Fail(r)
       [] outcome = "invalid" -> Refuse(r, 400)
       [] OTHER -> GoOn(r, IF HasRepository THEN "writing" ELSE "running")
  /\ OnTheWayIn

-----------------------------------------------------------------------------
(* The write.                                                              *)

\* Fault: the first look is trusted.
MayWriteOnceChecked(r) == TRUE

\* requireActiveAgent has looked before; the transaction of every route but
\* those of the settings looks again.
MayWrite(r) == banned => request[r].kind = "settings"

\* recordWrite
Counted(errors) ==
  metrics' = [metrics EXCEPT !.writes = @ + 1, !.writeErrors = @ + errors]

\* recordWriteOutcome and the answer after a write that went well.
Succeed(r) ==
  /\ Counted(0)
  /\ request' = [request EXCEPT ![r] = [@ EXCEPT !.written = "done", !.code = 200, !.at = "answering"]]
  /\ audit' = audit \cup NotedInTransaction(r) \cup InProcess({Entry(r, "write", "success")})

\* The same after one that threw an error: a refusal is answered as it is.
GoWrong(r, written, inTransaction) ==
  LET failure == Entry(r, "write", "failure")
      refused == written = "refused"
  IN /\ Counted(1)
     /\ Note(r, failure, [request[r] EXCEPT !.written = written,
                                            !.code = IF refused THEN 409 ELSE 500,
                                            !.at = IF refused THEN "answering" ELSE "failing"])
     /\ audit' = audit \cup inTransaction \cup InProcess({failure})

\* executeWithRetry
Repeat(r) ==
  /\ request' = [request EXCEPT ![r].attempts = @ + 1]
  /\ UNCHANGED <<audit, metrics>>

\* Fault: a connection that broke is taken for a transaction that did not commit.
AttemptAgainWhenLost(r, outcome) ==
  /\ request[r].at = "writing"
  /\ outcome \in {"done", "lost"} => MayWrite(r)
  /\ effects' = [effects EXCEPT ![r] = IF outcome \in {"done", "lost"} THEN @ + 1 ELSE @]
  /\ CASE outcome = "done" -> Succeed(r)
       [] outcome \in {"conflict", "lost"} /\ request[r].attempts < MaxRetries -> Repeat(r)
       [] OTHER -> GoWrong(r, outcome, {})
  /\ UNCHANGED <<deployment, banned, bans, unaudited, deaths>>

\* mutateDirect: the transaction commits, it commits and its answer is lost, it
\* refuses, it loses against another one and is perhaps repeated, or the database
\* does not answer at all.
Attempt(r, outcome) ==
  /\ request[r].at = "writing"
  /\ outcome \in {"done", "lost"} => MayWrite(r)
  /\ effects' = [effects EXCEPT ![r] = IF outcome \in {"done", "lost"} THEN @ + 1 ELSE @]
  /\ CASE outcome = "done" -> Succeed(r)
       [] outcome = "lost" -> GoWrong(r, outcome, NotedInTransaction(r))
       [] outcome = "conflict" /\ request[r].attempts < MaxRetries -> Repeat(r)
       [] OTHER -> GoWrong(r, outcome, {})
  /\ UNCHANGED <<deployment, banned, bans, unaudited, deaths>>

\* Without a repository a write is carried out and noted at once.
CarriedOut(r, kind, outcome) ==
  /\ request[r].at = "running" /\ request[r].kind = kind
  /\ effects' = [effects EXCEPT ![r] = IF outcome = "done" THEN @ + 1 ELSE @]
  /\ request' = [request EXCEPT ![r] = [@ EXCEPT !.written = outcome, !.at = "answering",
                                                !.code = IF outcome = "done" THEN 200 ELSE 409]]
  /\ audit' = audit \cup {Entry(r, "write", IF outcome = "done" THEN "success" ELSE "failure")}
  /\ UNCHANGED <<deployment, banned, bans, unaudited, deaths>>

\* mutate; the engine looks at the status of the agent too.
RunMarket(r, outcome) ==
  /\ outcome \in {"done", "refused"} /\ (banned => outcome = "refused")
  /\ CarriedOut(r, "market", outcome)
  /\ Counted(IF outcome = "done" THEN 0 ELSE 1)

\* createFeedbackReport, which refuses nothing, is no write for the metrics.
RunFeedback(r) == CarriedOut(r, "feedback", "done") /\ UNCHANGED metrics

\* updateRuntimeSettings and resetRuntimeSettings are none either.
RunSettings(r, outcome) ==
  /\ outcome \in {"done", "refused"}
  /\ CarriedOut(r, "settings", outcome)
  /\ UNCHANGED metrics

HandleError(r) ==
  /\ request[r].at = "failing"
  /\ Fail(r)
  /\ OnTheWayIn

-----------------------------------------------------------------------------
(* The answer, and what happens meanwhile.                                 *)

\* onResponse
Answer(r) ==
  LET q == request[r]
      limited == q.code = 429
      rejection == Entry(r, "rate", "rejected")
  IN /\ q.at = "answering"
     /\ metrics' = [metrics EXCEPT !.requests = @ + 1,
                                   !.errors = @ + (IF q.code >= 400 THEN 1 ELSE 0),
                                   !.limited = @ + (IF limited THEN 1 ELSE 0)]
     /\ IF limited
        THEN /\ Note(r, rejection, [q EXCEPT !.at = "answered"])
             /\ audit' = audit \cup InProcess({rejection})
        ELSE GoOn(r, "answered")
     /\ UNCHANGED <<deployment, banned, bans, effects, unaudited, deaths>>

\* A cycle is closed or a dispute opened again.
Ban ==
  /\ bans < MaxBans /\ bans' = bans + 1
  /\ banned' = ~banned
  /\ UNCHANGED <<deployment, request, effects, audit, unaudited, metrics, deaths>>

\* The process dies and is started again; nobody answers what was under way.
\* (Without a repository nothing is left of it.)
Die ==
  /\ HasRepository /\ deaths < MaxDeaths /\ deaths' = deaths + 1
  /\ request' = [r \in Requests |->
       CASE request[r].at = "unsent" -> Unsent
         [] request[r].at = "answered" -> [request[r] EXCEPT !.at = "past"]
         [] OTHER -> [request[r] EXCEPT !.at = IF @ = "past" THEN "past" ELSE "cut"]]
  /\ audit' = IF deployment = "tables" THEN audit ELSE {}
  /\ metrics' = NoMetrics
  /\ UNCHANGED <<deployment, banned, bans, effects, unaudited>>

Proceed(r) ==
  \/ \E written, answered \in BOOLEAN : Noted(r, written, answered)
  \/ \E valid \in BOOLEAN : Authenticate(r, valid) \/ CheckActive(r, valid) \/ CheckAdmin(r, valid)
  \/ \E outcome \in {"ok", "invalid", "fails"} : Enter(r, outcome)
  \/ \E outcome \in {"done", "lost", "refused", "conflict", "failed"} :
       Attempt(r, outcome) \/ RunMarket(r, outcome) \/ RunSettings(r, outcome)
  \/ RunFeedback(r)
  \/ HandleError(r)
  \/ Answer(r)

Next ==
  \/ \E r \in Requests :
       \/ \E kind \in Kinds, allowed \in BOOLEAN : Arrive(r, kind, allowed)
       \/ Proceed(r)
  \/ Ban
  \/ Die

-----------------------------------------------------------------------------

Stages ==
  {"unsent", "authenticating", "checking", "proving", "entering", "writing", "running",
   "failing", "noting", "answering", "answered", "cut", "past"}

Entries ==
  [request : Requests, about : {"access", "write", "error", "rate"},
   outcome : {"success", "failure", "rejected"}]

TypeOK ==
  /\ deployment \in {"memory", "tables", "tables without audit"}
  /\ banned \in BOOLEAN /\ bans \in 0..MaxBans /\ deaths \in 0..MaxDeaths
  /\ request \in [Requests -> [kind : Kinds, at : Stages, attempts : 0..MaxRetries,
                               code : {0, 200, 400, 401, 403, 409, 429, 500},
                               entry : Entries \cup {NoEntry}, next : Stages,
                               written : {"no", "done", "lost", "refused", "conflict", "failed"}]]
  /\ effects \in [Requests -> Nat]
  /\ audit \subseteq Entries /\ unaudited \subseteq Entries
  /\ metrics \in [{"requests", "errors", "limited", "writes", "writeErrors"} -> Nat]

\* What is answered is what was done: a request that is told that it succeeded
\* was carried out once, however often it had to be repeated; one that is told
\* why it was refused was not; and one that is told of an error was carried out
\* only when the database's own answer was lost.
AnswerTrue ==
  \A r \in Requests :
    /\ effects[r] <= 1
    /\ request[r].code = 200 => effects[r] = 1
    /\ request[r].code \in 400..499 => effects[r] = 0
    /\ request[r].code = 500 /\ effects[r] = 1 => request[r].written = "lost"

\* The audit log says of a write that it succeeded only if it did; in the
\* database it says so of every one, wherever the process died; and it says
\* that one failed, that did not, only if its answer was lost.
AuditTrue ==
  \A r \in Requests :
    /\ Entry(r, "write", "success") \in audit => effects[r] = 1
    /\ deployment = "tables" /\ effects[r] = 1 => Entry(r, "write", "success") \in audit
    /\ Entry(r, "write", "failure") \in audit /\ effects[r] = 1 => request[r].written = "lost"

\* Whoever is turned away at the door, and every write that was tried, has been
\* noted when the request is answered, or the note could not be written.
Accounted ==
  \A r \in Requests :
    request[r].at = "answered" =>
      (request[r].code \in {401, 429, 500} \/ request[r].written # "no" <=>
         \E e \in audit \cup unaudited : e.request = r)

Awaited(r) == request[r].at \notin {"unsent", "answered", "cut", "past"}

Number(codes) == Cardinality({r \in Requests : request[r].at = "answered" /\ request[r].code \in codes})

\* When nothing is under way, the counters of requests are those of the answers,
\* and with a repository those of the writes agree with them: what was not
\* refused at the door is one write, whether it was repeated or not.
CountersAgree ==
  (\A r \in Requests : ~Awaited(r)) /\ deaths = 0 =>
    /\ metrics.requests = Number(Nat)
    /\ metrics.errors = metrics.requests - Number({200})
    /\ HasRepository => metrics.writes - metrics.writeErrors = Number({200})
    /\ metrics.writeErrors <= metrics.errors

\* With a repository an agent changes nothing in the marketplace after it was
\* banned, though it was active when its request was let in.
BannedStop ==
  \A r \in Requests :
    effects'[r] # effects[r] /\ banned =>
      request[r].kind = "settings" \/ (~HasRepository /\ request[r].kind = "feedback")
=============================================================================
