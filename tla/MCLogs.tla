------------------------------- MODULE MCLogs -------------------------------
(***************************************************************************)
(* What the server notes about its requests, for TLC.  A behaviour is      *)
(* about one of two things that share no state: the buffered writer of     *)
(* request logs, or requests on their way through the server.              *)
(***************************************************************************)
EXTENDS RequestLog

CONSTANTS
    MaxRetries, MaxBans, MaxDeaths

ASSUME LogsAssumption == MaxRetries \in Nat /\ MaxBans \in Nat /\ MaxDeaths \in Nat

VARIABLES
    area,
    deployment, banned, bans, request, effects, audit, unaudited, metrics, deaths

\* One request with everything that can go wrong, or two of them side by side.
One == INSTANCE Requests WITH Requests <- {1}
Two == INSTANCE Requests WITH Requests <- {1, 2}, MaxRetries <- 1, MaxBans <- 0, MaxDeaths <- 0

requestVars == <<deployment, banned, bans, request, effects, audit, unaudited, metrics, deaths>>
logVars == <<area, vars, requestVars>>

LogsInit ==
  /\ area \in {"writer", "one", "two"}
  /\ Init
  /\ IF area = "two" THEN Two!Init ELSE One!Init
  /\ area = "writer" => deployment = "memory"

Writing(A) == area = "writer" /\ A /\ UNCHANGED <<area, requestVars>>
Requesting(A) == A /\ UNCHANGED <<area, vars>>

LogsNext ==
  \/ Writing(Next)
  \/ area = "one" /\ Requesting(One!Next)
  \/ area = "two" /\ Requesting(Two!Next)

\* As FairSpec; and every await of a request comes to an end.  Each is
\* fair on its own, for the areas exclude each other.
LogsSpec ==
  /\ LogsInit /\ [][LogsNext]_logVars
  /\ WF_logVars(\/ Writing(Timer)
                \/ area = "one" /\ Requesting(One!Proceed(1))
                \/ area = "two" /\ Requesting(Two!Proceed(1)))
  /\ WF_logVars(\/ Writing(Answers)
                \/ area = "two" /\ Requesting(Two!Proceed(2)))
  /\ WF_logVars(Writing(Audit))
  /\ WF_logVars(Writing(LastWarning))

-----------------------------------------------------------------------------

\* What a request is told, what the audit log says of it and what the counters count
\* is what was done: once if it succeeded, not at all if it was refused, and after an
\* error only if the answer of the database was lost; whoever was turned away at the
\* door, and every write that was tried, is noted.
RequestsTold ==
  IF area = "two"
  THEN Two!TypeOK /\ Two!AnswerTrue /\ Two!AuditTrue /\ Two!Accounted /\ Two!CountersAgree
  ELSE One!TypeOK /\ One!AnswerTrue /\ One!AuditTrue /\ One!Accounted /\ One!CountersAgree

\* A banned agent changes nothing in the marketplace with a request that was let
\* in before it was banned.
BannedStop == [][One!BannedStop]_requestVars

Waiting(r) == r \in DOMAIN request /\ Two!Awaited(r)

\* Everything comes to its end: a log that waits is written or dropped, and every
\* request is answered unless the process dies.
AllEnds == Settled /\ \A r \in {1, 2} : Waiting(r) ~> ~Waiting(r)
=============================================================================
