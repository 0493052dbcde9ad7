------------------------------- MODULE SdkCalls -------------------------------
(***************************************************************************)
(* One call of the SDK, requestRaw in packages/sdk/src/index.ts: it sends  *)
(* its request again when the answer says that a retry may help, when the  *)
(* connection fails or when no answer came in time.  A request that the    *)
(* client has given up may still arrive, and the server may have done what *)
(* it was asked although nobody gets its answer.  The server is kept to    *)
(* what the routes do with a request: refuse it for the rate, fail before  *)
(* or after the commit, or handle it.                                      *)
(***************************************************************************)
EXTENDS Integers, FiniteSets

CONSTANT MaxRetries     \* the most retries a call is configured with

VARIABLES
    retries, operation,     \* of this call
    attempt, at,            \* where the client is: which attempt, and in it
    result,                 \* what the caller gets
    requests,               \* attempts whose request is on its way
    answers,                \* answers on their way: attempt and status
    applied,                \* attempts that the server has applied
    unanswered              \* attempts whose answer the client did not get, or
                            \* that was an error of the server

callVars == <<retries, operation, attempt, at, result, requests, answers, applied, unanswered>>

Attempts == 1..(MaxRetries + 1)

\* A creation succeeds as often as it arrives, like publishTask; a transition is
\* refused when it has been made, like confirmSubmission; a read changes nothing.
Operations == {"create", "transition", "read"}

Statuses == {"ok", "refused", "rateLimited", "serverError"}

Results == {"none", "ok", "refused", "rateLimited", "serverError", "invalid", "timeout",
            "connection", "never"}

Init ==
  /\ retries \in 0..MaxRetries
  /\ operation \in Operations
  /\ attempt = 1 /\ at = "sending" /\ result = "none"
  /\ requests = {} /\ answers = {} /\ applied = {} /\ unanswered = {}

-----------------------------------------------------------------------------

maxAttempts == retries + 1

ShouldRetryStatus(status) == status \in {"rateLimited", "serverError"}

RetriesLeft == attempt < maxAttempts

\* The call ends.
End(outcome) == at' = "done" /\ result' = outcome /\ UNCHANGED attempt

\* The client waits a moment and sends again, or gives up.
RetryOrEnd(outcome) ==
  IF RetriesLeft
    THEN at' = "sleeping" /\ UNCHANGED <<attempt, result>>
    ELSE End(outcome)

Send ==
  /\ at = "sending"
  /\ at' = "waiting"
  /\ requests' = requests \cup {attempt}
  /\ UNCHANGED <<retries, operation, attempt, result, answers, applied, unanswered>>

\* Nothing is sent and no retry may help: a token is missing, the address is no
\* address, or the certificate is not trusted.
CannotSend ==
  /\ at = "sending"
  /\ End("never")
  /\ UNCHANGED <<retries, operation, requests, answers, applied, unanswered>>

Wake ==
  /\ at = "sleeping"
  /\ attempt' = attempt + 1
  /\ at' = "sending"
  /\ UNCHANGED <<retries, operation, result, requests, answers, applied, unanswered>>

Delivered(status) ==
  LET answer == [attempt |-> attempt, status |-> status]
  IN  /\ at = "waiting"
      /\ answer \in answers
      /\ answers' = answers \ {answer}
      /\ UNCHANGED <<retries, operation, requests, applied>>

\* Fault: an answer that does not match the schema is asked for once more.
ReceiveSuccessAgain ==
  /\ Delivered("ok")
  /\ End("ok") \/ RetryOrEnd("invalid")
  /\ UNCHANGED unanswered

\* The answer of the attempt that the client waits for is a success, and may
\* still not match the schema of the operation.
ReceiveSuccess ==
  /\ Delivered("ok")
  /\ End("ok") \/ End("invalid")
  /\ UNCHANGED unanswered

ReceiveError ==
  \E status \in Statuses \ {"ok"} :
    /\ Delivered(status)
    /\ IF ShouldRetryStatus(status) THEN RetryOrEnd(status) ELSE End(status)
    /\ unanswered' = IF status = "serverError" THEN unanswered \cup {attempt} ELSE unanswered

\* The connection fails, before or after the server has the request.
Disconnect ==
  /\ at = "waiting"
  /\ RetryOrEnd("connection")
  /\ unanswered' = unanswered \cup {attempt}
  /\ UNCHANGED <<retries, operation, requests, answers, applied>>

\* The timer of the attempt aborts it.
Timeout ==
  /\ at = "waiting"
  /\ RetryOrEnd("timeout")
  /\ unanswered' = unanswered \cup {attempt}
  /\ UNCHANGED <<retries, operation, requests, answers, applied>>

-----------------------------------------------------------------------------

\* A request is lost on its way, also one that nobody waits for any more.
LoseRequest(i) ==
  /\ i \in requests
  /\ requests' = requests \ {i}
  /\ UNCHANGED <<retries, operation, attempt, at, result, answers, applied, unanswered>>

Answer(i, status) == answers' = answers \cup {[attempt |-> i, status |-> status]}

\* A request arrives.
Handle(i) ==
  /\ i \in requests
  /\ requests' = requests \ {i}
  /\ \/ Answer(i, "rateLimited") /\ UNCHANGED applied
     \/ Answer(i, "serverError") /\ UNCHANGED applied
     \/ Answer(i, "refused") /\ UNCHANGED applied
     \/ /\ operation = "transition" => applied = {}
        /\ applied' = IF operation = "read" THEN applied ELSE applied \cup {i}
        /\ \E status \in {"ok", "serverError"} : Answer(i, status)
  /\ UNCHANGED <<retries, operation, attempt, at, result, unanswered>>

\* What the client does by itself
Client == Send \/ Wake \/ ReceiveSuccess \/ ReceiveError \/ Timeout

Next ==
  \/ Client
  \/ CannotSend \/ Disconnect
  \/ \E i \in Attempts : LoseRequest(i) \/ Handle(i)

-----------------------------------------------------------------------------

\* Every variable has its type.
TypeOK ==
  /\ attempt \in 1..maxAttempts
  /\ at \in {"sending", "waiting", "sleeping", "done"}
  /\ result \in Results
  /\ requests \subseteq Attempts /\ applied \subseteq Attempts /\ unanswered \subseteq Attempts
  /\ answers \subseteq [attempt : Attempts, status : Statuses]

\* Of all the attempts of a call at most one is applied, besides those that the
\* client could not know about; a transition is made once in any case.
AppliedOnce ==
  /\ Cardinality(applied \ unanswered) <= 1
  /\ operation = "transition" => Cardinality(applied) <= 1

\* What the caller is told is what happened: success means that it was done; a
\* refusal, a rate limit or a call that could not be made mean that it was not,
\* unless an earlier attempt was left without an answer.
ResultTrue ==
  /\ result \in {"ok", "invalid"} /\ operation # "read" => attempt \in applied
  /\ result \in {"refused", "rateLimited", "never"} =>
       applied \subseteq {i \in unanswered : i < attempt}

\* Every call comes to an end, whatever the network does.
CallEnds == <>(at = "done")
=============================================================================
