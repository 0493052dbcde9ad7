-------------------------------- MODULE SignIn --------------------------------
(***************************************************************************)
(* The pending sign-in challenges of one API process,                      *)
(* apps/server/src/api/auth.ts: a table with one challenge per address and *)
(* a limit on its size, the sweep that drops the expired ones, and the     *)
(* verification, which looks the challenge up, waits for the check of the  *)
(* signature and only then removes what is in the table for the address.   *)
(* Nonce and message are one: the n-th challenge that the process gives.   *)
(***************************************************************************)
EXTENDS Integers, FiniteSets

CONSTANTS
    Addresses,
    Requests,           \* verifications that can be under way at once
    Ttl,                \* 0: challenges do not expire
    SweepInterval,
    MaxEntries,
    MaxChallenges,      \* so many challenges are given
    MaxTime             \* in so much time

VARIABLES
    now,
    challenges,     \* address -> pending challenge
    nextSweepAt,
    given,          \* to whom each challenge was given, and when
    verifying,      \* request -> the challenge whose signature it checks
    tokens,         \* how many tokens each challenge has earned
    overtaken,      \* challenges that the token of another one removed
    refused         \* who was refused a challenge by the last step

vars == <<now, challenges, nextSweepAt, given, verifying, tokens, overtaken, refused>>

Nonces == 1..MaxChallenges

Nobody == 0

NoChallenge == [nonce |-> 0, createdAt |-> 0]

Idle == 0

To(n) == given[n].to

Init ==
  /\ now = 0
  /\ challenges = [a \in Addresses |-> NoChallenge]
  /\ nextSweepAt = 0
  /\ given = [n \in Nonces |-> [to |-> Nobody, at |-> 0]]
  /\ verifying = [r \in Requests |-> Idle]
  /\ tokens = [n \in Nonces |-> 0]
  /\ overtaken = {}
  /\ refused = Nobody

-----------------------------------------------------------------------------

Expired(challenge) == Ttl > 0 /\ now - challenge.createdAt >= Ttl

Pending(table) == {a \in Addresses : table[a] # NoChallenge}

SweepExpired(table) ==
  [a \in Addresses |-> IF Expired(table[a]) THEN NoChallenge ELSE table[a]]

\* Fault: a full table is not swept before somebody is refused.
AfterSweepsOnTime(a) ==
  IF now >= nextSweepAt
    THEN [table |-> SweepExpired(challenges), nextSweepAt |-> now + SweepInterval]
    ELSE [table |-> challenges, nextSweepAt |-> nextSweepAt]

\* What maybeSweep and ensureCapacity make of the table before a new challenge.
AfterSweeps(a) ==
  LET full(table) == table[a] = NoChallenge /\ Cardinality(Pending(table)) >= MaxEntries
  IN  IF now >= nextSweepAt \/ full(challenges)
        THEN [table |-> SweepExpired(challenges), nextSweepAt |-> now + SweepInterval]
        ELSE [table |-> challenges, nextSweepAt |-> nextSweepAt]

HasRoom(table, a) == table[a] # NoChallenge \/ Cardinality(Pending(table)) < MaxEntries

\* A new challenge replaces the one before.
CreateChallenge(a) ==
  LET swept == AfterSweeps(a)
  IN  \E n \in Nonces :
        /\ To(n) = Nobody /\ \A k \in 1..(n - 1) : To(k) # Nobody
        /\ nextSweepAt' = swept.nextSweepAt
        /\ IF HasRoom(swept.table, a)
             THEN /\ challenges' = [swept.table EXCEPT ![a] = [nonce |-> n, createdAt |-> now]]
                  /\ given' = [given EXCEPT ![n] = [to |-> a, at |-> now]]
                  /\ refused' = Nobody
             ELSE /\ challenges' = swept.table
                  /\ UNCHANGED given
                  /\ refused' = a
  /\ UNCHANGED <<now, verifying, tokens, overtaken>>

\* The checks before the signature: a challenge that is there, that has not
\* expired and that is the one the caller has signed.
BeginVerify(r, n) ==
  LET a == To(n)
      pending == challenges[a]
  IN  /\ verifying[r] = Idle
      /\ \/ /\ pending = NoChallenge
            /\ UNCHANGED <<challenges, verifying>>
         \/ /\ pending # NoChallenge /\ Expired(pending)
            /\ challenges' = [challenges EXCEPT ![a] = NoChallenge]
            /\ UNCHANGED verifying
         \/ /\ pending # NoChallenge /\ ~Expired(pending) /\ pending.nonce # n
            /\ UNCHANGED <<challenges, verifying>>
         \/ /\ pending.nonce = n /\ ~Expired(pending)
            /\ verifying' = [verifying EXCEPT ![r] = n]
            /\ UNCHANGED challenges
      /\ refused' = Nobody
      /\ UNCHANGED <<now, nextSweepAt, given, tokens, overtaken>>

\* The signature is valid: a token, and whatever challenge is now in the table
\* for the address is removed.
Accept(r) ==
  LET n == verifying[r]
      a == To(n)
  IN  /\ n # Idle
      /\ tokens' = [tokens EXCEPT ![n] = @ + 1]
      /\ overtaken' = overtaken \cup ({challenges[a].nonce} \ {0, n})
      /\ challenges' = [challenges EXCEPT ![a] = NoChallenge]
      /\ verifying' = [verifying EXCEPT ![r] = Idle]
      /\ refused' = Nobody
      /\ UNCHANGED <<now, nextSweepAt, given>>

\* It is not.
Reject(r) ==
  /\ verifying[r] # Idle
  /\ verifying' = [verifying EXCEPT ![r] = Idle]
  /\ refused' = Nobody
  /\ UNCHANGED <<now, challenges, nextSweepAt, given, tokens, overtaken>>

Tick ==
  /\ now < MaxTime
  /\ now' = now + 1
  /\ refused' = Nobody
  /\ UNCHANGED <<challenges, nextSweepAt, given, verifying, tokens, overtaken>>

Next ==
  \/ \E a \in Addresses : CreateChallenge(a)
  \/ \E r \in Requests :
       \/ \E n \in Nonces : To(n) # Nobody /\ BeginVerify(r, n)
       \/ Accept(r)
       \/ Reject(r)
  \/ Tick

-----------------------------------------------------------------------------

\* Every variable has its type.
TypeOK ==
  /\ now \in 0..MaxTime
  /\ challenges \in [Addresses -> [nonce : 0..MaxChallenges, createdAt : 0..MaxTime]]
  /\ nextSweepAt \in 0..(MaxTime + SweepInterval)
  /\ given \in [Nonces -> [to : Addresses \cup {Nobody}, at : 0..MaxTime]]
  /\ verifying \in [Requests -> 0..MaxChallenges]
  /\ tokens \in [Nonces -> Nat]
  /\ overtaken \subseteq Nonces

\* A challenge that has earned a token is not in the table any more: no verification
\* that begins later finds it.
SpentIsGone == \A a \in Pending(challenges) : tokens[challenges[a].nonce] = 0

\* Those that had found it before still earn one each, as the signature is awaited
\* in between: a challenge earns no more tokens than verifications of it can be under
\* way at once, and one where they do not overlap.
OnePerVerification ==
  \A n \in Nonces :
    tokens[n] + Cardinality({r \in Requests : verifying[r] = n}) <= Cardinality(Requests)

\* The table never grows beyond its limit, and somebody is refused only while
\* that many others have a challenge that has not expired.
RefusedWhenFull ==
  /\ Cardinality(Pending(challenges)) <= MaxEntries
  /\ refused # Nobody =>
       \E others \in SUBSET (Addresses \ {refused}) :
         /\ Cardinality(others) = MaxEntries
         /\ \A b \in others : challenges[b] # NoChallenge /\ ~Expired(challenges[b])

\* A challenge that another one's token has removed is younger than that, was given
\* to the same address, and the older one has earned its token.
OvertakenByEarlier ==
  \A n \in overtaken :
    \E k \in 1..(n - 1) : To(k) = To(n) /\ To(k) # Nobody /\ tokens[k] > 0

\* The last challenge that was given to an address
Latest(a) == {n \in Nonces : To(n) = a /\ \A k \in (n + 1)..MaxChallenges : To(k) # a}

\* The last challenge that an address was given stays until it has earned a token
\* or expired, whatever others ask for and whatever fails to verify.  Only the
\* token of an earlier challenge of the same address, whose verification was
\* under way when the new one was given, removes it.
LatestKept ==
  \A a \in Addresses : \A n \in Latest(a) :
    \/ challenges[a].nonce = n
    \/ tokens[n] > 0
    \/ n \in overtaken
    \/ Ttl > 0 /\ now - given[n].at >= Ttl
=============================================================================
