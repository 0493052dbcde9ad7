---------------------------- MODULE DisputeAnswers --------------------------
(***************************************************************************)
(* GET /v2/disputes/:id.  A dispute that is not open is answered with its  *)
(* resolution, which without a database is read together with the dispute  *)
(* and with one by further statements that nothing holds together:         *)
(* registerDisputeGetRoute reads the row, getDisputeResolutionDirect reads *)
(* it once more and then counts the votes.  Meanwhile rounds are decided   *)
(* and reopened, each in one transaction (Settlement has their details).   *)
(***************************************************************************)
EXTENDS Integers, FiniteSets, Allocation

CONSTANTS
  Voters,
  DisputeQuorum, DisputeApprovalBps,
  MaxRounds       \* bound on the rounds of the dispute

None == -1
VoteChoices == {"COMPLETED", "NOT_COMPLETED"}

\* What resolutionPayoutSource and resolutionPayoutAmount tell apart: nothing, the
\* full reward or, from an insolvent publisher, less.
Payouts == {"none", "full", "partial"}

VARIABLES
  dispute,        \* its row: status, payout and the number of its round
  votes,          \* rows of the open or decided round
  decided,        \* the votes the last decision was taken by
  answer          \* one request for the dispute

vars == <<dispute, votes, decided, answer>>

Idle == [stage |-> "idle", status |-> "OPEN", round |-> 0, payout |-> "none",
         completed |-> None, notCompleted |-> None]

Voted == DOMAIN votes
ForIn(v, choice) == Cardinality({a \in DOMAIN v : v[a] = choice})
For(choice) == ForIn(votes, choice)

-----------------------------------------------------------------------------
(* The rounds.                                                             *)

Init ==
  /\ dispute = [status |-> "OPEN", payout |-> "none", round |-> 1]
  /\ votes = << >>
  /\ decided = << >>
  /\ answer = Idle

Votes(a, choice) == [o \in Voted \cup {a} |-> IF o = a THEN choice ELSE votes[o]]

Vote(a, choice) ==
  /\ dispute.status = "OPEN"
  /\ a \notin Voted
  /\ votes' = Votes(a, choice)
  /\ UNCHANGED <<dispute, decided, answer>>

Resolve(payout) ==
  /\ dispute.status = "OPEN"
  /\ dispute' = [dispute EXCEPT !.status = "RESOLVED_COMPLETED", !.payout = payout]
  /\ decided' = votes
  /\ UNCHANGED <<votes, answer>>

\* Closing a cycle decides the disputes whose votes pass.
Evaluate(payout) ==
  /\ VotesPass({[agent |-> a, vote |-> votes[a], weight |-> 1] : a \in Voted},
               DisputeQuorum, DisputeApprovalBps)
  /\ Resolve(payout)

\* The override COMPLETED decides whatever the votes say.
Override(payout) == Resolve(payout)

\* The override NOT_COMPLETED opens a new round.
Reopen ==
  /\ dispute.round < MaxRounds
  /\ dispute' = [status |-> "OPEN", payout |-> "none", round |-> dispute.round + 1]
  /\ votes' = << >>
  /\ UNCHANGED <<decided, answer>>

-----------------------------------------------------------------------------
(* The answer.                                                             *)

Read == UNCHANGED <<dispute, votes, decided>>

\* Without a repository the dispute, its votes and its payout are read at once.
AnswerFromEngine ==
  /\ answer.stage = "idle"
  /\ answer' = IF dispute.status = "OPEN"
       THEN [answer EXCEPT !.stage = "bare", !.status = dispute.status, !.round = dispute.round]
       ELSE [answer EXCEPT !.stage = "resolved", !.status = dispute.status, !.round = dispute.round,
               !.payout = dispute.payout, !.completed = For("COMPLETED"),
               !.notCompleted = For("NOT_COMPLETED")]
  /\ Read

\* getDisputeDirect
ReadDispute ==
  /\ answer.stage = "idle"
  /\ answer' = [answer EXCEPT !.stage = IF dispute.status = "OPEN" THEN "bare" ELSE "row",
                              !.status = dispute.status, !.round = dispute.round]
  /\ Read

\* Fault: a dispute that has been reopened is taken for a decided one.
ReadResolutionUnchecked ==
  /\ answer.stage = "row"
  /\ answer' = [answer EXCEPT !.stage = "counting", !.payout = dispute.payout]
  /\ Read

\* The first statement of getDisputeResolutionDirect; of an open dispute there is none.
ReadResolution ==
  /\ answer.stage = "row"
  /\ answer' = IF dispute.status = "OPEN"
       THEN [answer EXCEPT !.stage = "bare"]
       ELSE [answer EXCEPT !.stage = "counting", !.payout = dispute.payout]
  /\ Read

CountCompleted ==
  /\ answer.stage = "counting" /\ answer.completed = None
  /\ answer' = [answer EXCEPT !.completed = For("COMPLETED")]
  /\ Read

CountNotCompleted ==
  /\ answer.stage = "counting" /\ answer.notCompleted = None
  /\ answer' = [answer EXCEPT !.notCompleted = For("NOT_COMPLETED")]
  /\ Read

AnswerFromTables ==
  /\ answer.stage = "counting" /\ answer.completed # None /\ answer.notCompleted # None
  /\ answer' = [answer EXCEPT !.stage = "resolved"]
  /\ Read

Receive ==
  /\ answer.stage \in {"bare", "resolved"}
  /\ answer' = Idle
  /\ Read

Next ==
  \/ \E a \in Voters, choice \in VoteChoices : Vote(a, choice)
  \/ \E payout \in Payouts \ {"none"} : Evaluate(payout) \/ Override(payout)
  \/ Reopen
  \/ AnswerFromEngine \/ ReadDispute \/ ReadResolution
  \/ CountCompleted \/ CountNotCompleted \/ AnswerFromTables \/ Receive

Spec == Init /\ [][Next]_vars

-----------------------------------------------------------------------------
\* Every variable has its type.
TypeOK ==
  /\ dispute \in [status : {"OPEN", "RESOLVED_COMPLETED"}, payout : Payouts, round : 1..MaxRounds]
  /\ Voted \subseteq Voters /\ votes \in [Voted -> VoteChoices]
  /\ DOMAIN decided \subseteq Voters
  /\ answer.stage \in {"idle", "bare", "row", "counting", "resolved"}
  /\ {answer.completed, answer.notCompleted} \subseteq {None} \cup 0..Cardinality(Voters)
  /\ answer.payout \in Payouts /\ answer.round \in 0..MaxRounds

\* As long as nobody reopens the dispute, the resolution in the answer is the one
\* the dispute was decided by: its payout, and the votes that were there then.
AnswerCoherent ==
  answer.stage = "resolved" /\ dispute.round = answer.round =>
    /\ answer.payout = dispute.payout
    /\ answer.completed = ForIn(decided, "COMPLETED")
    /\ answer.notCompleted = ForIn(decided, "NOT_COMPLETED")

\* An open dispute comes without a resolution, a decided one lacks it only if it
\* has been reopened since it was read, and no resolution is without a payout.
ResolutionFits ==
  /\ answer.stage = "bare" /\ answer.status # "OPEN" => dispute.round > answer.round
  /\ answer.stage = "resolved" => answer.status # "OPEN" /\ answer.payout # "none"
=============================================================================
