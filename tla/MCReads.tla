-------------------------------- MODULE MCReads -----------------------------
(***************************************************************************)
(* What readers of the API see, for TLC.  A behaviour is about one of four:*)
(* the todos of everybody while the marketplace goes on, a reader who      *)
(* follows the cursors of one list while its rows change, the numbers of   *)
(* the dashboard in some time zone, and the answer about one dispute.      *)
(* Neither has anything of another's state.                                *)
(***************************************************************************)
EXTENDS Todos

CONSTANTS Rows, PageLimit, MaxKey,
          Events, DayLength, MaxOffset, Window, MaxClock, MaxCycles,
          Voters, MaxRounds

\* Ids of rows are ordered, here as numbers, and a page has at least one row.  No
\* zone is as far from UTC as a day is long, whichever way its clocks are changed:
\* 14 hours at most.
ASSUME ReadsAssumption ==
  /\ IsFiniteSet(Rows) /\ Rows \subseteq Nat /\ PageLimit \in Nat \ {0} /\ MaxKey \in Nat
  /\ DayLength \in Nat /\ MaxOffset \in Nat /\ MaxOffset + 1 < DayLength
  /\ Window \in Nat \ {0} /\ MaxClock \in Nat /\ MaxCycles \in Nat \ {0}
  /\ IsFiniteSet(Voters) /\ MaxRounds \in Nat \ {0}

VARIABLES reading, listing, present, entries, reader,
          zone, clock, cycle, events, summary,
          dispute, votes, decided, answer

listVars == <<listing, present, entries, reader>>
dayVars == <<zone, clock, cycle, events, summary>>
disputeVars == <<dispute, votes, decided, answer>>

Paging == INSTANCE Lists
Days == INSTANCE DashboardDays
Answers == INSTANCE DisputeAnswers

\* What an area is about varies, the others stay at one of their initial states.
ReadsInit ==
  /\ reading \in {"todos", "lists", "days", "dispute"}
  /\ TodoInit
  /\ Paging!Init
  /\ Days!Init
  /\ Answers!Init
  /\ reading # "lists" => listing = [sort |-> "created", order |-> "asc"]
  /\ reading # "days" => zone = [before |-> 0, jump |-> 1, at |-> 1]

ReadsNext ==
  /\ \/ reading = "todos" /\ TodoNext /\ UNCHANGED <<listVars, dayVars, disputeVars>>
     \/ reading = "lists" /\ Paging!Next /\ UNCHANGED <<vars, dayVars, disputeVars>>
     \/ reading = "days" /\ Days!Next /\ UNCHANGED <<vars, listVars, disputeVars>>
     \/ reading = "dispute" /\ Answers!Next /\ UNCHANGED <<vars, listVars, dayVars>>
  /\ UNCHANGED reading

ReadsSpec == ReadsInit /\ [][ReadsNext]_<<vars, listVars, dayVars, disputeVars, reading>>

-----------------------------------------------------------------------------

\* Both back ends list the same todos, each of which its agent can do something
\* about, and forget nobody who has something to do.
TodosRight ==
  reading = "todos" => TodosTyped /\ TodosAgree /\ ActionPossible /\ NothingForgotten

\* The database and the arrays answer every cursor with the same page, also when
\* the row the cursor was made of has changed or is gone; of the rows that stay as
\* they were while the reader follows the cursors, each is delivered once and in
\* the order of the list; and by a key that never changes none is delivered twice.
PagesRight ==
  reading = "lists" =>
    /\ Paging!TypeOK
    /\ Paging!PagesAgree
    /\ Paging!InOrderOnce
    /\ Paging!NoRepetition

\* SQL counts for a day what formatting the instants counts for it, as long as the
\* clocks are changed at another hour than midnight; whatever was recorded in the
\* days of the trends is counted for one of them; and a summary has nothing of
\* another day or cycle, and misses nothing recorded before the request.
DaysRight ==
  reading = "days" =>
    /\ Days!TypeOK
    /\ Days!DaysAgree
    /\ Days!CountedOnce
    /\ Days!SummaryTrue

\* The resolution in an answer about a dispute is the one it was decided by, as long
\* as nobody reopens it; an open dispute is answered without one, a decided one
\* lacks it only if it has been reopened since it was read.
DisputeRight ==
  reading = "dispute" =>
    /\ Answers!TypeOK
    /\ Answers!AnswerCoherent
    /\ Answers!ResolutionFits
=============================================================================
