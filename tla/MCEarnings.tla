------------------------------ MODULE MCEarnings ------------------------------
(***************************************************************************)
(* What agents earn, for TLC: rewards and standing, which share no state.  *)
(* A behaviour is about the split of one reward pool, about the rounds of  *)
(* disputes between two tasks while the clock stands still, or about the   *)
(* times of one task's activities.                                         *)
(***************************************************************************)
EXTENDS CycleRewards

CONSTANTS Tasks, Supervisors, RepStart, RepMax, MaxClock, MaxReopens

VARIABLES about, task, intended, sub, disp, ban, profile, history, clock, reopens

standingVars == <<task, intended, sub, disp, ban, profile, history, clock, reopens>>

Profiles == INSTANCE Standing

EarningsInit ==
  /\ about \in {"rewards", "rounds", "times"}
  /\ Init
  /\ Profiles!Init

EarningsNext ==
  /\ \/ about = "rewards" /\ Next /\ UNCHANGED standingVars
     \/ about = "rounds" /\ Profiles!Next /\ clock' = clock /\ UNCHANGED vars
     \/ /\ about = "times"
        /\ Profiles!Next
        /\ Cardinality({t \in Tasks : task'[t] # "NONE"}) <= 1
        /\ UNCHANGED vars
  /\ UNCHANGED about

EarningsSpec == EarningsInit /\ [][EarningsNext]_<<about, vars, standingVars>>

-----------------------------------------------------------------------------

\* The profiles say what the rows of the tables say: their counters agree with them,
\* the latest activity is the newest row, and a reputation that never met a bound is
\* what the present tables justify.
ProfilesAgree ==
  /\ Profiles!TypeOK
  /\ Profiles!CountersAgree
  /\ Profiles!LatestIsNewest
  /\ Profiles!ReputationEarned

\* Whatever is taken back and done again, in whatever order the disputes are
\* resolved and reopened, though rows are written out of order and deleted: the
\* profiles agree with the tables, and the publisher is banned as long as a resolved
\* dispute could not be paid and, but for a ban that a younger dispute brings back,
\* no longer.
StandingEarned == []ProfilesAgree /\ [][Profiles!BanStands]_standingVars
=============================================================================
