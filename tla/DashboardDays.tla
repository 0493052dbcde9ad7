---------------------------- MODULE DashboardDays ---------------------------
(***************************************************************************)
(* The dashboard's numbers of the day, of the last days and of the active  *)
(* cycle, in the time zone of the reader.  Without a database the day of   *)
(* an activity is the one its instant is formatted to; with one, the bounds*)
(* of the days are computed first (apps/server/src/utils/timezone.ts) and  *)
(* SQL compares the instants with them.                                    *)
(*                                                                         *)
(* Instants are whole hours of a short day.  A zone changes its clocks at  *)
(* most once in the time that is looked at.  Of a type of activity that is *)
(* counted and one that is not, as many are recorded as Events has.        *)
(***************************************************************************)
EXTENDS Integers, FiniteSets

CONSTANTS
  Events,
  DayLength,
  MaxOffset,      \* bound on the distance of local time to UTC
  Window,         \* number of days of the trends
  MaxClock,       \* bound on the clock
  MaxCycles       \* bound on the cycles

Zones == [before : (-MaxOffset)..MaxOffset, jump : {-1, 1}, at : 1..(MaxClock + 1)]

Types == {"TASK_PUBLISHED", "TASK_SUBMITTED"}

VARIABLES
  zone,           \* tz of the requests
  clock,
  cycle,          \* the active cycle
  events,         \* of the recorded activities: createdAt, type and cycle
  summary         \* one request for the summary

vars == <<zone, clock, cycle, events, summary>>

-----------------------------------------------------------------------------
(* Local time.                                                             *)

\* getTimeZoneOffsetMs
Offset(i) == zone.before + (IF i >= zone.at THEN zone.jump ELSE 0)

LocalTime(i) == i + Offset(i)

\* toDayKeyInTimeZone
DayKey(i) == LocalTime(i) \div DayLength

\* Fault: the offset at midnight UTC is taken for the one at midnight.
MidnightAtOnce(d) == d * DayLength - Offset(d * DayLength)

\* zonedMidnightToUtc: up to four times, midnight by the offset found last.
Midnight(d) ==
  LET utc[attempt \in 0..4] ==
        IF attempt = 0 THEN d * DayLength ELSE d * DayLength - Offset(utc[attempt - 1])
  IN utc[4]

\* labels of buildDashboardDayWindow
Labels == LET today == DayKey(clock) IN (today - (Window - 1))..today

-----------------------------------------------------------------------------
(* The trends.                                                             *)

Recorded == DOMAIN events
Counted(S) == {e \in S : events[e].type = "TASK_PUBLISHED"}

\* getDashboardTrendsDirect, with a join of the bounds of the days
Bucket(d) == {e \in Counted(Recorded) : Midnight(d) <= events[e].at
                                        /\ events[e].at < Midnight(d + 1)}

\* registerDashboardTrendRoute without a repository
Point(d) == {e \in Counted(Recorded) : DayKey(events[e].at) = d}

-----------------------------------------------------------------------------
(* The summary.                                                            *)

None == -1

Idle == [stage |-> "idle", backend |-> "memory", day |-> 0, before |-> {},
         cycle |-> None, today |-> {}, ofCycle |-> {}, pending |-> {}]

\* In an engine everything is read at once, before the clock.
AskEngine ==
  /\ summary.stage = "idle"
  /\ summary' = [Idle EXCEPT !.stage = "read", !.before = Recorded, !.cycle = cycle,
                             !.ofCycle = Counted({e \in Recorded : events[e].cycle = cycle})]
  /\ UNCHANGED <<zone, clock, cycle, events>>

AnswerFromEngine ==
  /\ summary.stage = "read"
  /\ LET today == DayKey(clock)
     IN summary' = [summary EXCEPT
          !.stage = "answered", !.day = today,
          !.today = {e \in Counted(summary.before) : DayKey(events[e].at) = today}]
  /\ UNCHANGED <<zone, clock, cycle, events>>

\* The bounds of today are computed, then the statements are sent.
AskTables ==
  /\ summary.stage = "idle"
  /\ summary' = [Idle EXCEPT !.stage = "asked", !.backend = "tables", !.day = DayKey(clock),
                             !.before = Recorded, !.pending = {"today", "active"}]
  /\ UNCHANGED <<zone, clock, cycle, events>>

Ran(statement) ==
  /\ summary.stage = "asked"
  /\ statement \in summary.pending
  /\ UNCHANGED <<zone, clock, cycle, events>>

\* queryActivityMetricsByCreatedAtRange
CountToday ==
  /\ Ran("today")
  /\ summary' = [summary EXCEPT !.pending = @ \ {"today"}, !.today = Bucket(summary.day)]

ReadActiveCycle ==
  /\ Ran("active")
  /\ summary' = [summary EXCEPT !.pending = (@ \ {"active"}) \cup {"cycle"}, !.cycle = cycle]

CountCycle ==
  /\ Ran("cycle")
  /\ summary' = [summary EXCEPT !.pending = @ \ {"cycle"},
       !.ofCycle = Counted({e \in Recorded : events[e].cycle = summary.cycle})]

AnswerFromTables ==
  /\ summary.stage = "asked" /\ summary.pending = {}
  /\ summary' = [summary EXCEPT !.stage = "answered"]
  /\ UNCHANGED <<zone, clock, cycle, events>>

Receive ==
  /\ summary.stage = "answered"
  /\ summary' = Idle
  /\ UNCHANGED <<zone, clock, cycle, events>>

-----------------------------------------------------------------------------
(* What happens meanwhile.                                                 *)

Init ==
  /\ zone \in Zones
  /\ clock = 0
  /\ cycle = 1
  /\ events = << >>
  /\ summary = Idle

Record(e, type) ==
  /\ e \notin Recorded
  /\ \A o \in Events : o < e => o \in Recorded
  /\ events' = [o \in Recorded \cup {e} |->
       IF o = e THEN [at |-> clock, type |-> type, cycle |-> cycle] ELSE events[o]]
  /\ UNCHANGED <<zone, clock, cycle, summary>>

CloseCycle ==
  /\ cycle < MaxCycles
  /\ cycle' = cycle + 1
  /\ UNCHANGED <<zone, clock, events, summary>>

Tick ==
  /\ clock < MaxClock
  /\ clock' = clock + 1
  /\ UNCHANGED <<zone, cycle, events, summary>>

Next ==
  \/ AskEngine \/ AnswerFromEngine
  \/ AskTables \/ CountToday \/ ReadActiveCycle \/ CountCycle \/ AnswerFromTables
  \/ Receive \/ CloseCycle \/ Tick
  \/ \E e \in Events, type \in Types : Record(e, type)

Spec == Init /\ [][Next]_vars

-----------------------------------------------------------------------------
Row == [at : 0..MaxClock, type : Types, cycle : 1..MaxCycles]

\* Every variable has its type, and a summary counts what is there to be counted.
TypeOK ==
  /\ zone \in Zones /\ clock \in 0..MaxClock /\ cycle \in 1..MaxCycles
  /\ Recorded \subseteq Events /\ events \in [Recorded -> Row]
  /\ summary.stage \in {"idle", "read", "asked", "answered"}
  /\ summary.backend \in {"memory", "tables"}
  /\ summary.pending \subseteq {"today", "active", "cycle"}
  /\ summary.cycle \in {None} \cup 1..MaxCycles
  /\ summary.today \cup summary.ofCycle \subseteq Counted(Recorded)

\* A day begins when a clock shows midnight, and just once.
BeginsOnce(d) ==
  LET near == ((d - 1) * DayLength)..((d + 1) * DayLength)
  IN Cardinality({i \in near : LocalTime(i) = d * DayLength}) = 1

\* SQL counts for a day what formatting the instants counts for it, as long as
\* the clocks are changed at another hour than midnight.
DaysAgree ==
  \A d \in Labels : BeginsOnce(d) /\ BeginsOnce(d + 1) => Bucket(d) = Point(d)

\* The days follow each other without overlap: what was recorded since the first of
\* them began is counted for one of them, whatever the clocks do, and where SQL
\* takes it for another day it is the day before or after, at a midnight the
\* clocks skip or show twice.
CountedOnce ==
  \A e \in Counted(Recorded) :
    /\ events[e].at >= Midnight(DayKey(clock) - (Window - 1)) /\ events[e].at < Midnight(DayKey(clock) + 1)
         => Cardinality({d \in Labels : e \in Bucket(d)}) = 1
    /\ \A d \in Labels :
         e \in Bucket(d) \ Point(d) =>
           \E o \in {d, d + 1} : ~BeginsOnce(o) /\ DayKey(events[e].at) \in {d - 1, d + 1}

\* The numbers of a summary: nothing of another day or cycle is in them, and nothing
\* of the day and the cycle that was recorded before the request is missing.
SummaryTrue ==
  summary.stage = "answered" =>
    /\ \A e \in summary.ofCycle : events[e].cycle = summary.cycle
    /\ \A e \in Counted(summary.before) :
         events[e].cycle = summary.cycle => e \in summary.ofCycle
    /\ (summary.backend = "tables" => BeginsOnce(summary.day) /\ BeginsOnce(summary.day + 1)) =>
         /\ \A e \in summary.today : DayKey(events[e].at) = summary.day
         /\ \A e \in Counted(summary.before) :
              DayKey(events[e].at) = summary.day => e \in summary.today
=============================================================================
