--------------------------------- MODULE Lists ------------------------------
(***************************************************************************)
(* The lists of the API: tasks, submissions, disputes, agents, activities, *)
(* cycles, intentions, todos, logs and reports.  All are read page by page *)
(* with a cursor that holds the sort key and the id of the last row shown  *)
(* (apps/server/src/pagination/cursor.ts), by SQL when there is a database *)
(* (infra/state-repository-query-helpers.ts) and in sorted arrays          *)
(* otherwise (api/services.ts).                                            *)
(*                                                                         *)
(* One reader follows the cursors through one list while rows appear,      *)
(* change, leave and enter the filter and are deleted.                     *)
(***************************************************************************)
EXTENDS Integers, Sequences, FiniteSets, Functions

CONSTANTS
  Rows,           \* ids; they are random, so their order is not that of creation
  PageLimit,
  MaxKey          \* bound on the clock, and the largest metric

\* What a list can be ordered by: a time or number fixed when the row is created
\* ("created", also deadline and reward), updatedAt ("latest"), latestActivityAt,
\* which is null before the first activity and only grows ("activity"), a number
\* that changes ("metric": score, reputation, counters), createdAt of a log, where
\* rows are deleted ("log").  All lists are paged in the same way, given below.
QueryTasks == {"latest", "created"}
QuerySubmissions == {"latest", "created"}
QueryDisputes == {"latest", "created"}
QueryAgents == {"activity", "metric"}
QueryActivities == {"created"}
QueryTaskIntentions == {"created"}
QueryCycles == {"created"}
QueryRequestLogs == {"log"}
QueryAuditLogs == {"log"}
QueryFeedbackReports == {"created"}
ListRuntimeRuleAudits == {"created"}

Sorts == UNION {QueryTasks, QuerySubmissions, QueryDisputes, QueryAgents, QueryActivities,
  QueryTaskIntentions, QueryCycles, QueryRequestLogs, QueryAuditLogs, QueryFeedbackReports,
  ListRuntimeRuleAudits}
Orders == {"asc", "desc"}

Times == 0..MaxKey

\* A nullable key is a set of at most one value.
Null == {}
Keys == {Null} \cup {{t} : t \in Times}

VARIABLES
  listing,        \* the sort and the order of the list that is read
  present,
  entries,        \* of each row whether it is there and in the filter, and its key
  reader          \* cursor of the next request and the rows delivered so far

vars == <<listing, present, entries, reader>>

-----------------------------------------------------------------------------
(* Pages by SQL.  A comparison with NULL is never true.                    *)

Shown == {r \in Rows : entries[r].status = "SHOWN"}

Below(k, l) == \E i \in k, j \in l : i < j
Same(k, l) == \E i \in k, j \in l : i = j

\* ORDER BY key ASC NULLS FIRST, id ASC; descending it is the mirror image.
Ascending(r, o) ==
  \/ entries[r].key = Null /\ entries[o].key # Null
  \/ Below(entries[r].key, entries[o].key)
  \/ entries[r].key = entries[o].key /\ r < o

OrderBy(r, o) == IF listing.order = "asc" THEN Ascending(r, o) ELSE Ascending(o, r)

\* Fault: the rows without a key are forgotten after one that has a key.
KeysetWhereNotNull(c, r) ==
  LET key == entries[r].key
  IN CASE listing.order = "asc" ->
            Below(c.primary, key) \/ (Same(key, c.primary) /\ r > c.id)
       [] listing.order = "desc" ->
            Below(key, c.primary) \/ (Same(key, c.primary) /\ r < c.id)

\* Whether row r comes after the cursor c.
KeysetWhere(c, r) ==
  LET key == entries[r].key
  IN CASE c.primary = Null /\ listing.order = "asc" -> (key = Null /\ r > c.id) \/ key # Null
       [] c.primary = Null /\ listing.order = "desc" -> key = Null /\ r < c.id
       [] c.primary # Null /\ listing.order = "asc" ->
            Below(c.primary, key) \/ (Same(key, c.primary) /\ r > c.id)
       [] c.primary # Null /\ listing.order = "desc" ->
            \/ key = Null
            \/ Below(key, c.primary) \/ (Same(key, c.primary) /\ r < c.id)

FirstOf(s, n) == SubSeq(s, 1, IF Len(s) < n THEN Len(s) ELSE n)

\* The rows of a set, one after the other.
InOrder(rows, Precedes(_, _)) ==
  CHOOSE found \in [1..Cardinality(rows) -> rows] :
    \A i, j \in DOMAIN found : i < j => Precedes(found[i], found[j])

Query(where) == InOrder(where, OrderBy)

\* LIMIT limit + 1, after an OFFSET when the cursor is a plain number.
SqlPage(c) ==
  LET found == CASE c.mode = "start" -> Query(Shown)
                 [] c.mode = "offset" -> SubSeq(Query(Shown), c.offset + 1, Len(Query(Shown)))
                 [] c.mode = "keyset" -> Query({r \in Shown : KeysetWhere(c, r)})
  IN FirstOf(found, PageLimit + 1)

-----------------------------------------------------------------------------
(* Pages of arrays.  A key that is null is compared as the empty string.   *)

Text(key) == IF key = Null THEN 0 ELSE 1 + (CHOOSE t \in key : TRUE)

Delta(k, r, l, o) ==
  CASE Text(k) # Text(l) -> Text(k) - Text(l)
    [] Text(k) = Text(l) -> r - o

Towards(delta) == IF listing.order = "asc" THEN delta ELSE 0 - delta

\* paginateItemsByCursor: the page begins at the first item after the cursor.
ArrayPage(c) ==
  LET items == InOrder(Shown, LAMBDA r, o :
                 Towards(Delta(entries[r].key, r, entries[o].key, o)) < 0)
      after == {i \in DOMAIN items : Towards(Delta(entries[items[i]].key, items[i], c.primary, c.id)) > 0}
      start == CASE c.mode = "start" -> 1
                 [] c.mode = "offset" -> c.offset + 1
                 [] c.mode = "keyset" /\ after # {} -> CHOOSE i \in after : \A j \in after : i <= j
                 [] OTHER -> Len(items) + 1
  IN FirstOf(SubSeq(items, start, Len(items)), PageLimit + 1)

-----------------------------------------------------------------------------
(* The reader.                                                             *)

Cursor == [mode : {"start", "offset", "keyset"}, offset : 0..1, primary : Keys, id : Rows \cup {0}]

Start == [mode |-> "start", offset |-> 0, primary |-> Null, id |-> 0]
Offset(n) == [Start EXCEPT !.mode = "offset", !.offset = n]

\* encodeKeysetCursor, of the last row of a page
After(r) == [Start EXCEPT !.mode = "keyset", !.primary = entries[r].key, !.id = r]

Deliver(page) ==
  LET hasMore == Len(page) > PageLimit
      items == FirstOf(page, PageLimit)
      rest == CASE reader.cursor.mode = "start" -> Shown
                [] reader.cursor.mode = "offset" ->
                     {r \in Shown : \E i \in (reader.cursor.offset + 1)..Len(Query(Shown)) :
                                      Query(Shown)[i] = r}
                [] OTHER -> reader.kept
  IN reader' = [cursor |-> IF hasMore THEN After(items[PageLimit]) ELSE reader.cursor,
                done |-> ~hasMore,
                delivered |-> reader.delivered \o items,
                kept |-> rest]

ReadPage ==
  /\ ~reader.done
  /\ Deliver(SqlPage(reader.cursor))
  /\ UNCHANGED <<listing, present, entries>>

\* A request that begins again, with a cursor or the offset of an old client.
ReadFromStart(n) ==
  /\ reader.delivered = <<>> /\ reader.cursor.mode = "start"
  /\ reader' = [reader EXCEPT !.cursor = Offset(n)]
  /\ UNCHANGED <<listing, present, entries>>

-----------------------------------------------------------------------------
(* The writers.                                                            *)

Init ==
  /\ listing \in [sort : Sorts, order : Orders]
  /\ listing.sort = "log" => listing.order = "desc"
  /\ present = 0
  /\ entries = [r \in Rows |-> [status |-> "NONE", key |-> Null]]
  /\ reader = [cursor |-> Start, done |-> FALSE, delivered |-> <<>>, kept |-> {}]

\* What a reader may count on are the rows that stay as they are.
Write(r, row) ==
  /\ entries' = [entries EXCEPT ![r] = row]
  /\ reader' = [reader EXCEPT !.kept = @ \ {r}]
  /\ UNCHANGED <<listing, present>>

\* A write reads the clock before it takes its locks, so a row can show up with
\* a time before that of rows that are there already.
Insert(r) ==
  /\ entries[r].status = "NONE"
  /\ \E status \in {"SHOWN", "HIDDEN"} :
       CASE listing.sort = "activity" -> Write(r, [status |-> status, key |-> Null])
         [] listing.sort = "log" -> \E t \in 0..present : Write(r, [status |-> "SHOWN", key |-> {t}])
         [] listing.sort = "metric" -> \E v \in Times : Write(r, [status |-> status, key |-> {v}])
         [] OTHER -> \E t \in 0..present : Write(r, [status |-> status, key |-> {t}])

Change(r) ==
  /\ entries[r].status \in {"SHOWN", "HIDDEN"}
  /\ \E status \in {"SHOWN", "HIDDEN"} :
       CASE listing.sort = "created" -> Write(r, [entries[r] EXCEPT !.status = status])
         [] listing.sort = "latest" -> \E t \in 0..present : Write(r, [status |-> status, key |-> {t}])
         [] listing.sort = "metric" -> \E v \in Times : Write(r, [status |-> status, key |-> {v}])
         [] listing.sort = "activity" ->
              \E t \in 0..present :
                /\ entries[r].key = Null \/ Below(entries[r].key, {t})
                /\ Write(r, [status |-> "SHOWN", key |-> {t}])
         [] listing.sort = "log" -> FALSE

\* cleanupExpiredLogs: what is older than some day is deleted, the oldest first and
\* a batch at a time.
Cleanup(cutoff) ==
  LET old == {r \in Rows : listing.sort = "log" /\ entries[r].status = "SHOWN"
                                               /\ Below(entries[r].key, {cutoff})}
  IN \E batch \in SUBSET old \ {{}} :
       /\ \A r \in batch, o \in old \ batch : Ascending(r, o)
       /\ entries' = [r \in Rows |->
            IF r \in batch THEN [entries[r] EXCEPT !.status = "DELETED"] ELSE entries[r]]
       /\ reader' = [reader EXCEPT !.kept = @ \ batch]
       /\ UNCHANGED <<listing, present>>

Tick ==
  /\ present < MaxKey
  /\ present' = present + 1
  /\ UNCHANGED <<listing, entries, reader>>

Next ==
  \/ ReadPage \/ ReadFromStart(1) \/ Tick
  \/ \E r \in Rows : Insert(r) \/ Change(r)
  \/ \E t \in Times : Cleanup(t)

Spec == Init /\ [][Next]_vars

-----------------------------------------------------------------------------
\* Every variable has its type.
TypeOK ==
  /\ listing \in [sort : Sorts, order : Orders]
  /\ present \in Times
  /\ entries \in [Rows -> [status : {"NONE", "SHOWN", "HIDDEN", "DELETED"}, key : Keys]]
  /\ reader.cursor \in Cursor
  /\ reader.kept \subseteq Shown

\* The database and the arrays answer every cursor with the same page, also when
\* the row the cursor was made of has changed or is gone.
PagesAgree ==
  \A c \in [mode : {"keyset"}, offset : {0}, primary : Keys, id : Rows] \cup {Start, Offset(1)} :
    SqlPage(c) = ArrayPage(c)

\* Of the rows that stay as they were while the reader follows the cursors, each
\* is delivered once and in the order of the list, whatever happens to the others.
InOrderOnce ==
  LET stable == {i \in DOMAIN reader.delivered : reader.delivered[i] \in reader.kept}
  IN /\ \A i, j \in stable : i < j => OrderBy(reader.delivered[i], reader.delivered[j])
     /\ reader.done => \A r \in reader.kept : \E i \in stable : reader.delivered[i] = r

\* By a key that never changes, no row is delivered twice.
NoRepetition ==
  listing.sort \in {"created", "log"} => IsInjective(reader.delivered)
=============================================================================
