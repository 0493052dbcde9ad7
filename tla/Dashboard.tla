------------------------------ MODULE Dashboard ------------------------------
(***************************************************************************)
(* How a list and a drawer of the dashboard are filled                     *)
(* (apps/web/src/components/dashboard.tsx).  Tasks, agents and disputes    *)
(* are lists with a query; cycles are one without.  A list is loaded when  *)
(* its query changes, extended page by page when its end is scrolled into  *)
(* view, and replaced by a refresh, and the three do not wait for each     *)
(* other.  A drawer shows what a link names, which it fetches in two steps *)
(* (a dispute, then its task).  React sets state and renders in one step.  *)
(***************************************************************************)
EXTENDS Integers, Sequences, SequencesExt

CONSTANTS
    Queries,        \* what a list can be asked for
    Pages,          \* so many pages every answer has
    Ids,            \* what a drawer can show
    MaxChanges, MaxRefreshes, MaxOpens, MaxErrors

VARIABLES
    query,          \* the query in the address bar
    streamsLoaded,  \* the lists have been looked at
    list,           \* pages shown, each with its query, and the cursor
    loading, load,  \* spinner; the query that the effect has asked for,
    cancelled,      \* and those that cancelled effects have asked for
    loadingMore, more,      \* spinner; query and cursor that loadMore has asked for
    refreshing, refresh,    \* spinner; the query that refreshAll has asked for
    loadError,
    crossed,        \* the list may have been filled from requests that crossed
    open, drawer,   \* the id in the address bar, what the drawer shows,
    fetching,       \* id and step of its effect, and ids of cancelled ones
    dropped,
    changes, refreshes, opens, errors

listVars == <<query, streamsLoaded, list, loading, load, cancelled, loadingMore, more, refreshing, refresh,
              loadError, crossed>>

asked == <<query, streamsLoaded>>

drawerVars == <<open, drawer, fetching, dropped>>

counters == <<changes, refreshes, opens, errors>>

dashVars == <<listVars, drawerVars, counters>>

None == 0

NoMore == [query |-> None, cursor |-> None]

Cursor(page) == IF page < Pages THEN page + 1 ELSE None

FirstPage(q) == [items |-> <<[query |-> q, page |-> 1]>>, nextCursor |-> Cursor(1)]

Closed == [id |-> None, loading |-> FALSE, error |-> FALSE]

NoFetch == [id |-> None, step |-> 0]

EmptyPage == [items |-> <<>>, nextCursor |-> None]

DefaultQuery == CHOOSE q \in Queries : TRUE

\* The page comes with the first page of the default query, whatever the address
\* bar says, or without one if that failed, and the lists are asked for at once;
\* when another section is shown first they are not.
Init ==
  /\ query \in Queries
  /\ streamsLoaded \in BOOLEAN
  /\ list \in IF streamsLoaded THEN {FirstPage(DefaultQuery), EmptyPage} ELSE {EmptyPage}
  /\ loading = streamsLoaded /\ load = IF streamsLoaded THEN query ELSE None
  /\ cancelled = {}
  /\ loadingMore = FALSE /\ more = NoMore
  /\ refreshing = FALSE /\ refresh = None
  /\ loadError = FALSE /\ crossed = FALSE
  /\ open = None /\ drawer = Closed /\ fetching = NoFetch /\ dropped = {}
  /\ changes = 0 /\ refreshes = 0 /\ opens = 0 /\ errors = 0

-----------------------------------------------------------------------------

\* The pages of the current query from the first on
FirstPages(l) ==
  /\ Len(l.items) >= 1
  /\ \A n \in 1..Len(l.items) : l.items[n] = [query |-> query, page |-> n]
  /\ l.nextCursor = Cursor(Len(l.items))

\* The effect cancels the request before and asks anew, the list stays for the
\* time being.
LoadList ==
  /\ loading' = TRUE /\ load' = query'
  /\ cancelled' = cancelled \cup ({load} \ {None})
  /\ loadError' = FALSE

\* The lists are shown for the first time.
ShowStreams ==
  /\ ~streamsLoaded
  /\ streamsLoaded' = TRUE
  /\ UNCHANGED query
  /\ LoadList
  /\ UNCHANGED <<list, loadingMore, more, refreshing, refresh, crossed, drawerVars, counters>>

ChangeQuery ==
  /\ changes < MaxChanges
  /\ query' \in Queries \ {query}
  /\ IF streamsLoaded THEN LoadList ELSE UNCHANGED <<loading, load, cancelled, loadError>>
  /\ crossed' = (crossed \/ more.query = query' \/ refresh # None)
  /\ changes' = changes + 1
  /\ UNCHANGED <<streamsLoaded, list, loadingMore, more, refreshing, refresh, drawerVars, refreshes, opens, errors>>

Loaded ==
  /\ load # None
  /\ list' = FirstPage(load)
  /\ loading' = FALSE /\ load' = None
  /\ crossed' = (more.query = query \/ refresh \notin {None, query})
  /\ UNCHANGED <<asked, cancelled, loadingMore, more, refreshing, refresh, loadError, drawerVars, counters>>

\* Fault: the answer to a cancelled request is shown.
CancelledLoadShown(q) ==
  /\ q \in cancelled
  /\ cancelled' = cancelled \ {q}
  /\ list' = FirstPage(q)
  /\ UNCHANGED <<asked, loading, load, loadingMore, more, refreshing, refresh, loadError, crossed,
                 drawerVars, counters>>

\* The request of a cancelled effect is aborted, or answered to nobody.
CancelledLoad(q) ==
  /\ q \in cancelled
  /\ cancelled' = cancelled \ {q}
  /\ UNCHANGED <<asked, list, loading, load, loadingMore, more, refreshing, refresh, loadError, crossed,
                 drawerVars, counters>>

LoadFails ==
  /\ load # None /\ errors < MaxErrors
  /\ loadError' = TRUE
  /\ loading' = FALSE /\ load' = None
  /\ errors' = errors + 1
  /\ UNCHANGED <<asked, list, cancelled, loadingMore, more, refreshing, refresh, crossed, drawerVars, changes,
                 refreshes, opens>>

\* The end of the list is scrolled into view.
LoadMore ==
  /\ list.nextCursor # None /\ ~loadingMore
  /\ loadingMore' = TRUE
  /\ more' = [query |-> query, cursor |-> list.nextCursor]
  /\ crossed' = (crossed \/ ~FirstPages(list) \/ loading \/ refreshing)
  /\ UNCHANGED <<asked, list, loading, load, cancelled, refreshing, refresh, loadError, drawerVars, counters>>

Page == [query |-> more.query, page |-> more.cursor]

\* Fault: an answer to an older query is dropped before the spinner is.
MoreDroppedSpinning ==
  /\ more # NoMore
  /\ IF query # more.query
       THEN UNCHANGED <<list, loadError, loadingMore>>
       ELSE /\ list' = [items |-> Append(list.items, Page), nextCursor |-> Cursor(more.cursor)]
            /\ loadError' = FALSE
            /\ loadingMore' = FALSE
  /\ more' = NoMore
  /\ UNCHANGED <<asked, loading, load, cancelled, refreshing, refresh, crossed, drawerVars, counters>>

\* The next page arrives; it is for the query that the address bar shows by now,
\* or for nothing.  Items that are there already are left out.
MoreLoaded ==
  /\ more # NoMore
  /\ IF query # more.query
       THEN UNCHANGED <<list, loadError>>
       ELSE /\ list' = [items |-> IF Contains(list.items, Page) THEN list.items
                                                                ELSE Append(list.items, Page),
                        nextCursor |-> Cursor(more.cursor)]
            /\ loadError' = FALSE
  /\ loadingMore' = FALSE /\ more' = NoMore
  /\ UNCHANGED <<asked, loading, load, cancelled, refreshing, refresh, crossed, drawerVars, counters>>

MoreFails ==
  /\ more # NoMore /\ errors < MaxErrors
  /\ loadError' = TRUE
  /\ loadingMore' = FALSE /\ more' = NoMore
  /\ errors' = errors + 1
  /\ UNCHANGED <<asked, list, loading, load, cancelled, refreshing, refresh, crossed, drawerVars, changes,
                 refreshes, opens>>

\* Everything that has been looked at is asked for again; the button is disabled
\* until all answers are there.
RefreshAll ==
  /\ ~refreshing /\ refreshes < MaxRefreshes
  /\ refreshing' = TRUE /\ refresh' = IF streamsLoaded THEN query ELSE None
  /\ crossed' = (crossed \/ loadingMore \/ loading)
  /\ refreshes' = refreshes + 1
  /\ UNCHANGED <<asked, list, loading, load, cancelled, loadingMore, more, loadError, drawerVars, changes, opens,
                 errors>>

\* Whatever the query is by now
Refreshed ==
  /\ refreshing
  /\ IF refresh = None
       THEN UNCHANGED <<list, loadError, crossed>>
       ELSE /\ list' = FirstPage(refresh) /\ loadError' = FALSE
            /\ crossed' = (refresh # query \/ more.query = query)
  /\ refreshing' = FALSE /\ refresh' = None
  /\ UNCHANGED <<asked, loading, load, cancelled, loadingMore, more, drawerVars, counters>>

RefreshFails ==
  /\ refresh # None /\ errors < MaxErrors
  /\ loadError' = TRUE
  /\ refreshing' = FALSE /\ refresh' = None
  /\ errors' = errors + 1
  /\ UNCHANGED <<asked, list, loading, load, cancelled, loadingMore, more, crossed, drawerVars, changes, refreshes,
                 opens>>

-----------------------------------------------------------------------------

\* A drawer is opened, for another id, or for the same once more, or closed.
OpenDrawer ==
  /\ opens < MaxOpens
  /\ open' \in Ids \cup {None}
  /\ IF open' = None
       THEN drawer' = Closed /\ fetching' = NoFetch
       ELSE /\ drawer' = [drawer EXCEPT !.loading = TRUE, !.error = FALSE]
            /\ fetching' = [id |-> open', step |-> 1]
  /\ dropped' = dropped \cup ({fetching.id} \ {None})
  /\ opens' = opens + 1
  /\ UNCHANGED <<listVars, changes, refreshes, errors>>

DroppedFetch(i) ==
  /\ i \in dropped
  /\ dropped' = dropped \ {i}
  /\ UNCHANGED <<listVars, open, drawer, fetching, counters>>

\* The answer to the first step; the second step belongs to it.
FirstFetched ==
  /\ fetching.step = 1
  /\ fetching' = [fetching EXCEPT !.step = 2]
  /\ UNCHANGED <<listVars, open, dropped, drawer, counters>>

\* There is no such dispute.
NotFound ==
  /\ fetching.step = 1
  /\ drawer' = Closed
  /\ fetching' = NoFetch
  /\ UNCHANGED <<listVars, open, dropped, counters>>

Fetched ==
  /\ fetching.step = 2
  /\ drawer' = [id |-> fetching.id, loading |-> FALSE, error |-> FALSE]
  /\ fetching' = NoFetch
  /\ UNCHANGED <<listVars, open, dropped, counters>>

FetchFails ==
  /\ fetching.id # None /\ errors < MaxErrors
  /\ drawer' = [drawer EXCEPT !.loading = FALSE, !.error = TRUE]
  /\ fetching' = NoFetch
  /\ errors' = errors + 1
  /\ UNCHANGED <<listVars, open, dropped, changes, refreshes, opens>>

\* What was asked for is answered, or fails.
ListAnswers ==
  \/ Loaded \/ LoadFails
  \/ MoreLoaded \/ MoreFails
  \/ Refreshed \/ RefreshFails
  \/ \E q \in Queries : CancelledLoad(q)

DrawerAnswers ==
  \/ FirstFetched \/ NotFound \/ Fetched \/ FetchFails
  \/ \E i \in Ids : DroppedFetch(i)

ListNext == ShowStreams \/ ChangeQuery \/ LoadMore \/ RefreshAll \/ ListAnswers

DrawerNext == OpenDrawer \/ DrawerAnswers

Next == ListNext \/ DrawerNext

-----------------------------------------------------------------------------

\* Every variable has its type.
TypeOK ==
  /\ query \in Queries
  /\ \A n \in 1..Len(list.items) : list.items[n] \in [query : Queries, page : 1..Pages]
  /\ list.nextCursor \in 0..Pages
  /\ load \in Queries \cup {None} /\ cancelled \subseteq Queries
  /\ more \in [query : Queries \cup {None}, cursor : 0..Pages]
  /\ refresh \in Queries \cup {None}
  /\ drawer.id \in Ids \cup {None} /\ open \in Ids \cup {None}

\* A list that is neither being loaded nor marked as failed shows the pages of its
\* query from the first on, without a gap, and its cursor names the next one,
\* unless requests crossed: a page was asked for while the list was another
\* query's or about to be replaced, the query came back while its page was under
\* way, or a refresh answered an older query or came before such a page.
ListInOrder == streamsLoaded /\ ~crossed /\ ~loading /\ ~loadError => FirstPages(list)

\* A drawer that is neither loading nor marked as failed shows what the address
\* bar names.
DrawerMatches ==
  /\ ~drawer.loading /\ ~drawer.error => drawer.id \in {None, open}
  /\ open = None => drawer = Closed

\* When the user rests nothing keeps spinning, whichever requests were cancelled,
\* came too late or failed.
ComesToRest == <>[](~loading /\ ~loadingMore /\ ~refreshing /\ ~drawer.loading)
=============================================================================
