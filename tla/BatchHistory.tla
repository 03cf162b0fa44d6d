------------------------------ MODULE BatchHistory ------------------------------
(***************************************************************************)
(* The overview of the batch files: a query, the answers of a source that  *)
(* sends all that matches or one page and a cursor to the next, and the    *)
(* path of the pages that were reached.  A change of the query, a page     *)
(* turn and a reload each abort the request before.                        *)
(***************************************************************************)
EXTENDS PageNumbers, FiniteSets

CONSTANTS
  Files,                        \* the batch files
  Queries,                      \* the queries the user makes; the page begins with FirstQuery
  FirstQuery, Null,
  BATCH_HISTORY_PAGE_SIZE,
  MaxChanges, MaxFailures       \* bounds: changes of the query, failed requests

BatchHistoryAssumption ==
  /\ \A f \in Files : f \in [id : Nat, status : STRING, size : Nat, words : SUBSET STRING]
  /\ IsFiniteSet(Files) /\ \A f, g \in Files : f.id = g.id => f = g
  /\ FirstQuery \in Queries /\ Null \notin Queries \cup Nat
  /\ Null \notin [query : Queries, cursor : Nat \cup {Null}, items : Seq(Files), nextCursor : Nat \cup {Null}]
  /\ \A q \in Queries : q \in [search : STRING, status : STRING, sort : STRING]
  /\ BATCH_HISTORY_PAGE_SIZE \in Nat \ {0} /\ MaxChanges \in Nat /\ MaxFailures \in Nat

VARIABLES
  \* what the source offers and how far its files are; the requests under way
  pagination, finished, requests,
  \* the query, useBatchHistory's state, the page of a list that is complete
  query, state, pageState,
  changes, failures

sourceVars == <<pagination, finished>>
countVars  == <<changes, failures>>
vars       == <<sourceVars, requests, query, state, pageState, countVars>>

-----------------------------------------------------------------------------
(* The source                                                              *)

Status(file) == IF file.id \in finished THEN "completed" ELSE file.status

Before(a, b, sort) ==
  CASE sort = "size"        -> a.size > b.size \/ (a.size = b.size /\ a.id < b.id)
    [] sort = "created-asc" -> a.id > b.id
    [] OTHER                -> a.id < b.id       \* ids are given from the newest file on

\* The files that match, in the order of the query: the k-th has k - 1 before it.
filterBatchHistory(q) ==
  LET matching == {f \in Files : q.status \in {"all", Status(f)} /\ (q.search = "" \/ q.search \in f.words)}
  IN  [k \in 1..Cardinality(matching) |->
         CHOOSE f \in matching : Cardinality({g \in matching : Before(g, f, q.sort)}) = k - 1]

\* Cursors are places in the list; Null is the beginning in a request, and in an answer the end.
readFixturePage(q, cursor) ==
  LET all    == filterBatchHistory(q)
      offset == IF cursor = Null THEN 0 ELSE cursor
      end    == offset + BATCH_HISTORY_PAGE_SIZE
  IN  [query |-> q, cursor |-> cursor,
       items |-> IF pagination = "client" THEN all ELSE SubSeq(all, offset + 1, Smaller(end, Len(all))),
       nextCursor |-> IF pagination = "cursor" /\ end < Len(all) THEN end ELSE Null]

-----------------------------------------------------------------------------
(* What the page shows of useBatchHistory's state                          *)

INITIAL_NAVIGATION == [cursors |-> <<Null>>, index |-> 0]
InitialState == [key |-> Null, data |-> Null, error |-> FALSE, loading |-> TRUE,
                 navigation |-> INITIAL_NAVIGATION, failedPage |-> Null]

data       == IF state.key = query THEN state.data ELSE Null
loading    == state.key # query \/ state.loading
error      == state.key = query /\ state.error
navigation == IF state.key = query THEN state.navigation ELSE INITIAL_NAVIGATION

page        == IF pageState.key = query THEN pageState.page ELSE 1
local       == getBatchPagination(IF data = Null THEN 0 ELSE Len(data.items), page, BATCH_HISTORY_PAGE_SIZE)
currentPage == IF pagination = "cursor" THEN navigation.index + 1 ELSE local.page
slots       == IF pagination = "cursor" THEN getBatchPageSlots(Len(navigation.cursors), currentPage)
               ELSE local.slots
items       == IF data = Null THEN << >>
               ELSE IF pagination = "cursor" THEN data.items
               ELSE SubSeq(data.items, local.start + 1, local.end)

\* The pages the buttons lead to.
nextDisabled == data = Null \/ (IF pagination = "cursor" THEN data.nextCursor = Null
                                ELSE local.page >= local.totalPages)
Offered ==
  IF loading THEN {}
  ELSE (ToSet(slots) \ {Ellipsis, currentPage})
       \cup (IF data # Null /\ currentPage > 1 THEN {currentPage - 1} ELSE {})
       \cup (IF nextDisabled THEN {} ELSE {currentPage + 1})

-----------------------------------------------------------------------------
(* Requests: of the aborted ones one at most is kept, it changes nothing   *)

List(q, index, cursor) == [query |-> q, index |-> index, cursor |-> cursor, aborted |-> FALSE]

Send(request) ==
  \E old \in {r \in SUBSET {[r EXCEPT !.aborted = TRUE] : r \in requests} : Cardinality(r) <= 1} :
    requests' = {request} \cup old

\* The first page: index 0 of the path, but Null tells it from a turn back to the first page.
SendFirst(q) == Send(List(q, Null, Null))

\* A control changes the query, or sets it to what it is; the page of a list that is complete
\* begins at 1, under the search field above the page it is left alone.
updateQuery(q) ==
  /\ changes < MaxChanges /\ changes' = changes + 1 /\ query' = q
  /\ \/ pageState' = [key |-> query, page |-> 1]
     \/ UNCHANGED pageState
  /\ SendFirst(q)
  /\ UNCHANGED <<sourceVars, state, failures>>

\* Leaving the overview and coming back: the query is kept, the rest begins anew.
Remount ==
  /\ changes < MaxChanges /\ changes' = changes + 1
  /\ state' = InitialState /\ pageState' = [key |-> query, page |-> 1] /\ SendFirst(query)
  /\ UNCHANGED <<sourceVars, query, failures>>

\* Mutant: the retry does not ask again.
reloadUnsent ==
  /\ ~loading /\ data = Null /\ error
  /\ state' = [state EXCEPT !.loading = TRUE, !.error = FALSE]
  /\ requests' = {}
  /\ UNCHANGED <<sourceVars, query, pageState, countVars>>

reload ==
  /\ ~loading /\ error /\ (data = Null \/ state.failedPage = Null)
  /\ state' = [state EXCEPT !.loading = TRUE, !.error = FALSE]
  /\ SendFirst(query)
  /\ UNCHANGED <<sourceVars, query, pageState, countVars>>

\* Whether a page of the path can be gone to, and by which cursor.
NextPage(index)   == index = state.navigation.index + 1
CursorTo(index)   == IF NextPage(index) THEN state.data.nextCursor ELSE state.navigation.cursors[index + 1]
CanGo(index) ==
  /\ state.key = query /\ ~state.loading /\ state.data # Null
  /\ index >= 0 /\ index # state.navigation.index
  /\ IF NextPage(index) THEN state.data.nextCursor # Null ELSE index < Len(state.navigation.cursors)

goToCursor(index) ==
  /\ CanGo(index)
  /\ Send(List(query, index, CursorTo(index)))
  /\ state' = [state EXCEPT !.loading = TRUE, !.error = FALSE, !.failedPage = Null]
  /\ UNCHANGED <<sourceVars, query, pageState, countVars>>

\* A button of the pages, or the retry of the page that failed.
turnPage(n) ==
  IF pagination = "cursor" THEN (n \in Offered \/ (error /\ data # Null /\ n - 1 = state.failedPage)) /\ goToCursor(n - 1)
  ELSE /\ n \in Offered /\ pageState' = [key |-> query, page |-> n]
       /\ UNCHANGED <<sourceVars, requests, query, state, countVars>>

-----------------------------------------------------------------------------
(* Answers                                                                 *)

\* Mutant: the answer to an aborted request counts.
ArrivesUnchecked(r) ==
  /\ requests' = requests \ {r}
  /\ LET answer == readFixturePage(r.query, r.cursor)
     IN  state' = IF r.index = Null
                  THEN [InitialState EXCEPT !.key = r.query, !.data = answer, !.loading = FALSE]
                  ELSE [state EXCEPT !.data = answer, !.loading = FALSE,
                          !.navigation = commitBatchCursor(@, r.index, r.cursor, answer.nextCursor)]
  /\ UNCHANGED <<sourceVars, query, pageState, countVars>>

\* The path is extended, or cut where the page leads elsewhere, when the page has come.
Arrives(r) ==
  /\ requests' = requests \ {r}
  /\ LET answer == readFixturePage(r.query, r.cursor)
     IN  state' = IF r.aborted THEN state
                  ELSE IF r.index = Null
                  THEN [InitialState EXCEPT !.key = r.query, !.data = answer, !.loading = FALSE]
                  ELSE [state EXCEPT !.data = answer, !.loading = FALSE,
                          !.navigation = commitBatchCursor(@, r.index, r.cursor, answer.nextCursor)]
  /\ UNCHANGED <<sourceVars, query, pageState, countVars>>

\* A first page that fails leaves nothing; any other leaves what was there.
Fails(r) ==
  /\ failures < MaxFailures /\ failures' = failures + 1
  /\ requests' = requests \ {r}
  /\ state' = IF r.aborted THEN state
              ELSE IF r.index = Null
              THEN [InitialState EXCEPT !.key = r.query, !.error = TRUE, !.loading = FALSE]
              ELSE [state EXCEPT !.error = TRUE, !.loading = FALSE, !.failedPage = r.index]
  /\ UNCHANGED <<sourceVars, query, pageState, changes>>

\* A file that was being processed is done: the source's lists change between two requests.
FileCompletes ==
  /\ \E f \in Files : Status(f) = "processing" /\ finished' = finished \cup {f.id}
  /\ UNCHANGED <<pagination, requests, query, state, pageState, countVars>>

Init ==
  /\ pagination \in {"client", "cursor"} /\ finished = {}
  /\ query = FirstQuery /\ state = InitialState /\ pageState = [key |-> FirstQuery, page |-> 1]
  /\ requests = {List(FirstQuery, Null, Null)}
  /\ changes = 0 /\ failures = 0

Answers == \E r \in requests : Arrives(r) \/ Fails(r)

Next ==
  \/ \E q \in Queries : updateQuery(q)
  \/ Remount \/ reload \/ Answers \/ FileCompletes
  \/ \E n \in Offered \cup {IF state.failedPage = Null THEN 0 ELSE state.failedPage + 1} : turnPage(n)

Spec == Init /\ [][Next]_vars

\* The source answers the request that is not aborted, or refuses it.
CurrentAnswered == \E r \in requests : ~r.aborted /\ (Arrives(r) \/ Fails(r))
FairSpec        == Spec /\ WF_vars(CurrentAnswered)

-----------------------------------------------------------------------------
\* The page's state keeps its types, and the path of a page is as long as the page is far.
BatchHistoryTypeOK ==
  /\ query \in Queries /\ state.key \in Queries \cup {Null}
  /\ state.loading \in BOOLEAN /\ state.error \in BOOLEAN
  /\ state.navigation.index \in 0..(Len(state.navigation.cursors) - 1)
  /\ pageState.page \in Nat \ {0} /\ Cardinality({r \in requests : ~r.aborted}) <= 1

\* What is listed is the source's answer to the query that is set, and the page whose number is shown.
RowsOfTheQuery ==
  data # Null => /\ data.query = query
                 /\ data.cursor = navigation.cursors[navigation.index + 1]

\* The pages that were reached lead on from the page that is shown, and every page a button
\* offers can be gone to.
EveryButtonLeads ==
  /\ data # Null /\ Len(navigation.cursors) > navigation.index + 1 =>
       navigation.cursors[navigation.index + 2] = data.nextCursor
  /\ \A n \in Offered : IF pagination = "cursor" THEN CanGo(n - 1) ELSE n \in 1..local.totalPages
  /\ data # Null /\ pagination = "client" /\ items = << >> => data.items = << >>

\* A page that fails is one that can be asked for again, and the page before it is still there.
FailedPageRetried == state.failedPage # Null /\ error => data # Null /\ CanGo(state.failedPage)

\* The list, its page number and its buttons are those of the query that is set, through query
\* changes, page turns and failures that abort each other (useBatchHistory).
BatchListConsistent == BatchHistoryTypeOK /\ RowsOfTheQuery /\ EveryButtonLeads /\ FailedPageRetried
=============================================================================
