------------------------------- MODULE AuditLog --------------------------------
(***************************************************************************)
(* The audit page: the newest events of the tenant, a page at a time, for  *)
(* the filters the user has chosen.  A search waits 300 ms for the next    *)
(* keystroke; every other change is applied at once and aborts what is     *)
(* being loaded.  New events arrive on the server at any time.             *)
(***************************************************************************)
EXTENDS Integers, FiniteSets, FiniteSetsExt, PageNumbers

CONSTANTS
  Null,                            \* what is not there
  Events, Limit,                   \* the server has at most so many events; events on a page
  Searched, OfAction, Recent,      \* the events a search, an action and a date range match
  PaymentEvents,                   \* the events that name a payment
  MaxFailures                      \* bound: failed requests

FilterValues == [search : BOOLEAN, action : BOOLEAN, dateRange : {"all", "recent", "reversed"}]

AuditAssumption ==
  /\ {Events, Limit} \subseteq Nat \ {0} /\ MaxFailures \in Nat
  /\ {Searched, OfAction, Recent, PaymentEvents} \subseteq SUBSET (1..Events)
  /\ Null \notin Int \cup FilterValues \cup [entries : SUBSET (1..Events), nextCursor : Int \cup {Null}]

VARIABLES
  \* the rows with their next cursor, what is loading and what failed, the reached pages
  auditLog, isLoading, isLoadingPage, initialError, pageError, navigation,
  \* the form, the filters the rows are asked for with, and the timer with the values it took
  filterValues, filters, filterValidationError, searchTimer,
  \* the choices of the form
  filterOptions, filterOptionsError,
  \* the event in AuditEntryDetails and the load of its payment
  selectedEntry, historyLoad,
  \* the request that counts, one that was aborted and is still on the way; the server's events
  activeRequest, aborted, entries, failures

pageVars   == <<auditLog, isLoading, isLoadingPage, initialError, pageError, navigation>>
formVars   == <<filterValues, filters, filterValidationError, searchTimer>>
optionVars == <<filterOptions, filterOptionsError>>
dialogVars == <<selectedEntry, historyLoad>>
netVars    == <<activeRequest, aborted>>
vars == <<pageVars, formVars, optionVars, dialogVars, netVars, entries, failures>>

DEFAULT_AUDIT_FILTERS == [search |-> FALSE, action |-> FALSE, dateRange |-> "all"]
Errors == {401, 403, 500}
FirstPage == [cursors |-> <<Null>>, index |-> 0]

-----------------------------------------------------------------------------
(* The server: the newest events that match, before a cursor.              *)

Matching(f, n) ==
  {e \in 1..n : /\ f.search => e \in Searched
                /\ f.action => e \in OfAction
                /\ f.dateRange = "recent" => e \in Recent}

Newest(S) == {e \in S : Cardinality({d \in S : d > e}) < Limit}

getAuditLog(f, cursor, n) ==
  LET older == {e \in Matching(f, n) : cursor = Null \/ e < cursor}
      page  == Newest(older)
  IN  [entries |-> page, nextCursor |-> IF page = older THEN Null ELSE Min(page)]

Request(index, cursor) == [index |-> index, cursor |-> cursor, filters |-> filters']

-----------------------------------------------------------------------------
(* Loading                                                                 *)

DialogShown == selectedEntry # Null

\* What is on the way is aborted; its answer may still come and is then ignored.
Abort == aborted' = IF activeRequest = Null THEN aborted ELSE activeRequest

\* Mutant: a page that was reached before stays in the path after a different one.
KeepForwardPath(request) ==
  [cursors |-> IF request.index < Len(navigation.cursors)
               THEN [navigation.cursors EXCEPT ![request.index + 1] = request.cursor]
               ELSE Append(navigation.cursors, request.cursor),
   index |-> request.index]

\* Reached pages stay; a forward path is replaced only where its cursor changed.
Reached(request) ==
  [cursors |-> IF /\ request.index < Len(navigation.cursors)
                  /\ navigation.cursors[request.index + 1] = request.cursor
               THEN navigation.cursors
               ELSE Append(SubSeq(navigation.cursors, 1, request.index), request.cursor),
   index |-> request.index]

PageArrives ==
  /\ activeRequest # Null /\ activeRequest' = Null
  /\ auditLog' = getAuditLog(activeRequest.filters, activeRequest.cursor, entries)
  /\ selectedEntry' = Null /\ historyLoad' = "none"
  /\ navigation' = IF activeRequest.index = 0 /\ isLoading THEN FirstPage ELSE Reached(activeRequest)
  /\ IF isLoading THEN isLoading' = FALSE /\ UNCHANGED isLoadingPage
     ELSE isLoadingPage' = FALSE /\ UNCHANGED isLoading
  /\ UNCHANGED <<initialError, pageError, formVars, optionVars, aborted, entries, failures>>

\* Mutant: the answer to an aborted request is taken.
LateAnswerTaken ==
  /\ aborted # Null /\ aborted' = Null
  /\ auditLog # Null /\ auditLog' = getAuditLog(aborted.filters, aborted.cursor, entries)
  /\ UNCHANGED <<isLoading, isLoadingPage, initialError, pageError, navigation>>
  /\ UNCHANGED <<formVars, optionVars, dialogVars, activeRequest, entries, failures>>

LateAnswer ==
  /\ aborted # Null /\ aborted' = Null
  /\ UNCHANGED <<pageVars, formVars, optionVars, dialogVars, activeRequest, entries, failures>>

\* A revoked permission ends pagination and removes the rows that are there.
Fails(status) ==
  IF status = 403
  THEN /\ auditLog' = Null /\ selectedEntry' = Null /\ historyLoad' = "none"
       /\ navigation' = FirstPage /\ pageError' = 0 /\ initialError' = status
  ELSE /\ IF isLoading THEN initialError' = status /\ UNCHANGED pageError
          ELSE pageError' = status /\ UNCHANGED initialError
       /\ UNCHANGED <<auditLog, dialogVars, navigation>>

PageFails(status) ==
  /\ activeRequest # Null /\ activeRequest' = Null
  /\ failures < MaxFailures /\ failures' = failures + 1
  /\ Fails(status)
  /\ IF isLoading THEN isLoading' = FALSE /\ UNCHANGED isLoadingPage
     ELSE isLoadingPage' = FALSE /\ UNCHANGED isLoading
  /\ UNCHANGED <<formVars, optionVars, aborted, entries>>

retryInitialLoad ==
  /\ ~isLoading /\ initialError = 500 /\ activeRequest = Null
  /\ initialError' = 0 /\ isLoading' = TRUE
  /\ UNCHANGED <<auditLog, isLoadingPage, pageError, navigation, formVars, optionVars, dialogVars>>
  /\ UNCHANGED <<aborted, entries, failures>>
  /\ activeRequest' = Request(0, Null)

\* The rows and their pagination are shown, and no dialog is in front of them.
RowsShown == ~isLoading /\ initialError = 0 /\ auditLog # Null /\ ~DialogShown

GoTo(index, cursor) ==
  /\ RowsShown /\ ~isLoadingPage /\ activeRequest = Null
  /\ pageError' = 0 /\ isLoadingPage' = TRUE
  /\ UNCHANGED <<auditLog, isLoading, initialError, navigation, formVars, optionVars, dialogVars>>
  /\ UNCHANGED <<aborted, entries, failures>>
  /\ activeRequest' = Request(index, cursor)

loadNextPage ==
  /\ auditLog # Null /\ auditLog.nextCursor # Null
  /\ GoTo(navigation.index + 1, auditLog.nextCursor)

\* A page number that is offered, or the page before.
loadKnownPage(index) ==
  /\ index \in 0..(Len(navigation.cursors) - 1) /\ index # navigation.index
  /\ \/ index = navigation.index - 1
     \/ index + 1 \in ToSet(getReachedPageSlots(Len(navigation.cursors), navigation.index + 1))
  /\ GoTo(index, navigation.cursors[index + 1])

-----------------------------------------------------------------------------
(* The filters                                                             *)

Valid(values) == values.dateRange # "reversed"

\* Mutant: the aborted request still counts as active, and loadPage returns at once.
ApplyWhileActive(values) ==
  IF Valid(values)
  THEN /\ Abort
       /\ filterValidationError' = FALSE /\ initialError' = 0 /\ pageError' = 0
       /\ auditLog' = Null /\ selectedEntry' = Null /\ historyLoad' = "none"
       /\ navigation' = FirstPage /\ isLoading' = TRUE /\ isLoadingPage' = FALSE
       /\ filters' = values
       /\ activeRequest' = IF activeRequest = Null THEN Request(0, Null) ELSE Null
  ELSE /\ filterValidationError' = TRUE
       /\ UNCHANGED <<pageVars, dialogVars, filters, netVars>>

\* Everything that was shown goes, and the first page of the new filters is asked for.
applyFilters(values) ==
  IF Valid(values)
  THEN /\ Abort
       /\ filterValidationError' = FALSE /\ initialError' = 0 /\ pageError' = 0
       /\ auditLog' = Null /\ selectedEntry' = Null /\ historyLoad' = "none"
       /\ navigation' = FirstPage /\ isLoading' = TRUE /\ isLoadingPage' = FALSE
       /\ filters' = values
       /\ activeRequest' = Request(0, Null)
  ELSE /\ filterValidationError' = TRUE
       /\ UNCHANGED <<pageVars, dialogVars, filters, netVars>>

TimerCleared == searchTimer' = Null

\* changeFilters with debounce: the values of this moment are applied later.
changeSearch(typed) ==
  /\ ~DialogShown
  /\ filterValues' = [filterValues EXCEPT !.search = typed]
  /\ searchTimer' = filterValues'
  /\ UNCHANGED <<pageVars, filters, filterValidationError, optionVars, dialogVars, netVars, entries, failures>>

SearchTimer ==
  /\ searchTimer # Null /\ searchTimer' = Null /\ applyFilters(searchTimer)
  /\ UNCHANGED <<filterValues, optionVars, entries, failures>>

changeFilters(nextValues) ==
  /\ ~DialogShown
  /\ filterValues' = nextValues /\ applyFilters(nextValues) /\ TimerCleared
  /\ UNCHANGED <<optionVars, entries, failures>>

changeAction(chosen) == filterOptions = "loaded" /\ changeFilters([filterValues EXCEPT !.action = chosen])
changeDates(range)   == changeFilters([filterValues EXCEPT !.dateRange = range])
resetFilters == filterValues # DEFAULT_AUDIT_FILTERS /\ changeFilters(DEFAULT_AUDIT_FILTERS)
submitFilters == changeFilters(filterValues)

\* The choices of the form; without permission or session the rows go too.
OptionsArrive ==
  /\ filterOptions = "loading" /\ filterOptions' = "loaded"
  /\ UNCHANGED <<pageVars, formVars, filterOptionsError, dialogVars, netVars, entries, failures>>

OptionsFail(status) ==
  /\ filterOptions = "loading" /\ filterOptions' = "failed" /\ filterOptionsError' = status
  /\ failures < MaxFailures /\ failures' = failures + 1
  /\ IF status \in {401, 403}
     THEN /\ Abort /\ activeRequest' = Null
          /\ auditLog' = Null /\ selectedEntry' = Null /\ historyLoad' = "none"
          /\ navigation' = FirstPage /\ initialError' = status
          /\ isLoading' = FALSE /\ isLoadingPage' = FALSE /\ UNCHANGED pageError
     ELSE UNCHANGED <<pageVars, dialogVars, netVars>>
  /\ UNCHANGED <<formVars, entries>>

retryOptions ==
  /\ ~DialogShown /\ filterOptionsError = 500
  /\ filterOptions' = "loading" /\ filterOptionsError' = 0
  /\ UNCHANGED <<pageVars, formVars, dialogVars, netVars, entries, failures>>

-----------------------------------------------------------------------------
(* AuditEntryDetails                                                       *)

OpenEntry(e) ==
  /\ RowsShown /\ e \in auditLog.entries
  /\ selectedEntry' = e /\ historyLoad' = IF e \in PaymentEvents THEN "loading" ELSE "none"
  /\ UNCHANGED <<pageVars, formVars, optionVars, netVars, entries, failures>>

HistoryAnswers ==
  /\ DialogShown /\ historyLoad = "loading"
  /\ \/ historyLoad' = "loaded" /\ UNCHANGED failures
     \/ historyLoad' = "failed" /\ failures < MaxFailures /\ failures' = failures + 1
  /\ UNCHANGED <<pageVars, formVars, optionVars, selectedEntry, netVars, entries>>

RetryHistory ==
  /\ DialogShown /\ historyLoad = "failed" /\ historyLoad' = "loading"
  /\ UNCHANGED <<pageVars, formVars, optionVars, selectedEntry, netVars, entries, failures>>

CloseEntry ==
  /\ DialogShown /\ selectedEntry' = Null /\ historyLoad' = "none"
  /\ UNCHANGED <<pageVars, formVars, optionVars, netVars, entries, failures>>

\* Somebody does something that is audited.
NewEvent ==
  /\ entries < Events /\ entries' = entries + 1
  /\ UNCHANGED <<pageVars, formVars, optionVars, dialogVars, netVars, failures>>

-----------------------------------------------------------------------------
Init ==
  /\ auditLog = Null /\ isLoading = TRUE /\ isLoadingPage = FALSE
  /\ initialError = 0 /\ pageError = 0 /\ navigation = FirstPage
  /\ filterValues = DEFAULT_AUDIT_FILTERS /\ filters = DEFAULT_AUDIT_FILTERS
  /\ filterValidationError = FALSE /\ searchTimer = Null
  /\ filterOptions = "loading" /\ filterOptionsError = 0
  /\ selectedEntry = Null /\ historyLoad = "none"
  /\ activeRequest = [index |-> 0, cursor |-> Null, filters |-> DEFAULT_AUDIT_FILTERS]
  /\ aborted = Null /\ entries \in 0..Events /\ failures = 0

Answers == PageArrives \/ \E status \in Errors : PageFails(status)

Next ==
  \/ Answers \/ LateAnswer \/ retryInitialLoad \/ loadNextPage
  \/ \E index \in 0..Events : loadKnownPage(index)
  \/ \E typed \in BOOLEAN : changeSearch(typed) \/ changeAction(typed)
  \/ \E range \in {"all", "recent", "reversed"} : changeDates(range)
  \/ SearchTimer \/ resetFilters \/ submitFilters
  \/ OptionsArrive \/ (\E status \in Errors : OptionsFail(status)) \/ retryOptions
  \/ (\E e \in 1..Events : OpenEntry(e)) \/ HistoryAnswers \/ RetryHistory \/ CloseEntry
  \/ NewEvent

Spec == Init /\ [][Next]_vars

\* Requests are answered or fail, and the timer fires.
FairSpec == Spec /\ WF_vars(Answers) /\ WF_vars(SearchTimer)

-----------------------------------------------------------------------------
\* The page, its form and its requests keep their types, and a dialog shows a listed event.
AuditTypeOK ==
  /\ auditLog # Null => auditLog.entries \subseteq 1..entries
  /\ selectedEntry # Null => auditLog # Null /\ selectedEntry \in auditLog.entries
  /\ {isLoading, isLoadingPage, filterValidationError} \subseteq BOOLEAN
  /\ {initialError, pageError, filterOptionsError} \subseteq Errors \cup {0}
  /\ navigation.index \in 0..(Len(navigation.cursors) - 1)
  /\ filterValues \in FilterValues /\ filters \in FilterValues /\ Valid(filters)
  /\ searchTimer \in FilterValues \cup {Null}
  /\ filterOptions \in {"loading", "loaded", "failed"}
  /\ historyLoad \in {"none", "loading", "loaded", "failed"}

\* The rows are those of the chosen filters at the current place of the path, and no event
\* between the rows of one page is left out, whatever was aborted on the way.
RowsOfTheFilters ==
  auditLog # Null =>
    LET cursor == navigation.cursors[navigation.index + 1]
    IN  \E n \in 0..entries : auditLog = getAuditLog(filters, cursor, n)

\* From the second page on, each page of the path begins where the one before it ended: no
\* event between two page numbers is skipped or shown twice.
PathContiguous ==
  \A i \in 2..(Len(navigation.cursors) - 1) :
    navigation.cursors[i + 1] = getAuditLog(filters, navigation.cursors[i], entries).nextCursor

\* The card shows exactly one of "loading", the error and the rows: after a lost permission or
\* session the rows that were there are gone.
OneOfThree ==
  Cardinality({x \in 1..3 : CASE x = 1 -> isLoading [] x = 2 -> initialError # 0
                              [] x = 3 -> auditLog # Null}) = 1

\* Once no keystroke is waiting, the filters in use are those the form shows, or the form
\* shows that they cannot be used.
FiltersFollowForm ==
  searchTimer = Null =>
    IF Valid(filterValues) THEN filters = filterValues /\ ~filterValidationError
    ELSE filterValidationError

\* The card never shows rows, errors or filters that do not belong together, whatever the
\* timer, an aborted request or a lost permission does in between (applyFilters, loadPage).
RowsTruthful == AuditTypeOK /\ RowsOfTheFilters /\ OneOfThree /\ FiltersFollowForm

\* What the form shows is what the rows were asked for with, or an error is shown.
ChosenIsShown ==
  \/ filterValidationError \/ initialError # 0
  \/ auditLog # Null /\ filters = filterValues /\ ~isLoadingPage
=============================================================================
