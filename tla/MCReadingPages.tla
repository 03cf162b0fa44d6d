---------------------------- MODULE MCReadingPages ----------------------------
(***************************************************************************)
(* The three pages that only read, of which a behaviour shows one.  The    *)
(* audit log: four events, one a page.  The details: a payment with two    *)
(* steps and one without.  The list: payments at the ends of the amount    *)
(* and date ranges, two a page.                                            *)
(***************************************************************************)
EXTENDS Integers, Sequences, TLC

CONSTANTS
  Null,
  Events, Limit, Searched, OfAction, Recent, PaymentEvents, MaxFailures,
  Payment, Step, PaymentOf, MaxAttempts,
  Catalog, Today, PAGE_SIZE, MaxFailedLoads,
  p1, p2, s1, s2

VARIABLES
  part,                      \* "audit" | "details" | "list"
  auditLog, isLoading, isLoadingPage, initialError, pageError, navigation,
  filterValues, filters, filterValidationError, searchTimer,
  filterOptions, filterOptionsError, selectedEntry, historyLoad,
  activeRequest, aborted, entries, failures,
  step, activity, paymentId, attempt, detail, canReadAuditLog, request, abortedDetail,
  data, isLoadingList, error, listFilters, accountId, page, stored, failedLoads

Audit   == INSTANCE AuditLog
Details == INSTANCE PaymentDetails WITH aborted <- abortedDetail
List    == INSTANCE PaymentList WITH
  MaxFailures <- MaxFailedLoads, isLoading <- isLoadingList, filters <- listFilters,
  failures <- failedLoads

ASSUME AuditParameters   == Audit!AuditAssumption
ASSUME DetailsParameters == Details!DetailsAssumption
ASSUME ListParameters    == List!PaymentListAssumption

MCPaymentOf == [s \in {s1, s2} |-> p1]

ListPayment(status, day, amount, currency, account) ==
  [status |-> status, day |-> day, amount |-> amount, currency |-> currency, account |-> account]

MCCatalog == <<
  ListPayment("completed", 9, 999999, "SEK", 1),
  ListPayment("rejected", 10, 1000000, "SEK", 1),
  ListPayment("completed", 11, 4999999, "SEK", 2),
  ListPayment("completed", 70, 5000000, "SEK", 1),
  ListPayment("rejected", 71, 10000000, "SEK", 2),
  ListPayment("pending_approval", 93, 10000001, "SEK", 1),
  ListPayment("completed", 94, 100, "EUR", 2),
  ListPayment("pending_approval", 100, 4999999, "SEK", 1),
  ListPayment("completed", 100, 999999, "SEK", 2),
  ListPayment("completed", 101, 100, "SEK", 1) >>
  \o [i \in 1..7 |-> ListPayment("completed", 100, 100, "SEK", 2)]

auditVars   == <<auditLog, isLoading, isLoadingPage, initialError, pageError, navigation,
                 filterValues, filters, filterValidationError, searchTimer,
                 filterOptions, filterOptionsError, selectedEntry, historyLoad,
                 activeRequest, aborted, entries, failures>>
detailsVars == <<step, activity, paymentId, attempt, detail, canReadAuditLog, request, abortedDetail>>
listVars    == <<data, isLoadingList, error, listFilters, accountId, page, stored, failedLoads>>
vars        == <<part, auditVars, detailsVars, listVars>>

\* The parts that rest start from one state each.
Init ==
  /\ part \in {"audit", "details", "list"}
  /\ Audit!Init /\ Details!Init /\ List!Init
  /\ part # "audit" => entries = 0
  /\ part # "details" => paymentId = (CHOOSE p \in Payment : TRUE) /\ ~canReadAuditLog
  /\ part # "list" => stored = 0

InAudit   == part = "audit" /\ UNCHANGED <<part, detailsVars, listVars>>
InDetails == part = "details" /\ UNCHANGED <<part, auditVars, listVars>>
InList    == part = "list" /\ UNCHANGED <<part, auditVars, detailsVars>>

Next ==
  \/ InAudit /\ Audit!Next
  \/ InDetails /\ Details!Next
  \/ InList /\ List!Next

\* Requests are answered or fail; the timer of the search fires, and a user in front of a list
\* that failed tries again.
Answers ==
  \/ InAudit /\ Audit!Answers
  \/ InDetails /\ Details!Serve
  \/ InList /\ List!Answers
GoesOn ==
  \/ InAudit /\ Audit!SearchTimer
  \/ InList /\ List!retry
Spec == Init /\ [][Next]_vars /\ WF_vars(Answers) /\ WF_vars(GoesOn)

-----------------------------------------------------------------------------
\* AuditLog: the rows, the error and the form belong together.
RowsTruthful == part = "audit" => Audit!RowsTruthful

\* AuditLog: the page numbers lead to pages that follow each other.
PathContiguous == part = "audit" => Audit!PathContiguous

\* PaymentDetails: one payment, whose status, steps and activity agree.
DetailTruthful == part = "details" => Details!DetailTruthful

\* PaymentList: nothing that matches is missing.
ListComplete == part = "list" => List!ListComplete

\* A user who leaves the form of the audit log and the address of a payment alone sees in the
\* end what they name or an error, and the list arrives or the session is gone.
Shown ==
  \/ part = "audit" /\ Audit!ChosenIsShown
  \/ part = "details" /\ ~Details!displayedDetail.loading
  \/ part = "list" /\ (data # Null \/ error = 401)
ReadingSettles == <>[][FALSE]_<<filterValues, paymentId>> => []<>Shown
=============================================================================
