------------------------------ MODULE PaymentList ------------------------------
(***************************************************************************)
(* The payment list: the payments of the dashboard answer, newest first,   *)
(* filtered by status, date, amount and account, a page at a time.  The    *)
(* list is loaded once; after an error the user may try again.             *)
(***************************************************************************)
EXTENDS PageNumbers, FiniteSets

CONSTANTS
  Catalog,            \* the payments there will ever be, the oldest first
  Null,               \* nothing loaded
  Today, PAGE_SIZE,   \* the day the page is looked at; payments on a page
  MaxFailures         \* bound: failed loads

PaymentListAssumption ==
  /\ Catalog \in Seq([status : STRING, day : Int, amount : Nat, currency : STRING, account : Nat])
  /\ Today \in Int /\ PAGE_SIZE \in Nat \ {0} /\ MaxFailures \in Nat

VARIABLES
  \* usePaymentOverview, the page's filters and page, the server's payments, failed loads
  data, isLoading, error, filters, accountId, page, stored, failures

overviewVars == <<data, isLoading, error>>
vars == <<overviewVars, filters, accountId, page, stored, failures>>

All == "all"
Ranges == {"under10000", "10000to50000", "50000to100000", "over100000"}
DEFAULT_PAYMENT_FILTERS == [status |-> All, dateRange |-> 0, amountRange |-> All]

-----------------------------------------------------------------------------
(* The filters                                                             *)

\* The amount in minor units.
matchesPaymentAmount(cents, range) ==
  CASE range = All -> TRUE
    [] range = "under10000" -> cents < 1000000
    [] range = "10000to50000" -> cents >= 1000000 /\ cents < 5000000
    [] range = "50000to100000" -> cents >= 5000000 /\ cents <= 10000000
    [] range = "over100000" -> cents > 10000000

\* A range of days ends today and includes it; amounts are compared in SEK only.
Matches(p, f) ==
  /\ f.status = All \/ p.status = f.status
  /\ f.dateRange = 0 \/ p.day \in (Today - f.dateRange + 1)..Today
  /\ f.amountRange = All \/ p.currency = "SEK"
  /\ matchesPaymentAmount(p.amount, f.amountRange)

filterRecentPayments(list, f) == ItemsAt(list, {i \in DOMAIN list : Matches(list[i], f)})

-----------------------------------------------------------------------------
(* The page                                                                *)

payments == IF data = Null THEN << >> ELSE data
accountOptions == {payments[i].account : i \in DOMAIN payments}

filteredPayments ==
  LET matching == filterRecentPayments(payments, filters)
  IN  ItemsAt(matching, {i \in DOMAIN matching : accountId \in {0, matching[i].account}})

pagination == getPaymentPagination(Len(filteredPayments), PAGE_SIZE, page)
visiblePayments == SubSeq(filteredPayments, pagination.startIndex + 1, pagination.endIndex)
paginationDisabled == isLoading \/ error # 0 \/ filteredPayments = << >>

\* usePaymentOverview: the newest first.
OverviewArrives ==
  /\ isLoading /\ isLoading' = FALSE /\ error' = 0
  /\ data' = Reverse(SubSeq(Catalog, 1, stored))
  /\ UNCHANGED <<filters, accountId, page, stored, failures>>

OverviewFails(status) ==
  /\ isLoading /\ isLoading' = FALSE /\ failures < MaxFailures /\ failures' = failures + 1
  /\ data' = Null /\ error' = status
  /\ UNCHANGED <<filters, accountId, page, stored>>

retry ==
  /\ error \notin {0, 401}
  /\ data' = Null /\ isLoading' = TRUE /\ error' = 0
  /\ UNCHANGED <<filters, accountId, page, stored, failures>>

changeFilters(update) ==
  /\ filters' = update /\ page' = 1
  /\ UNCHANGED <<overviewVars, accountId, stored, failures>>

changeStatus(s)    == changeFilters([filters EXCEPT !.status = s])
changeDateRange(d) == changeFilters([filters EXCEPT !.dateRange = d])
changeAmounts(r)   == changeFilters([filters EXCEPT !.amountRange = r])

chooseAccount(id) ==
  /\ id \in accountOptions \cup {0} /\ accountId' = id /\ page' = 1
  /\ UNCHANGED <<overviewVars, filters, stored, failures>>

resetFilters ==
  /\ filters' = DEFAULT_PAYMENT_FILTERS /\ accountId' = 0 /\ page' = 1
  /\ UNCHANGED <<overviewVars, stored, failures>>

\* A page number, or the page before or after.
turnPage(to) ==
  /\ ~paginationDisabled
  /\ \/ to \in ToSet(pagination.pages) \ {Ellipsis}
     \/ to = pagination.currentPage - 1 /\ pagination.currentPage > 1
     \/ to = pagination.currentPage + 1 /\ pagination.currentPage < pagination.totalPages
  /\ page' = to
  /\ UNCHANGED <<overviewVars, filters, accountId, stored, failures>>

\* Somebody creates a payment.
NewPayment ==
  /\ stored < Len(Catalog) /\ stored' = stored + 1
  /\ UNCHANGED <<overviewVars, filters, accountId, page, failures>>

-----------------------------------------------------------------------------
Init ==
  /\ data = Null /\ isLoading = TRUE /\ error = 0
  /\ filters = DEFAULT_PAYMENT_FILTERS /\ accountId = 0 /\ page = 1
  /\ stored \in 0..Len(Catalog) /\ failures = 0

Answers == OverviewArrives \/ \E status \in {401, 500} : OverviewFails(status)

Next ==
  \/ Answers \/ retry \/ resetFilters \/ NewPayment
  \/ \E s \in {All, "completed", "pending_approval", "rejected"} : changeStatus(s)
  \/ \E d \in {0, 7, 30, 90} : changeDateRange(d)
  \/ \E r \in Ranges \cup {All} : changeAmounts(r)
  \/ \E id \in accountOptions \cup {0} : chooseAccount(id)
  \/ \E to \in 0..(pagination.totalPages + 1) : turnPage(to)

Spec == Init /\ [][Next]_vars

\* The load is answered or fails, and a user in front of a failed one tries again.
FairSpec == Spec /\ WF_vars(Answers) /\ WF_vars(retry)

-----------------------------------------------------------------------------
\* The page's state keeps its types, and the page number is one the pagination accepts.
PaymentListTypeOK ==
  /\ data = Null \/ \E n \in 0..stored : Len(data) = n
  /\ isLoading \in BOOLEAN /\ error \in {0, 401, 500}
  /\ accountId \in Nat /\ page \in Nat \ {0}

\* Every payment that matches is on exactly one page, in order: the pages begin with the first,
\* each goes on where the one before it ends, and the last ends with the last.  The page that is
\* shown is empty only when nothing matches.
EveryMatchOnOnePage ==
  LET total   == Len(filteredPayments)
      Page(n) == getPaymentPagination(total, PAGE_SIZE, n)
      last    == pagination.totalPages
  IN  /\ IF last = 0 THEN total = 0 ELSE Page(1).startIndex = 0 /\ Page(last).endIndex = total
      /\ \A n \in 1..last : Page(n).currentPage = n /\ Page(n).startIndex < Page(n).endIndex
      /\ \A n \in 1..(last - 1) : Page(n + 1).startIndex = Page(n).endIndex
      /\ visiblePayments = << >> => filteredPayments = << >>

\* From every page the first, the last and the neighbours can be reached, and no slot names a
\* page that is not there.
SlotsLead == SlotsComplete(pagination.pages, pagination.totalPages, pagination.currentPage)

\* The amount ranges part the payments in SEK: each is listed under exactly one.
RangesPart ==
  \A i \in DOMAIN payments :
    payments[i].currency = "SEK" =>
      Cardinality({r \in Ranges : matchesPaymentAmount(payments[i].amount, r)}) = 1

\* The account the list is filtered by is one its menu offers: otherwise the menu would show
\* "all accounts" over a filtered list.
AccountOffered == accountId \in accountOptions \cup {0}

\* Nothing that matches can be missed by turning the pages and by choosing each filter in turn,
\* also while payments are created and loads fail (getPaymentPagination, getPaymentPageSlots).
ListComplete == PaymentListTypeOK /\ EveryMatchOnOnePage /\ SlotsLead /\ RangesPart /\ AccountOffered
=============================================================================
