----------------------------- MODULE MCApprovals -----------------------------
(***************************************************************************)
(* The approver's two views, of which a behaviour shows one.  The bell:    *)
(* two users of whom both see the only step, or one user of two steps of   *)
(* a payment, whom the page around the bell knows only later.  The inbox:  *)
(* a payment of two steps, two requests and no use of the browser's        *)
(* history, or one request with it.                                        *)
(***************************************************************************)
EXTENDS Integers, Sequences, TLC

CONSTANTS
  Item, SignedIn, Beginnings,
  Step, Payment, PaymentOf, Null, Locations, TargetOf, MaxRequests, MaxWithHistory,
  adm, att, p1, s1, s2

VARIABLES
  part,                      \* "bell" | "inbox"
  cookie, stored, storing, storageEvent, visible, prop, storedOverride,
  request, late, state, upToDate, sees, open, sent, confirmed, asOf,
  context, newest, pending, recentlyHandled, error, receipt,
  selectedStepId, selectedHistory, selectionQuery, requestInFlight, decisionError,
  historyLoad, load, failures, lastLoad, decisions, status, unsure, backAndForward

Bell  == INSTANCE ApprovalNotifications
Inbox == INSTANCE ApprovalInbox

ASSUME BellParameters  == Bell!NotificationAssumption
ASSUME InboxParameters == Inbox!InboxAssumption

item(n) == [payment |-> p1, step |-> n]
MCItem == {item(1), item(2)}
MCBeginnings == {
  [sees |-> [u \in {adm, att} |-> {item(1)}], prop |-> adm],
  [sees |-> [u \in {adm} |-> MCItem], prop |-> "nobody"] }
MCPaymentOf == [s \in {s1, s2} |-> p1]
MCTargetOf == <<p1, "no payment">>

bellVars  == <<cookie, stored, storing, storageEvent, visible, prop, storedOverride,
               request, late, state, upToDate, sees, open, sent, confirmed, asOf>>
inboxVars == <<context, newest, pending, recentlyHandled, error, receipt,
               selectedStepId, selectedHistory, selectionQuery, requestInFlight, decisionError,
               historyLoad, load, failures, lastLoad, decisions, status, unsure, backAndForward>>
vars      == <<part, bellVars, inboxVars>>

\* The part that rests starts from one state.
Init ==
  /\ part \in {"bell", "inbox"}
  /\ Bell!Init /\ Inbox!Init
  /\ part # "bell" => sees = (CHOOSE b \in Beginnings : TRUE).sees
  /\ part # "inbox" => backAndForward = FALSE

InBell  == part = "bell" /\ UNCHANGED <<part, inboxVars>>
InInbox == part = "inbox" /\ UNCHANGED <<part, bellVars>>

Next ==
  \/ InBell /\ Bell!Next
  \/ InInbox /\ Inbox!Next

\* The interval ticks while the tab is visible, and a load of the inbox ends, unless its user
\* goes back and forth in the browser's history.
Ticks ==
  \/ InBell /\ Bell!Poll
  \/ InInbox /\ ~backAndForward /\ Inbox!Loading /\ UNCHANGED backAndForward

\* Now and then an answer comes before the next refresh of the bell.
Answers  == InBell /\ Bell!ServerAnswers
Arrivals == InBell /\ Bell!AnswerArrives

Spec     == Init /\ [][Next]_vars
FairSpec == Spec /\ WF_vars(Ticks) /\ SF_vars(Answers) /\ SF_vars(Arrivals)

-----------------------------------------------------------------------------
\* ApprovalNotifications: the bell tells what the server had since the last refresh.
BellTruthful == part = "bell" => Bell!BellTruthful

\* ApprovalNotifications: nobody sees the payments of the former user of the browser.
OwnPaymentsOnly == part = "bell" => Bell!OwnPaymentsOnly

\* ApprovalInbox: what is listed and what the receipt says is what was decided.
DecisionsShown == part = "inbox" => Inbox!DecisionsShown

\* ApprovalInbox without the browser's history: no second decision before a new list.
NoBlindRetry == [][\A a \in Inbox!Actions :
                     InInbox /\ ~backAndForward /\ Inbox!saveDecision(a)
                       => Inbox!selectedApproval \notin unsure]_vars

\* ApprovalInbox: a list that has arrived is shown.
LoadedInboxShown == Inbox!LoadedInboxShown

\* While it can be seen by a user who is signed in, the bell comes back to what the server has
\* (its interval, although every refresh aborts the last one), and the inbox ends loading, unless
\* its user keeps going back and forth, which starts a new load each time.
Steady ==
  \/ part = "bell" /\ Bell!Watched
  \/ part = "inbox" /\ ~backAndForward
Shown ==
  \/ part = "bell" /\ Bell!UpToDate
  \/ part = "inbox" /\ ~Inbox!isLoading
ApprovalPagesSettle == <>[]Steady => []<>Shown
=============================================================================
