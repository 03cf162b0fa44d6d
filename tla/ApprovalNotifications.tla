------------------------- MODULE ApprovalNotifications -------------------------
(***************************************************************************)
(* The bell: useApprovalNotifications asks for the approval inbox when it  *)
(* is mounted, every 30 seconds, on focus, on updates and when another tab *)
(* signs somebody in or out, and ApprovalNotifications shows the payments. *)
(* Every refresh aborts the request before it, whose answer may be late.   *)
(* A request carries the cookie of the time it was sent.                   *)
(***************************************************************************)
EXTENDS Integers, FiniteSets

CONSTANTS
  Item,        \* pending steps: records [payment, step]
  SignedIn,    \* who is signed in first
  Beginnings   \* the items each user of the company sees ({} for a role that may not approve), and
               \* whom the page around the bell knows first: records [sees, prop]

Nobody == "nobody"
Quiet  == "quiet"     \* the other tab is not signing in or out
NotSet == "not set"   \* this tab has not heard of the other one

NotificationAssumption ==
  /\ \A b \in Beginnings :
       /\ b.sees \in [DOMAIN b.sees -> SUBSET Item] /\ {Nobody, Quiet, NotSet} \cap DOMAIN b.sees = {}
       /\ SignedIn \in DOMAIN b.sees /\ b.prop \in {SignedIn, Nobody}
  /\ IsFiniteSet(Item) /\ \A i \in Item : i.step \in Nat
  /\ \A i, j \in Item : i.payment = j.payment /\ i.step = j.step => i = j

VARIABLES
  \* the browser: the session cookie, localStorage "user", what another tab is about to store
  cookie, stored, storing, storageEvent, visible,
  \* ApprovalNotifications: the prop and storedOverride
  prop, storedOverride,
  \* the hook: the current request and an aborted one, the state, version = requestVersion
  request, late, state, upToDate,
  \* the server: the company's inboxes; open steps; those this tab has decided: sent, and confirmed
  sees, open, sent, confirmed,
  \* the inboxes an answer to a request since the last refresh may have held
  asOf

browserVars == <<cookie, stored, storing, storageEvent, visible>>
userVars    == <<prop, storedOverride>>
hookVars    == <<request, late, state, upToDate>>
serverVars  == <<sees, open, sent, confirmed>>
User        == DOMAIN sees
vars == <<browserVars, userVars, hookVars, serverVars, asOf>>

None      == [phase |-> "none"]
Flying(u) == [phase |-> "flying", as |-> u]

-----------------------------------------------------------------------------
canApprove(u) == u # Nobody /\ sees[u] # {}
UserShown(ov, p) == IF ov = NotSet THEN p ELSE ov
displayedUser == UserShown(storedOverride, prop)

\* Mutant: what was loaded for another user counts as current.
AnyIdentity == TRUE
\* What was loaded is used for the user it was loaded for.
SameIdentity == state.identity = displayedUser

isCurrent == canApprove(displayedUser) /\ SameIdentity
pending   == IF isCurrent THEN state.pending ELSE {}
isLoading == canApprove(displayedUser) /\ ~(isCurrent /\ upToDate)
error     == IF ~isLoading /\ isCurrent THEN state.error ELSE 0
count     == IF canApprove(displayedUser) /\ error = 0 THEN Cardinality(pending) ELSE 0

\* One notification for each payment: its first open step.
uniquePayments(items) ==
  {i \in items : \A j \in items : j.payment = i.payment => i.step <= j.step}

Inbox(u, items) == IF u = Nobody THEN {} ELSE uniquePayments(items \cap sees[u])

\* The server answers a request for the user it came from: 200 with the inbox, 401, 403.
Answered(r) ==
  [phase |-> "answered", as |-> r.as,
   error |-> IF r.as = Nobody THEN 401 ELSE IF sees[r.as] = {} THEN 403 ELSE 200,
   items |-> IF r.as = Nobody THEN {} ELSE open \cap sees[r.as]]

\* The effect runs again for user u: the request before it is aborted, and its answer, which
\* the server may have made by now, is late.
Effect(u) ==
  /\ request' = IF canApprove(u) THEN Flying(cookie) ELSE None
  /\ late' = IF request.phase = "flying" THEN Answered(request)
             ELSE IF request.phase = "answered" THEN request ELSE late

refresh(u) ==
  /\ upToDate' = FALSE /\ asOf' = {Inbox(cookie, open)}
  /\ Effect(u) /\ UNCHANGED state

refreshVisible == IF visible THEN refresh(displayedUser) ELSE UNCHANGED <<hookVars, asOf>>

-----------------------------------------------------------------------------
(* The hook                                                                *)

\* Mutant: any failure ends the polling.
AnyErrorBlocks == isCurrent /\ state.error # 0

\* No polling after "sign in" or "not allowed".
pollingBlocked == isCurrent /\ state.error \in {401, 403}

Poll ==
  /\ canApprove(displayedUser) /\ ~pollingBlocked /\ visible
  /\ refresh(displayedUser)
  /\ UNCHANGED <<browserVars, userVars, serverVars>>

\* focus, the bell when it opens the panel, its refresh button, or "try again".
AskAgain ==
  /\ visible /\ refresh(displayedUser)
  /\ UNCHANGED <<browserVars, userVars, serverVars>>

\* The tab is hidden, or shown again (visibilitychange).
Hide ==
  /\ visible /\ visible' = FALSE
  /\ UNCHANGED <<cookie, stored, storing, storageEvent, userVars>>
  /\ UNCHANGED <<hookVars, serverVars, asOf>>

Show ==
  /\ ~visible /\ visible' = TRUE /\ refresh(displayedUser)
  /\ UNCHANGED <<cookie, stored, storing, storageEvent, userVars, serverVars>>

ServerAnswers ==
  /\ request.phase = "flying" /\ request' = Answered(request)
  /\ UNCHANGED <<browserVars, userVars, late, state, upToDate, serverVars, asOf>>

AnswerArrives ==
  /\ request.phase = "answered"
  /\ state' = [identity |-> displayedUser, by |-> request.as,
               pending |-> IF request.error = 200 THEN uniquePayments(request.items) ELSE {},
               error |-> IF request.error = 200 THEN 0 ELSE request.error]
  /\ upToDate' = TRUE /\ request' = None
  /\ UNCHANGED <<browserVars, userVars, late, serverVars, asOf>>

\* No answer, a 500, or one that is no inbox (uniquePayments throws): a status of its own.
RequestFails ==
  /\ request # None /\ request' = None
  /\ upToDate' = TRUE
  /\ state' = [identity |-> displayedUser, by |-> request.as, pending |-> {}, error |-> 500]
  /\ UNCHANGED <<browserVars, userVars, late, serverVars, asOf>>

\* Mutant: the answer to an aborted request is used.
LateAnswerUsed ==
  /\ late # None /\ late' = None
  /\ state' = [identity |-> displayedUser, by |-> late.as,
               pending |-> uniquePayments(late.items), error |-> 0]
  /\ UNCHANGED <<browserVars, userVars, request, upToDate, serverVars, asOf>>

\* An answer to an aborted request changes nothing.
LateAnswer ==
  /\ late # None /\ late' = None
  /\ UNCHANGED <<browserVars, userVars, request, state, upToDate, serverVars, asOf>>

-----------------------------------------------------------------------------
(* The bell and its panel                                                  *)

requiresLogin == displayedUser = Nobody \/ error = 401
accessDenied  == error = 403

\* What the open panel says; the first that applies.
PanelSays ==
  IF requiresLogin THEN "sign in"
  ELSE IF accessDenied THEN "not allowed"
  ELSE IF ~canApprove(displayedUser) THEN "nothing for this role"
  ELSE IF isLoading THEN "loading"
  ELSE IF error # 0 THEN "try again"
  ELSE IF pending = {} THEN "nothing waits"
  ELSE "payments"

-----------------------------------------------------------------------------
(* Other tabs and other people                                             *)

\* Another tab signs somebody in or out: the cookie changes with the answer, ...
OtherTabSession ==
  /\ storing = Quiet
  /\ \E u \in User \cup {Nobody} : cookie' = u /\ storing' = u
  /\ UNCHANGED <<stored, storageEvent, visible, userVars, hookVars, serverVars, asOf>>

\* ... then it stores the user, which this tab hears of if it is a change.
OtherTabStores ==
  /\ storing # Quiet /\ storing' = Quiet /\ stored' = storing
  /\ storageEvent' = (storageEvent \/ stored # storing)
  /\ UNCHANGED <<cookie, visible, userVars, hookVars, serverVars, asOf>>

\* The session ends by itself.
SessionExpires ==
  /\ storing = Quiet /\ cookie # Nobody /\ cookie' = Nobody
  /\ UNCHANGED <<stored, storing, storageEvent, visible, userVars, hookVars, serverVars, asOf>>

\* Both listeners in one turn.
handleStoredUser == storedOverride' = stored /\ refresh(stored)

StorageEvent ==
  /\ storageEvent /\ storageEvent' = FALSE
  /\ handleStoredUser
  /\ UNCHANGED <<cookie, stored, storing, visible, prop, serverVars>>

\* The page around the bell has loaded its own user.
PropArrives ==
  /\ prop = Nobody /\ cookie # Nobody /\ prop' = cookie
  /\ IF storedOverride = NotSet THEN Effect(prop') ELSE UNCHANGED <<request, late>>
  /\ asOf' = asOf \cup {Inbox(cookie, open)}
  /\ UNCHANGED <<browserVars, storedOverride, state, upToDate, serverVars>>

\* A payment's steps are decided: one of them, or all that are open (a rejection).
Decided(items) ==
  /\ items # {} /\ items \subseteq open
  /\ \E i \in items : items \in {{i}, {j \in open : j.payment = i.payment}}
  /\ open' = open \ items
  /\ asOf' = asOf \cup (IF request = None THEN {} ELSE {Inbox(request.as, open')})

DecidedElsewhere(items) ==
  /\ Decided(items)
  /\ UNCHANGED <<browserVars, userVars, hookVars, sees, sent, confirmed>>

DecidedHere(items) ==
  /\ Decided(items) /\ sent' = sent \cup items
  /\ UNCHANGED <<browserVars, userVars, hookVars, sees, confirmed>>

notifyApprovalsUpdated == refreshVisible

\* decideApproval got its answer: APPROVALS_UPDATED_EVENT.
DecisionConfirmed ==
  /\ sent # confirmed /\ confirmed' = sent
  /\ notifyApprovalsUpdated
  /\ UNCHANGED <<browserVars, userVars, sees, open, sent>>

-----------------------------------------------------------------------------
Init ==
  /\ \E b \in Beginnings : sees = b.sees /\ prop = b.prop
  /\ cookie = SignedIn /\ stored = cookie /\ storing = Quiet /\ storageEvent = FALSE
  /\ visible = TRUE /\ storedOverride = NotSet
  /\ request = (IF canApprove(prop) THEN Flying(cookie) ELSE None) /\ late = None
  /\ state = [identity |-> Nobody, by |-> Nobody, pending |-> {}, error |-> 0]
  /\ upToDate = FALSE
  /\ open = UNION {sees[u] : u \in User} /\ sent = {} /\ confirmed = {}
  /\ asOf = {Inbox(cookie, open)}

Requests == ServerAnswers \/ AnswerArrives \/ RequestFails
Decisions == \E items \in SUBSET Item : DecidedElsewhere(items) \/ DecidedHere(items)

Next ==
  \/ Requests \/ LateAnswer
  \/ Poll \/ AskAgain \/ Hide \/ Show
  \/ OtherTabSession \/ OtherTabStores \/ SessionExpires \/ StorageEvent \/ PropArrives
  \/ Decisions \/ DecisionConfirmed

Spec == Init /\ [][Next]_vars

\* The interval ticks, and now and then an answer comes before the next refresh.
FairSpec == Spec /\ WF_vars(Poll) /\ SF_vars(ServerAnswers) /\ SF_vars(AnswerArrives)

-----------------------------------------------------------------------------
Somebody == User \cup {Nobody}
Request  == {None} \cup {Flying(u) : u \in Somebody}
              \cup [phase : {"answered"}, as : Somebody, error : {200, 401, 403}, items : SUBSET Item]

\* The browser, the component, the hook and the server keep their types.
NotificationsTypeOK ==
  /\ {cookie, stored, prop} \subseteq Somebody /\ storing \in Somebody \cup {Quiet}
  /\ storedOverride \in Somebody \cup {NotSet}
  /\ {storageEvent, visible, upToDate} \subseteq BOOLEAN
  /\ {request, late} \subseteq Request
  /\ state \in [identity : Somebody, by : Somebody, pending : SUBSET Item, error : {0, 401, 403, 500}]
  /\ {open, sent, confirmed} \subseteq SUBSET Item /\ confirmed \subseteq sent

\* What is shown as loaded is an inbox the server had at some time after the last refresh:
\* no answer to an earlier request comes over it.
NotificationsFresh ==
  canApprove(displayedUser) /\ ~isLoading /\ error = 0 => pending \in asOf

\* A step that was decided in this tab is not shown any more once the decision is confirmed
\* and the list is loaded again, although polls were on their way meanwhile.
DecidedStepsGone == visible /\ ~isLoading => pending \cap confirmed = {}

\* Once the session and the stored user agree and the tab has heard of it, the former user's
\* payments are gone at once, and every payment shown as loaded came with this session.
OwnPaymentsOnly ==
  storing = Quiet /\ cookie = stored /\ ~storageEvent /\ storedOverride # NotSet =>
    (pending # {} => /\ displayedUser = cookie /\ state.identity = cookie
                     /\ ~isLoading => state.by = cookie)

\* "No payments wait" and the number on the bell are told of a loaded inbox only, and a payment
\* with two open steps counts once.
PanelTruthful ==
  /\ PanelSays = "nothing waits" => {} \in asOf
  /\ count = Cardinality({i.payment : i \in pending}) \/ count = 0

\* What the bell and its panel say is true of the server as it was since the last refresh,
\* in whatever order answers, decisions and sign-ins of other tabs come.
BellTruthful == NotificationsTypeOK /\ NotificationsFresh /\ DecidedStepsGone /\ PanelTruthful

\* The tab can be seen, and its user is signed in and may approve.
Watched == visible /\ cookie = displayedUser /\ canApprove(cookie) /\ state.error \notin {401, 403}

\* The bell shows what the server has.
UpToDate == pending = Inbox(displayedUser, open)
=============================================================================
