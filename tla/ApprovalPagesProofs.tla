------------------------- MODULE ApprovalPagesProofs -------------------------
(***************************************************************************)
(* The approver's two views, for any users, steps, sessions, decisions and *)
(* locations: what the bell says is true and of its own user, what the     *)
(* inbox says is what was decided, and no decision is sent a second time   *)
(* before the inbox was loaded again.                                      *)
(***************************************************************************)
EXTENDS MCApprovals, FiniteSets, FiniteSetTheorems, SequenceTheorems, TLAPS

-----------------------------------------------------------------------------
(* The bell                                                                *)

State == [identity : Bell!Somebody, by : Bell!Somebody, pending : SUBSET Item,
          error : {0, 401, 403, 500}]

\* The users' inboxes, and NotificationsTypeOK one variable at a time.
BellTypeOK ==
  /\ sees \in [Bell!User -> SUBSET Item] /\ {Bell!Nobody, Bell!Quiet, Bell!NotSet} \cap Bell!User = {}
  /\ cookie \in Bell!Somebody /\ stored \in Bell!Somebody /\ prop \in Bell!Somebody
  /\ storing \in Bell!Somebody \cup {Bell!Quiet} /\ storedOverride \in Bell!Somebody \cup {Bell!NotSet}
  /\ storageEvent \in BOOLEAN /\ visible \in BOOLEAN /\ upToDate \in BOOLEAN
  /\ request \in Bell!Request /\ late \in Bell!Request
  /\ state \in State
  /\ open \subseteq Item /\ sent \subseteq Item /\ confirmed \subseteq sent

\* The cookie is that of the stored user or of the one who is about to be stored, or is gone.
SessionIsStored ==
  /\ storing # Bell!Quiet => cookie = storing
  /\ storing = Bell!Quiet => cookie \in {stored, Bell!Nobody}

\* The tab shows the stored user unless it is about to hear of a change.
OverrideIsStored == ~storageEvent /\ storedOverride # Bell!NotSet => storedOverride = stored

\* What was decided here is not open.
DecidedIsClosed == open \cap sent = {}

\* Whoever a request came from, the tab has not missed a change of the stored user since.
OfThisSession(u) == ~storageEvent => u \in {stored, Bell!Nobody, storing}

\* What the server had since the last refresh is what an answer to the request may hold.
RequestIsFresh ==
  /\ request # Bell!None => OfThisSession(request.as)
  /\ request.phase = "flying" => Bell!Inbox(request.as, open) \in asOf
  /\ request.phase = "answered" =>
       /\ request.as = Bell!Nobody => request.error # 200
       /\ request.error = 200 => Bell!uniquePayments(request.items) \in asOf
       /\ visible => request.items \cap confirmed = {}

OnePerPayment(items) == \A i, j \in items : i.payment = j.payment => i = j

\* What was loaded since the last refresh.
StateIsFresh ==
  /\ OnePerPayment(state.pending)
  /\ state.by = Bell!Nobody => state.pending = {}
  /\ upToDate =>
       /\ OfThisSession(state.by)
       /\ state.error = 0 => state.pending \in asOf
       /\ visible => state.pending \cap confirmed = {}

BellInv ==
  /\ BellTypeOK /\ SessionIsStored /\ OverrideIsStored /\ DecidedIsClosed
  /\ RequestIsFresh /\ StateIsFresh

\* A request is none, flying, or answered.
LEMMA RequestType ==
  ASSUME NEW r \in Bell!Request
  PROVE  /\ r # Bell!None => r.as \in Bell!Somebody /\ r.phase \in {"flying", "answered"}
         /\ r.phase = "answered" => r.items \subseteq Item /\ r.error \in {200, 401, 403}
         /\ r = Bell!None <=> r.phase = "none"
BY DEF Bell!Request, Bell!None, Bell!Flying

\* A payment has one first step.
LEMMA UniqueIsOnePerPayment ==
  ASSUME NEW items \in SUBSET Item
  PROVE  /\ Bell!uniquePayments(items) \subseteq items
         /\ OnePerPayment(Bell!uniquePayments(items))
<1>1. \A i, j \in items : i.step \in Nat /\ (i.payment = j.payment /\ i.step = j.step => i = j)
  BY BellParameters DEF Bell!NotificationAssumption
<1> QED BY <1>1 DEF Bell!uniquePayments, OnePerPayment

-----------------------------------------------------------------------------
\* A refresh keeps what is loaded, and its request comes from the present cookie.
LEMMA EffectAsks ==
  ASSUME BellTypeOK, NEW u, Bell!Effect(u)
  PROVE  /\ request' \in {Bell!None, Bell!Flying(cookie)}
         /\ request' \in Bell!Request /\ late' \in Bell!Request
<1>1. request' \in {Bell!None, Bell!Flying(cookie)}
  BY DEF Bell!Effect
<1>2. request' \in Bell!Request
  BY <1>1 DEF Bell!Request, BellTypeOK
<1>3. late' \in Bell!Request
  <2>1. CASE request.phase = "flying"
    <3>1. request.as \in Bell!Somebody
      BY <2>1, RequestType DEF BellTypeOK, Bell!None
    <3>2. Bell!Answered(request) \in [phase : {"answered"}, as : Bell!Somebody,
                                      error : {200, 401, 403}, items : SUBSET Item]
      BY <3>1 DEF Bell!Answered, BellTypeOK
    <3> QED BY <2>1, <3>2 DEF Bell!Effect, Bell!Request
  <2>2. CASE request.phase # "flying"
    BY <2>2 DEF Bell!Effect, BellTypeOK
  <2> QED BY <2>1, <2>2
<1> QED BY <1>1, <1>2, <1>3

\* After a refresh nothing is loaded, and what is asked for is as of now.
LEMMA RefreshIsFresh ==
  ASSUME BellTypeOK, SessionIsStored, StateIsFresh, NEW u, Bell!refresh(u),
         UNCHANGED <<cookie, stored, storing, sees, open>>
  PROVE  RequestIsFresh' /\ StateIsFresh'
<1>1. /\ request' \in {Bell!None, Bell!Flying(cookie)} /\ upToDate' = FALSE /\ state' = state
      /\ Bell!Inbox(cookie, open) \in asOf'
  BY EffectAsks DEF Bell!refresh
<1>2. cookie \in {stored, Bell!Nobody, storing}
  BY DEF SessionIsStored
<1>3. (Bell!Inbox(cookie, open))' = Bell!Inbox(cookie, open)
  BY DEF Bell!Inbox, Bell!uniquePayments
<1>4. RequestIsFresh'
  <2>1. CASE request' = Bell!None
    BY <2>1 DEF RequestIsFresh, Bell!None
  <2>2. CASE request' = Bell!Flying(cookie)
    <3>1. request'.phase = "flying" /\ request'.as = cookie'
      BY <2>2 DEF Bell!Flying
    <3> HIDE DEF Bell!Inbox
    <3>2. (Bell!Inbox(request.as, open))' \in asOf'
      BY <1>1, <1>3, <3>1
    <3> QED BY <1>2, <3>1, <3>2 DEF RequestIsFresh, OfThisSession
  <2> QED BY <1>1, <2>1, <2>2
<1>5. StateIsFresh'
  BY <1>1 DEF StateIsFresh, OnePerPayment
<1> QED BY <1>4, <1>5

\* The users of the company stay.
LEMMA SeesStay ==
  ASSUME [Bell!Next]_(Bell!vars)
  PROVE  sees' = sees /\ Bell!User' = Bell!User /\ Bell!Somebody' = Bell!Somebody
         /\ Bell!Request' = Bell!Request /\ State' = State
<1>1. sees' = sees
  BY DEF Bell!Next, Bell!vars, Bell!serverVars, Bell!Requests, Bell!ServerAnswers, Bell!AnswerArrives,
         Bell!RequestFails, Bell!LateAnswer, Bell!Poll, Bell!AskAgain, Bell!Hide, Bell!Show,
         Bell!OtherTabSession, Bell!OtherTabStores, Bell!SessionExpires, Bell!StorageEvent,
         Bell!PropArrives, Bell!Decisions, Bell!DecidedElsewhere, Bell!DecidedHere, Bell!DecisionConfirmed
<1>2. Bell!User' = Bell!User
  BY <1>1 DEF Bell!User
<1>3. Bell!Somebody' = Bell!Somebody
  BY <1>2 DEF Bell!Somebody
<1> QED BY <1>1, <1>2, <1>3 DEF Bell!Request, State

LEMMA BellTypesStay ==
  ASSUME BellTypeOK, [Bell!Next]_(Bell!vars)
  PROVE  BellTypeOK'
<1> USE DEF BellTypeOK
<1>0. /\ sees' = sees /\ Bell!User' = Bell!User /\ Bell!Somebody' = Bell!Somebody
      /\ Bell!Request' = Bell!Request /\ State' = State
  BY SeesStay
<1>1. CASE Bell!ServerAnswers
  <2>1. request'.phase = "answered" /\ request' \in Bell!Request
    <3>1. request.as \in Bell!Somebody
      BY <1>1, RequestType DEF Bell!ServerAnswers, Bell!None
    <3> QED BY <1>1, <3>1 DEF Bell!ServerAnswers, Bell!Answered, Bell!Request
  <2> QED BY <1>0, <1>1, <2>1 DEF Bell!ServerAnswers, Bell!browserVars, Bell!userVars, Bell!serverVars
<1>2. CASE Bell!AnswerArrives
  <2>1. request.as \in Bell!Somebody /\ request.items \subseteq Item /\ request.error \in {200, 401, 403}
    BY <1>2, RequestType DEF Bell!AnswerArrives, Bell!None
  <2>2. Bell!displayedUser \in Bell!Somebody
    BY DEF Bell!displayedUser, Bell!UserShown
  <2>3. Bell!uniquePayments(request.items) \subseteq Item
    BY <2>1, UniqueIsOnePerPayment
  <2>4. state' \in State
    BY <1>2, <2>1, <2>2, <2>3 DEF Bell!AnswerArrives, State
  <2>5. request' \in Bell!Request
    BY <1>2 DEF Bell!AnswerArrives, Bell!Request
  <2> QED BY <1>0, <1>2, <2>4, <2>5 DEF Bell!AnswerArrives, Bell!browserVars, Bell!userVars, Bell!serverVars
<1>3. CASE Bell!RequestFails
  <2>1. request.as \in Bell!Somebody
    BY <1>3, RequestType DEF Bell!RequestFails
  <2>2. Bell!displayedUser \in Bell!Somebody
    BY DEF Bell!displayedUser, Bell!UserShown
  <2>3. state' \in State
    BY <1>3, <2>1, <2>2 DEF Bell!RequestFails, State
  <2>4. request' \in Bell!Request
    BY <1>3 DEF Bell!RequestFails, Bell!Request
  <2> QED BY <1>0, <1>3, <2>3, <2>4 DEF Bell!RequestFails, Bell!browserVars, Bell!userVars, Bell!serverVars
<1>4. CASE Bell!LateAnswer
  <2>1. late' \in Bell!Request
    BY <1>4 DEF Bell!LateAnswer, Bell!Request
  <2> QED BY <1>0, <1>4, <2>1 DEF Bell!LateAnswer, Bell!browserVars, Bell!userVars, Bell!serverVars
<1>5. CASE Bell!Poll \/ Bell!AskAgain \/ Bell!Show \/ Bell!StorageEvent
  <2>1. PICK u \in {Bell!displayedUser, stored} : Bell!refresh(u)
    BY <1>5 DEF Bell!Poll, Bell!AskAgain, Bell!Show, Bell!StorageEvent, Bell!handleStoredUser
  <2>2. request' \in Bell!Request /\ late' \in Bell!Request /\ upToDate' = FALSE /\ state' = state
    BY <2>1, EffectAsks DEF Bell!refresh
  <2>3. visible' \in BOOLEAN /\ storageEvent' \in BOOLEAN
    BY <1>5 DEF Bell!Poll, Bell!AskAgain, Bell!Show, Bell!StorageEvent, Bell!browserVars
  <2>4. storedOverride' \in Bell!Somebody \cup {Bell!NotSet}
    BY <1>5 DEF Bell!Poll, Bell!AskAgain, Bell!Show, Bell!StorageEvent, Bell!handleStoredUser, Bell!userVars
  <2>5. UNCHANGED <<cookie, stored, storing, prop, open, sent, confirmed>>
    BY <1>5 DEF Bell!Poll, Bell!AskAgain, Bell!Show, Bell!StorageEvent, Bell!browserVars,
                Bell!userVars, Bell!serverVars
  <2> QED BY <1>0, <2>2, <2>3, <2>4, <2>5
<1>6. CASE Bell!Hide
  BY <1>0, <1>6 DEF Bell!Hide, Bell!userVars, Bell!hookVars, Bell!serverVars
<1>7. CASE Bell!OtherTabSession
  <2>1. cookie' \in Bell!Somebody /\ storing' \in Bell!Somebody
    BY <1>7 DEF Bell!OtherTabSession, Bell!Somebody
  <2> QED BY <1>0, <1>7, <2>1 DEF Bell!OtherTabSession, Bell!userVars, Bell!hookVars, Bell!serverVars
<1>8. CASE Bell!OtherTabStores
  <2>1. stored' \in Bell!Somebody /\ storing' = Bell!Quiet
    BY <1>8 DEF Bell!OtherTabStores
  <2>2. storageEvent' \in BOOLEAN
    BY <1>8 DEF Bell!OtherTabStores
  <2> QED BY <1>0, <1>8, <2>1, <2>2 DEF Bell!OtherTabStores, Bell!userVars, Bell!hookVars, Bell!serverVars
<1>9. CASE Bell!SessionExpires
  <2>1. cookie' \in Bell!Somebody
    BY <1>9 DEF Bell!SessionExpires, Bell!Somebody
  <2> QED BY <1>0, <1>9, <2>1 DEF Bell!SessionExpires, Bell!userVars, Bell!hookVars, Bell!serverVars
<1>10. CASE Bell!PropArrives
  <2>1. request' \in Bell!Request /\ late' \in Bell!Request
    BY <1>10, EffectAsks DEF Bell!PropArrives
  <2> QED BY <1>0, <1>10, <2>1 DEF Bell!PropArrives, Bell!browserVars, Bell!serverVars
<1>11. CASE Bell!Decisions
  <2>1. open' \subseteq Item /\ sent' \subseteq Item /\ confirmed' \subseteq sent'
    BY <1>11 DEF Bell!Decisions, Bell!DecidedElsewhere, Bell!DecidedHere, Bell!Decided
  <2>2. UNCHANGED <<Bell!browserVars, Bell!userVars, Bell!hookVars>>
    BY <1>11 DEF Bell!Decisions, Bell!DecidedElsewhere, Bell!DecidedHere
  <2> QED BY <1>0, <2>1, <2>2 DEF Bell!browserVars, Bell!userVars, Bell!hookVars
<1>12. CASE Bell!DecisionConfirmed
  <2>1. request' \in Bell!Request /\ late' \in Bell!Request /\ upToDate' \in BOOLEAN /\ state' = state
    BY <1>12, EffectAsks DEF Bell!DecisionConfirmed, Bell!notifyApprovalsUpdated, Bell!refreshVisible,
                             Bell!refresh, Bell!hookVars
  <2> QED BY <1>0, <1>12, <2>1 DEF Bell!DecisionConfirmed, Bell!browserVars, Bell!userVars
<1>13. CASE UNCHANGED Bell!vars
  BY <1>0, <1>13 DEF Bell!vars, Bell!browserVars, Bell!userVars, Bell!hookVars, Bell!serverVars
<1> QED BY <1>1, <1>2, <1>3, <1>4, <1>5, <1>6, <1>7, <1>8, <1>9, <1>10, <1>11, <1>12, <1>13
        DEF Bell!Next, Bell!Requests

\* What a sign-in of another tab stores is what its cookie says, and the tab hears of it.
LEMMA SessionsStay ==
  ASSUME BellTypeOK, SessionIsStored, OverrideIsStored, [Bell!Next]_(Bell!vars)
  PROVE  SessionIsStored' /\ OverrideIsStored'
<1> USE DEF SessionIsStored, OverrideIsStored
<1>1. CASE UNCHANGED <<cookie, stored, storing, storageEvent, storedOverride>>
  BY <1>1
<1>2. CASE Bell!OtherTabSession
  <2>1. cookie' = storing' /\ storing' # Bell!Quiet
    BY <1>2 DEF Bell!OtherTabSession, BellTypeOK, Bell!Quiet, Bell!Nobody
  <2> QED BY <1>2, <2>1 DEF Bell!OtherTabSession, Bell!userVars
<1>3. CASE Bell!OtherTabStores
  BY <1>3 DEF Bell!OtherTabStores, Bell!userVars
<1>4. CASE Bell!SessionExpires
  BY <1>4 DEF Bell!SessionExpires, Bell!userVars
<1>5. CASE Bell!StorageEvent
  BY <1>5 DEF Bell!StorageEvent, Bell!handleStoredUser
<1>6. CASE \/ Bell!Requests \/ Bell!LateAnswer \/ Bell!Poll \/ Bell!AskAgain \/ Bell!Hide \/ Bell!Show
           \/ Bell!PropArrives \/ Bell!Decisions \/ Bell!DecisionConfirmed \/ UNCHANGED Bell!vars
  <2>1. UNCHANGED <<cookie, stored, storing, storageEvent, storedOverride>>
    BY <1>6 DEF Bell!Requests, Bell!ServerAnswers, Bell!AnswerArrives, Bell!RequestFails, Bell!LateAnswer,
                Bell!Poll, Bell!AskAgain, Bell!Hide, Bell!Show, Bell!PropArrives, Bell!Decisions,
                Bell!DecidedElsewhere, Bell!DecidedHere, Bell!DecisionConfirmed, Bell!vars,
                Bell!browserVars, Bell!userVars
  <2> QED BY <1>1, <2>1
<1> QED BY <1>2, <1>3, <1>4, <1>5, <1>6 DEF Bell!Next

LEMMA DecisionsStayClosed ==
  ASSUME BellTypeOK, DecidedIsClosed, [Bell!Next]_(Bell!vars)
  PROVE  DecidedIsClosed'
<1> USE DEF DecidedIsClosed
<1>1. CASE Bell!Decisions
  BY <1>1 DEF Bell!Decisions, Bell!DecidedElsewhere, Bell!DecidedHere, Bell!Decided
<1>2. CASE ~Bell!Decisions
  <2>1. UNCHANGED <<open, sent>>
    BY <1>2 DEF Bell!Next, Bell!vars, Bell!serverVars, Bell!Requests, Bell!ServerAnswers,
         Bell!AnswerArrives, Bell!RequestFails, Bell!LateAnswer, Bell!Poll, Bell!AskAgain, Bell!Hide,
         Bell!Show, Bell!OtherTabSession, Bell!OtherTabStores, Bell!SessionExpires, Bell!StorageEvent,
         Bell!PropArrives, Bell!DecisionConfirmed
  <2> QED BY <2>1
<1> QED BY <1>1, <1>2

\* A request or a list that came with this session still does after another tab's sign-in.
LEMMA SessionOfRequestStays ==
  ASSUME BellTypeOK, Bell!OtherTabSession \/ Bell!OtherTabStores \/ Bell!SessionExpires,
         NEW u \in Bell!Somebody, OfThisSession(u)
  PROVE  OfThisSession(u)'
<1>1. u # Bell!Quiet
  BY DEF BellTypeOK, Bell!Somebody, Bell!Quiet, Bell!Nobody
<1>2. CASE Bell!OtherTabSession
  BY <1>1, <1>2 DEF Bell!OtherTabSession, OfThisSession
<1>3. CASE Bell!OtherTabStores
  BY <1>1, <1>3 DEF Bell!OtherTabStores, OfThisSession
<1>4. CASE Bell!SessionExpires
  BY <1>1, <1>4 DEF Bell!SessionExpires, OfThisSession
<1> QED BY <1>2, <1>3, <1>4

LEMMA BellStaysFresh ==
  ASSUME BellInv, [Bell!Next]_(Bell!vars)
  PROVE  RequestIsFresh' /\ StateIsFresh'
<1>0. BellTypeOK /\ SessionIsStored /\ DecidedIsClosed /\ RequestIsFresh /\ StateIsFresh /\ sees' = sees
  BY SeesStay DEF BellInv
<1> HIDE DEF Bell!Inbox
<1>1. CASE Bell!ServerAnswers
  <2>1. UNCHANGED <<stored, storing, storageEvent, visible, state, upToDate, open, confirmed, asOf>>
    BY <1>1 DEF Bell!ServerAnswers, Bell!browserVars, Bell!serverVars
  <2>2. StateIsFresh'
    BY <1>0, <2>1 DEF StateIsFresh, OfThisSession, OnePerPayment
  <2>3. request.phase = "flying" /\ request' = Bell!Answered(request) /\ request.as \in Bell!Somebody
    BY <1>0, <1>1, RequestType DEF Bell!ServerAnswers, BellTypeOK, Bell!None
  <2>4. /\ request'.phase = "answered" /\ request'.as = request.as
        /\ request.as = Bell!Nobody => request'.error # 200 /\ request'.items = {}
        /\ request.as # Bell!Nobody => request'.items = open \cap sees[request.as]
    BY <2>3 DEF Bell!Answered
  <2>5. OfThisSession(request.as)'
    BY <1>0, <2>1, <2>3, <2>4 DEF RequestIsFresh, OfThisSession, Bell!None
  <2>6. request'.error = 200 => Bell!uniquePayments(request'.items) \in asOf'
    BY <1>0, <2>1, <2>3, <2>4 DEF RequestIsFresh, Bell!Inbox
  <2>7. request'.items \cap confirmed' = {}
    BY <1>0, <2>1, <2>4 DEF DecidedIsClosed, BellTypeOK
  <2> QED BY <2>2, <2>4, <2>5, <2>6, <2>7 DEF RequestIsFresh, OfThisSession
<1>2. CASE Bell!AnswerArrives
  <2>1. UNCHANGED <<stored, storing, storageEvent, visible, confirmed, asOf>>
    BY <1>2 DEF Bell!AnswerArrives, Bell!browserVars, Bell!serverVars
  <2>2. request' = Bell!None
    BY <1>2 DEF Bell!AnswerArrives
  <2>3. RequestIsFresh'
    BY <2>2 DEF RequestIsFresh, Bell!None
  <2>4. request.phase = "answered" /\ request # Bell!None /\ request.items \subseteq Item
    BY <1>0, <1>2, RequestType DEF Bell!AnswerArrives, BellTypeOK, Bell!None
  <2>5. /\ state'.by = request.as
        /\ state'.pending \in {Bell!uniquePayments(request.items), {}}
        /\ request.error = 200 => state'.pending = Bell!uniquePayments(request.items)
        /\ request.error # 200 => state'.pending = {} /\ state'.error = request.error
    BY <1>2 DEF Bell!AnswerArrives
  <2>6. state'.pending \subseteq request.items /\ OnePerPayment(state'.pending)
    BY <2>4, <2>5, UniqueIsOnePerPayment DEF OnePerPayment
  <2>7. state'.by = Bell!Nobody => state'.pending = {}
    BY <1>0, <2>4, <2>5 DEF RequestIsFresh
  <2>8. OfThisSession(state.by)'
    BY <1>0, <2>1, <2>4, <2>5 DEF RequestIsFresh, OfThisSession
  <2>9. state'.error = 0 => state'.pending \in asOf'
    <3>1. request.error \in {200, 401, 403}
      BY <1>0, <2>4, RequestType DEF BellTypeOK
    <3> QED BY <1>0, <2>1, <2>4, <2>5, <3>1 DEF RequestIsFresh
  <2>10. visible' => state'.pending \cap confirmed' = {}
    BY <1>0, <2>1, <2>4, <2>6 DEF RequestIsFresh
  <2> QED BY <2>3, <2>6, <2>7, <2>8, <2>9, <2>10 DEF StateIsFresh, OfThisSession, OnePerPayment
<1>3. CASE Bell!RequestFails
  <2>1. UNCHANGED <<stored, storing, storageEvent>> /\ request' = Bell!None /\ request # Bell!None
        /\ state'.pending = {} /\ state'.by = request.as /\ state'.error = 500
    BY <1>3 DEF Bell!RequestFails, Bell!browserVars
  <2>2. RequestIsFresh'
    BY <2>1 DEF RequestIsFresh, Bell!None
  <2>3. StateIsFresh'
    BY <1>0, <2>1 DEF StateIsFresh, RequestIsFresh, OfThisSession, OnePerPayment
  <2> QED BY <2>2, <2>3
<1>4. CASE Bell!Poll \/ Bell!AskAgain \/ Bell!Show \/ Bell!StorageEvent
  <2>1. PICK u \in {Bell!displayedUser, stored} : Bell!refresh(u)
    BY <1>4 DEF Bell!Poll, Bell!AskAgain, Bell!Show, Bell!StorageEvent, Bell!handleStoredUser
  <2>2. UNCHANGED <<cookie, stored, storing, sees, open>>
    BY <1>4 DEF Bell!Poll, Bell!AskAgain, Bell!Show, Bell!StorageEvent, Bell!browserVars, Bell!serverVars
  <2> QED BY <1>0, <2>1, <2>2, RefreshIsFresh
<1>5. CASE Bell!LateAnswer \/ Bell!Hide \/ UNCHANGED Bell!vars
  <2>1. UNCHANGED <<stored, storing, storageEvent, request, state, upToDate, open, confirmed, asOf>>
        /\ (visible' => visible)
    BY <1>5 DEF Bell!LateAnswer, Bell!Hide, Bell!vars, Bell!browserVars, Bell!hookVars, Bell!serverVars
  <2>2. (Bell!Inbox(request.as, open))' = Bell!Inbox(request.as, open)
    BY <1>0, <2>1 DEF Bell!Inbox, Bell!uniquePayments
  <2>3. RequestIsFresh'
    BY <1>0, <2>1, <2>2 DEF RequestIsFresh, OfThisSession, Bell!uniquePayments
  <2>4. StateIsFresh'
    BY <1>0, <2>1 DEF StateIsFresh, OfThisSession, OnePerPayment
  <2> QED BY <2>3, <2>4
<1>6. CASE Bell!OtherTabSession \/ Bell!OtherTabStores \/ Bell!SessionExpires
  <2>1. UNCHANGED <<visible, request, state, upToDate, open, confirmed, asOf>>
    BY <1>6 DEF Bell!OtherTabSession, Bell!OtherTabStores, Bell!SessionExpires, Bell!hookVars, Bell!serverVars
  <2>2. (Bell!Inbox(request.as, open))' = Bell!Inbox(request.as, open)
    BY <1>0, <2>1 DEF Bell!Inbox, Bell!uniquePayments
  <2>3. request # Bell!None => OfThisSession(request.as)'
    <3>1. request # Bell!None => request.as \in Bell!Somebody
      BY <1>0, RequestType DEF BellTypeOK
    <3> QED BY <1>0, <1>6, <3>1, SessionOfRequestStays, <2>1 DEF RequestIsFresh, OfThisSession
  <2>4. upToDate => OfThisSession(state.by)'
    <3>1. state.by \in Bell!Somebody
      BY <1>0 DEF BellTypeOK, State
    <3> QED BY <1>0, <1>6, <3>1, SessionOfRequestStays, <2>1 DEF StateIsFresh, OfThisSession
  <2>5. RequestIsFresh'
    BY <1>0, <2>1, <2>2, <2>3 DEF RequestIsFresh, Bell!uniquePayments
  <2>6. StateIsFresh'
    BY <1>0, <2>1, <2>4 DEF StateIsFresh, OnePerPayment
  <2> QED BY <2>5, <2>6
<1>7. CASE Bell!PropArrives
  <2>1. /\ UNCHANGED <<cookie, stored, storing, storageEvent, visible, state, upToDate, open, confirmed>>
        /\ asOf' = asOf \cup {Bell!Inbox(cookie, open)}
    BY <1>7 DEF Bell!PropArrives, Bell!browserVars, Bell!serverVars
  <2>2. StateIsFresh'
    BY <1>0, <2>1 DEF StateIsFresh, OfThisSession, OnePerPayment
  <2>3. request' \in {request, Bell!None, Bell!Flying(cookie)}
    BY <1>0, <1>7, EffectAsks DEF Bell!PropArrives
  <2>4. CASE request' = request
    <3>1. (Bell!Inbox(request.as, open))' = Bell!Inbox(request.as, open)
      BY <1>0, <2>1, <2>4 DEF Bell!Inbox, Bell!uniquePayments
    <3>2. RequestIsFresh'
      BY <1>0, <2>1, <2>4, <3>1 DEF RequestIsFresh, OfThisSession, Bell!uniquePayments
    <3> QED BY <2>2, <3>2
  <2>5. CASE request' = Bell!None
    BY <2>2, <2>5 DEF RequestIsFresh, Bell!None
  <2>6. CASE request' = Bell!Flying(cookie)
    <3>1. request'.phase = "flying" /\ request'.as = cookie
      BY <2>6 DEF Bell!Flying
    <3>2. (Bell!Inbox(request.as, open))' = Bell!Inbox(cookie, open)
      BY <1>0, <2>1, <3>1 DEF Bell!Inbox, Bell!uniquePayments
    <3>3. OfThisSession(request.as)'
      BY <1>0, <2>1, <3>1 DEF SessionIsStored, OfThisSession
    <3>4. RequestIsFresh'
      BY <2>1, <3>1, <3>2, <3>3 DEF RequestIsFresh
    <3> QED BY <2>2, <3>4
  <2> QED BY <2>3, <2>4, <2>5, <2>6
<1>8. CASE Bell!Decisions
  <2>1. /\ UNCHANGED <<stored, storing, storageEvent, visible, request, state, upToDate, confirmed>>
        /\ asOf \subseteq asOf' /\ (request # Bell!None => Bell!Inbox(request.as, open') \in asOf')
    BY <1>8 DEF Bell!Decisions, Bell!DecidedElsewhere, Bell!DecidedHere, Bell!Decided,
                Bell!browserVars, Bell!hookVars
  <2>2. (Bell!Inbox(request.as, open))' = Bell!Inbox(request.as, open')
    BY <1>0, <2>1 DEF Bell!Inbox, Bell!uniquePayments
  <2>3. RequestIsFresh'
    <3>1. request'.phase = "flying" => (Bell!Inbox(request.as, open))' \in asOf'
      BY <2>1, <2>2 DEF Bell!None
    <3> QED BY <1>0, <2>1, <3>1 DEF RequestIsFresh, OfThisSession, Bell!uniquePayments
  <2>4. StateIsFresh'
    BY <1>0, <2>1 DEF StateIsFresh, OfThisSession, OnePerPayment
  <2> QED BY <2>3, <2>4
<1>9. CASE Bell!DecisionConfirmed
  <2>1. UNCHANGED <<cookie, stored, storing, storageEvent, visible, sees, open>>
    BY <1>0, <1>9 DEF Bell!DecisionConfirmed, Bell!browserVars
  <2>2. CASE visible
    <3>1. Bell!refresh(Bell!displayedUser)
      BY <1>9, <2>2 DEF Bell!DecisionConfirmed, Bell!notifyApprovalsUpdated, Bell!refreshVisible
    <3> QED BY <1>0, <2>1, <3>1, RefreshIsFresh
  <2>3. CASE ~visible
    <3>1. UNCHANGED <<request, state, upToDate, asOf>>
      BY <1>9, <2>3 DEF Bell!DecisionConfirmed, Bell!notifyApprovalsUpdated, Bell!refreshVisible, Bell!hookVars
    <3>2. (Bell!Inbox(request.as, open))' = Bell!Inbox(request.as, open)
      BY <2>1, <3>1 DEF Bell!Inbox, Bell!uniquePayments
    <3>3. RequestIsFresh'
      BY <1>0, <2>1, <2>3, <3>1, <3>2 DEF RequestIsFresh, OfThisSession, Bell!uniquePayments
    <3>4. StateIsFresh'
      BY <1>0, <2>1, <2>3, <3>1 DEF StateIsFresh, OfThisSession, OnePerPayment
    <3> QED BY <3>3, <3>4
  <2> QED BY <2>2, <2>3
<1> QED BY <1>1, <1>2, <1>3, <1>4, <1>5, <1>6, <1>7, <1>8, <1>9 DEF Bell!Next, Bell!Requests

LEMMA BellStep ==
  ASSUME BellInv, [Bell!Next]_(Bell!vars)
  PROVE  BellInv'
<1>1. BellTypeOK /\ SessionIsStored /\ OverrideIsStored /\ DecidedIsClosed
  BY DEF BellInv
<1>2. BellTypeOK'
  BY <1>1, BellTypesStay
<1>3. SessionIsStored' /\ OverrideIsStored'
  BY <1>1, SessionsStay
<1>4. DecidedIsClosed'
  BY <1>1, DecisionsStayClosed
<1>5. RequestIsFresh' /\ StateIsFresh'
  BY BellStaysFresh
<1> QED BY <1>2, <1>3, <1>4, <1>5 DEF BellInv

LEMMA BellInitially ==
  ASSUME Bell!Init
  PROVE  BellInv
<1>1. PICK b \in Beginnings : sees = b.sees /\ prop = b.prop
  BY DEF Bell!Init
<1>2. /\ sees \in [Bell!User -> SUBSET Item] /\ {Bell!Nobody, Bell!Quiet, Bell!NotSet} \cap Bell!User = {}
      /\ SignedIn \in Bell!User /\ prop \in {SignedIn, Bell!Nobody}
  BY <1>1, BellParameters DEF Bell!NotificationAssumption, Bell!User
<1>3. cookie = SignedIn /\ stored = SignedIn /\ storing = Bell!Quiet /\ storageEvent = FALSE
  BY DEF Bell!Init
<1>4. /\ open \subseteq Item /\ sent = {} /\ confirmed = {} /\ upToDate = FALSE
      /\ asOf = {Bell!Inbox(cookie, open)} /\ visible = TRUE /\ storedOverride = Bell!NotSet
  BY <1>2 DEF Bell!Init
<1>5. state = [identity |-> Bell!Nobody, by |-> Bell!Nobody, pending |-> {}, error |-> 0]
  BY DEF Bell!Init
<1>6. request \in {Bell!None, Bell!Flying(cookie)} /\ late = Bell!None
  BY DEF Bell!Init
<1>7. {cookie, stored, prop} \subseteq Bell!Somebody
  BY <1>2, <1>3 DEF Bell!Somebody
<1>8. BellTypeOK
  <2>1. request \in Bell!Request /\ late \in Bell!Request
    BY <1>6, <1>7 DEF Bell!Request
  <2>2. state \in State
    BY <1>5 DEF State, Bell!Somebody
  <2> QED BY <1>2, <1>3, <1>4, <1>7, <2>1, <2>2 DEF BellTypeOK
<1>9. SessionIsStored /\ OverrideIsStored /\ DecidedIsClosed
  BY <1>3, <1>4 DEF SessionIsStored, OverrideIsStored, DecidedIsClosed
<1>10. RequestIsFresh
  BY <1>3, <1>4, <1>6 DEF RequestIsFresh, OfThisSession, Bell!None, Bell!Flying
<1>11. StateIsFresh
  BY <1>4, <1>5 DEF StateIsFresh, OnePerPayment
<1> QED BY <1>8, <1>9, <1>10, <1>11 DEF BellInv

\* The bell moves by its own steps, or not at all.
LEMMA PagesStepBell ==
  ASSUME [Next]_vars
  PROVE  [Bell!Next]_(Bell!vars)
BY DEF Next, vars, InBell, InInbox, bellVars, Bell!vars, Bell!browserVars, Bell!userVars,
       Bell!hookVars, Bell!serverVars

LEMMA BellAlways == Spec => []BellInv
<1>1. Init => BellInv
  BY BellInitially DEF Init
<1>2. BellInv /\ [Next]_vars => BellInv'
  BY BellStep, PagesStepBell
<1> QED BY <1>1, <1>2, PTL DEF Spec

LEMMA SameCardinality ==
  ASSUME NEW S
  PROVE  Bell!Cardinality(S) = Cardinality(S)
BY DEF Bell!Cardinality, Cardinality

\* As many payments as items, as each payment is listed once.
LEMMA PaymentsCounted ==
  ASSUME NEW items \in SUBSET Item, OnePerPayment(items)
  PROVE  Cardinality({i.payment : i \in items}) = Cardinality(items)
<1> DEFINE payments == {i.payment : i \in items}
           f == [i \in items |-> i.payment]
<1>1. IsFiniteSet(items)
  <2>1. IsFiniteSet(Item)
    BY BellParameters DEF Bell!NotificationAssumption, Bell!IsFiniteSet, IsFiniteSet
  <2> QED BY <2>1, FS_Subset
<1>2. f \in Bijection(items, payments)
  <2>1. f \in [items -> payments]
    OBVIOUS
  <2>2. \A i, j \in items : f[i] = f[j] => i = j
    BY DEF OnePerPayment
  <2>3. \A p \in payments : \E i \in items : f[i] = p
    OBVIOUS
  <2> HIDE DEF f, payments
  <2> QED BY <2>1, <2>2, <2>3 DEF Bijection, Injection, Surjection, IsInjective
<1>3. ExistsBijection(items, payments)
  BY <1>2 DEF ExistsBijection
<1> QED BY <1>1, <1>3, FS_Bijection

LEMMA BellInvSays == BellInv => Bell!BellTruthful
<1>1. SUFFICES ASSUME BellInv PROVE Bell!BellTruthful
  OBVIOUS
<1>2. BellTypeOK /\ StateIsFresh
  BY <1>1 DEF BellInv
<1>3. Bell!NotificationsTypeOK
  BY <1>2 DEF Bell!NotificationsTypeOK, BellTypeOK, State
<1>4. Bell!NotificationsFresh
  BY <1>2 DEF Bell!NotificationsFresh, Bell!isLoading, Bell!error, Bell!pending, Bell!isCurrent, StateIsFresh
<1>5. Bell!DecidedStepsGone
  BY <1>2 DEF Bell!DecidedStepsGone, Bell!isLoading, Bell!pending, Bell!isCurrent, StateIsFresh
<1>6. Bell!PanelTruthful
  <2>1. Bell!PanelSays = "nothing waits" => {} \in asOf
    <3>1. Bell!PanelSays = "nothing waits" =>
            Bell!canApprove(Bell!displayedUser) /\ ~Bell!isLoading /\ Bell!error = 0 /\ Bell!pending = {}
      BY DEF Bell!PanelSays
    <3> QED BY <1>4, <3>1 DEF Bell!NotificationsFresh
  <2>2. Bell!pending \in SUBSET Item /\ OnePerPayment(Bell!pending)
    BY <1>2 DEF Bell!pending, BellTypeOK, State, StateIsFresh, OnePerPayment
  <2>3. Bell!count = Bell!Cardinality(Bell!pending) \/ Bell!count = 0
    BY DEF Bell!count
  <2>4. Bell!Cardinality({i.payment : i \in Bell!pending}) = Bell!Cardinality(Bell!pending)
    BY <2>2, SameCardinality, PaymentsCounted
  <2> QED BY <2>1, <2>3, <2>4 DEF Bell!PanelTruthful
<1> QED BY <1>3, <1>4, <1>5, <1>6 DEF Bell!BellTruthful

\* For any users, steps and sessions of other tabs, what the bell and its panel say is true of the
\* server as it was since the last refresh, and never of a step whose decision in this tab was
\* confirmed before, in whatever order answers, failures and decisions come (the effects of
\* useApprovalNotifications).
THEOREM BellIsTrue == Spec => []BellTruthful
<1>1. BellInv => BellTruthful
  BY BellInvSays DEF BellTruthful
<1> QED BY <1>1, BellAlways, PTL

\* Once the tab has heard of the present session, it shows the payments of its user only, and
\* they came with that session's cookie (handleStoredUser and the identity of the state).
THEOREM OnlyOwnPayments == Spec => []OwnPaymentsOnly
<1>1. BellInv => OwnPaymentsOnly
  <2>1. SUFFICES ASSUME BellInv, storing = Bell!Quiet, cookie = stored, ~storageEvent,
                        storedOverride # Bell!NotSet, Bell!pending # {}
                 PROVE  /\ Bell!displayedUser = cookie /\ state.identity = cookie
                        /\ ~Bell!isLoading => state.by = cookie
    BY DEF OwnPaymentsOnly, Bell!OwnPaymentsOnly
  <2>2. BellTypeOK /\ OverrideIsStored /\ StateIsFresh
    BY <2>1 DEF BellInv
  <2>3. Bell!displayedUser = cookie
    BY <2>1, <2>2 DEF OverrideIsStored, Bell!displayedUser, Bell!UserShown
  <2>4. Bell!isCurrent /\ Bell!pending = state.pending /\ state.pending # {}
    BY <2>1 DEF Bell!pending
  <2>5. state.identity = cookie
    BY <2>3, <2>4 DEF Bell!isCurrent, Bell!SameIdentity
  <2>6. ~Bell!isLoading => state.by = cookie
    <3>1. ~Bell!isLoading => upToDate
      BY <2>4 DEF Bell!isLoading, Bell!isCurrent
    <3>2. state.by # Bell!Quiet /\ state.by # Bell!Nobody
      BY <2>2, <2>4 DEF BellTypeOK, State, StateIsFresh, Bell!Somebody, Bell!Quiet, Bell!Nobody
    <3> QED BY <2>1, <2>2, <3>1, <3>2 DEF StateIsFresh, OfThisSession
  <2> QED BY <2>3, <2>5, <2>6
<1> QED BY <1>1, BellAlways, PTL

-----------------------------------------------------------------------------
(* The inbox                                                               *)

Statuses  == [Step -> {"pending", "approved", "rejected", "cancelled"}]
PaidState == {"unknown", "pending_approval", "rejected", "completed"}
Decision  == [step : Step, action : Inbox!Actions, code : {0, 200, 400, 401, 409}, paid : PaidState,
              phase : {"flying", "answered", "saved", "refused", "lost"}]
Receipt   == {Inbox!NoReceipt} \cup [step : Step, action : Inbox!Actions, paid : PaidState]
Load      == {Inbox!Idle} \cup [phase : {"flying"}, unsure : SUBSET Step]
               \cup [phase : {"answered"}, status : Statuses, unsure : SUBSET Step]

\* InboxTypeOK, one variable at a time, the requests and the receipt.
InboxTypes ==
  /\ newest \in 1..Locations /\ context \in 1..newest /\ selectionQuery \in 1..newest
  /\ pending \in {Null} \cup SUBSET Step /\ recentlyHandled \in {Null} \cup SUBSET Step
  /\ selectedStepId \in Step \cup {Inbox!NoStep} /\ selectedHistory \in Step \cup {Inbox!NoStep}
  /\ error \in {0, 401, 500} /\ decisionError \in {-1, 0, 400, 401, 409}
  /\ requestInFlight \in 0..Len(decisions) /\ unsure \in SUBSET Step
  /\ status \in Statuses /\ receipt \in Receipt /\ load \in Load /\ decisions \in Seq(Decision)
  /\ backAndForward \in BOOLEAN

\* A decision that is waited for is about the step whose dialog is shown, without an error.
DecisionIsShown ==
  requestInFlight # 0 =>
    /\ decisionError = 0 /\ Inbox!selectedApproval # Inbox!NoStep
    /\ decisions[requestInFlight].step = Inbox!selectedApproval

\* The step was decided so, and a payment that was over is what it was said to be.
Truthful(d) ==
  /\ status[d.step] = d.action
  /\ d.paid # "pending_approval" => d.paid = Inbox!paymentStatus(status, PaymentOf[d.step])

\* What the server confirmed stays so.
ConfirmedIsTrue ==
  /\ \A n \in DOMAIN decisions : decisions[n].code = 200 => Truthful(decisions[n])
  /\ receipt # Inbox!NoReceipt => Truthful(receipt)

\* A saved decision was made, and no list that is shown or on its way was made before it.
SavedIsListed ==
  \A n \in DOMAIN decisions : decisions[n].phase = "saved" =>
    /\ status[decisions[n].step] # "pending"
    /\ load.phase = "answered" => load.status[decisions[n].step] # "pending"
    /\ pending # Null => decisions[n].step \notin pending

\* Without the browser's history: no dialog is shown while a list is on its way, which will tell
\* of all steps with an unknown outcome; afterwards there is one such step at most, whose dialog
\* asks for a new list, or the page shows an error.
UnsureIsHidden ==
  ~backAndForward =>
    /\ context = newest
    /\ load # Inbox!Idle =>
         /\ selectionQuery # context \/ pending = Null
         /\ unsure \subseteq load.unsure
    /\ load = Inbox!Idle =>
         \A s \in unsure : \/ s = Inbox!selectedApproval /\ Inbox!needsRefresh
                           \/ error # 0 /\ Inbox!selectedApproval = Inbox!NoStep

InboxInv ==
  /\ InboxTypes /\ DecisionIsShown /\ ConfirmedIsTrue /\ SavedIsListed /\ UnsureIsHidden
-----------------------------------------------------------------------------
\* What the server keeps when a step is decided.
LEMMA DecideKeeps ==
  ASSUME status \in Statuses, NEW s \in Step, NEW a \in Inbox!Actions,
         status[s] = "pending", status' = Inbox!Decide(s, a)
  PROVE  /\ status' \in Statuses /\ status'[s] = a
         /\ \A t \in Step : status[t] # "pending" => status'[t] = status[t]
<1> USE DEF Statuses, Inbox!Actions
<1>1. status' \in Statuses
  BY DEF Inbox!Decide
<1>2. status'[s] = a
  BY DEF Inbox!Decide
<1>3. \A t \in Step : status[t] # "pending" => status'[t] = status[t]
  BY DEF Inbox!Decide
<1> QED BY <1>1, <1>2, <1>3

\* A payment that is over stays so.
LEMMA PaidStays ==
  ASSUME status \in Statuses, status' \in Statuses, NEW p,
         \A t \in Step : status[t] # "pending" => status'[t] = status[t]
  PROVE  Inbox!paymentStatus(status, p) # "pending_approval" =>
           (Inbox!paymentStatus(status, p))' = Inbox!paymentStatus(status, p)
<1>1. CASE \E s \in Step : PaymentOf[s] = p /\ status[s] = "rejected"
  <2>1. \E s \in Step : PaymentOf[s] = p /\ status'[s] = "rejected"
    BY <1>1
  <2> QED BY <1>1, <2>1 DEF Inbox!paymentStatus
<1>2. CASE \A s \in Step : PaymentOf[s] = p => status[s] \notin {"pending", "rejected"}
  <2>1. \A s \in Step : PaymentOf[s] = p => status'[s] \notin {"pending", "rejected"}
    BY <1>2
  <2> QED BY <1>2, <2>1 DEF Inbox!paymentStatus
<1>3. CASE /\ ~\E s \in Step : PaymentOf[s] = p /\ status[s] = "rejected"
           /\ \E s \in Step : PaymentOf[s] = p /\ status[s] = "pending"
  BY <1>3 DEF Inbox!paymentStatus
<1> QED BY <1>1, <1>2, <1>3

\* What was truly said of a decision stays true.
LEMMA TruthStays ==
  ASSUME status \in Statuses, status' \in Statuses, NEW d, d.step \in Step, d.action \in Inbox!Actions,
         \A t \in Step : status[t] # "pending" => status'[t] = status[t], Truthful(d)
  PROVE  Truthful(d)'
<1>1. status'[d.step] = d.action
  BY DEF Truthful, Inbox!Actions
<1>2. d.paid # "pending_approval" => d.paid = (Inbox!paymentStatus(status, PaymentOf[d.step]))'
  BY PaidStays DEF Truthful
<1> QED BY <1>1, <1>2 DEF Truthful

\* The dialog that is shown is that of the selected step in the list of this location.
LEMMA SelectedType ==
  ASSUME InboxTypes
  PROVE  /\ Inbox!selectedApproval \in Step \cup {Inbox!NoStep}
         /\ Inbox!selectedApproval # Inbox!NoStep =>
              /\ selectionQuery = context /\ pending # Null
              /\ Inbox!selectedApproval = selectedStepId /\ selectedStepId \in pending
BY DEF InboxTypes, Inbox!selectedApproval, Inbox!SelectedIn

LEMMA InboxParametersTyped ==
  /\ Inbox!NoStep \notin Step /\ Null \notin SUBSET Step /\ Locations \in Nat \ {0}
  /\ PaymentOf \in [Step -> Payment]
BY InboxParameters DEF Inbox!InboxAssumption

\* Decision n is now d, and the others are as they were.
NowIs(n, d) ==
  /\ decisions' \in Seq(Decision) /\ Len(decisions') = Len(decisions)
  /\ DOMAIN decisions' = DOMAIN decisions
  /\ decisions'[n] = d /\ \A m \in DOMAIN decisions \ {n} : decisions'[m] = decisions[m]

LEMMA OneDecisionMoves ==
  ASSUME decisions \in Seq(Decision), NEW n \in DOMAIN decisions, NEW d \in Decision,
         decisions' = [decisions EXCEPT ![n] = d]
  PROVE  NowIs(n, d)
<1>1. /\ DOMAIN decisions' = DOMAIN decisions /\ decisions'[n] = d
      /\ \A m \in DOMAIN decisions \ {n} : decisions'[m] = decisions[m]
  OBVIOUS
<1>2. decisions' \in Seq(Decision) /\ Len(decisions') = Len(decisions)
  BY ExceptSeq
<1> QED BY <1>1, <1>2 DEF NowIs

\* The server's answer to decision n.
Answered(n, c, p) ==
  decisions' = [decisions EXCEPT ![n].phase = "answered", ![n].code = c, ![n].paid = p]

\* The decision with its answer.
AnsweredIs(d, e) == e.step = d.step /\ e.action = d.action /\ e.phase = "answered"

LEMMA AnswerMoves ==
  ASSUME decisions \in Seq(Decision), NEW n \in DOMAIN decisions,
         NEW c \in {0, 200, 400, 401, 409}, NEW p \in PaidState, Answered(n, c, p)
  PROVE  \E e \in Decision : NowIs(n, e) /\ AnsweredIs(decisions[n], e) /\ e.code = c /\ e.paid = p
<1> DEFINE q == [decisions[n] EXCEPT !.phase = "answered"]
           r == [q EXCEPT !.code = c]
           e == [r EXCEPT !.paid = p]
<1>1. decisions[n] \in Decision
  OBVIOUS
<1>2. q \in Decision /\ q.step = decisions[n].step /\ q.action = decisions[n].action /\ q.phase = "answered"
  BY <1>1 DEF Decision
<1> HIDE DEF q
<1>3. r \in Decision /\ r.step = q.step /\ r.action = q.action /\ r.phase = q.phase /\ r.code = c
  BY <1>2 DEF Decision
<1> HIDE DEF r
<1>4. e \in Decision /\ e.step = r.step /\ e.action = r.action /\ e.phase = r.phase /\ e.code = r.code
      /\ e.paid = p
  BY <1>3 DEF Decision
<1>5. decisions' = [decisions EXCEPT ![n] = e]
  BY DEF Answered, e, r, q
<1> HIDE DEF e
<1>6. NowIs(n, e)
  BY <1>4, <1>5, OneDecisionMoves
<1> QED BY <1>2, <1>3, <1>4, <1>6 DEF AnsweredIs

\* The server takes the decision, or refuses it and changes nothing.
ServerAnswered(n, d) ==
  /\ d.code \in {200, 400, 401, 409}
  /\ d.code # 200 => status' = status
  /\ d.code = 200 =>
       /\ status[d.step] = "pending" /\ status' = Inbox!Decide(d.step, d.action)
       /\ d.paid = Inbox!paymentStatus(status', PaymentOf[d.step])

LEMMA ServerDecidesOnce ==
  ASSUME InboxTypes, NEW n \in DOMAIN decisions, Inbox!ServerDecides(n)
  PROVE  \E d \in Decision : NowIs(n, d) /\ AnsweredIs(decisions[n], d) /\ ServerAnswered(n, d)
<1> DEFINE s == decisions[n].step
           paid == Inbox!paymentStatus(status', PaymentOf[s])
<1>1. decisions \in Seq(Decision)
  BY DEF InboxTypes
<1>2. paid \in PaidState
  BY DEF PaidState, Inbox!paymentStatus
<1>3. \E c \in {200, 400, 401, 409} :
        /\ Answered(n, c, paid)
        /\ c # 200 => status' = status
        /\ c = 200 => status[s] = "pending" /\ status' = Inbox!Decide(s, decisions[n].action)
  <2>1. CASE /\ status[s] = "pending" /\ status' = Inbox!Decide(s, decisions[n].action)
             /\ decisions' = [decisions EXCEPT ![n].phase = "answered", ![n].code = 200, ![n].paid = paid]
    BY <2>1 DEF Answered
  <2>2. CASE /\ status' = status
             /\ \E c \in {400, 401, 409} :
                  decisions' = [decisions EXCEPT ![n].phase = "answered", ![n].code = c,
                                  ![n].paid = Inbox!paymentStatus(status, PaymentOf[s])]
    <3>1. paid = Inbox!paymentStatus(status, PaymentOf[s]) /\ status' = status
      BY <2>2
    <3> HIDE DEF paid
    <3>2. PICK c \in {400, 401, 409} :
            decisions' = [decisions EXCEPT ![n].phase = "answered", ![n].code = c,
                            ![n].paid = Inbox!paymentStatus(status, PaymentOf[s])]
      BY <2>2
    <3>3. Answered(n, c, paid)
      BY <3>1, <3>2 DEF Answered
    <3> QED BY <3>1, <3>3
  <2> QED BY <2>1, <2>2 DEF Inbox!ServerDecides
<1>4. PICK c \in {200, 400, 401, 409} :
        /\ Answered(n, c, paid)
        /\ c # 200 => status' = status
        /\ c = 200 => status[s] = "pending" /\ status' = Inbox!Decide(s, decisions[n].action)
  BY <1>3
<1>5. PICK d \in Decision : NowIs(n, d) /\ AnsweredIs(decisions[n], d) /\ d.code = c /\ d.paid = paid
  BY <1>1, <1>2, <1>4, AnswerMoves
<1>6. ServerAnswered(n, d)
  BY <1>4, <1>5 DEF ServerAnswered, AnsweredIs
<1> QED BY <1>5, <1>6

\* The page is told of decision n, which is over then.
LEMMA DecisionIsOver ==
  ASSUME InboxTypes, NEW n \in DOMAIN decisions, NEW phase \in {"saved", "refused", "lost"},
         decisions' = [decisions EXCEPT ![n] = Inbox!Over(@, phase)]
  PROVE  /\ Inbox!Over(decisions[n], phase) \in Decision
         /\ NowIs(n, Inbox!Over(decisions[n], phase))
<1>1. decisions \in Seq(Decision) /\ decisions[n] \in Decision
  BY DEF InboxTypes
<1>2. Inbox!Over(decisions[n], phase) \in Decision
  BY <1>1 DEF Inbox!Over, Decision, PaidState
<1> QED BY <1>1, <1>2, OneDecisionMoves

\* A dialog that goes takes its state with it, one that stays keeps it.
LEMMA RemountResets ==
  ASSUME InboxTypes, DecisionIsShown, Inbox!Remount
  PROVE  /\ unsure' \in SUBSET Step
         /\ requestInFlight' \in {0, requestInFlight} /\ decisionError' \in {0, decisionError}
         /\ requestInFlight = 0 => unsure' = unsure
<1>1. requestInFlight # 0 => Inbox!selectedApproval \in Step
  BY SelectedType DEF DecisionIsShown
<1> QED BY <1>1 DEF Inbox!Remount, Inbox!dialogVars, InboxTypes

\* The page is told that decision n failed, or hears nothing of it.
LEMMA DecisionFailsOnce ==
  ASSUME InboxTypes, NEW n \in DOMAIN decisions, Inbox!DecisionFails(n)
  PROVE  \/ /\ decisions[n].phase = "answered" /\ decisions[n].code # 200
            /\ decisionError' = decisions[n].code /\ unsure' = unsure
            /\ NowIs(n, Inbox!Over(decisions[n], "refused"))
         \/ /\ decisionError' = -1 /\ unsure' = unsure \cup {decisions[n].step}
            /\ decisions' = decisions \/ NowIs(n, Inbox!Over(decisions[n], "lost"))
<1>1. CASE /\ decisions[n].phase = "answered" /\ decisions[n].code # 200
           /\ decisionError' = decisions[n].code /\ unsure' = unsure
           /\ decisions' = [decisions EXCEPT ![n] = Inbox!Over(@, "refused")]
  <2>1. NowIs(n, Inbox!Over(decisions[n], "refused"))
    BY <1>1, DecisionIsOver
  <2> QED BY <1>1, <2>1
<1>2. CASE /\ decisionError' = -1 /\ unsure' = unsure \cup {decisions[n].step}
           /\ decisions' = [decisions EXCEPT ![n] = Inbox!Over(@, "lost")]
  <2>1. NowIs(n, Inbox!Over(decisions[n], "lost"))
    BY <1>2, DecisionIsOver
  <2> QED BY <1>2, <2>1
<1>3. CASE decisionError' = -1 /\ unsure' = unsure \cup {decisions[n].step} /\ UNCHANGED decisions
  BY <1>3
<1> HIDE DEF Inbox!Over
<1> QED BY <1>1, <1>2, <1>3 DEF Inbox!DecisionFails

LEMMA InboxTypesStay ==
  ASSUME InboxTypes, DecisionIsShown, [Inbox!Next]_(Inbox!vars)
  PROVE  InboxTypes'
<1> USE DEF InboxTypes
<1>0. backAndForward' \in BOOLEAN
  BY DEF Inbox!Next, Inbox!vars
<1>a. unsure \in SUBSET Step /\ Inbox!Flying \in Load
  BY DEF Load, Inbox!Flying
<1>1. ASSUME NEW l \in 1..Locations, Inbox!Navigate(l) PROVE InboxTypes'
  <2>1. newest' \in 1..Locations /\ context' \in 1..newest' /\ selectionQuery' \in 1..newest'
    <3>1. newest' \in {newest, l} /\ context' = l /\ selectionQuery' = selectionQuery
          /\ (l > newest => newest' = l) /\ (~(l > newest) => newest' = newest)
      BY <1>1 DEF Inbox!Navigate, Inbox!selectVars
    <3> QED BY <1>1, <3>1, InboxParametersTyped
  <2>2. Inbox!Remount /\ load' = Inbox!Flying
    BY <1>1 DEF Inbox!Navigate
  <2>3. /\ unsure' \in SUBSET Step /\ decisionError' \in {0, decisionError}
        /\ requestInFlight' \in {0, requestInFlight}
    BY <2>2, RemountResets
  <2>4. UNCHANGED <<pending, recentlyHandled, error, receipt, selectedStepId, selectedHistory, decisions, status>>
    BY <1>1 DEF Inbox!Navigate, Inbox!inboxVars, Inbox!selectVars
  <2> QED BY <1>0, <1>a, <2>1, <2>2, <2>3, <2>4
<1>2. CASE Inbox!Refresh
  BY <1>0, <1>2, <1>a DEF Inbox!Refresh, Inbox!refreshInbox, Inbox!dialogVars
<1>3. CASE Inbox!ServerLists
  <2>1. load \in [phase : {"flying"}, unsure : SUBSET Step]
    BY <1>3 DEF Inbox!ServerLists, Load, Inbox!Idle
  <2>2. load' \in Load
    BY <1>3, <2>1 DEF Inbox!ServerLists, Load
  <2> QED BY <1>0, <1>3, <2>2 DEF Inbox!ServerLists, Inbox!inboxVars, Inbox!selectVars, Inbox!dialogVars
<1>4. CASE Inbox!InboxArrives
  <2>1. load.phase = "answered" /\ load \in [phase : {"answered"}, status : Statuses, unsure : SUBSET Step]
    BY <1>4 DEF Inbox!InboxArrives, Load, Inbox!Idle
  <2>2. /\ pending' = Inbox!Pending(load.status) /\ recentlyHandled' = Step \ Inbox!Pending(load.status)
        /\ load' = Inbox!Idle /\ selectedHistory' = Inbox!NoStep /\ selectionQuery' = context
        /\ UNCHANGED <<context, newest, error, receipt, decisions, status>>
    BY <1>4 DEF Inbox!InboxArrives
  <2>3. pending' \in SUBSET Step /\ recentlyHandled' \in SUBSET Step
    BY <2>2 DEF Inbox!Pending
  <2>4. selectedStepId' \in Step \cup {Inbox!NoStep}
    <3>1. selectedStepId' \in Inbox!Matching(pending', context)
      BY <1>4 DEF Inbox!InboxArrives
    <3> QED BY <2>3, <3>1 DEF Inbox!Matching
  <2>5. requestInFlight' \in {0, requestInFlight} /\ decisionError' \in {0, decisionError}
    BY <1>4 DEF Inbox!InboxArrives, Inbox!dialogVars
  <2>6. unsure' \in SUBSET Step
    <3>1. requestInFlight # 0 => Inbox!selectedApproval \in Step
      BY SelectedType DEF DecisionIsShown
    <3>2. unsure' \subseteq unsure \cup (IF requestInFlight = 0 THEN {} ELSE {Inbox!selectedApproval})
      BY <1>4 DEF Inbox!InboxArrives
    <3> QED BY <3>1, <3>2
  <2>7. load' \in Load
    BY <2>2 DEF Load
  <2> QED BY <1>0, <2>2, <2>3, <2>4, <2>5, <2>6, <2>7
<1>5. CASE Inbox!InboxFails
  <2>1. load' \in Load
    BY <1>5 DEF Inbox!InboxFails, Load
  <2> QED BY <1>0, <1>5, <2>1 DEF Inbox!InboxFails, Inbox!selectVars, Inbox!dialogVars
<1>6. CASE Inbox!HistoryDetails \/ Inbox!CloseHistory
  BY <1>0, <1>6 DEF Inbox!HistoryDetails, Inbox!CloseHistory, Inbox!inboxVars, Inbox!selectVars, Inbox!dialogVars
<1>7. CASE Inbox!closeDetails
  <2>1. load' \in Load
    BY <1>7, <1>a DEF Inbox!closeDetails, Inbox!refreshInbox
  <2> QED BY <1>0, <1>7, <2>1 DEF Inbox!closeDetails, Inbox!refreshInbox
<1>8. ASSUME NEW s \in Step, Inbox!SelectStep(s) PROVE InboxTypes'
  <2>1. Inbox!Remount /\ UNCHANGED <<context, newest, pending, recentlyHandled, error, receipt, selectionQuery,
                                     load, decisions, status>>
        /\ selectedHistory' = Inbox!NoStep /\ selectedStepId' = s
    BY <1>8 DEF Inbox!SelectStep, Inbox!inboxVars
  <2>2. /\ unsure' \in SUBSET Step /\ decisionError' \in {0, decisionError}
        /\ requestInFlight' \in {0, requestInFlight}
    BY <2>1, RemountResets
  <2> QED BY <1>0, <2>1, <2>2
<1>9. ASSUME NEW s \in Step, Inbox!SelectHistory(s) PROVE InboxTypes'
  BY <1>0, <1>9 DEF Inbox!SelectHistory, Inbox!inboxVars, Inbox!dialogVars
<1>10. ASSUME NEW s \in Step, NEW a \in Inbox!Actions, Inbox!OthersDecide(s, a) PROVE InboxTypes'
  <2>1. status' \in Statuses
    BY <1>10, DecideKeeps DEF Inbox!OthersDecide
  <2> QED BY <1>0, <1>10, <2>1 DEF Inbox!OthersDecide, Inbox!inboxVars, Inbox!selectVars, Inbox!dialogVars
<1>11. ASSUME NEW a \in Inbox!Actions, Inbox!saveDecision(a) PROVE InboxTypes'
  <2> DEFINE d == [step |-> Inbox!selectedApproval, action |-> a, phase |-> "flying", code |-> 0,
                   paid |-> "unknown"]
  <2>1. d \in Decision
    BY <1>11, SelectedType DEF Inbox!saveDecision, Decision, PaidState
  <2>2. decisions' = Append(decisions, d) /\ requestInFlight' = Len(decisions') /\ decisionError' = 0
    BY <1>11 DEF Inbox!saveDecision
  <2> HIDE DEF d
  <2>3. decisions' \in Seq(Decision) /\ requestInFlight' \in 0..Len(decisions')
    BY <2>1, <2>2
  <2> QED BY <1>0, <1>11, <2>2, <2>3 DEF Inbox!saveDecision, Inbox!inboxVars, Inbox!selectVars
<1>12. ASSUME NEW n \in DOMAIN decisions, Inbox!ServerDecides(n) \/ Inbox!DecisionSaved(n) \/ Inbox!DecisionFails(n)
       PROVE  InboxTypes'
  <2>1. CASE Inbox!ServerDecides(n)
    <3>1. PICK d \in Decision : NowIs(n, d) /\ AnsweredIs(decisions[n], d) /\ ServerAnswered(n, d)
      BY <1>12, <2>1, ServerDecidesOnce
    <3>2. status' \in Statuses
      BY <3>1, DecideKeeps DEF ServerAnswered, Decision
    <3> QED BY <1>0, <2>1, <3>1, <3>2 DEF Inbox!ServerDecides, NowIs, Inbox!inboxVars, Inbox!selectVars,
                                          Inbox!dialogVars
  <2>2. CASE Inbox!DecisionSaved(n)
    <3>1. NowIs(n, Inbox!Over(decisions[n], "saved"))
      BY <1>12, <2>2, DecisionIsOver DEF Inbox!DecisionSaved
    <3>2. receipt' \in Receipt
      <4>1. decisions[n] \in Decision
        BY <1>12
      <4> QED BY <2>2, <4>1 DEF Inbox!DecisionSaved, Receipt, Decision
    <3> QED BY <1>0, <1>a, <2>2, <3>1, <3>2 DEF Inbox!DecisionSaved, Inbox!refreshInbox, NowIs
  <2>3. CASE Inbox!DecisionFails(n)
    <3>1. decisions[n] \in Decision
      BY <1>12
    <3>2. CASE /\ decisions[n].code # 200 /\ decisionError' = decisions[n].code /\ unsure' = unsure
               /\ NowIs(n, Inbox!Over(decisions[n], "refused"))
      <4>1. decisionError' \in {0, 400, 401, 409}
        BY <3>1, <3>2 DEF Decision
      <4>2. decisions' \in Seq(Decision)
        BY <3>2 DEF NowIs
      <4> QED BY <1>0, <2>3, <3>2, <4>1, <4>2 DEF Inbox!DecisionFails, Inbox!inboxVars, Inbox!selectVars
    <3>3. CASE /\ decisionError' = -1 /\ unsure' = unsure \cup {decisions[n].step}
               /\ decisions' = decisions \/ NowIs(n, Inbox!Over(decisions[n], "lost"))
      <4>1. unsure' \in SUBSET Step
        BY <3>1, <3>3 DEF Decision
      <4>2. decisions' \in Seq(Decision)
        BY <3>3 DEF NowIs
      <4> QED BY <1>0, <2>3, <3>3, <4>1, <4>2 DEF Inbox!DecisionFails, Inbox!inboxVars, Inbox!selectVars
    <3> QED BY <2>3, <3>2, <3>3, DecisionFailsOnce
  <2> QED BY <1>12, <2>1, <2>2, <2>3
<1>13. CASE UNCHANGED Inbox!vars
  BY <1>0, <1>13 DEF Inbox!vars, Inbox!inboxVars, Inbox!selectVars, Inbox!dialogVars
<1> QED BY <1>1, <1>2, <1>3, <1>4, <1>5, <1>6, <1>7, <1>8, <1>9, <1>10, <1>11, <1>12, <1>13
        DEF Inbox!Next, Inbox!Moves, Inbox!Loading

LEMMA RemountKeepsShown ==
  ASSUME DecisionIsShown, Inbox!Remount, decisions' = decisions
  PROVE  DecisionIsShown'
<1> DEFINE now == Inbox!SelectedIn(selectedStepId', selectionQuery', context', pending')
<1>1. Inbox!selectedApproval' = now
  BY DEF Inbox!selectedApproval, Inbox!SelectedIn
<1>2. CASE now = Inbox!selectedApproval /\ UNCHANGED Inbox!dialogVars
  <2> HIDE DEF now
  <2> QED BY <1>1, <1>2 DEF DecisionIsShown, Inbox!dialogVars
<1>3. CASE requestInFlight' = 0
  BY <1>3 DEF DecisionIsShown
<1> QED BY <1>2, <1>3 DEF Inbox!Remount

LEMMA ShownStays ==
  ASSUME InboxTypes, DecisionIsShown, [Inbox!Next]_(Inbox!vars)
  PROVE  DecisionIsShown'
<1>1. ASSUME NEW l \in 1..Locations, Inbox!Navigate(l) PROVE DecisionIsShown'
  BY <1>1, RemountKeepsShown DEF Inbox!Navigate
<1>2. ASSUME NEW s \in Step, Inbox!SelectStep(s) PROVE DecisionIsShown'
  BY <1>2, RemountKeepsShown DEF Inbox!SelectStep
<1>3. CASE Inbox!InboxArrives
  <2>1. CASE Inbox!SelectedIn(selectedStepId', selectionQuery', context, pending') = Inbox!selectedApproval
             /\ UNCHANGED Inbox!dialogVars
    <3>1. Inbox!selectedApproval' = Inbox!selectedApproval /\ decisions' = decisions
      BY <1>3, <2>1 DEF Inbox!InboxArrives, Inbox!selectedApproval, Inbox!SelectedIn
    <3> QED BY <2>1, <3>1 DEF DecisionIsShown, Inbox!dialogVars
  <2>2. CASE requestInFlight' = 0
    BY <2>2 DEF DecisionIsShown
  <2> QED BY <1>3, <2>1, <2>2 DEF Inbox!InboxArrives
<1>4. CASE UNCHANGED <<selectedStepId, selectionQuery, context, pending, requestInFlight, decisionError, decisions>>
  <2>1. Inbox!selectedApproval' = Inbox!selectedApproval
    BY <1>4 DEF Inbox!selectedApproval, Inbox!SelectedIn
  <2> QED BY <1>4, <2>1 DEF DecisionIsShown
<1>5. CASE \/ Inbox!ServerLists \/ Inbox!InboxFails \/ Inbox!HistoryDetails \/ Inbox!CloseHistory
           \/ (\E s \in Step, a \in Inbox!Actions : Inbox!OthersDecide(s, a)) \/ UNCHANGED Inbox!vars
  <2>1. UNCHANGED <<selectedStepId, selectionQuery, context, pending, requestInFlight, decisionError, decisions>>
    BY <1>5 DEF Inbox!ServerLists, Inbox!InboxFails, Inbox!HistoryDetails, Inbox!CloseHistory,
                Inbox!OthersDecide, Inbox!vars, Inbox!inboxVars, Inbox!selectVars, Inbox!dialogVars
  <2> QED BY <1>4, <2>1
<1>6. CASE requestInFlight' = 0
  BY <1>6 DEF DecisionIsShown
<1>7. CASE \/ Inbox!Refresh \/ Inbox!closeDetails \/ \E s \in Step : Inbox!SelectHistory(s)
  <2>1. requestInFlight = 0 /\ requestInFlight' = requestInFlight
    BY <1>7 DEF Inbox!Refresh, Inbox!closeDetails, Inbox!SelectHistory, Inbox!DialogShown, DecisionIsShown,
                Inbox!dialogVars
  <2> QED BY <1>6, <2>1
<1>8. ASSUME NEW a \in Inbox!Actions, Inbox!saveDecision(a) PROVE DecisionIsShown'
  <2> DEFINE d == [step |-> Inbox!selectedApproval, action |-> a, phase |-> "flying", code |-> 0,
                   paid |-> "unknown"]
  <2>1. /\ decisions' = Append(decisions, d) /\ requestInFlight' = Len(decisions') /\ decisionError' = 0
        /\ UNCHANGED <<selectedStepId, selectionQuery, context, pending>>
        /\ Inbox!selectedApproval # Inbox!NoStep
    BY <1>8 DEF Inbox!saveDecision, Inbox!inboxVars, Inbox!selectVars
  <2>2. Inbox!selectedApproval' = Inbox!selectedApproval
    BY <2>1 DEF Inbox!selectedApproval, Inbox!SelectedIn
  <2>3. d.step = Inbox!selectedApproval
    OBVIOUS
  <2> HIDE DEF d
  <2>4. decisions'[Len(decisions')] = d
    BY <2>1 DEF InboxTypes
  <2> QED BY <2>1, <2>2, <2>3, <2>4 DEF DecisionIsShown
<1>9. ASSUME NEW n \in DOMAIN decisions, Inbox!ServerDecides(n) PROVE DecisionIsShown'
  <2>1. PICK d \in Decision : NowIs(n, d) /\ AnsweredIs(decisions[n], d)
    BY <1>9, ServerDecidesOnce
  <2>2. UNCHANGED <<selectedStepId, selectionQuery, context, pending, requestInFlight, decisionError>>
    BY <1>9 DEF Inbox!ServerDecides, Inbox!inboxVars, Inbox!selectVars, Inbox!dialogVars
  <2>3. Inbox!selectedApproval' = Inbox!selectedApproval
    BY <2>2 DEF Inbox!selectedApproval, Inbox!SelectedIn
  <2>4. requestInFlight # 0 => decisions'[requestInFlight].step = decisions[requestInFlight].step
    BY <2>1 DEF NowIs, AnsweredIs, InboxTypes
  <2> QED BY <2>2, <2>3, <2>4 DEF DecisionIsShown
<1>10. ASSUME NEW n \in DOMAIN decisions, Inbox!DecisionSaved(n) \/ Inbox!DecisionFails(n)
       PROVE  DecisionIsShown'
  BY <1>6, <1>10 DEF Inbox!DecisionSaved, Inbox!DecisionFails
<1> QED BY <1>1, <1>2, <1>3, <1>5, <1>7, <1>8, <1>9, <1>10 DEF Inbox!Next, Inbox!Moves, Inbox!Loading

-----------------------------------------------------------------------------
\* A step that is decided keeps its decision.
DecidedStays == \A t \in Step : status[t] # "pending" => status'[t] = status[t]

\* Decision n after a step: as it was, without an answer, just answered, or just saved.
Unheard(d)  == d.code = 0 /\ d.phase \in {"flying", "refused", "lost"}
JustSaved(n) ==
  /\ n \in DOMAIN decisions /\ decisions[n].code = 200 /\ decisions'[n].step = decisions[n].step
  /\ decisions'[n].code = 0 /\ decisions'[n].phase = "saved"
  /\ load' = Inbox!Flying /\ pending' = Null
Became(n) ==
  \/ n \in DOMAIN decisions /\ decisions'[n] = decisions[n]
  \/ Unheard(decisions'[n])
  \/ /\ decisions'[n].phase = "answered"
     /\ decisions'[n].code = 200 => Truthful(decisions[n])'
  \/ JustSaved(n)

\* The receipt is kept or is that of a decision the server has confirmed.
ReceiptBecame ==
  \/ receipt' = receipt
  \/ \E n \in DOMAIN decisions :
       /\ decisions[n].code = 200 /\ receipt'.step = decisions[n].step
       /\ receipt'.action = decisions[n].action /\ receipt'.paid = decisions[n].paid

LEMMA KeptDecisions ==
  ASSUME decisions' = decisions, status' = status, receipt' = receipt
  PROVE  DecidedStays /\ (\A n \in DOMAIN decisions' : Became(n)) /\ ReceiptBecame
BY DEF DecidedStays, Became, ReceiptBecame

\* Every decision is about a step, and an approval or a rejection.
LEMMA DecisionType ==
  ASSUME decisions \in Seq(Decision), NEW n \in DOMAIN decisions
  PROVE  decisions[n].step \in Step /\ decisions[n].action \in Inbox!Actions
<1>1. decisions[n] \in Decision
  OBVIOUS
<1> QED BY <1>1 DEF Decision

\* One decision has moved, the others are as they were.
LEMMA OneBecame ==
  ASSUME NEW n \in DOMAIN decisions, NEW d, NowIs(n, d), Became(n)
  PROVE  \A m \in DOMAIN decisions' : Became(m)
<1>1. SUFFICES ASSUME NEW m \in DOMAIN decisions' PROVE Became(m)
  OBVIOUS
<1>2. CASE m = n
  BY <1>2
<1>3. CASE m # n
  BY <1>3 DEF NowIs, Became
<1> QED BY <1>2, <1>3

LEMMA DecisionsMove ==
  ASSUME InboxTypes, [Inbox!Next]_(Inbox!vars)
  PROVE  DecidedStays /\ (\A n \in DOMAIN decisions' : Became(n)) /\ ReceiptBecame
<1> DEFINE Goal == DecidedStays /\ (\A n \in DOMAIN decisions' : Became(n)) /\ ReceiptBecame
<1>1. CASE \/ \E l \in 1..Locations : Inbox!Navigate(l)
           \/ Inbox!Refresh \/ Inbox!Loading \/ Inbox!HistoryDetails \/ Inbox!CloseHistory
           \/ Inbox!closeDetails \/ UNCHANGED Inbox!vars
           \/ \E s \in Step : Inbox!SelectStep(s) \/ Inbox!SelectHistory(s)
  <2>1. decisions' = decisions /\ status' = status /\ receipt' = receipt
    BY <1>1 DEF Inbox!Navigate, Inbox!Refresh, Inbox!Loading, Inbox!ServerLists, Inbox!InboxArrives,
       Inbox!InboxFails, Inbox!HistoryDetails, Inbox!CloseHistory, Inbox!closeDetails, Inbox!SelectStep,
       Inbox!SelectHistory, Inbox!vars, Inbox!inboxVars
  <2> QED BY <2>1, KeptDecisions
<1>2. ASSUME NEW s \in Step, NEW a \in Inbox!Actions, Inbox!OthersDecide(s, a) PROVE Goal
  <2>1. decisions' = decisions /\ receipt' = receipt
    BY <1>2 DEF Inbox!OthersDecide, Inbox!inboxVars
  <2>2. DecidedStays
    BY <1>2, DecideKeeps DEF Inbox!OthersDecide, InboxTypes, DecidedStays
  <2> QED BY <2>1, <2>2 DEF Became, ReceiptBecame
<1>3. ASSUME NEW a \in Inbox!Actions, Inbox!saveDecision(a) PROVE Goal
  <2> DEFINE d == [step |-> Inbox!selectedApproval, action |-> a, phase |-> "flying", code |-> 0,
                   paid |-> "unknown"]
  <2>1. decisions' = Append(decisions, d) /\ status' = status /\ receipt' = receipt
    BY <1>3 DEF Inbox!saveDecision, Inbox!inboxVars
  <2>2. Unheard(d)
    BY DEF Unheard
  <2> HIDE DEF d
  <2>3. \A n \in DOMAIN decisions' : (n \in DOMAIN decisions /\ decisions'[n] = decisions[n]) \/ decisions'[n] = d
    BY <2>1 DEF InboxTypes
  <2>4. \A n \in DOMAIN decisions' : Became(n)
    BY <2>2, <2>3 DEF Became
  <2> QED BY <2>1, <2>4 DEF DecidedStays, ReceiptBecame
<1>4. ASSUME NEW n \in DOMAIN decisions, Inbox!ServerDecides(n) PROVE Goal
  <2>1. PICK d \in Decision : NowIs(n, d) /\ AnsweredIs(decisions[n], d) /\ ServerAnswered(n, d)
    BY <1>4, ServerDecidesOnce
  <2>2. receipt' = receipt
    BY <1>4 DEF Inbox!ServerDecides, Inbox!inboxVars
  <2>3. decisions'[n] = d /\ d.step \in Step /\ d.action \in Inbox!Actions
    BY <2>1 DEF NowIs, Decision
  <2>4. DecidedStays /\ (d.code = 200 => Truthful(d)')
    <3>1. CASE d.code = 200
      <4>1. status[d.step] = "pending" /\ status' = Inbox!Decide(d.step, d.action)
            /\ d.paid = (Inbox!paymentStatus(status, PaymentOf[d.step]))'
        BY <2>1, <3>1 DEF ServerAnswered, Inbox!paymentStatus
      <4>2. status'[d.step] = d.action /\ DecidedStays
        BY <2>3, <4>1, DecideKeeps DEF InboxTypes, DecidedStays
      <4> QED BY <4>1, <4>2 DEF Truthful
    <3>2. CASE d.code # 200
      BY <2>1, <3>2 DEF ServerAnswered, DecidedStays
    <3> QED BY <3>1, <3>2
  <2>5. Became(n)
    <3>1. d.phase = "answered"
      BY <2>1 DEF AnsweredIs
    <3>2. d.code = 200 => Truthful(decisions[n])'
      BY <2>3, <2>4 DEF Truthful
    <3> QED BY <2>3, <3>1, <3>2 DEF Became
  <2> QED BY <2>1, <2>2, <2>4, <2>5, OneBecame DEF ReceiptBecame
<1>5. ASSUME NEW n \in DOMAIN decisions, Inbox!DecisionSaved(n) PROVE Goal
  <2>1. NowIs(n, Inbox!Over(decisions[n], "saved"))
    BY <1>5, DecisionIsOver DEF Inbox!DecisionSaved
  <2>2. JustSaved(n)
    BY <1>5, <2>1 DEF Inbox!DecisionSaved, Inbox!refreshInbox, NowIs, Inbox!Over, JustSaved
  <2>3. ReceiptBecame
    BY <1>5 DEF Inbox!DecisionSaved, ReceiptBecame
  <2>4. \A m \in DOMAIN decisions' : Became(m)
    BY <2>1, <2>2, OneBecame DEF Became
  <2> QED BY <1>5, <2>3, <2>4 DEF DecidedStays, Inbox!DecisionSaved
<1>6. ASSUME NEW n \in DOMAIN decisions, Inbox!DecisionFails(n) PROVE Goal
  <2>1. status' = status /\ receipt' = receipt
    BY <1>6 DEF Inbox!DecisionFails, Inbox!inboxVars
  <2>2. ASSUME NEW phase \in {"refused", "lost"}, NowIs(n, Inbox!Over(decisions[n], phase)) PROVE Goal
    <3>1. Unheard(decisions'[n])
      BY <2>2 DEF NowIs, Unheard, Inbox!Over
    <3>2. \A m \in DOMAIN decisions' : Became(m)
      BY <2>2, <3>1, OneBecame DEF Became
    <3> QED BY <2>1, <3>2 DEF DecidedStays, ReceiptBecame
  <2>3. CASE decisions' = decisions
    BY <2>1, <2>3, KeptDecisions
  <2> QED BY <1>6, <2>2, <2>3, DecisionFailsOnce
<1> QED BY <1>1, <1>2, <1>3, <1>4, <1>5, <1>6 DEF Inbox!Next, Inbox!Moves

\* What the server said of decisions and in the receipt stays true.
LEMMA ConfirmedStays ==
  ASSUME InboxTypes, InboxTypes', ConfirmedIsTrue, [Inbox!Next]_(Inbox!vars)
  PROVE  ConfirmedIsTrue'
<1>1. DecidedStays /\ ReceiptBecame /\ \A n \in DOMAIN decisions' : Became(n)
  BY DecisionsMove
<1>2. status \in Statuses /\ status' \in Statuses /\ decisions \in Seq(Decision) /\ receipt \in Receipt
  BY DEF InboxTypes
<1>3. ASSUME NEW d, d.step \in Step, d.action \in Inbox!Actions, Truthful(d) PROVE Truthful(d)'
  BY <1>1, <1>2, <1>3, TruthStays DEF DecidedStays
<1>4. \A n \in DOMAIN decisions : decisions[n].step \in Step /\ decisions[n].action \in Inbox!Actions
  BY <1>2, DecisionType
<1>5. ASSUME NEW n \in DOMAIN decisions', decisions'[n].code = 200 PROVE Truthful(decisions[n])'
  <2>1. CASE n \in DOMAIN decisions /\ decisions'[n] = decisions[n]
    <3>1. Truthful(decisions[n])
      BY <1>5, <2>1 DEF ConfirmedIsTrue
    <3>2. PICK d : d = decisions[n]
      OBVIOUS
    <3>3. Truthful(d)'
      BY <1>3, <1>4, <2>1, <3>1, <3>2
    <3> QED BY <2>1, <3>2, <3>3 DEF Truthful
  <2>2. CASE ~(n \in DOMAIN decisions /\ decisions'[n] = decisions[n])
    BY <1>1, <1>5, <2>2 DEF Became, Unheard, JustSaved
  <2> QED BY <2>1, <2>2
<1>6. ASSUME receipt' # Inbox!NoReceipt PROVE Truthful(receipt)'
  <2>1. CASE receipt' = receipt
    <3>1. receipt # Inbox!NoReceipt /\ Truthful(receipt)
      BY <1>6, <2>1 DEF ConfirmedIsTrue
    <3>2. PICK r : r = receipt
      OBVIOUS
    <3>3. r.step \in Step /\ r.action \in Inbox!Actions
      BY <1>2, <3>1, <3>2 DEF Receipt
    <3>4. Truthful(r)'
      BY <1>3, <3>1, <3>2, <3>3
    <3> QED BY <2>1, <3>2, <3>4 DEF Truthful
  <2>2. ASSUME NEW n \in DOMAIN decisions, decisions[n].code = 200, receipt'.step = decisions[n].step,
               receipt'.action = decisions[n].action, receipt'.paid = decisions[n].paid
        PROVE  Truthful(receipt)'
    <3>1. Truthful(decisions[n])
      BY <2>2 DEF ConfirmedIsTrue
    <3>2. PICK d : d = decisions[n]
      OBVIOUS
    <3>3. Truthful(d)'
      BY <1>3, <1>4, <3>1, <3>2
    <3> QED BY <2>2, <3>2, <3>3 DEF Truthful
  <2> QED BY <1>1, <2>1, <2>2 DEF ReceiptBecame
<1> QED BY <1>5, <1>6 DEF ConfirmedIsTrue

\* What is shown and what is on its way after a step.
LEMMA ListsMove ==
  ASSUME InboxTypes, [Inbox!Next]_(Inbox!vars)
  PROVE  /\ load'.phase = "answered" => load' = load \/ load'.status = status
         /\ pending' # Null =>
              \/ pending' = pending
              \/ load.phase = "answered" /\ pending' = Inbox!Pending(load.status)
<1>1. CASE Inbox!InboxArrives
  BY <1>1 DEF Inbox!InboxArrives, Inbox!Idle
<1>2. CASE Inbox!ServerLists
  BY <1>2 DEF Inbox!ServerLists, Inbox!inboxVars
<1>3. CASE Inbox!refreshInbox
  BY <1>3 DEF Inbox!refreshInbox, Inbox!Flying
<1>4. CASE pending' = pending /\ load' \in {load, Inbox!Flying, Inbox!Idle}
  BY <1>4 DEF Inbox!Flying, Inbox!Idle
<1>5. \/ Inbox!InboxArrives \/ Inbox!ServerLists \/ Inbox!refreshInbox
      \/ pending' = pending /\ load' \in {load, Inbox!Flying, Inbox!Idle}
  <2>1. CASE Inbox!Refresh \/ Inbox!closeDetails \/ \E n \in DOMAIN decisions : Inbox!DecisionSaved(n)
    BY <2>1 DEF Inbox!Refresh, Inbox!closeDetails, Inbox!DecisionSaved
  <2>2. CASE \/ \E l \in 1..Locations : Inbox!Navigate(l)
             \/ Inbox!InboxFails \/ Inbox!HistoryDetails \/ Inbox!CloseHistory \/ UNCHANGED Inbox!vars
    BY <2>2 DEF Inbox!Navigate, Inbox!InboxFails, Inbox!HistoryDetails, Inbox!CloseHistory, Inbox!vars,
       Inbox!inboxVars
  <2>3. CASE \E s \in Step : Inbox!SelectStep(s) \/ Inbox!SelectHistory(s)
                               \/ \E a \in Inbox!Actions : Inbox!OthersDecide(s, a)
    BY <2>3 DEF Inbox!SelectStep, Inbox!SelectHistory, Inbox!OthersDecide, Inbox!inboxVars
  <2>4. CASE \/ \E a \in Inbox!Actions : Inbox!saveDecision(a)
             \/ \E n \in DOMAIN decisions : Inbox!ServerDecides(n) \/ Inbox!DecisionFails(n)
    BY <2>4 DEF Inbox!saveDecision, Inbox!ServerDecides, Inbox!DecisionFails, Inbox!inboxVars
  <2> QED BY <2>1, <2>2, <2>3, <2>4 DEF Inbox!Next, Inbox!Moves, Inbox!Loading
<1> QED BY <1>1, <1>2, <1>3, <1>4, <1>5

LEMMA ListedStays ==
  ASSUME InboxTypes, ConfirmedIsTrue, SavedIsListed, [Inbox!Next]_(Inbox!vars)
  PROVE  SavedIsListed'
<1>1. DecidedStays /\ \A n \in DOMAIN decisions' : Became(n)
  BY DecisionsMove
<1>2. ASSUME NEW n \in DOMAIN decisions', decisions'[n].phase = "saved"
      PROVE  /\ status'[decisions'[n].step] # "pending"
             /\ load'.phase = "answered" => load'.status[decisions'[n].step] # "pending"
             /\ pending' # Null => decisions'[n].step \notin pending'
  <2>1. CASE n \in DOMAIN decisions /\ decisions'[n] = decisions[n]
    <3>1. /\ decisions[n].step \in Step /\ status[decisions[n].step] # "pending"
          /\ load.phase = "answered" => load.status[decisions[n].step] # "pending"
          /\ pending # Null => decisions[n].step \notin pending
      BY <1>2, <2>1, DecisionType DEF SavedIsListed, InboxTypes
    <3>2. status'[decisions[n].step] # "pending"
      BY <1>1, <3>1 DEF DecidedStays
    <3>3. load'.phase = "answered" => load'.status[decisions[n].step] # "pending"
      BY <3>1, ListsMove
    <3>4. pending' # Null => decisions[n].step \notin pending'
      BY <3>1, ListsMove DEF Inbox!Pending
    <3> QED BY <2>1, <3>2, <3>3, <3>4
  <2>2. CASE JustSaved(n)
    <3>1. decisions[n].step \in Step /\ decisions[n].action \in Inbox!Actions
      BY <2>2, DecisionType DEF JustSaved, InboxTypes
    <3>2. status[decisions[n].step] = decisions[n].action
      BY <2>2 DEF JustSaved, ConfirmedIsTrue, Truthful
    <3>3. status'[decisions[n].step] # "pending"
      BY <1>1, <3>1, <3>2 DEF DecidedStays, Inbox!Actions
    <3> QED BY <2>2, <3>3 DEF JustSaved, Inbox!Flying
  <2> QED BY <1>1, <1>2, <2>1, <2>2 DEF Became, Unheard
<1> QED BY <1>2 DEF SavedIsListed

\* While a list is on its way no decision is waited for; while a dialog is shown none is on its way.
LEMMA NothingWaits ==
  ASSUME InboxTypes, DecisionIsShown, UnsureIsHidden, ~backAndForward, load # Inbox!Idle
  PROVE  Inbox!selectedApproval = Inbox!NoStep /\ requestInFlight = 0
<1>1. Inbox!selectedApproval = Inbox!NoStep
  BY SelectedType DEF UnsureIsHidden
<1> QED BY <1>1 DEF DecisionIsShown

\* A dialog that does not ask for a new list, or a page that shows its list, leaves nothing unknown.
LEMMA NothingUnsure ==
  ASSUME InboxTypes, UnsureIsHidden, ~backAndForward, load = Inbox!Idle,
         \/ Inbox!selectedApproval # Inbox!NoStep /\ ~Inbox!needsRefresh
         \/ Inbox!selectedApproval = Inbox!NoStep /\ error = 0
  PROVE  unsure = {}
<1>1. \A s \in unsure : s \in Step /\ s # Inbox!NoStep
  BY InboxParametersTyped DEF InboxTypes
<1> QED BY <1>1 DEF UnsureIsHidden

LEMMA HiddenStays ==
  ASSUME InboxTypes, DecisionIsShown, UnsureIsHidden, [Inbox!Next]_(Inbox!vars)
  PROVE  UnsureIsHidden'
<1>0. CASE backAndForward
  BY <1>0 DEF Inbox!Next, Inbox!vars, UnsureIsHidden
<1>q. CASE ~backAndForward
  <2> USE <1>q
  <2>0. context = newest /\ backAndForward' = backAndForward
    BY DEF UnsureIsHidden, Inbox!Next, Inbox!vars
  \* A load begins: the list is cleared or belongs to an older location.
  <2>1. ASSUME context' = newest', unsure' = unsure, load' = Inbox!Flying,
               selectionQuery' # context' \/ pending' = Null
        PROVE  UnsureIsHidden'
    <3>1. load'.unsure = unsure
      BY <2>1 DEF Inbox!Flying
    <3>2. load' # Inbox!Idle
      BY <2>1 DEF Inbox!Flying, Inbox!Idle
    <3> QED BY <2>1, <3>1, <3>2 DEF UnsureIsHidden
  \* Nothing is unknown, and no load is on its way.
  <2>2. ASSUME context' = newest', unsure' = {}, load' = Inbox!Idle PROVE UnsureIsHidden'
    BY <2>2 DEF UnsureIsHidden
  \* What matters stays.
  <2>3. ASSUME UNCHANGED <<context, newest, pending, selectedStepId, selectionQuery, error, decisionError,
                           load, unsure>>
        PROVE  UnsureIsHidden'
    <3>1. Inbox!selectedApproval' = Inbox!selectedApproval
      BY <2>3 DEF Inbox!selectedApproval, Inbox!SelectedIn
    <3>2. (Inbox!needsRefresh <=> Inbox!needsRefresh')
      BY <2>3 DEF Inbox!needsRefresh
    <3>3. Inbox!Idle' = Inbox!Idle
      BY DEF Inbox!Idle
    <3> QED BY <2>0, <2>3, <3>1, <3>2, <3>3 DEF UnsureIsHidden
  \* A dialog comes or goes where nothing is unknown, or while a list is on its way.
  <2>4. ASSUME UNCHANGED <<context, newest, pending, selectionQuery, load, unsure>>,
               load # Inbox!Idle \/ unsure = {}
        PROVE  UnsureIsHidden'
    <3>1. Inbox!Idle' = Inbox!Idle
      BY DEF Inbox!Idle
    <3> QED BY <2>0, <2>4, <3>1 DEF UnsureIsHidden
  <2>5. ~Inbox!DialogShown => Inbox!selectedApproval = Inbox!NoStep /\ requestInFlight = 0
    BY DEF Inbox!DialogShown, DecisionIsShown
  <2>6. ASSUME NEW l \in 1..Locations, Inbox!Navigate(l) PROVE UnsureIsHidden'
    <3>1. l > newest /\ ~Inbox!DialogShown /\ context' = l /\ newest' = l /\ selectionQuery' = selectionQuery
          /\ load' = Inbox!Flying /\ Inbox!Remount
      BY <2>0, <2>6 DEF Inbox!Navigate, Inbox!selectVars, InboxTypes
    <3>2. unsure' = unsure
      BY <2>5, <3>1, RemountResets
    <3>3. selectionQuery' # context'
      BY <3>1 DEF InboxTypes
    <3> QED BY <2>1, <3>1, <3>2, <3>3
  <2>7. CASE Inbox!Refresh
    BY <2>0, <2>1, <2>7 DEF Inbox!Refresh, Inbox!refreshInbox
  <2>8. CASE Inbox!ServerLists
    <3>1. UNCHANGED <<context, newest, pending, selectionQuery, unsure>> /\ load # Inbox!Idle
          /\ load'.unsure = load.unsure /\ load' # Inbox!Idle
      BY <2>8 DEF Inbox!ServerLists, Inbox!inboxVars, Inbox!selectVars, Inbox!Idle
    <3> QED BY <2>0, <3>1 DEF UnsureIsHidden
  <2>9. CASE Inbox!InboxArrives
    <3>1. load # Inbox!Idle
      BY <2>9 DEF Inbox!InboxArrives, Inbox!Idle
    <3>2. requestInFlight = 0 /\ unsure \subseteq load.unsure
      BY <3>1, NothingWaits DEF UnsureIsHidden
    <3>3. unsure' = {}
      BY <2>9, <3>2 DEF Inbox!InboxArrives
    <3> QED BY <2>0, <2>2, <2>9, <3>3 DEF Inbox!InboxArrives
  <2>10. CASE Inbox!InboxFails
    <3>1. /\ UNCHANGED <<context, newest, pending, selectedStepId, selectionQuery, unsure>>
          /\ load # Inbox!Idle /\ load' = Inbox!Idle /\ error' # 0
      BY <2>10 DEF Inbox!InboxFails, Inbox!selectVars
    <3>2. Inbox!selectedApproval' = Inbox!NoStep
      BY <3>1, NothingWaits DEF Inbox!selectedApproval, Inbox!SelectedIn
    <3>3. Inbox!NoStep' = Inbox!NoStep
      BY DEF Inbox!NoStep
    <3> QED BY <2>0, <3>1, <3>2, <3>3 DEF UnsureIsHidden
  <2>11. ASSUME NEW s \in Step, Inbox!SelectStep(s) \/ Inbox!SelectHistory(s) PROVE UnsureIsHidden'
    <3>1. ~Inbox!DialogShown /\ error = 0 /\ UNCHANGED <<context, newest, pending, selectionQuery, load>>
      BY <2>11 DEF Inbox!SelectStep, Inbox!SelectHistory, Inbox!inboxVars
    <3>2. unsure' = unsure
      BY <2>5, <2>11, <3>1, RemountResets DEF Inbox!SelectStep, Inbox!SelectHistory
    <3>3. load # Inbox!Idle \/ unsure = {}
      BY <2>5, <3>1, NothingUnsure
    <3> QED BY <2>4, <3>1, <3>2, <3>3
  <2>12. CASE Inbox!closeDetails
    <3>1. load = Inbox!Idle
      BY <2>12, NothingWaits DEF Inbox!closeDetails
    <3>2. UNCHANGED <<context, newest, selectionQuery, unsure>>
      BY <2>12 DEF Inbox!closeDetails
    <3>3. CASE Inbox!needsRefresh
      BY <2>0, <2>1, <2>12, <3>2, <3>3 DEF Inbox!closeDetails, Inbox!refreshInbox
    <3>4. CASE ~Inbox!needsRefresh
      <4>1. unsure = {}
        BY <2>12, <3>1, <3>4, NothingUnsure DEF Inbox!closeDetails
      <4> QED BY <2>4, <2>12, <3>2, <3>4, <4>1 DEF Inbox!closeDetails
    <3> QED BY <3>3, <3>4
  <2>13. ASSUME NEW a \in Inbox!Actions, Inbox!saveDecision(a) PROVE UnsureIsHidden'
    <3>1. load = Inbox!Idle
      BY <2>13, NothingWaits DEF Inbox!saveDecision
    <3>2. unsure = {}
      BY <2>13, <3>1, NothingUnsure DEF Inbox!saveDecision
    <3> QED BY <2>4, <2>13, <3>2 DEF Inbox!saveDecision, Inbox!inboxVars, Inbox!selectVars
  <2>14. ASSUME NEW n \in DOMAIN decisions, Inbox!DecisionSaved(n) PROVE UnsureIsHidden'
    BY <2>0, <2>1, <2>14 DEF Inbox!DecisionSaved, Inbox!refreshInbox
  <2>15. ASSUME NEW n \in DOMAIN decisions, Inbox!DecisionFails(n) PROVE UnsureIsHidden'
    <3>1. /\ UNCHANGED <<context, newest, pending, selectedStepId, selectionQuery, error, load>>
          /\ requestInFlight = n /\ n # 0
      BY <2>15 DEF Inbox!DecisionFails, Inbox!inboxVars, Inbox!selectVars
    <3>2. decisionError = 0 /\ Inbox!selectedApproval # Inbox!NoStep
          /\ decisions[n].step = Inbox!selectedApproval
      BY <3>1 DEF DecisionIsShown
    <3>3. load = Inbox!Idle
      BY <3>2, NothingWaits
    <3>4. unsure = {}
      BY <3>2, <3>3, NothingUnsure DEF Inbox!needsRefresh
    <3>5. Inbox!selectedApproval' = Inbox!selectedApproval
      BY <3>1 DEF Inbox!selectedApproval, Inbox!SelectedIn
    <3>6. CASE unsure' = unsure
      BY <2>4, <3>1, <3>4, <3>6
    <3>7. CASE decisionError' = -1 /\ unsure' = unsure \cup {decisions[n].step}
      <4>1. Inbox!needsRefresh'
        BY <3>7 DEF Inbox!needsRefresh
      <4>2. \A s \in unsure' : s = Inbox!selectedApproval'
        BY <3>2, <3>4, <3>5, <3>7
      <4>3. load' = Inbox!Idle' /\ context' = newest'
        BY <2>0, <3>1, <3>3 DEF Inbox!Idle
      <4> QED BY <4>1, <4>2, <4>3 DEF UnsureIsHidden
    <3> QED BY <2>15, <3>6, <3>7 DEF Inbox!DecisionFails
  <2>16. CASE \/ Inbox!HistoryDetails \/ Inbox!CloseHistory \/ UNCHANGED Inbox!vars
              \/ (\E s \in Step, a \in Inbox!Actions : Inbox!OthersDecide(s, a))
              \/ \E n \in DOMAIN decisions : Inbox!ServerDecides(n)
    BY <2>3, <2>16 DEF Inbox!HistoryDetails, Inbox!CloseHistory, Inbox!OthersDecide, Inbox!ServerDecides,
       Inbox!vars, Inbox!inboxVars, Inbox!selectVars, Inbox!dialogVars
  <2> QED BY <2>6, <2>7, <2>8, <2>9, <2>10, <2>11, <2>12, <2>13, <2>14, <2>15, <2>16
          DEF Inbox!Next, Inbox!Moves, Inbox!Loading
<1> QED BY <1>0, <1>q

-----------------------------------------------------------------------------
LEMMA InboxInitially == Inbox!Init => InboxInv
<1> SUFFICES ASSUME Inbox!Init PROVE InboxInv
  OBVIOUS
<1>1. /\ newest = 1 /\ context = 1 /\ selectionQuery = 1 /\ pending = Null /\ recentlyHandled = Null
      /\ error = 0 /\ receipt = Inbox!NoReceipt /\ selectedStepId = Inbox!NoStep
      /\ selectedHistory = Inbox!NoStep /\ requestInFlight = 0 /\ decisionError = 0 /\ unsure = {}
      /\ load = Inbox!Flying /\ decisions = << >> /\ status = [s \in Step |-> "pending"]
      /\ backAndForward \in BOOLEAN
  BY DEF Inbox!Init
<1>2. InboxTypes
  <2>1. load \in Load /\ receipt \in Receipt
    BY <1>1 DEF Load, Receipt, Inbox!Flying
  <2>2. status \in Statuses
    BY <1>1 DEF Statuses
  <2>3. decisions \in Seq(Decision) /\ Len(decisions) = 0
    BY <1>1
  <2>4. 1 \in 1..Locations
    BY InboxParametersTyped
  <2> QED BY <1>1, <2>1, <2>2, <2>3, <2>4 DEF InboxTypes
<1>3. DecisionIsShown /\ ConfirmedIsTrue /\ SavedIsListed
  BY <1>1 DEF DecisionIsShown, ConfirmedIsTrue, SavedIsListed
<1>4. UnsureIsHidden
  BY <1>1 DEF UnsureIsHidden, Inbox!Flying, Inbox!Idle
<1> QED BY <1>2, <1>3, <1>4 DEF InboxInv

\* The inbox moves by its own steps, or not at all.
LEMMA PagesStepInbox ==
  ASSUME [Next]_vars
  PROVE  [Inbox!Next]_(Inbox!vars)
BY DEF Next, vars, InBell, InInbox, inboxVars, Inbox!vars, Inbox!inboxVars, Inbox!selectVars,
       Inbox!dialogVars

LEMMA InboxAlways == Spec => []InboxInv
<1>1. Init => InboxInv
  BY InboxInitially DEF Init
<1>2. InboxInv /\ [Next]_vars => InboxInv'
  <2> SUFFICES ASSUME InboxInv, [Next]_vars PROVE InboxInv'
    OBVIOUS
  <2>1. [Inbox!Next]_(Inbox!vars)
    BY PagesStepInbox
  <2>2. InboxTypes /\ DecisionIsShown /\ ConfirmedIsTrue /\ SavedIsListed /\ UnsureIsHidden
    BY DEF InboxInv
  <2>3. InboxTypes' /\ DecisionIsShown'
    BY <2>1, <2>2, InboxTypesStay, ShownStays
  <2>4. ConfirmedIsTrue' /\ SavedIsListed'
    BY <2>1, <2>2, <2>3, ConfirmedStays, ListedStays
  <2>5. UnsureIsHidden'
    BY <2>1, <2>2, HiddenStays
  <2> QED BY <2>3, <2>4, <2>5 DEF InboxInv
<1> QED BY <1>1, <1>2, PTL DEF Spec

\* For any payments, steps and locations, and whatever other approvers decide meanwhile: a step
\* whose decision was confirmed here is never listed again by an older list, and the receipt says
\* what the server has done (onDecision and the loads of ApprovalInbox).
THEOREM DecisionsAreShown == Spec => []DecisionsShown
<1>1. InboxInv => DecisionsShown
  <2> SUFFICES ASSUME InboxInv PROVE Inbox!DecisionsShown
    BY DEF DecisionsShown
  <2>1. InboxTypes /\ ConfirmedIsTrue /\ SavedIsListed
    BY DEF InboxInv
  <2>2. Inbox!InboxTypeOK
    BY <2>1 DEF InboxTypes, Inbox!InboxTypeOK, Statuses
  <2>3. Inbox!DecidedStepsLeave
    BY <2>1 DEF SavedIsListed, Inbox!DecidedStepsLeave
  <2>4. Inbox!ReceiptTruthful
    BY <2>1 DEF ConfirmedIsTrue, Truthful, Inbox!ReceiptTruthful
  <2> QED BY <2>2, <2>3, <2>4 DEF Inbox!DecisionsShown
<1> QED BY <1>1, InboxAlways, PTL

\* Without the browser's history, no decision is sent for a step whose earlier one has an unknown
\* outcome before a list that was asked for since has been shown (needsRefresh and refreshInbox).
THEOREM NoDecisionRepeated == Spec => NoBlindRetry
<1>1. ASSUME InboxInv, NEW a \in Inbox!Actions, ~backAndForward, Inbox!saveDecision(a)
      PROVE  Inbox!selectedApproval \notin unsure
  <2>1. InboxTypes /\ DecisionIsShown /\ UnsureIsHidden
    BY <1>1 DEF InboxInv
  <2>2. Inbox!selectedApproval # Inbox!NoStep /\ ~Inbox!needsRefresh
    BY <1>1 DEF Inbox!saveDecision
  <2>3. load = Inbox!Idle
    BY <1>1, <2>1, <2>2, NothingWaits
  <2>4. unsure = {}
    BY <1>1, <2>1, <2>2, <2>3, NothingUnsure
  <2> QED BY <2>4
<1>2. InboxInv /\ [Next]_vars =>
        [\A a \in Inbox!Actions : InInbox /\ ~backAndForward /\ Inbox!saveDecision(a)
                                    => Inbox!selectedApproval \notin unsure]_vars
  BY <1>1
<1> QED BY <1>2, InboxAlways, PTL DEF Spec, NoBlindRetry
=============================================================================
