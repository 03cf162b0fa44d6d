----------------------------- MODULE ApprovalInbox -----------------------------
(***************************************************************************)
(* The approval page: the inbox is loaded for every location and after     *)
(* every decision, a row opens ApprovalDetails, where the step is approved *)
(* or rejected over a network that loses answers, and a handled row opens  *)
(* ApprovalHistoryDetails.  Notification links lead to a new location, and *)
(* the browser's history back to an old one.                               *)
(***************************************************************************)
EXTENDS Integers, Sequences, FiniteSets

CONSTANTS
  Step, Payment, PaymentOf,    \* approval steps and their payments
  Null,                        \* a list that is not loaded
  Locations, TargetOf,         \* locations in the order they are visited, the payment each names
  MaxRequests,                 \* bound: decisions sent and failed loads together, ...
  MaxWithHistory               \* ... where the browser's history is used

NoStep == "no step"
NoPayment == "no payment"
NoReceipt == [step |-> NoStep]
Actions == {"approved", "rejected"}

InboxAssumption ==
  /\ NoStep \notin Step /\ (\A list \in SUBSET Step : list # Null) /\ NoPayment \notin Payment
  /\ PaymentOf \in [Step -> Payment]
  /\ Locations \in Nat \ {0} /\ TargetOf \in [1..Locations -> Payment \cup {NoPayment}]
  /\ MaxRequests \in Nat /\ MaxWithHistory \in Nat

VARIABLES
  \* ApprovalInbox: where the page is, the newest location, what is loaded and selected
  context, newest, pending, recentlyHandled, error, receipt,
  selectedStepId, selectedHistory, selectionQuery,
  \* ApprovalDetails: its decision in flight (0 for none) and its error; the history's load
  requestInFlight, decisionError, historyLoad,
  \* the current load of the inbox, how many failed and how the last one ended, the decisions
  load, failures, lastLoad, decisions,
  \* the server; the steps whose outcome is unknown to the user since the last load was sent
  status, unsure,
  \* whether the user goes back and forward in the browser's history
  backAndForward

inboxVars  == <<pending, recentlyHandled, error, receipt>>
selectVars == <<selectedStepId, selectedHistory, selectionQuery>>
dialogVars == <<requestInFlight, decisionError>>
vars == <<context, newest, inboxVars, selectVars, dialogVars, historyLoad,
          load, failures, lastLoad, decisions, status, unsure, backAndForward>>

\* Whether another request may be made.
Bounded == failures + Len(decisions) < (IF backAndForward THEN MaxWithHistory ELSE MaxRequests)

Idle   == [phase |-> "idle"]
Flying == [phase |-> "flying", unsure |-> unsure]

-----------------------------------------------------------------------------
(* The server: a rejection ends the payment's other open steps.            *)

Pending(st) == {s \in Step : st[s] = "pending"}

Decide(s, action) ==
  [t \in Step |-> IF t = s THEN action
                  ELSE IF action = "rejected" /\ PaymentOf[t] = PaymentOf[s] /\ status[t] = "pending"
                       THEN "cancelled" ELSE status[t]]

paymentStatus(st, p) ==
  IF \E s \in Step : PaymentOf[s] = p /\ st[s] = "rejected" THEN "rejected"
  ELSE IF \E s \in Step : PaymentOf[s] = p /\ st[s] = "pending" THEN "pending_approval" ELSE "completed"

-----------------------------------------------------------------------------
(* The page                                                                *)

isLoading == pending = Null /\ error = 0

SelectedIn(sel, query, ctx, list) ==
  IF query = ctx /\ list # Null /\ sel # NoStep THEN IF sel \in list THEN sel ELSE NoStep ELSE NoStep

selectedApproval == SelectedIn(selectedStepId, selectionQuery, context, pending)
HistoryShown == selectedHistory # NoStep /\ selectionQuery = context
DialogShown  == selectedApproval # NoStep \/ HistoryShown

\* ApprovalDetails is mounted for a step, with its key, and loses its state with it.  A decision
\* that is left behind is unknown to the user.
Remount ==
  LET now == SelectedIn(selectedStepId', selectionQuery', context', pending')
  IN  IF now = selectedApproval THEN UNCHANGED <<dialogVars, unsure>>
      ELSE /\ requestInFlight' = 0 /\ decisionError' = 0
           /\ unsure' = IF requestInFlight = 0 THEN unsure ELSE unsure \cup {selectedApproval}

\* Loading again for a location does not clear what is there.
Navigate(l) ==
  /\ l # context /\ l <= newest + 1 /\ l <= Locations
  /\ \/ l > newest /\ ~DialogShown                 \* a link, which a modal dialog covers
     \/ l <= newest /\ backAndForward
  /\ context' = l /\ newest' = IF l > newest THEN l ELSE newest
  /\ load' = Flying /\ historyLoad' = "loading"
  /\ UNCHANGED <<inboxVars, selectVars, failures, lastLoad, decisions, status>>
  /\ Remount

refreshInbox ==
  /\ selectedStepId' = NoStep /\ selectedHistory' = NoStep
  /\ pending' = Null /\ recentlyHandled' = Null
  /\ error' = 0 /\ load' = Flying

Refresh ==
  /\ ~DialogShown /\ ~isLoading
  /\ refreshInbox
  /\ UNCHANGED <<context, newest, receipt, selectionQuery, dialogVars, historyLoad>>
  /\ UNCHANGED <<failures, lastLoad, decisions, status, unsure>>

ServerLists ==
  /\ load.phase = "flying"
  /\ load' = [phase |-> "answered", status |-> status, unsure |-> load.unsure]
  /\ UNCHANGED <<context, newest, inboxVars, selectVars, dialogVars, historyLoad>>
  /\ UNCHANGED <<failures, lastLoad, decisions, status, unsure>>

\* A step of the payment the location names is selected.
Matching(list, l) ==
  IF \E s \in list : PaymentOf[s] = TargetOf[l]
  THEN {s \in list : PaymentOf[s] = TargetOf[l]} ELSE {NoStep}

InboxArrives ==
  /\ load.phase = "answered" /\ load' = Idle
  /\ pending' = Pending(load.status) /\ recentlyHandled' = Step \ Pending(load.status)
  /\ selectedStepId' \in Matching(pending', context)
  /\ selectedHistory' = NoStep /\ selectionQuery' = context /\ lastLoad' = "succeeded"
  /\ historyLoad' = "loading"
  /\ UNCHANGED <<context, newest, error, receipt, failures, decisions, status>>
  /\ LET now == SelectedIn(selectedStepId', selectionQuery', context, pending')
     IN  IF now = selectedApproval
         THEN UNCHANGED dialogVars /\ unsure' = unsure \ load.unsure
         ELSE /\ requestInFlight' = 0 /\ decisionError' = 0
              /\ unsure' = (unsure \ load.unsure)
                             \cup IF requestInFlight = 0 THEN {} ELSE {selectedApproval}

InboxFails ==
  /\ load # Idle /\ load' = Idle /\ Bounded /\ failures' = failures + 1
  /\ lastLoad' = "failed"
  /\ error' \in {401, 500}
  /\ UNCHANGED <<context, newest, pending, recentlyHandled, receipt, selectVars, dialogVars>>
  /\ UNCHANGED <<historyLoad, decisions, status, unsure>>

\* The table is shown where nothing is loading and there is no error.
SelectStep(s) ==
  /\ ~DialogShown /\ error = 0 /\ ~isLoading /\ s \in pending
  /\ selectedHistory' = NoStep /\ selectedStepId' = s
  /\ UNCHANGED <<context, newest, inboxVars, selectionQuery, historyLoad>>
  /\ UNCHANGED <<load, failures, lastLoad, decisions, status>>
  /\ Remount

-----------------------------------------------------------------------------
(* ApprovalHistoryDetails                                                  *)

SelectHistory(s) ==
  /\ ~DialogShown /\ error = 0 /\ recentlyHandled # Null /\ s \in recentlyHandled
  /\ selectedStepId' = NoStep /\ selectedHistory' = s /\ historyLoad' = "loading"
  /\ UNCHANGED <<context, newest, inboxVars, selectionQuery, dialogVars>>
  /\ UNCHANGED <<load, failures, lastLoad, decisions, status, unsure>>

\* The details arrive or fail; "try again" loads them once more.
HistoryDetails ==
  /\ HistoryShown
  /\ \/ historyLoad = "loading" /\ historyLoad' \in {"loaded", "failed"}
     \/ historyLoad = "failed" /\ historyLoad' = "loading"
  /\ UNCHANGED <<context, newest, inboxVars, selectVars, dialogVars>>
  /\ UNCHANGED <<load, failures, lastLoad, decisions, status, unsure>>

CloseHistory ==
  /\ HistoryShown /\ selectedHistory' = NoStep /\ historyLoad' = "loading"
  /\ UNCHANGED <<context, newest, inboxVars, selectedStepId, selectionQuery, dialogVars>>
  /\ UNCHANGED <<load, failures, lastLoad, decisions, status, unsure>>

-----------------------------------------------------------------------------
(* ApprovalDetails                                                         *)

\* The list has to be refreshed after any error but a bad request.
needsRefresh == decisionError \notin {0, 400}

saveDecision(action) ==
  /\ selectedApproval # NoStep /\ requestInFlight = 0 /\ ~needsRefresh
  /\ Bounded
  /\ decisions' = Append(decisions, [step |-> selectedApproval, action |-> action,
                                     phase |-> "flying", code |-> 0, paid |-> "unknown"])
  /\ requestInFlight' = Len(decisions') /\ decisionError' = 0
  /\ UNCHANGED <<context, newest, inboxVars, selectVars, historyLoad>>
  /\ UNCHANGED <<load, failures, lastLoad, status, unsure>>

\* The server decides an open step, or refuses; a step that is not open is a conflict.
ServerDecides(n) ==
  /\ n \in DOMAIN decisions /\ decisions[n].phase = "flying"
  /\ LET s == decisions[n].step
         Answer(code, st) == decisions' = [decisions EXCEPT ![n].phase = "answered", ![n].code = code,
                               ![n].paid = paymentStatus(st, PaymentOf[s])]
     IN  \/ /\ status[s] = "pending" /\ status' = Decide(s, decisions[n].action)
            /\ Answer(200, status')
         \/ /\ UNCHANGED status
            /\ \E code \in {400, 401, 409} : Answer(code, status)
            /\ status[s] # "pending" => decisions'[n].code = 409
  /\ UNCHANGED <<context, newest, inboxVars, selectVars, dialogVars, historyLoad>>
  /\ UNCHANGED <<load, failures, lastLoad, unsure>>

Over(d, phase) == [step |-> d.step, action |-> d.action, phase |-> phase, code |-> 0, paid |-> "unknown"]

\* Mutant: a conflict counts as saved, since the step is decided.
ConflictSaved(n) ==
  /\ requestInFlight = n /\ n # 0 /\ decisions[n].phase = "answered" /\ decisions[n].code \in {200, 409}
  /\ receipt' = [step |-> decisions[n].step, action |-> decisions[n].action, paid |-> decisions[n].paid]
  /\ decisions' = [decisions EXCEPT ![n] = Over(@, "saved")]
  /\ refreshInbox
  /\ requestInFlight' = 0 /\ decisionError' = 0
  /\ UNCHANGED <<context, newest, selectionQuery, historyLoad, failures, lastLoad, status, unsure>>

\* onDecision: the receipt, and a new list.
DecisionSaved(n) ==
  /\ requestInFlight = n /\ n # 0 /\ decisions[n].phase = "answered" /\ decisions[n].code = 200
  /\ receipt' = [step |-> decisions[n].step, action |-> decisions[n].action, paid |-> decisions[n].paid]
  /\ decisions' = [decisions EXCEPT ![n] = Over(@, "saved")]
  /\ refreshInbox
  /\ requestInFlight' = 0 /\ decisionError' = 0
  /\ UNCHANGED <<context, newest, selectionQuery, historyLoad, failures, lastLoad, status, unsure>>

\* decideApproval throws: a refusal, no answer (0 is a status here: -1), or one that does not fit.
DecisionFails(n) ==
  /\ requestInFlight = n /\ n # 0
  /\ \/ /\ decisions[n].phase = "answered" /\ decisions[n].code # 200
        /\ decisionError' = decisions[n].code /\ UNCHANGED unsure
        /\ decisions' = [decisions EXCEPT ![n] = Over(@, "refused")]
     \/ /\ decisionError' = -1 /\ unsure' = unsure \cup {decisions[n].step}
        /\ \/ decisions[n].phase = "flying" /\ UNCHANGED decisions
           \/ decisions' = [decisions EXCEPT ![n] = Over(@, "lost")]
  /\ requestInFlight' = 0
  /\ UNCHANGED <<context, newest, inboxVars, selectVars, historyLoad, load, failures, lastLoad, status>>

\* Mutant: the dialog closes without refreshing the list.
closeOnly ==
  /\ selectedApproval # NoStep /\ requestInFlight = 0
  /\ selectedStepId' = NoStep /\ UNCHANGED <<pending, recentlyHandled, error, selectedHistory, load>>
  /\ decisionError' = 0
  /\ UNCHANGED <<context, newest, receipt, selectionQuery, requestInFlight, historyLoad>>
  /\ UNCHANGED <<failures, lastLoad, decisions, status, unsure>>

\* "Stäng", the close button, Escape, or "Uppdatera listan".
closeDetails ==
  /\ selectedApproval # NoStep /\ requestInFlight = 0
  /\ IF needsRefresh THEN refreshInbox
     ELSE selectedStepId' = NoStep /\ UNCHANGED <<pending, recentlyHandled, error, selectedHistory, load>>
  /\ decisionError' = 0
  /\ UNCHANGED <<context, newest, receipt, selectionQuery, requestInFlight, historyLoad>>
  /\ UNCHANGED <<failures, lastLoad, decisions, status, unsure>>

\* A colleague decides an open step.
OthersDecide(s, action) ==
  /\ status[s] = "pending" /\ status' = Decide(s, action)
  /\ UNCHANGED <<context, newest, inboxVars, selectVars, dialogVars, historyLoad>>
  /\ UNCHANGED <<load, failures, lastLoad, decisions, unsure>>

-----------------------------------------------------------------------------
Init ==
  /\ context = 1 /\ newest = 1
  /\ pending = Null /\ recentlyHandled = Null /\ error = 0 /\ receipt = NoReceipt
  /\ selectedStepId = NoStep /\ selectedHistory = NoStep /\ selectionQuery = 1
  /\ requestInFlight = 0 /\ decisionError = 0 /\ historyLoad = "loading"
  /\ unsure = {} /\ load = Flying /\ failures = 0 /\ lastLoad = "none" /\ decisions = << >>
  /\ status = [s \in Step |-> "pending"] /\ backAndForward \in BOOLEAN

Loading == ServerLists \/ InboxArrives \/ InboxFails

Moves ==
  \/ \E l \in 1..Locations : Navigate(l)
  \/ Refresh \/ Loading \/ HistoryDetails \/ CloseHistory \/ closeDetails
  \/ \E s \in Step : SelectStep(s) \/ SelectHistory(s) \/ \E a \in Actions : OthersDecide(s, a)
  \/ \E a \in Actions : saveDecision(a)
  \/ \E n \in DOMAIN decisions : ServerDecides(n) \/ DecisionSaved(n) \/ DecisionFails(n)

Next == Moves /\ UNCHANGED backAndForward

Spec == Init /\ [][Next]_vars

\* A load is answered or fails.
FairSpec == Spec /\ WF_vars(Loading)

-----------------------------------------------------------------------------
\* The page, its dialogs and the server keep their types.
InboxTypeOK ==
  /\ context \in 1..newest /\ newest \in 1..Locations /\ selectionQuery \in 1..newest
  /\ {pending, recentlyHandled} \subseteq {Null} \cup SUBSET Step
  /\ {selectedStepId, selectedHistory} \subseteq Step \cup {NoStep}
  /\ error \in {0, 401, 500} /\ decisionError \in {-1, 0, 400, 401, 409}
  /\ requestInFlight \in 0..Len(decisions) /\ unsure \subseteq Step
  /\ status \in [Step -> {"pending", "approved", "rejected", "cancelled"}]

\* "The caller must refresh the inbox before deciding whether to retry": no decision is sent
\* for a step whose earlier one has an unknown outcome until a list asked for since is there.
NoBlindRetry ==
  [][\A a \in Actions : saveDecision(a) => selectedApproval \notin unsure]_vars

\* A step that was decided here and confirmed is not offered again by an older list.
DecidedStepsLeave ==
  \A n \in DOMAIN decisions :
    decisions[n].phase = "saved" /\ pending # Null => decisions[n].step \notin pending

\* The receipt tells what the server did: the step has the user's decision, and the payment is
\* carried out only when every step is approved.
ReceiptTruthful ==
  receipt # NoReceipt =>
    /\ status[receipt.step] = receipt.action
    /\ receipt.paid # "pending_approval" =>
         receipt.paid = paymentStatus(status, PaymentOf[receipt.step])

\* What the page says of decisions is what became of them: decided steps are not offered
\* again, and the receipt is the server's answer (onDecision, refreshInbox).
DecisionsShown == InboxTypeOK /\ DecidedStepsLeave /\ ReceiptTruthful

\* "must reload its actionable state": once the newest load has succeeded, its list is shown
\* and not the error of an earlier one.
LoadedInboxShown == lastLoad = "succeeded" => error = 0
=============================================================================
