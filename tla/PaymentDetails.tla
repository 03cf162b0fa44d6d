----------------------------- MODULE PaymentDetails ----------------------------
(***************************************************************************)
(* The details page of one payment: the address names the payment, the     *)
(* server reads the payment with its steps and then, with a second query,  *)
(* its audit entries, and ApprovalTimeline puts each step into words.      *)
(* Meanwhile attestants decide the steps and the user goes to the details  *)
(* of another payment or tries again.                                      *)
(***************************************************************************)
EXTENDS Integers, FiniteSets

CONSTANTS
  Null,                     \* nothing loaded, or an address that is no payment number
  Payment, Step, PaymentOf, \* payments and their approval steps
  MaxAttempts               \* bound: the attempts on one page

DetailsAssumption ==
  /\ Null \notin Payment \cup Step \cup [id : Payment, attempt : Nat]
  /\ PaymentOf \in [Step -> Payment]
  /\ MaxAttempts \in Nat

VARIABLES
  \* the server: each step with the source of its decision, the audited decisions
  step, activity,
  \* the page: the address, the attempts, what was loaded last, whether the reader may decide
  paymentId, attempt, detail, canReadAuditLog,
  \* the request that counts, and one that was aborted and may still answer
  request, aborted

serverVars == <<step, activity>>
vars == <<serverVars, paymentId, attempt, detail, canReadAuditLog, request, aborted>>

StepsOf(p) == {s \in Step : PaymentOf[s] = p}
Open == [status |-> "pending", source |-> "none"]

\* A payment is pending until its last step is approved or one is rejected.
paymentStatus(st, p) ==
  CASE \E s \in StepsOf(p) : st[s] = [status |-> "rejected", source |-> "manual"] -> "rejected"
    [] \A s \in StepsOf(p) : st[s].status = "approved" -> "completed"
    [] OTHER -> "pending_approval"

-----------------------------------------------------------------------------
(* The server                                                              *)

\* A decision, the steps it ends and its audit entry are one transaction.
Decide(s, decision) ==
  /\ step[s] = Open
  /\ step' = [t \in Step |->
       IF t = s THEN [status |-> decision, source |-> "manual"]
       ELSE IF decision = "rejected" /\ t \in StepsOf(PaymentOf[s]) /\ step[t] = Open
            THEN [status |-> "rejected", source |-> "payment_rejected"] ELSE step[t]]
  /\ activity' = activity \cup {s}
  /\ UNCHANGED <<paymentId, attempt, detail, canReadAuditLog, request, aborted>>

\* Mutant: the audit entries are read first.
EntriesFirst == <<"audit entries", "payment">>

\* GetPaymentAsync: the payment with its steps first, then its audit entries.
Queries == <<"payment", "audit entries">>

Query ==
  /\ request.phase \in {"sent", "reading"}
  /\ LET n == IF request.phase = "sent" THEN 1 ELSE 2
     IN  request' = [request EXCEPT !.phase = IF n = 1 THEN "reading" ELSE "answered",
                                    !.step = IF Queries[n] = "payment" THEN step ELSE @,
                                    !.activity = IF Queries[n] = "audit entries" THEN activity ELSE @]
  /\ UNCHANGED <<serverVars, paymentId, attempt, detail, canReadAuditLog, aborted>>

-----------------------------------------------------------------------------
(* The page                                                                *)

requestKey == [id |-> paymentId, attempt |-> attempt]
INITIAL_DETAIL_STATE == [key |-> Null, loading |-> TRUE, error |-> 0, step |-> Null, activity |-> Null]

\* What is shown: what was loaded for this address and attempt, or the loading text.
displayedDetail ==
  IF paymentId = Null
  THEN [INITIAL_DETAIL_STATE EXCEPT !.key = requestKey, !.loading = FALSE, !.error = 400]
  ELSE IF detail.key = requestKey THEN detail ELSE INITIAL_DETAIL_STATE

NoRequest == [phase |-> "none"]
NewRequest(id, try) ==
  [key |-> [id |-> id, attempt |-> try], phase |-> "sent", step |-> Null, activity |-> Null]

\* The effect for a new address or attempt aborts the request of the one before.
Load ==
  /\ request' = IF paymentId' = Null THEN NoRequest ELSE NewRequest(paymentId', attempt')
  /\ aborted' = IF request.phase = "answered" THEN request ELSE aborted

Visit(p) ==
  /\ p # paymentId /\ paymentId' = p
  /\ UNCHANGED <<serverVars, attempt, detail, canReadAuditLog>>
  /\ Load

TryAgain ==
  /\ ~displayedDetail.loading /\ displayedDetail.error \notin {0, 401} /\ attempt < MaxAttempts
  /\ attempt' = attempt + 1
  /\ UNCHANGED <<serverVars, paymentId, detail, canReadAuditLog>>
  /\ IF paymentId = Null THEN UNCHANGED <<request, aborted>> ELSE Load

\* getPaymentDetails takes an answer only with the identity it asked for.
DetailArrives ==
  /\ request.phase = "answered" /\ request' = NoRequest
  /\ detail' = [key |-> request.key, loading |-> FALSE, error |-> 0,
                step |-> [s \in StepsOf(request.key.id) |-> request.step[s]],
                activity |-> request.activity \cap StepsOf(request.key.id)]
  /\ UNCHANGED <<serverVars, paymentId, attempt, canReadAuditLog, aborted>>

DetailFails(status) ==
  /\ request # NoRequest /\ request' = NoRequest
  /\ detail' = [key |-> request.key, loading |-> FALSE, error |-> status, step |-> Null, activity |-> Null]
  /\ UNCHANGED <<serverVars, paymentId, attempt, canReadAuditLog, aborted>>

LateDetail ==
  /\ aborted # NoRequest /\ aborted' = NoRequest
  /\ UNCHANGED <<serverVars, paymentId, attempt, detail, canReadAuditLog, request>>

-----------------------------------------------------------------------------
(* What is read on the page                                                *)

PaymentShown == displayedDetail.step # Null
ShownStatus == paymentStatus([s \in Step |-> IF s \in DOMAIN displayedDetail.step
                                             THEN displayedDetail.step[s] ELSE Open], paymentId)

\* ApprovalTimeline, its words in English.
statusText(s) ==
  CASE s.source = "payment_rejected" -> "cancelled"
    [] s.status = "pending" -> "waiting for approval"
    [] s.status = "approved" -> "approved"
    [] OTHER -> "rejected"

Timeline(text) == {s \in StepsOf(paymentId) : statusText(displayedDetail.step[s]) = text}

\* The bar below the payment and its link to the inbox.
ApprovalBar ==
  IF ~PaymentShown \/ ShownStatus # "pending_approval" THEN "none"
  ELSE IF canReadAuditLog THEN "open the approvals" ELSE "an attestant has to approve"

-----------------------------------------------------------------------------
Init ==
  /\ step = [s \in Step |-> Open] /\ activity = {}
  /\ paymentId \in Payment /\ attempt = 0 /\ detail = INITIAL_DETAIL_STATE
  /\ canReadAuditLog \in BOOLEAN
  /\ request = NewRequest(paymentId, 0) /\ aborted = NoRequest

Serve == Query \/ DetailArrives

Next ==
  \/ \E s \in Step, decision \in {"approved", "rejected"} : Decide(s, decision)
  \/ \E p \in Payment \cup {Null} : Visit(p)
  \/ Serve \/ (\E status \in {401, 404, 500} : DetailFails(status)) \/ LateDetail \/ TryAgain

Spec == Init /\ [][Next]_vars

\* The server answers.
FairSpec == Spec /\ WF_vars(Serve)

-----------------------------------------------------------------------------
\* The server's steps and the page keep their types; the page shows nothing of another address.
DetailsTypeOK ==
  /\ \A s \in Step : /\ step[s].status \in {"pending", "approved", "rejected"}
                     /\ step[s].source \in {"none", "manual", "payment_rejected"}
  /\ activity \subseteq Step /\ paymentId \in Payment \cup {Null} /\ attempt \in 0..MaxAttempts
  /\ detail.loading = (detail.key = Null)
  /\ ApprovalBar \in {"none", "open the approvals", "an attestant has to approve"}

\* The payment that is shown is the one the address names, and it was asked for by this attempt.
DetailOfTheAddress ==
  PaymentShown => /\ DOMAIN displayedDetail.step = StepsOf(paymentId)
                  /\ displayedDetail.key = requestKey

\* The words of the steps agree with the payment's status: one "rejected" and no open step in a
\* rejected payment, an open one and none rejected in a waiting one, only "approved" in a completed.
TimelineAgrees ==
  PaymentShown =>
    CASE ShownStatus = "completed" -> Timeline("approved") = StepsOf(paymentId)
      [] ShownStatus = "rejected" ->
           Cardinality(Timeline("rejected")) = 1 /\ Timeline("waiting for approval") = {}
      [] OTHER -> Timeline("waiting for approval") # {} /\ Timeline("rejected") \cup Timeline("cancelled") = {}

\* The activity on the page has every decision the timeline on the page shows, although the
\* two are read by two queries.
ActivityCoversTimeline ==
  PaymentShown => Timeline("approved") \cup Timeline("rejected") \subseteq displayedDetail.activity

\* Once the current request has been answered, the page does not go on loading.
AnsweredIsShown == request = NoRequest => ~displayedDetail.loading

\* The page tells one story of one payment: the one the address names, with a status, steps
\* and activity that agree, although two queries read them while others decide (GetPaymentAsync).
DetailTruthful ==
  DetailsTypeOK /\ DetailOfTheAddress /\ TimelineAgrees /\ ActivityCoversTimeline /\ AnsweredIsShown
=============================================================================
