----------------------------- MODULE PaymentForm -----------------------------
(***************************************************************************)
(* NewPayment.tsx: the payment form, its idempotency key and its messages, *)
(* over a network that loses requests and answers, delivers a request late *)
(* or after the page has given it up, and a page that can be left at any   *)
(* time.  The server is the promise that PaymentCreation keeps: one        *)
(* payment per key, created at most once, whatever becomes of the answer.  *)
(***************************************************************************)
EXTENDS Integers, Sequences

CONSTANTS
  Accounts,             \* ids of the accounts to choose from (positive)
  IbanTexts,            \* what can be typed or chosen as recipient account
  AmountTexts,          \* what can be typed as amount
  IbanOf,               \* a text without white space and in upper case
  AmountOf,             \* parsePaymentAmount of a text
  Role,                 \* the role of the stored user
  MaxKeys, MaxCalls, MaxPages   \* bounds: keys made, requests sent, page visits

NoAccount == 0
NoText    == ""
NoIban    == "no iban"       \* nothing is left of a text of white space
NoAmount  == "no amount"     \* parsePaymentAmount returned null
None      == [key |-> 0]     \* a null reference or state

FormAssumption ==
  /\ Accounts \subseteq Nat \ {0}
  /\ NoText \in IbanTexts /\ NoText \in AmountTexts
  /\ DOMAIN IbanOf = IbanTexts /\ DOMAIN AmountOf = AmountTexts
  /\ MaxKeys \in Nat /\ MaxCalls \in Nat /\ MaxPages \in Nat

Form == [account : Accounts \cup {NoAccount}, iban : IbanTexts, amount : AmountTexts]

\* The first state of the form.
EmptyForm == [account |-> NoAccount, iban |-> NoText, amount |-> NoText]

\* What a request asks for; its JSON text is the fingerprint of the attempt.
PaymentToCreate(f) ==
  [account |-> f.account, iban |-> IbanOf[f.iban], amount |-> AmountOf[f.amount]]
Contents == {PaymentToCreate(f) : f \in Form}

Statuses == {"pending_approval", "completed", "rejected"}

VARIABLES
  form, awaited,              \* paymentForm; the request handleSubmit waits for, 0 for none
  attempt,                    \* paymentAttemptRef
  submitError, createdPayment, confirmationOpen,
  page,                       \* which visit of the page this is
  calls,                      \* every apiRequest that was started, by this and by earlier visits
  lastKey,                    \* the keys 1..lastKey were made
  stored,                     \* the server: the payments by key
  confirmed                   \* keys whose payment some visit has shown as created

pageVars   == <<form, awaited, attempt, submitError, createdPayment, confirmationOpen>>
formVars   == <<pageVars, page, calls, lastKey, stored, confirmed>>

isSubmitting == awaited # 0
Keys == 1..MaxKeys
NoPayment == [status |-> "none"]

-----------------------------------------------------------------------------
(* The page                                                                *)

\* The confirmation is a modal dialog: the form behind it takes no input.
DialogShown == createdPayment # None /\ confirmationOpen

\* Mutant: the last confirmation stays.
ClearError == submitError' = "none" /\ UNCHANGED createdPayment

\* Every change of a field, and the choice of a recipient, withdraws the last message.
ClearMessages == submitError' = "none" /\ createdPayment' = None

handleAccountChange(a) ==
  /\ ~DialogShown
  /\ form' = [form EXCEPT !.account = a]
  /\ ClearMessages
  /\ UNCHANGED <<awaited, attempt, confirmationOpen, page, calls, lastKey, stored, confirmed>>

\* Typing an IBAN, or choosing a recipient who has it.
ChangeIban(text) ==
  /\ ~DialogShown
  /\ form' = [form EXCEPT !.iban = text]
  /\ ClearMessages
  /\ UNCHANGED <<awaited, attempt, confirmationOpen, page, calls, lastKey, stored, confirmed>>

ChangeAmount(text) ==
  /\ ~DialogShown
  /\ form' = [form EXCEPT !.amount = text]
  /\ ClearMessages
  /\ UNCHANGED <<awaited, attempt, confirmationOpen, page, calls, lastKey, stored, confirmed>>

\* The required fields: the browser does not submit the form without them.
RequiredFilled == form.account # NoAccount /\ form.iban # NoText /\ form.amount # NoText

\* The submit button is enabled.
CanSubmit == ~DialogShown /\ RequiredFilled /\ ~isSubmitting /\ Role # "attestant"

\* handleSubmit refuses white space as IBAN and an amount that JSON would not preserve.
RefuseSubmit ==
  /\ CanSubmit
  /\ \/ IbanOf[form.iban] = NoIban /\ submitError' = "incomplete"
     \/ IbanOf[form.iban] # NoIban /\ AmountOf[form.amount] = NoAmount /\ submitError' = "amount"
  /\ createdPayment' = None
  /\ UNCHANGED <<form, awaited, attempt, confirmationOpen, page, calls, lastKey, stored, confirmed>>

\* The last attempt was for the same payment and was not confirmed: its key is used again.
SameAttempt(content) == attempt # None /\ attempt.fingerprint = content

\* handleSubmit: keep or make the key, withdraw the messages, and start the request
\* with the fetch of a CSRF token.
SubmitPayment ==
  LET content == PaymentToCreate(form)
      key     == IF SameAttempt(content) THEN attempt.key ELSE lastKey + 1
  IN  /\ CanSubmit
      /\ IbanOf[form.iban] # NoIban /\ AmountOf[form.amount] # NoAmount
      /\ key \in Keys /\ Len(calls) < MaxCalls
      /\ attempt' = [key |-> key, fingerprint |-> content]
      /\ lastKey' = IF SameAttempt(content) THEN lastKey ELSE key
      /\ calls' = Append(calls, [key |-> key, content |-> content, page |-> page,
                                 phase |-> "csrf", code |-> "none", status |-> "none"])
      /\ awaited' = Len(calls')
      /\ ClearMessages
      /\ confirmationOpen' = FALSE
      /\ UNCHANGED <<form, page, stored, confirmed>>

\* Mutant: the attempt is forgotten when a request fails.
FailAndForget(e) ==
  /\ submitError' = e /\ awaited' = 0 /\ attempt' = None
  /\ UNCHANGED <<form, createdPayment, confirmationOpen>>

\* handleSubmit catches an error; the attempt and its key stay for a retry.
Fail(e) ==
  /\ submitError' = e /\ awaited' = 0
  /\ UNCHANGED <<form, attempt, createdPayment, confirmationOpen>>

\* handleSubmit has a complete answer: the attempt is over and the payment is shown.
Succeed(i) ==
  /\ awaited' = 0 /\ attempt' = None
  /\ createdPayment' = [key |-> calls[i].key, content |-> calls[i].content,
                        status |-> calls[i].status]
  /\ confirmationOpen' = TRUE
  /\ confirmed' = confirmed \cup {calls[i].key}
  /\ UNCHANGED <<form, submitError>>

\* "Okej", the close button and Escape.
CloseConfirmation ==
  /\ DialogShown
  /\ confirmationOpen' = FALSE
  /\ UNCHANGED <<form, awaited, attempt, submitError, createdPayment>>
  /\ UNCHANGED <<page, calls, lastKey, stored, confirmed>>

\* The page is left and opened again (or reloaded): a new component with a new state.
\* What the old one has started goes on, but nothing waits for it.
Reopen ==
  /\ page < MaxPages
  /\ page' = page + 1
  /\ form' = EmptyForm /\ awaited' = 0 /\ attempt' = None
  /\ submitError' = "none" /\ createdPayment' = None /\ confirmationOpen' = FALSE
  /\ UNCHANGED <<calls, lastKey, stored, confirmed>>

-----------------------------------------------------------------------------
(* apiRequest and the network                                              *)

InPhase(i, p) == i \in DOMAIN calls /\ calls[i].phase = p
Enter(i, p) == calls' = [calls EXCEPT ![i].phase = p]

\* The token has come: the POST is sent.
TokenFetched(i) ==
  /\ InPhase(i, "csrf") /\ Enter(i, "sent")
  /\ UNCHANGED <<pageVars, page, lastKey, stored, confirmed>>

\* Mutant: nobody is told that the POST is never sent.
TokenFailedSilently(i) ==
  /\ InPhase(i, "csrf") /\ Enter(i, "over")
  /\ UNCHANGED <<pageVars, page, lastKey, stored, confirmed>>

\* The token could not be fetched or read: the POST is never sent.
TokenFailed(i) ==
  /\ InPhase(i, "csrf") /\ Enter(i, "over")
  /\ IF awaited = i THEN Fail("preparation") ELSE UNCHANGED pageVars
  /\ UNCHANGED <<page, lastKey, stored, confirmed>>

\* The connection breaks while the page waits.  The POST may still reach the server.
ConnectionLost ==
  /\ isSubmitting /\ calls[awaited].phase \in {"sent", "answered"}
  /\ Fail("network")
  /\ UNCHANGED <<page, calls, lastKey, stored, confirmed>>

\* A request that nobody waits for any more gets lost, or its answer does.
LostOnTheWay(i) ==
  /\ InPhase(i, "sent") \/ InPhase(i, "answered")
  /\ awaited # i
  /\ Enter(i, "over")
  /\ UNCHANGED <<pageVars, page, lastKey, stored, confirmed>>

\* The errors createPayment can throw for an answer.  One without an id, or one that is
\* not complete, is an error although the payment was stored.
AnswerErrors(code) == IF code = "created" THEN {"unreadable"} ELSE {code}

\* createPayment has read the answer.
AnswerArrives(i) ==
  /\ InPhase(i, "answered") /\ Enter(i, "over")
  /\ \/ awaited # i /\ UNCHANGED <<pageVars, confirmed>>
     \/ awaited = i /\ calls[i].code = "created" /\ Succeed(i)
     \/ awaited = i /\ (\E e \in AnswerErrors(calls[i].code) : Fail(e)) /\ UNCHANGED confirmed
  /\ UNCHANGED <<page, lastKey, stored>>

-----------------------------------------------------------------------------
(* The server                                                              *)

Reply(i, c, s) == calls' = [calls EXCEPT ![i].phase = "answered", ![i].code = c, ![i].status = s]

\* POST /api/payments with a new key: stored with its answer, stored although the
\* answer is an error (the commit's answer was lost), or refused.
ServerCreates(i) ==
  /\ InPhase(i, "sent") /\ stored[calls[i].key] = NoPayment
  /\ \/ \E s \in {"pending_approval", "completed"} :
          /\ stored' = [stored EXCEPT ![calls[i].key] = [content |-> calls[i].content, status |-> s]]
          /\ Reply(i, "created", s) \/ Reply(i, "error", "none")
     \/ UNCHANGED stored /\ (Reply(i, "refused", "none") \/ Reply(i, "error", "none"))
  /\ UNCHANGED <<pageVars, page, lastKey, confirmed>>

\* The key belongs to a payment: the same data get that payment as it is now (a request
\* that races the first one may be refused for lack of funds), other data a conflict.
ServerKnows(i) ==
  /\ InPhase(i, "sent") /\ stored[calls[i].key] # NoPayment
  /\ LET p == stored[calls[i].key] IN
       \/ p.content = calls[i].content /\ Reply(i, "created", p.status)
       \/ p.content = calls[i].content /\ Reply(i, "refused", "none")
       \/ p.content # calls[i].content /\ Reply(i, "conflict", "none")
  /\ UNCHANGED <<pageVars, page, lastKey, stored, confirmed>>

\* An approver decides the payment meanwhile.
Decide(k, s) ==
  /\ stored[k].status = "pending_approval"
  /\ stored' = [stored EXCEPT ![k].status = s]
  /\ UNCHANGED <<pageVars, page, calls, lastKey, confirmed>>

-----------------------------------------------------------------------------
Init ==
  /\ form = EmptyForm /\ awaited = 0 /\ attempt = None
  /\ submitError = "none" /\ createdPayment = None /\ confirmationOpen = FALSE
  /\ page = 1 /\ calls = << >> /\ lastKey = 0
  /\ stored = [k \in Keys |-> NoPayment]
  /\ confirmed = {}

User ==
  \/ \E a \in Accounts \cup {NoAccount} : handleAccountChange(a)
  \/ \E t \in IbanTexts : ChangeIban(t)
  \/ \E t \in AmountTexts : ChangeAmount(t)
  \/ RefuseSubmit \/ SubmitPayment \/ CloseConfirmation \/ Reopen

Network == \E i \in 1..MaxCalls : TokenFetched(i) \/ TokenFailed(i) \/ LostOnTheWay(i) \/ AnswerArrives(i)
Server == \E i \in 1..MaxCalls : ServerCreates(i) \/ ServerKnows(i)

Next ==
  \/ User \/ Network \/ ConnectionLost \/ Server
  \/ \E k \in Keys, s \in {"completed", "rejected"} : Decide(k, s)

Spec == Init /\ [][Next]_formVars

\* A fetch that is waited for settles: the browser gets an answer or gives up.
Settle == \E i \in 1..MaxCalls : awaited = i /\ (TokenFetched(i) \/ TokenFailed(i) \/ AnswerArrives(i))
FairSpec == Spec /\ WF_formVars(Settle) /\ WF_formVars(ConnectionLost)

-----------------------------------------------------------------------------
Errors == {"none", "incomplete", "amount", "preparation", "network", "unreadable",
           "refused", "conflict", "error"}
Phases == {"csrf", "sent", "answered", "over"}

\* The state of the page, the requests and the server keep their types.
FormTypeOK ==
  /\ form \in Form /\ awaited \in 0..Len(calls)
  /\ attempt \in {None} \cup [key : Keys, fingerprint : Contents]
  /\ submitError \in Errors /\ confirmationOpen \in BOOLEAN
  /\ createdPayment \in {None} \cup [key : Keys, content : Contents, status : Statuses]
  /\ page \in 1..(MaxPages + 1) /\ lastKey \in 0..MaxKeys /\ confirmed \subseteq Keys
  /\ calls \in Seq([key : Keys, content : Contents, page : Nat, phase : Phases,
                    code : {"none", "created", "refused", "conflict", "error"},
                    status : Statuses \cup {"none"}])
  /\ stored \in [Keys -> {NoPayment} \cup [content : Contents, status : Statuses]]

\* A key is never sent with two different payments, however the form is edited between
\* retries: the page never runs into the 409 of the contract (handleSubmit's fingerprint).
KeyMeansOnePayment ==
  \A i, j \in DOMAIN calls : calls[i].key = calls[j].key => calls[i].content = calls[j].content

\* The page makes a second key for the same payment only after it has shown the payment
\* of the first one: a retry after any failure is the same attempt (paymentAttemptRef).
RetryReusesKey ==
  \A i \in DOMAIN calls :
    i + 1 \in DOMAIN calls /\ calls[i].page = calls[i + 1].page
    /\ calls[i].content = calls[i + 1].content /\ calls[i].key # calls[i + 1].key
    => calls[i].key \in confirmed

\* A payment that was shown as created never lends its key to the next one, even if it
\* is for the same data: the next one is stored as well ("must use a new key").
ConfirmedKeyIsSpent == attempt # None => attempt.key \notin confirmed

\* The idempotency contract as the page keeps it: a key stands for one payment, through
\* every edit, failure and retry, and for no other one after it (paymentAttemptRef).
KeyDiscipline == FormTypeOK /\ KeyMeansOnePayment /\ RetryReusesKey /\ ConfirmedKeyIsSpent

\* What the confirmation shows is what the server has under the key that was sent, and
\* no error stands beside it, although the form may have been edited while it was sent.
ConfirmationMatches ==
  createdPayment # None =>
    /\ stored[createdPayment.key] # NoPayment
    /\ stored[createdPayment.key].content = createdPayment.content
    /\ submitError = "none"

=============================================================================
