-------------------------- MODULE NewPaymentProofs --------------------------
(***************************************************************************)
(* The payment page: KeyDiscipline and ConfirmationMatches of the form,    *)
(* and ListsTruthful and SavesTruthful of the recipient picker, for any    *)
(* number of requests, visits, recipients and refreshes; HistoryInv of the *)
(* search through earlier payments for every list, every number of loops   *)
(* and every limit, and the refinement of HistoryRequest.                  *)
(***************************************************************************)
EXTENDS MCNewPayment, SharedLemmas

-----------------------------------------------------------------------------
(* The form: what its keys mean                                            *)

Call == [key : Form!Keys, content : Form!Contents, page : Nat, phase : Form!Phases,
         code : {"none", "created", "refused", "conflict", "error"},
         status : Form!Statuses \cup {"none"}]

\* Every key that is in use was made, and no request comes from a later visit.
KeysWereMade ==
  /\ \A i \in DOMAIN calls : calls[i].key <= lastKey /\ calls[i].page <= page
  /\ \A k \in confirmed : k <= lastKey

\* The key of the attempt was made and not confirmed, and sent for its payment only.
AttemptIsOpen ==
  attempt # Form!None =>
    /\ attempt.key <= lastKey /\ attempt.key \notin confirmed
    /\ \A i \in DOMAIN calls : calls[i].key = attempt.key => calls[i].content = attempt.fingerprint

\* The attempt is that of the last request of this visit, unless it was confirmed.
AttemptIsLast ==
  calls # << >> /\ calls[Len(calls)].page = page =>
    \/ calls[Len(calls)].key \in confirmed
    \/ /\ attempt # Form!None
       /\ attempt.key = calls[Len(calls)].key
       /\ attempt.fingerprint = calls[Len(calls)].content

\* The request that is waited for is the last one, of this visit and for the attempt.
AwaitedIsLast ==
  awaited # 0 =>
    /\ awaited = Len(calls) /\ calls[awaited].page = page
    /\ attempt # Form!None /\ attempt.key = calls[awaited].key
    /\ createdPayment = Form!None /\ submitError = "none"

\* An answer of success is about a payment that is stored with the data of the request.
CreatedIsStored ==
  \A i \in DOMAIN calls : calls[i].code = "created" =>
    /\ calls[i].status \in Form!Statuses
    /\ stored[calls[i].key] # Form!NoPayment
    /\ stored[calls[i].key].content = calls[i].content

FormInv ==
  /\ Form!KeyDiscipline /\ Form!ConfirmationMatches
  /\ KeysWereMade /\ AttemptIsOpen /\ AttemptIsLast /\ AwaitedIsLast /\ CreatedIsStored

LEMMA FormParametersTyped ==
  /\ Accounts \subseteq Nat \ {0} /\ "" \in IbanTexts /\ "" \in AmountTexts
  /\ MaxKeys \in Nat /\ MaxCalls \in Nat /\ MaxPages \in Nat
BY FormParameters DEF Form!FormAssumption, Form!NoText

\* The form always asks for a payment of the known contents.
LEMMA ContentType ==
  ASSUME NEW f \in Form!Form
  PROVE  Form!PaymentToCreate(f) \in Form!Contents
BY DEF Form!Contents

\* The requests are a sequence of calls, each at its place.
LEMMA CallType ==
  ASSUME Form!FormTypeOK
  PROVE  /\ calls \in Seq(Call) /\ Len(calls) \in Nat /\ DOMAIN calls = 1..Len(calls)
         /\ \A i \in DOMAIN calls : i \in Nat /\ i > 0 /\ calls[i] \in Call
<1>1. calls \in Seq(Call)
  BY DEF Form!FormTypeOK, Call
<1> QED BY <1>1, ElementOfSeq

\* The initial page has sent nothing.
LEMMA FormInit == Form!Init => FormInv
<1> SUFFICES ASSUME Form!Init PROVE FormInv
  OBVIOUS
<1> USE DEF Form!Init
<1> calls = << >> /\ DOMAIN calls = {} /\ Len(calls) = 0
  OBVIOUS
<1>1. Form!FormTypeOK
  <2>1. form \in Form!Form
    BY FormParametersTyped DEF Form!Form, Form!EmptyForm, Form!NoText, Form!NoAccount
  <2>2. calls \in Seq(Call)
    OBVIOUS
  <2>3. stored \in [Form!Keys -> {Form!NoPayment} \cup [content : Form!Contents, status : Form!Statuses]]
    OBVIOUS
  <2>4. page \in 1..(MaxPages + 1) /\ lastKey \in 0..MaxKeys /\ awaited \in 0..Len(calls)
    <3>1. MaxPages \in Nat /\ MaxKeys \in Nat
      BY FormParametersTyped
    <3>2. page = 1 /\ lastKey = 0 /\ awaited = 0 /\ Len(calls) = 0
      OBVIOUS
    <3> QED BY ONLY <3>1, <3>2
  <2>5. submitError \in Form!Errors /\ confirmationOpen \in BOOLEAN /\ confirmed \subseteq Form!Keys
    BY DEF Form!Errors
  <2> QED BY <2>1, <2>2, <2>3, <2>4, <2>5 DEF Form!FormTypeOK, Call
<1>2. Form!KeyDiscipline /\ Form!ConfirmationMatches
  BY <1>1 DEF Form!KeyDiscipline, Form!KeyMeansOnePayment, Form!RetryReusesKey,
              Form!ConfirmedKeyIsSpent, Form!ConfirmationMatches
<1> QED BY <1>2 DEF FormInv, KeysWereMade, AttemptIsOpen, AttemptIsLast, AwaitedIsLast,
                    CreatedIsStored

-----------------------------------------------------------------------------
(* Steps that leave the keys as they are                                   *)

StoredPayments == {Form!NoPayment} \cup [content : Form!Contents, status : Form!Statuses]

\* The requests stay what they were, whatever becomes of them.
SameRequests ==
  /\ calls' \in Seq(Call) /\ Len(calls') = Len(calls)
  /\ \A i \in DOMAIN calls :
       /\ calls'[i].key = calls[i].key /\ calls'[i].content = calls[i].content
       /\ calls'[i].page = calls[i].page

\* No request is answered with success by this step.
NoNewSuccess ==
  \A i \in DOMAIN calls : calls'[i].code = "created" =>
    calls[i].code = "created" /\ calls'[i].status = calls[i].status

\* A payment that is stored stays, with its data.
StoredGrows ==
  /\ stored' \in [Form!Keys -> StoredPayments]
  /\ \A k \in Form!Keys : stored[k] # Form!NoPayment =>
       stored'[k] # Form!NoPayment /\ stored'[k].content = stored[k].content

\* What the keys mean to the page and to its requests.
KeyFacts ==
  /\ Form!KeyMeansOnePayment /\ Form!RetryReusesKey /\ Form!ConfirmedKeyIsSpent
  /\ KeysWereMade /\ AttemptIsOpen /\ AttemptIsLast

\* Requests that stay requests have the same places.
LEMMA SamePlaces ==
  ASSUME FormInv, SameRequests
  PROVE  DOMAIN calls' = DOMAIN calls /\ (calls' = << >> <=> calls = << >>)
<1>1. Form!FormTypeOK
  BY DEF FormInv, Form!KeyDiscipline
<1>2. DOMAIN calls = 1..Len(calls) /\ calls \in Seq(Call)
  BY <1>1, CallType
<1>3. DOMAIN calls' = 1..Len(calls') /\ calls' \in Seq(Call)
  BY DEF SameRequests
<1> QED BY <1>2, <1>3 DEF SameRequests

LEMMA KeysKept ==
  ASSUME FormInv, SameRequests, UNCHANGED <<attempt, page, lastKey, confirmed>>
  PROVE  KeyFacts'
<1>1. DOMAIN calls' = DOMAIN calls /\ (calls' = << >> <=> calls = << >>) /\ Len(calls') = Len(calls)
  BY SamePlaces DEF SameRequests
<1>2. DOMAIN calls = 1..Len(calls) /\ Len(calls) \in Nat /\ (calls # << >> => Len(calls) \in DOMAIN calls)
  BY CallType DEF FormInv, Form!KeyDiscipline
<1>3. /\ Form!KeyMeansOnePayment /\ Form!RetryReusesKey /\ Form!ConfirmedKeyIsSpent
      /\ KeysWereMade /\ AttemptIsOpen /\ AttemptIsLast
  BY DEF FormInv, Form!KeyDiscipline
<1>4. Form!KeyMeansOnePayment' /\ Form!ConfirmedKeyIsSpent'
  BY <1>1, <1>3 DEF Form!KeyMeansOnePayment, Form!ConfirmedKeyIsSpent, SameRequests
<1>5. Form!RetryReusesKey'
  BY <1>1, <1>3 DEF Form!RetryReusesKey, SameRequests
<1>6. KeysWereMade' /\ AttemptIsOpen'
  BY <1>1, <1>3 DEF KeysWereMade, AttemptIsOpen, SameRequests
<1>7. AttemptIsLast'
  BY <1>1, <1>2, <1>3 DEF AttemptIsLast, SameRequests
<1> QED BY <1>4, <1>5, <1>6, <1>7 DEF KeyFacts

LEMMA CreatedKept ==
  ASSUME FormInv, SameRequests, NoNewSuccess, StoredGrows
  PROVE  CreatedIsStored'
<1>1. DOMAIN calls' = DOMAIN calls
  BY SamePlaces
<1>2. CreatedIsStored /\ Form!FormTypeOK
  BY DEF FormInv, Form!KeyDiscipline
<1>3. \A i \in DOMAIN calls : calls[i].key \in Form!Keys
  BY <1>2, CallType DEF Call
<1> SUFFICES ASSUME NEW i \in DOMAIN calls, calls'[i].code = "created"
             PROVE  /\ calls'[i].status \in Form!Statuses
                    /\ stored'[calls'[i].key] # Form!NoPayment
                    /\ stored'[calls'[i].key].content = calls'[i].content
  BY <1>1 DEF CreatedIsStored
<1>4. calls[i].code = "created" /\ calls'[i].status = calls[i].status
  BY DEF NoNewSuccess
<1>5. calls'[i].key = calls[i].key /\ calls'[i].content = calls[i].content
  BY DEF SameRequests
<1> QED BY <1>2, <1>3, <1>4, <1>5 DEF CreatedIsStored, StoredGrows

LEMMA ConfirmationKept ==
  ASSUME FormInv, StoredGrows, UNCHANGED <<createdPayment, submitError>>
  PROVE  Form!ConfirmationMatches'
<1>1. Form!ConfirmationMatches /\ Form!FormTypeOK
  BY DEF FormInv, Form!KeyDiscipline
<1>2. createdPayment # Form!None => createdPayment.key \in Form!Keys
  BY <1>1 DEF Form!FormTypeOK
<1> QED BY <1>1, <1>2 DEF Form!ConfirmationMatches, StoredGrows

\* The page waits for the same request, or for none.
LEMMA AwaitedKept ==
  ASSUME FormInv, SameRequests,
         awaited' = 0 \/ UNCHANGED <<awaited, attempt, createdPayment, submitError, page>>
  PROVE  AwaitedIsLast' /\ awaited' \in 0..Len(calls')
<1>1. Form!FormTypeOK /\ AwaitedIsLast
  BY DEF FormInv, Form!KeyDiscipline
<1>2. DOMAIN calls = 1..Len(calls) /\ Len(calls) \in Nat /\ awaited \in 0..Len(calls)
  BY <1>1, CallType DEF Form!FormTypeOK
<1> QED BY <1>1, <1>2 DEF AwaitedIsLast, SameRequests

-----------------------------------------------------------------------------
(* The steps of the form                                                   *)

\* A step of the page alone: what is typed, refused and closed.
LEMMA PageStepInv ==
  ASSUME FormInv, form' \in Form!Form, confirmationOpen' \in BOOLEAN,
         \/ UNCHANGED <<submitError, createdPayment>>
         \/ submitError' = "none" /\ createdPayment' = Form!None
         \/ awaited = 0 /\ submitError' \in Form!Errors /\ createdPayment' = Form!None,
         UNCHANGED <<awaited, attempt, page, calls, lastKey, stored, confirmed>>
  PROVE  FormInv'
<1>1. Form!FormTypeOK
  BY DEF FormInv, Form!KeyDiscipline
<1>2. SameRequests /\ NoNewSuccess /\ StoredGrows
  BY <1>1, CallType DEF SameRequests, NoNewSuccess, StoredGrows, StoredPayments, Form!FormTypeOK
<1>3. KeyFacts'
  BY <1>2, KeysKept
<1>4. CreatedIsStored'
  BY <1>2, CreatedKept
<1>5. Form!ConfirmationMatches'
  <2>1. CASE createdPayment' = Form!None
    BY <2>1 DEF Form!ConfirmationMatches
  <2>2. CASE UNCHANGED <<submitError, createdPayment>>
    BY <1>2, <2>2, ConfirmationKept
  <2> QED BY <2>1, <2>2
<1>6. AwaitedIsLast'
  BY DEF FormInv, AwaitedIsLast
<1>7. Form!FormTypeOK'
  <2>1. submitError' \in Form!Errors
    BY <1>1 DEF Form!FormTypeOK, Form!Errors
  <2>2. createdPayment' \in {Form!None} \cup [key : Form!Keys, content : Form!Contents,
                                              status : Form!Statuses]
    BY <1>1 DEF Form!FormTypeOK
  <2> QED BY <1>1, <2>1, <2>2 DEF Form!FormTypeOK
<1> QED BY <1>3, <1>4, <1>5, <1>6, <1>7 DEF FormInv, KeyFacts, Form!KeyDiscipline

LEMMA FieldsInv ==
  ASSUME FormInv,
         \/ \E a \in Accounts \cup {Form!NoAccount} : Form!handleAccountChange(a)
         \/ \E t \in IbanTexts : Form!ChangeIban(t)
         \/ \E t \in AmountTexts : Form!ChangeAmount(t)
  PROVE  FormInv'
<1>1. form \in Form!Form
  BY DEF FormInv, Form!KeyDiscipline, Form!FormTypeOK
<1>2. /\ form' \in Form!Form
      /\ UNCHANGED <<awaited, attempt, confirmationOpen, page, calls, lastKey, stored, confirmed>>
      /\ submitError' = "none" /\ createdPayment' = Form!None
  BY <1>1 DEF Form!handleAccountChange, Form!ChangeIban, Form!ChangeAmount, Form!ClearMessages,
              Form!Form
<1>3. confirmationOpen' \in BOOLEAN
  BY <1>2 DEF FormInv, Form!KeyDiscipline, Form!FormTypeOK
<1> QED BY <1>2, <1>3, PageStepInv

LEMMA RefuseAndCloseInv ==
  ASSUME FormInv, Form!RefuseSubmit \/ Form!CloseConfirmation
  PROVE  FormInv'
<1>1. form \in Form!Form /\ confirmationOpen \in BOOLEAN
  BY DEF FormInv, Form!KeyDiscipline, Form!FormTypeOK
<1>2. CASE Form!RefuseSubmit
  <2>1. awaited = 0 /\ submitError' \in Form!Errors /\ createdPayment' = Form!None
    BY <1>2 DEF Form!RefuseSubmit, Form!CanSubmit, Form!isSubmitting, Form!Errors
  <2>2. UNCHANGED <<form, awaited, attempt, confirmationOpen, page, calls, lastKey, stored, confirmed>>
    BY <1>2 DEF Form!RefuseSubmit
  <2> QED BY <1>1, <2>1, <2>2, PageStepInv
<1>3. CASE Form!CloseConfirmation
  <2>1. /\ UNCHANGED <<form, awaited, attempt, submitError, createdPayment>>
        /\ UNCHANGED <<page, calls, lastKey, stored, confirmed>> /\ confirmationOpen' = FALSE
    BY <1>3 DEF Form!CloseConfirmation
  <2> QED BY <1>1, <2>1, PageStepInv
<1> QED BY <1>2, <1>3

\* A new visit knows nothing of the requests of the old one.
LEMMA ReopenInv ==
  ASSUME FormInv, Form!Reopen
  PROVE  FormInv'
<1> USE DEF Form!Reopen
<1>1. Form!FormTypeOK /\ KeysWereMade
  BY DEF FormInv, Form!KeyDiscipline
<1>2. SameRequests /\ NoNewSuccess /\ StoredGrows
  BY <1>1, CallType DEF SameRequests, NoNewSuccess, StoredGrows, StoredPayments, Form!FormTypeOK
<1>3. CreatedIsStored'
  BY <1>2, CreatedKept
<1>4. Form!ConfirmationMatches' /\ AwaitedIsLast' /\ AttemptIsOpen' /\ Form!ConfirmedKeyIsSpent'
  BY DEF Form!ConfirmationMatches, AwaitedIsLast, AttemptIsOpen, Form!ConfirmedKeyIsSpent
<1>5. Form!KeyMeansOnePayment' /\ Form!RetryReusesKey'
  BY DEF FormInv, Form!KeyDiscipline, Form!KeyMeansOnePayment, Form!RetryReusesKey
<1>6. page \in Nat /\ page' = page + 1 /\ page' \in 1..(MaxPages + 1)
  <2>1. page \in 1..(MaxPages + 1) /\ MaxPages \in Nat /\ page < MaxPages /\ page' = page + 1
    BY <1>1, FormParametersTyped DEF Form!FormTypeOK
  <2> QED BY ONLY <2>1
<1>7. \A i \in DOMAIN calls : calls[i].page \in Nat /\ calls[i].page <= page
  BY <1>1, CallType DEF KeysWereMade, Call
<1>8. KeysWereMade'
  BY <1>1, <1>6, <1>7 DEF KeysWereMade
<1>9. AttemptIsLast'
  <2>1. calls # << >> => Len(calls) \in DOMAIN calls
    BY <1>1, CallType
  <2> QED BY <1>6, <1>7, <2>1 DEF AttemptIsLast
<1>10. Form!FormTypeOK'
  <2>1. form' \in Form!Form
    BY FormParametersTyped DEF Form!Form, Form!EmptyForm, Form!NoText, Form!NoAccount
  <2>2. awaited' \in 0..Len(calls')
    BY <1>1, CallType
  <2>3. submitError' \in Form!Errors
    BY DEF Form!Errors
  <2> QED BY <1>1, <1>6, <2>1, <2>2, <2>3 DEF Form!FormTypeOK
<1> QED BY <1>3, <1>4, <1>5, <1>8, <1>9, <1>10 DEF FormInv, Form!KeyDiscipline

\* A submission uses the key of the open attempt for the same payment, or a new one.
LEMMA SubmitInv ==
  ASSUME FormInv, Form!SubmitPayment
  PROVE  FormInv'
<1> DEFINE content == Form!PaymentToCreate(form)
           same == Form!SameAttempt(content)
           key == IF same THEN attempt.key ELSE lastKey + 1
           new == [key |-> key, content |-> content, page |-> page,
                   phase |-> "csrf", code |-> "none", status |-> "none"]
           n == Len(calls) + 1
<1>1. /\ awaited = 0 /\ key \in Form!Keys
      /\ attempt' = [key |-> key, fingerprint |-> content]
      /\ lastKey' = IF same THEN lastKey ELSE key
      /\ calls' = Append(calls, new) /\ awaited' = Len(calls')
      /\ submitError' = "none" /\ createdPayment' = Form!None /\ confirmationOpen' = FALSE
      /\ UNCHANGED <<form, page, stored, confirmed>>
  BY DEF Form!SubmitPayment, Form!CanSubmit, Form!isSubmitting, Form!ClearMessages
<1>2. /\ Form!FormTypeOK /\ Form!KeyMeansOnePayment /\ Form!RetryReusesKey
      /\ Form!ConfirmedKeyIsSpent
      /\ KeysWereMade /\ AttemptIsOpen /\ AttemptIsLast /\ CreatedIsStored
  BY DEF FormInv, Form!KeyDiscipline
<1>3. content \in Form!Contents
  BY <1>2, ContentType DEF Form!FormTypeOK
<1>4. page \in Nat /\ lastKey \in Nat /\ MaxKeys \in Nat /\ lastKey \in 0..MaxKeys
  <2>1. page \in 1..(MaxPages + 1) /\ lastKey \in 0..MaxKeys
    BY <1>2 DEF Form!FormTypeOK
  <2>2. MaxPages \in Nat /\ MaxKeys \in Nat
    BY FormParametersTyped
  <2> QED BY ONLY <2>1, <2>2
<1>5. /\ calls \in Seq(Call) /\ Len(calls) \in Nat /\ DOMAIN calls = 1..Len(calls)
      /\ \A i \in DOMAIN calls : i \in Nat /\ i > 0 /\ calls[i] \in Call
  BY <1>2, CallType
<1>6. key \in Nat /\ key > 0
  BY <1>1, <1>4 DEF Form!Keys
<1>7. same => attempt # Form!None /\ attempt.key = key /\ attempt.fingerprint = content
  BY DEF Form!SameAttempt
<1>8. ~same => key = lastKey + 1 /\ lastKey' = key
  BY <1>1
<1>9. lastKey' \in Nat /\ lastKey <= lastKey' /\ key <= lastKey' /\ key \notin confirmed
  <2>1. CASE same
    BY <1>1, <1>2, <1>4, <1>7, <2>1 DEF AttemptIsOpen
  <2>2. CASE ~same
    <3>1. key = lastKey + 1 /\ lastKey' = key
      BY <1>8, <2>2
    <3>2. \A k \in confirmed : k \in Nat /\ k <= lastKey
      BY <1>2 DEF KeysWereMade, Form!FormTypeOK, Form!Keys
    <3> HIDE DEF key
    <3> QED BY <1>4, <3>1, <3>2
  <2> QED BY <2>1, <2>2
<1>10. \A i \in DOMAIN calls : calls[i].key = key => calls[i].content = content
  <2>1. CASE same
    BY <1>2, <1>7, <2>1 DEF AttemptIsOpen
  <2>2. CASE ~same
    <3>1. \A i \in DOMAIN calls : calls[i].key \in Nat /\ calls[i].key <= lastKey
      BY <1>2, <1>5 DEF KeysWereMade, Call, Form!Keys
    <3>2. key = lastKey + 1
      BY <1>8, <2>2
    <3> HIDE DEF key
    <3> QED BY <1>4, <3>1, <3>2
  <2> QED BY <2>1, <2>2
<1>11. new \in Call /\ new.key = key /\ new.content = content /\ new.page = page /\ new.code = "none"
  BY <1>1, <1>3, <1>4 DEF Call, Form!Phases
<1> HIDE DEF new, key, same, content
<1>12. /\ calls' \in Seq(Call) /\ Len(calls') = n /\ DOMAIN calls' = 1..n /\ n \in Nat
       /\ calls'[n] = new /\ \A i \in DOMAIN calls : calls'[i] = calls[i]
  BY <1>1, <1>5, <1>11
<1>13. \A i \in DOMAIN calls' : i = n \/ i \in DOMAIN calls
  BY <1>5, <1>12
<1>14. Form!KeyMeansOnePayment'
  <2> SUFFICES ASSUME NEW i \in DOMAIN calls', NEW j \in DOMAIN calls',
                      calls'[i].key = calls'[j].key
               PROVE  calls'[i].content = calls'[j].content
    BY DEF Form!KeyMeansOnePayment
  <2> QED BY <1>2, <1>10, <1>11, <1>12, <1>13 DEF Form!KeyMeansOnePayment
<1>15. Form!RetryReusesKey'
  <2> SUFFICES ASSUME NEW i \in DOMAIN calls', i + 1 \in DOMAIN calls',
                      calls'[i].page = calls'[i + 1].page,
                      calls'[i].content = calls'[i + 1].content,
                      calls'[i].key # calls'[i + 1].key
               PROVE  calls'[i].key \in confirmed'
    BY DEF Form!RetryReusesKey
  <2>1. i \in DOMAIN calls /\ i \in Nat
    BY <1>5, <1>12, <1>13
  <2>2. CASE i + 1 \in DOMAIN calls
    BY <1>1, <1>2, <1>12, <2>1, <2>2 DEF Form!RetryReusesKey
  <2>3. CASE i + 1 = n
    <3>1. i = Len(calls) /\ calls # << >>
      BY <1>5, <2>1, <2>3
    <3>2. calls[i].page = page /\ calls[i].content = content /\ calls[i].key # key
      BY <1>11, <1>12, <2>1, <2>3
    <3>3. \/ calls[i].key \in confirmed
          \/ attempt # Form!None /\ attempt.key = calls[i].key /\ attempt.fingerprint = content
      BY <1>2, <3>1, <3>2 DEF AttemptIsLast
    <3>4. ~(attempt # Form!None /\ attempt.key = calls[i].key /\ attempt.fingerprint = content)
      BY <1>7, <3>2 DEF same, Form!SameAttempt
    <3> QED BY <1>1, <1>12, <2>1, <3>3, <3>4
  <2> QED BY <1>13, <2>2, <2>3
<1>16. Form!ConfirmedKeyIsSpent' /\ AttemptIsOpen'
  BY <1>1, <1>9, <1>10, <1>11, <1>12, <1>13 DEF Form!ConfirmedKeyIsSpent, AttemptIsOpen
<1>17. attempt' # Form!None /\ attempt'.key = key /\ attempt'.fingerprint = content
  BY <1>1, <1>6 DEF Form!None
<1>18. KeysWereMade'
  <2>1. \A i \in DOMAIN calls' : calls'[i].key <= lastKey' /\ calls'[i].page <= page'
    <3>1. \A i \in DOMAIN calls : /\ calls[i].key \in Nat /\ calls[i].page \in Nat
                                  /\ calls[i].key <= lastKey /\ calls[i].page <= page
      BY <1>2, <1>5 DEF KeysWereMade, Call, Form!Keys
    <3> QED BY <1>1, <1>4, <1>9, <1>11, <1>12, <1>13, <3>1
  <2>2. \A k \in confirmed' : k <= lastKey'
    <3>1. \A k \in confirmed : k \in Nat /\ k <= lastKey
      BY <1>2 DEF KeysWereMade, Form!FormTypeOK, Form!Keys
    <3> QED BY <1>1, <1>4, <1>9, <3>1
  <2> QED BY <2>1, <2>2 DEF KeysWereMade
<1>19. AttemptIsLast' /\ AwaitedIsLast'
  BY <1>1, <1>11, <1>12, <1>17 DEF AttemptIsLast, AwaitedIsLast
<1>20. CreatedIsStored'
  BY <1>1, <1>2, <1>11, <1>12, <1>13 DEF CreatedIsStored
<1>21. Form!ConfirmationMatches'
  BY <1>1 DEF Form!ConfirmationMatches
<1>22. Form!FormTypeOK'
  <2>1. attempt' \in [key : Form!Keys, fingerprint : Form!Contents]
    BY <1>1, <1>3
  <2>2. lastKey' \in 0..MaxKeys
    <3>1. key \in 1..MaxKeys /\ (lastKey' = lastKey \/ lastKey' = key)
      BY <1>1 DEF Form!Keys
    <3> QED BY <1>4, <3>1
  <2>3. awaited' \in 0..Len(calls') /\ submitError' \in Form!Errors
    BY <1>1, <1>12 DEF Form!Errors
  <2> QED BY <1>1, <1>2, <1>12, <2>1, <2>2, <2>3 DEF Form!FormTypeOK, Call
<1> QED BY <1>14, <1>15, <1>16, <1>18, <1>19, <1>20, <1>21, <1>22 DEF FormInv, Form!KeyDiscipline

-----------------------------------------------------------------------------
(* The steps of the network and of the server                              *)

\* A request that only moves on is the same request, at the same place.
LEMMA CallReplaced ==
  ASSUME Form!FormTypeOK, NEW i \in DOMAIN calls, NEW q \in Call,
         q.key = calls[i].key, q.content = calls[i].content, q.page = calls[i].page,
         calls' = [calls EXCEPT ![i] = q]
  PROVE  SameRequests /\ calls'[i] = q /\ \A j \in DOMAIN calls \ {i} : calls'[j] = calls[j]
<1>1. calls \in Seq(Call) /\ DOMAIN calls = 1..Len(calls) /\ Len(calls) \in Nat
  BY CallType
<1>2. calls' \in Seq(Call) /\ Len(calls') = Len(calls)
  BY <1>1
<1>3. calls'[i] = q /\ \A j \in DOMAIN calls \ {i} : calls'[j] = calls[j]
  BY <1>1
<1> QED BY <1>2, <1>3 DEF SameRequests

LEMMA EnterMoves ==
  ASSUME Form!FormTypeOK, NEW i, NEW p \in Form!Phases, i \in DOMAIN calls, Form!Enter(i, p)
  PROVE  SameRequests /\ NoNewSuccess
<1> DEFINE q == [calls[i] EXCEPT !.phase = p]
<1>1. calls[i] \in Call
  BY CallType
<1>2. /\ q \in Call /\ q.key = calls[i].key /\ q.content = calls[i].content
      /\ q.page = calls[i].page /\ q.code = calls[i].code /\ q.status = calls[i].status
  BY <1>1 DEF Call
<1>3. calls' = [calls EXCEPT ![i] = q]
  BY DEF Form!Enter
<1> HIDE DEF q
<1>4. SameRequests /\ calls'[i] = q /\ \A j \in DOMAIN calls \ {i} : calls'[j] = calls[j]
  BY <1>2, <1>3, CallReplaced
<1> QED BY <1>2, <1>4 DEF NoNewSuccess

LEMMA ReplyMoves ==
  ASSUME Form!FormTypeOK, NEW i, i \in DOMAIN calls,
         NEW c \in {"created", "refused", "conflict", "error"},
         NEW s \in Form!Statuses \cup {"none"}, Form!Reply(i, c, s)
  PROVE  /\ SameRequests /\ calls'[i].code = c /\ calls'[i].status = s
         /\ \A j \in DOMAIN calls \ {i} : calls'[j] = calls[j]
<1> DEFINE q == [calls[i] EXCEPT !.phase = "answered", !.code = c, !.status = s]
<1>1. calls[i] \in Call
  BY CallType
<1>2. /\ q \in Call /\ q.key = calls[i].key /\ q.content = calls[i].content
      /\ q.page = calls[i].page /\ q.code = c /\ q.status = s
  BY <1>1 DEF Call, Form!Phases
<1>3. calls' = [calls EXCEPT ![i] = q]
  BY DEF Form!Reply
<1> HIDE DEF q
<1>4. SameRequests /\ calls'[i] = q /\ \A j \in DOMAIN calls \ {i} : calls'[j] = calls[j]
  BY <1>2, <1>3, CallReplaced
<1> QED BY <1>2, <1>4

\* A step behind the page: it learns nothing of it, or that its request has failed.
LEMMA BehindInv ==
  ASSUME FormInv, SameRequests, StoredGrows, CreatedIsStored',
         UNCHANGED <<form, attempt, createdPayment, confirmationOpen, page, lastKey, confirmed>>,
         \/ UNCHANGED <<awaited, submitError>>
         \/ awaited # 0 /\ awaited' = 0 /\ submitError' \in Form!Errors
  PROVE  FormInv'
<1>1. Form!FormTypeOK /\ AwaitedIsLast
  BY DEF FormInv, Form!KeyDiscipline
<1>2. KeyFacts'
  BY KeysKept
<1>3. AwaitedIsLast' /\ awaited' \in 0..Len(calls')
  BY AwaitedKept
<1>4. Form!ConfirmationMatches'
  <2>1. CASE UNCHANGED submitError
    BY <2>1, ConfirmationKept
  <2>2. CASE awaited # 0
    BY <1>1, <2>2 DEF AwaitedIsLast, Form!ConfirmationMatches
  <2> QED BY <2>1, <2>2
<1>5. Form!FormTypeOK'
  <2>1. submitError' \in Form!Errors
    BY <1>1 DEF Form!FormTypeOK
  <2> QED BY <1>1, <1>3, <2>1 DEF Form!FormTypeOK, SameRequests, StoredGrows, StoredPayments, Call
<1> QED BY <1>2, <1>3, <1>4, <1>5 DEF FormInv, KeyFacts, Form!KeyDiscipline

\* The server stands still.
LEMMA StoredSame ==
  ASSUME Form!FormTypeOK, UNCHANGED stored
  PROVE  StoredGrows
BY DEF StoredGrows, StoredPayments, Form!FormTypeOK

LEMMA TokenInv ==
  ASSUME FormInv, NEW i,
         \/ Form!TokenFetched(i) \/ Form!TokenFailed(i) \/ Form!LostOnTheWay(i)
         \/ Form!AnswerArrives(i) /\ UNCHANGED confirmed /\ UNCHANGED attempt
  PROVE  FormInv'
<1>1. Form!FormTypeOK
  BY DEF FormInv, Form!KeyDiscipline
<1>2. i \in DOMAIN calls /\ \E p \in Form!Phases : Form!Enter(i, p)
  BY DEF Form!TokenFetched, Form!TokenFailed, Form!LostOnTheWay, Form!AnswerArrives, Form!InPhase,
         Form!Phases
<1>3. SameRequests /\ NoNewSuccess /\ i # 0
  BY <1>1, <1>2, EnterMoves, CallType
<1>4. /\ UNCHANGED <<form, attempt, createdPayment, confirmationOpen, page, lastKey, stored, confirmed>>
      /\ \/ UNCHANGED <<awaited, submitError>>
         \/ awaited # 0 /\ awaited' = 0 /\ submitError' \in Form!Errors
  <2>1. CASE Form!TokenFetched(i) \/ Form!LostOnTheWay(i)
    BY <2>1 DEF Form!TokenFetched, Form!LostOnTheWay, Form!pageVars
  <2>2. CASE Form!TokenFailed(i)
    BY <1>3, <2>2 DEF Form!TokenFailed, Form!Fail, Form!pageVars, Form!Errors
  <2>3. CASE Form!AnswerArrives(i) /\ UNCHANGED confirmed /\ UNCHANGED attempt
    <3>1. UNCHANGED <<page, lastKey, stored, confirmed, attempt>>
      BY <2>3 DEF Form!AnswerArrives
    <3>2. CASE UNCHANGED Form!pageVars
      BY <3>1, <3>2 DEF Form!pageVars
    <3>3. CASE awaited = i /\ \E e \in Form!AnswerErrors(calls[i].code) : Form!Fail(e)
      <4>1. Form!AnswerErrors(calls[i].code) \subseteq Form!Errors
        <5>1. calls[i].code \in {"none", "created", "refused", "conflict", "error"}
          BY <1>1, <1>2, CallType DEF Call
        <5> QED BY <5>1 DEF Form!AnswerErrors, Form!Errors
      <4> QED BY <1>3, <3>1, <3>3, <4>1 DEF Form!Fail
    <3>4. CASE awaited = i /\ Form!Succeed(i)
      <4>1. attempt # Form!None
        BY <1>3, <3>4 DEF FormInv, AwaitedIsLast
      <4> QED BY <3>1, <3>4, <4>1 DEF Form!Succeed
    <3> QED BY <2>3, <3>2, <3>3, <3>4 DEF Form!AnswerArrives
  <2> QED BY <2>1, <2>2, <2>3
<1>5. StoredGrows
  BY <1>1, <1>4, StoredSame
<1>6. CreatedIsStored'
  BY <1>3, <1>5, CreatedKept
<1> QED BY <1>3, <1>4, <1>5, <1>6, BehindInv

\* The answer that is waited for closes the attempt, and what it shows is stored.
LEMMA SucceedInv ==
  ASSUME FormInv, NEW i, Form!InPhase(i, "answered"), Form!Enter(i, "over"), awaited = i,
         calls[i].code = "created", Form!Succeed(i), UNCHANGED <<page, lastKey, stored>>
  PROVE  FormInv'
<1>1. /\ Form!FormTypeOK /\ Form!KeyMeansOnePayment /\ Form!RetryReusesKey
      /\ KeysWereMade /\ AttemptIsOpen /\ AttemptIsLast /\ AwaitedIsLast /\ CreatedIsStored
  BY DEF FormInv, Form!KeyDiscipline
<1>2. i \in DOMAIN calls /\ "over" \in Form!Phases
  BY DEF Form!InPhase, Form!Phases
<1>3. SameRequests /\ NoNewSuccess /\ i # 0
  BY <1>1, <1>2, EnterMoves, CallType
<1>4. /\ i = Len(calls) /\ submitError = "none" /\ calls[i] \in Call /\ calls[i].key \in Form!Keys
      /\ calls # << >>
  BY <1>1, <1>2, <1>3, CallType DEF AwaitedIsLast, Call
<1>5. /\ awaited' = 0 /\ attempt' = Form!None /\ confirmationOpen' = TRUE
      /\ createdPayment' = [key |-> calls[i].key, content |-> calls[i].content,
                            status |-> calls[i].status]
      /\ confirmed' = confirmed \cup {calls[i].key} /\ UNCHANGED <<form, submitError>>
  BY DEF Form!Succeed
<1>6. /\ DOMAIN calls' = DOMAIN calls /\ calls' # << >> /\ Len(calls') = Len(calls)
  BY <1>3, <1>4, SamePlaces DEF SameRequests
<1>7. StoredGrows
  BY <1>1, StoredSame
<1>8. CreatedIsStored'
  BY <1>3, <1>7, CreatedKept
<1>9. /\ stored[calls[i].key] # Form!NoPayment /\ calls[i].status \in Form!Statuses
      /\ stored[calls[i].key].content = calls[i].content
  BY <1>1, <1>2 DEF CreatedIsStored
<1>10. Form!ConfirmationMatches'
  BY <1>4, <1>5, <1>9 DEF Form!ConfirmationMatches
<1>11. Form!KeyMeansOnePayment'
  BY <1>1, <1>3, <1>6 DEF Form!KeyMeansOnePayment, SameRequests
<1>12. Form!RetryReusesKey'
  BY <1>1, <1>3, <1>5, <1>6 DEF Form!RetryReusesKey, SameRequests
<1>13. Form!ConfirmedKeyIsSpent' /\ AttemptIsOpen'
  BY <1>5 DEF Form!ConfirmedKeyIsSpent, AttemptIsOpen
<1>14. KeysWereMade'
  BY <1>1, <1>2, <1>3, <1>5, <1>6 DEF KeysWereMade, SameRequests
<1>15. AttemptIsLast' /\ AwaitedIsLast'
  BY <1>2, <1>3, <1>4, <1>5, <1>6 DEF AttemptIsLast, AwaitedIsLast, SameRequests
<1>16. Form!FormTypeOK'
  <2>1. createdPayment' \in [key : Form!Keys, content : Form!Contents, status : Form!Statuses]
    BY <1>4, <1>5, <1>9 DEF Call
  <2>2. awaited' \in 0..Len(calls') /\ confirmed' \subseteq Form!Keys
    BY <1>1, <1>4, <1>5, <1>6, CallType DEF Form!FormTypeOK
  <2> QED BY <1>1, <1>3, <1>5, <2>1, <2>2 DEF Form!FormTypeOK, SameRequests, Call
<1> QED BY <1>8, <1>10, <1>11, <1>12, <1>13, <1>14, <1>15, <1>16 DEF FormInv, Form!KeyDiscipline

\* A connection that breaks ends the waiting, not the request.
LEMMA ConnectionLostInv ==
  ASSUME FormInv, Form!ConnectionLost
  PROVE  FormInv'
<1>1. Form!FormTypeOK
  BY DEF FormInv, Form!KeyDiscipline
<1>2. /\ UNCHANGED <<form, attempt, createdPayment, confirmationOpen,
                     page, calls, lastKey, stored, confirmed>>
      /\ awaited # 0 /\ awaited' = 0 /\ submitError' \in Form!Errors
  BY DEF Form!ConnectionLost, Form!Fail, Form!isSubmitting, Form!Errors
<1>3. SameRequests /\ NoNewSuccess
  BY <1>1, <1>2, CallType DEF SameRequests, NoNewSuccess
<1>4. StoredGrows
  BY <1>1, <1>2, StoredSame
<1>5. CreatedIsStored'
  BY <1>3, <1>4, CreatedKept
<1> QED BY <1>2, <1>3, <1>4, <1>5, BehindInv

\* A payment that is stored under a key that had none takes nothing from the others.
LEMMA StoreGrows ==
  ASSUME Form!FormTypeOK, NEW k \in Form!Keys, NEW p \in [content : Form!Contents, status : Form!Statuses],
         stored[k] # Form!NoPayment => p.content = stored[k].content,
         stored' = [stored EXCEPT ![k] = p]
  PROVE  StoredGrows /\ stored'[k] = p /\ p # Form!NoPayment
<1>1. stored \in [Form!Keys -> StoredPayments]
  BY DEF Form!FormTypeOK, StoredPayments
<1>2. p # Form!NoPayment
  <2>1. p.status \in Form!Statuses /\ Form!NoPayment.status = "none"
    BY DEF Form!NoPayment
  <2>2. "none" \notin Form!Statuses
    BY DEF Form!Statuses
  <2> QED BY <2>1, <2>2
<1>3. stored'[k] = p /\ \A l \in Form!Keys \ {k} : stored'[l] = stored[l]
  BY <1>1
<1>4. stored' \in [Form!Keys -> StoredPayments]
  BY <1>1 DEF StoredPayments
<1> QED BY <1>2, <1>3, <1>4 DEF StoredGrows

\* An answer of success that is true leaves all of them true.
LEMMA ReplyInv ==
  ASSUME FormInv, NEW i, i \in DOMAIN calls, StoredGrows,
         NEW c \in {"created", "refused", "conflict", "error"},
         NEW s \in Form!Statuses \cup {"none"}, Form!Reply(i, c, s),
         c = "created" => /\ s \in Form!Statuses
                          /\ stored'[calls[i].key] # Form!NoPayment
                          /\ stored'[calls[i].key].content = calls[i].content,
         UNCHANGED <<Form!pageVars, page, lastKey, confirmed>>
  PROVE  FormInv'
<1>1. Form!FormTypeOK /\ CreatedIsStored
  BY DEF FormInv, Form!KeyDiscipline
<1>2. /\ SameRequests /\ calls'[i].code = c /\ calls'[i].status = s
      /\ \A j \in DOMAIN calls \ {i} : calls'[j] = calls[j]
  BY <1>1, ReplyMoves
<1>3. DOMAIN calls' = DOMAIN calls
  BY <1>2, SamePlaces
<1>4. CreatedIsStored'
  <2> SUFFICES ASSUME NEW j \in DOMAIN calls, calls'[j].code = "created"
               PROVE  /\ calls'[j].status \in Form!Statuses
                      /\ stored'[calls'[j].key] # Form!NoPayment
                      /\ stored'[calls'[j].key].content = calls'[j].content
    BY <1>3 DEF CreatedIsStored
  <2>1. CASE j = i
    BY <1>2, <2>1 DEF SameRequests
  <2>2. CASE j # i
    <3>1. calls'[j] = calls[j] /\ calls[j].key \in Form!Keys
      BY <1>1, <1>2, <2>2, CallType DEF Call
    <3>2. stored[calls[j].key] # Form!NoPayment /\ stored[calls[j].key].content = calls[j].content
          /\ calls[j].status \in Form!Statuses
      BY <1>1, <3>1 DEF CreatedIsStored
    <3> QED BY <3>1, <3>2 DEF StoredGrows
  <2> QED BY <2>1, <2>2
<1> QED BY <1>2, <1>4, BehindInv DEF Form!pageVars

LEMMA ServerCreatesInv ==
  ASSUME FormInv, NEW i, Form!ServerCreates(i)
  PROVE  FormInv'
<1>1. Form!FormTypeOK
  BY DEF FormInv, Form!KeyDiscipline
<1>2. i \in DOMAIN calls /\ stored[calls[i].key] = Form!NoPayment
      /\ UNCHANGED <<Form!pageVars, page, lastKey, confirmed>>
  BY DEF Form!ServerCreates, Form!InPhase
<1>3. calls[i].key \in Form!Keys /\ calls[i].content \in Form!Contents
  BY <1>1, <1>2, CallType DEF Call
<1>4. ASSUME NEW s \in {"pending_approval", "completed"},
             stored' = [stored EXCEPT ![calls[i].key] = [content |-> calls[i].content, status |-> s]],
             Form!Reply(i, "created", s) \/ Form!Reply(i, "error", "none")
      PROVE  FormInv'
  <2> DEFINE p == [content |-> calls[i].content, status |-> s]
  <2>1. p \in [content : Form!Contents, status : Form!Statuses] /\ s \in Form!Statuses
        /\ p.content = calls[i].content
    BY <1>3 DEF Form!Statuses
  <2> HIDE DEF p
  <2>2. StoredGrows /\ stored'[calls[i].key] = p /\ p # Form!NoPayment
    BY <1>1, <1>2, <1>3, <1>4, <2>1, StoreGrows DEF p
  <2>3. CASE Form!Reply(i, "created", s)
    BY <1>2, <2>1, <2>2, <2>3, ReplyInv
  <2>4. CASE Form!Reply(i, "error", "none")
    BY <1>2, <2>2, <2>4, ReplyInv
  <2> QED BY <1>4, <2>3, <2>4
<1>5. CASE UNCHANGED stored /\ (Form!Reply(i, "refused", "none") \/ Form!Reply(i, "error", "none"))
  <2>1. StoredGrows
    BY <1>1, <1>5, StoredSame
  <2> QED BY <1>2, <1>5, <2>1, ReplyInv
<1> QED BY <1>4, <1>5 DEF Form!ServerCreates

LEMMA ServerKnowsInv ==
  ASSUME FormInv, NEW i, Form!ServerKnows(i)
  PROVE  FormInv'
<1>1. Form!FormTypeOK
  BY DEF FormInv, Form!KeyDiscipline
<1>2. /\ i \in DOMAIN calls /\ stored[calls[i].key] # Form!NoPayment
      /\ UNCHANGED <<Form!pageVars, page, lastKey, confirmed>> /\ UNCHANGED stored
  BY DEF Form!ServerKnows, Form!InPhase
<1>3. calls[i].key \in Form!Keys
  BY <1>1, <1>2, CallType DEF Call
<1>4. StoredGrows
  BY <1>1, <1>2, StoredSame
<1>5. stored[calls[i].key].status \in Form!Statuses
  BY <1>1, <1>2, <1>3 DEF Form!FormTypeOK
<1>6. CASE /\ stored[calls[i].key].content = calls[i].content
           /\ Form!Reply(i, "created", stored[calls[i].key].status)
  BY <1>2, <1>4, <1>5, <1>6, ReplyInv
<1>7. CASE Form!Reply(i, "refused", "none") \/ Form!Reply(i, "conflict", "none")
  BY <1>2, <1>4, <1>7, ReplyInv
<1> QED BY <1>6, <1>7 DEF Form!ServerKnows

LEMMA DecideInv ==
  ASSUME FormInv, NEW k \in Form!Keys, NEW s \in {"completed", "rejected"}, Form!Decide(k, s)
  PROVE  FormInv'
<1>1. Form!FormTypeOK
  BY DEF FormInv, Form!KeyDiscipline
<1>2. /\ stored[k].status = "pending_approval" /\ stored' = [stored EXCEPT ![k].status = s]
      /\ UNCHANGED <<Form!pageVars, page, calls, lastKey, confirmed>>
  BY DEF Form!Decide
<1> DEFINE p == [stored[k] EXCEPT !.status = s]
<1>3. stored[k] \in [content : Form!Contents, status : Form!Statuses]
  BY <1>1, <1>2 DEF Form!FormTypeOK, Form!NoPayment
<1>4. p \in [content : Form!Contents, status : Form!Statuses] /\ p.content = stored[k].content
  BY <1>3 DEF Form!Statuses
<1>5. stored' = [stored EXCEPT ![k] = p]
  BY <1>2
<1> HIDE DEF p
<1>6. StoredGrows
  BY <1>1, <1>4, <1>5, StoreGrows
<1>7. SameRequests /\ NoNewSuccess
  BY <1>1, <1>2, CallType DEF SameRequests, NoNewSuccess
<1>8. CreatedIsStored'
  BY <1>6, <1>7, CreatedKept
<1> QED BY <1>2, <1>6, <1>7, <1>8, BehindInv DEF Form!pageVars

\* Every step of the form keeps its invariant.
LEMMA FormStep ==
  ASSUME FormInv, [Form!Next]_(Form!formVars)
  PROVE  FormInv'
<1>1. CASE Form!User
  BY <1>1, FieldsInv, RefuseAndCloseInv, SubmitInv, ReopenInv DEF Form!User
<1>2. ASSUME NEW i, Form!AnswerArrives(i) PROVE FormInv'
  <2>1. CASE awaited = i /\ calls[i].code = "created" /\ Form!Succeed(i)
    BY <1>2, <2>1, SucceedInv DEF Form!AnswerArrives
  <2>2. CASE ~(awaited = i /\ calls[i].code = "created" /\ Form!Succeed(i))
    <3>1. UNCHANGED confirmed /\ UNCHANGED attempt
      BY <1>2, <2>2 DEF Form!AnswerArrives, Form!pageVars, Form!Fail
    <3> QED BY <1>2, <3>1, TokenInv
  <2> QED BY <2>1, <2>2
<1>3. CASE Form!Network
  BY <1>2, <1>3, TokenInv DEF Form!Network
<1>4. CASE Form!ConnectionLost
  BY <1>4, ConnectionLostInv
<1>5. CASE Form!Server
  BY <1>5, ServerCreatesInv, ServerKnowsInv DEF Form!Server
<1>6. ASSUME NEW k \in Form!Keys, NEW s \in {"completed", "rejected"}, Form!Decide(k, s)
      PROVE  FormInv'
  BY <1>6, DecideInv
<1>7. CASE UNCHANGED Form!formVars
  <2>1. UNCHANGED <<form, awaited, attempt, submitError, createdPayment, confirmationOpen,
                    page, calls, lastKey, stored, confirmed>>
    BY <1>7 DEF Form!formVars, Form!pageVars
  <2>2. form \in Form!Form /\ confirmationOpen \in BOOLEAN
    BY DEF FormInv, Form!KeyDiscipline, Form!FormTypeOK
  <2> QED BY <2>1, <2>2, PageStepInv
<1> QED BY <1>1, <1>3, <1>4, <1>5, <1>6, <1>7 DEF Form!Next

-----------------------------------------------------------------------------
(* The form on the payment page                                            *)

\* The steps of the other parts leave the form alone.
LEMMA PageStepsForm == [PageNext]_pageVars => [Form!Next]_(Form!formVars)
<1> SUFFICES ASSUME [PageNext]_pageVars PROVE [Form!Next]_(Form!formVars)
  OBVIOUS
<1>1. CASE UNCHANGED formVars
  BY <1>1 DEF formVars, Form!formVars, Form!pageVars
<1> QED BY <1>1 DEF PageNext, InForm, InPicker, InHistory, pageVars

LEMMA FormAlways == PageSpec => []FormInv
<1>1. PageInit => FormInv
  BY FormInit DEF PageInit
<1>2. FormInv /\ [PageNext]_pageVars => FormInv'
  BY FormStep, PageStepsForm
<1> QED BY <1>1, <1>2, PTL DEF PageSpec

\* For any number of requests and visits, and whatever is edited, lost, delayed or given up,
\* a key of handleSubmit stands for one payment, and a payment gets a second key only after
\* the first one was shown as created (paymentAttemptRef).
THEOREM KeysAreDisciplined == PageSpec => []KeyDiscipline
<1>1. FormInv => KeyDiscipline
  BY DEF FormInv, KeyDiscipline
<1> QED BY <1>1, FormAlways, PTL

\* What the confirmation of handleSubmit shows is stored under the key that was sent, with
\* the data that were sent, and never stands beside an error.
THEOREM ConfirmationIsTrue == PageSpec => []ConfirmationMatches
<1>1. FormInv => ConfirmationMatches
  BY DEF FormInv, ConfirmationMatches
<1> QED BY <1>1, FormAlways, PTL

-----------------------------------------------------------------------------
(* The recipient picker: what its requests may bring                       *)

Save == [iban : Ibans, phase : {"flying", "answered", "over"}, code : {0, 201, 401, 409, 500},
         told : {"nothing", "saved", "error"}]
ListRequest == {Picker!Idle, Picker!Flying} \cup [phase : {"answered"}, ibans : SUBSET Ibans]
HistoryRequests ==
  {Picker!Idle, Picker!Flying} \cup
    [phase : {"answered"}, ibans : SUBSET Ibans, incomplete : BOOLEAN]

\* PickerTypeOK, one variable at a time.
PageTypeOK ==
  /\ recipients \subseteq Ibans /\ historicalIbans \subseteq Ibans
  /\ saved \subseteq Ibans /\ approved \subseteq Ibans
  /\ savedAtRefresh \subseteq Ibans /\ approvedAtRefresh \subseteq Ibans
  /\ isLoadingRecipients \in BOOLEAN /\ isLoadingHistory \in BOOLEAN
  /\ recipientLoadError \in BOOLEAN /\ historyLoadError \in BOOLEAN
  /\ demoConfirmationEnabled \in BOOLEAN /\ selectedRecipientId \in BOOLEAN
  /\ isRecipientDialogOpen \in BOOLEAN
  /\ version \in Picker!Versions /\ toIban \in Picker!Texts
  /\ recipientSaveMessage \in Ibans \cup {Picker!None}
  /\ step \in {"details", "confirmation"} /\ iban \in Picker!Texts
  /\ requestInFlight \in 0..Len(saves) /\ error \in {0, 201, 400, 401, 409, 500}

RequestsTypeOK ==
  /\ list \in ListRequest
  /\ history \in [Picker!Versions -> HistoryRequests]
  /\ saves \in Seq(Save)

\* The page loads the saved recipients as long as their request lasts, and no recipient can
\* be added meanwhile.
ListIsAwaited ==
  /\ isLoadingRecipients <=> list.phase # "idle"
  /\ isLoadingRecipients => demoConfirmationEnabled = FALSE

\* The dialog is open only when it is shown.
DialogIsShown ==
  isRecipientDialogOpen => Picker!canAddRecipients /\ demoConfirmationEnabled

\* The server has all that it had at the last refresh, and the answers to that refresh too.
AnswersAreFresh ==
  /\ savedAtRefresh \subseteq saved /\ approvedAtRefresh \subseteq approved
  /\ list.phase = "answered" =>
       /\ savedAtRefresh \subseteq list.ibans
       /\ recipientSaveMessage # Picker!None => recipientSaveMessage \in list.ibans
  /\ history[version].phase = "answered" /\ history[version].incomplete = FALSE =>
       approvedAtRefresh \subseteq history[version].ibans

\* Only the save that the shown dialog waits for was told nothing yet.
SaveIsAwaited ==
  /\ \A n \in DOMAIN saves : saves[n].told = "nothing" <=> requestInFlight = n
  /\ requestInFlight # 0 => isRecipientDialogOpen /\ step = "confirmation"
  /\ step = "confirmation" => iban \in Ibans

\* A save that was answered with success is stored.
SuccessIsSaved == \A n \in DOMAIN saves : saves[n].code = 201 => saves[n].iban \in saved

PickerInv ==
  /\ PageTypeOK /\ RequestsTypeOK
  /\ ListIsAwaited /\ DialogIsShown /\ AnswersAreFresh /\ SaveIsAwaited /\ SuccessIsSaved
  /\ Picker!ListsAreFresh /\ Picker!SaveMessageTruthful

LEMMA PickerParametersTyped ==
  /\ Picker!NoIban \notin Ibans /\ Picker!BadIban \notin Ibans /\ Picker!None \notin Ibans
  /\ DemoAllowed \in BOOLEAN /\ MaxRequests \in Nat \ {0}
BY PickerParameters DEF Picker!PickerAssumption

\* The saves are a sequence, each at its place.
LEMMA SaveType ==
  ASSUME saves \in Seq(Save)
  PROVE  /\ Len(saves) \in Nat /\ DOMAIN saves = 1..Len(saves)
         /\ \A n \in DOMAIN saves : n \in Nat /\ n > 0 /\ saves[n] \in Save
BY ElementOfSeq

\* The page opens with both lists on their way.
LEMMA PickerInit == Picker!Init => PickerInv
<1> SUFFICES ASSUME Picker!Init PROVE PickerInv
  OBVIOUS
<1> USE DEF Picker!Init
<1>1. 1 \in Picker!Versions
  BY PickerParametersTyped DEF Picker!Versions
<1>2. PageTypeOK
  <2>1. requestInFlight \in 0..Len(saves)
    OBVIOUS
  <2> QED BY <1>1, <2>1 DEF PageTypeOK, Picker!Texts
<1>3. list.phase = "flying" /\ history[version].phase = "flying"
  BY <1>1 DEF Picker!Flying
<1>4. RequestsTypeOK
  BY DEF RequestsTypeOK, ListRequest, HistoryRequests
<1>5. ListIsAwaited /\ DialogIsShown /\ AnswersAreFresh
  BY <1>3 DEF ListIsAwaited, DialogIsShown, AnswersAreFresh
<1>6. SaveIsAwaited /\ SuccessIsSaved
  BY DEF SaveIsAwaited, SuccessIsSaved
<1>7. Picker!ListsAreFresh /\ Picker!SaveMessageTruthful
  BY DEF Picker!ListsAreFresh, Picker!SaveMessageTruthful
<1> QED BY <1>2, <1>4, <1>5, <1>6, <1>7 DEF PickerInv

\* Choosing a recipient or typing an IBAN takes the message about the last save away.
LEMMA ChoosingInv ==
  ASSUME PickerInv,
         \/ \E i \in Ibans : Picker!selectRecipient(i)
         \/ \E t \in Ibans \cup {Picker!NoIban} : Picker!TypeIban(t)
         \/ Picker!EnterManually
  PROVE  PickerInv'
<1> DEFINE Chosen ==
             /\ recipientSaveMessage' = Picker!None /\ selectedRecipientId' \in BOOLEAN
             /\ toIban' \in Picker!Texts
             /\ UNCHANGED <<Picker!listVars, Picker!dialogVars, list, history, saves,
                            Picker!serverVars>>
<1>1. Chosen
  <2>1. toIban \in Picker!Texts
    BY DEF PickerInv, PageTypeOK
  <2>2. ASSUME NEW i \in Ibans, Picker!selectRecipient(i) PROVE Chosen
    BY <2>2 DEF Picker!selectRecipient, Picker!Choose, Picker!Texts
  <2>3. ASSUME NEW t \in Ibans \cup {Picker!NoIban}, Picker!TypeIban(t) PROVE Chosen
    BY <2>3 DEF Picker!TypeIban, Picker!Texts
  <2>4. CASE Picker!EnterManually
    BY <2>1, <2>4 DEF Picker!EnterManually
  <2> QED BY <2>2, <2>3, <2>4
<1>2. PageTypeOK'
  BY <1>1 DEF PickerInv, PageTypeOK, Picker!listVars, Picker!dialogVars, Picker!serverVars
<1>3. RequestsTypeOK' /\ ListIsAwaited' /\ DialogIsShown' /\ SaveIsAwaited' /\ SuccessIsSaved'
  BY <1>1 DEF PickerInv, RequestsTypeOK, ListIsAwaited, DialogIsShown, SaveIsAwaited, SuccessIsSaved,
              Picker!listVars, Picker!dialogVars, Picker!serverVars
<1>4. AnswersAreFresh' /\ Picker!ListsAreFresh' /\ Picker!SaveMessageTruthful'
  BY <1>1 DEF PickerInv, AnswersAreFresh, Picker!ListsAreFresh, Picker!SaveMessageTruthful,
              Picker!listVars, Picker!serverVars
<1> QED BY <1>2, <1>3, <1>4 DEF PickerInv

\* The steps inside the dialog leave the page and the requests alone.
LEMMA InDialogInv ==
  ASSUME PickerInv,
         \/ \E t \in Picker!Texts : Picker!TypeDetails(t)
         \/ Picker!continueToConfirmation \/ Picker!BackToDetails
  PROVE  PickerInv'
<1>1. /\ step' \in {"details", "confirmation"} /\ iban' \in Picker!Texts
      /\ step' = "confirmation" => iban' \in Ibans
      /\ error' \in {0, 201, 400, 401, 409, 500} /\ requestInFlight = 0
      /\ UNCHANGED <<isRecipientDialogOpen, requestInFlight>>
      /\ UNCHANGED <<Picker!listVars, Picker!choiceVars, list, history, saves, Picker!serverVars>>
  BY DEF Picker!TypeDetails, Picker!continueToConfirmation, Picker!BackToDetails, Picker!Texts,
         PickerInv, PageTypeOK, SaveIsAwaited
<1>2. PageTypeOK'
  BY <1>1 DEF PickerInv, PageTypeOK, Picker!listVars, Picker!choiceVars, Picker!serverVars
<1>3. RequestsTypeOK' /\ ListIsAwaited' /\ DialogIsShown' /\ SuccessIsSaved'
  BY <1>1 DEF PickerInv, RequestsTypeOK, ListIsAwaited, DialogIsShown, SuccessIsSaved,
              Picker!listVars, Picker!serverVars
<1>4. SaveIsAwaited'
  BY <1>1 DEF PickerInv, SaveIsAwaited
<1>5. AnswersAreFresh' /\ Picker!ListsAreFresh'
  BY <1>1 DEF PickerInv, AnswersAreFresh, Picker!ListsAreFresh, Picker!listVars,
              Picker!choiceVars, Picker!serverVars
<1>6. Picker!SaveMessageTruthful'
  BY <1>1 DEF PickerInv, Picker!SaveMessageTruthful, Picker!selectedRecipient, Picker!Options,
              Picker!SavedOption, Picker!listVars, Picker!choiceVars, Picker!serverVars
<1> QED BY <1>2, <1>3, <1>4, <1>5, <1>6 DEF PickerInv

\* The dialog opens when saving is possible, and closes only when no save is waited for.
LEMMA OpenAndCloseInv ==
  ASSUME PickerInv, Picker!OpenDialog \/ Picker!closeDialog
  PROVE  PickerInv'
<1>1. /\ step' = "details" /\ iban' = Picker!NoIban /\ error' = 0
      /\ requestInFlight = 0 /\ requestInFlight' = 0
      /\ isRecipientDialogOpen' \in BOOLEAN
      /\ isRecipientDialogOpen' => Picker!canAddRecipients /\ demoConfirmationEnabled
      /\ UNCHANGED <<toIban, selectedRecipientId>>
      /\ recipientSaveMessage' \in {recipientSaveMessage, Picker!None}
      /\ UNCHANGED <<Picker!listVars, list, history, saves, Picker!serverVars>>
  <2>1. CASE Picker!OpenDialog
    <3>1. ~Picker!DialogShown /\ requestInFlight = 0
      BY <2>1 DEF Picker!OpenDialog, Picker!DialogShown, PickerInv, SaveIsAwaited, DialogIsShown
    <3> QED BY <2>1, <3>1 DEF Picker!OpenDialog, Picker!Fresh
  <2>2. CASE Picker!closeDialog
    BY <2>2 DEF Picker!closeDialog, Picker!Unmount, Picker!Fresh, Picker!choiceVars
  <2> QED BY <2>1, <2>2
<1>2. PageTypeOK'
  BY <1>1 DEF PickerInv, PageTypeOK, Picker!listVars, Picker!serverVars, Picker!Texts
<1>3. RequestsTypeOK' /\ ListIsAwaited' /\ DialogIsShown' /\ SuccessIsSaved'
  BY <1>1 DEF PickerInv, RequestsTypeOK, ListIsAwaited, DialogIsShown, SuccessIsSaved,
              Picker!listVars, Picker!serverVars
<1>4. SaveIsAwaited'
  BY <1>1 DEF PickerInv, SaveIsAwaited
<1>5. AnswersAreFresh' /\ Picker!ListsAreFresh'
  BY <1>1 DEF PickerInv, AnswersAreFresh, Picker!ListsAreFresh, Picker!listVars,
              Picker!serverVars
<1>6. Picker!SaveMessageTruthful'
  BY <1>1 DEF PickerInv, Picker!SaveMessageTruthful, Picker!selectedRecipient, Picker!Options,
              Picker!SavedOption, Picker!listVars, Picker!serverVars
<1> QED BY <1>2, <1>3, <1>4, <1>5, <1>6 DEF PickerInv

-----------------------------------------------------------------------------
(* Loading the lists                                                       *)

\* A load changes only the lists, their marks and their version.
LEMMA LoadTypes ==
  ASSUME PageTypeOK, recipients' \subseteq Ibans, historicalIbans' \subseteq Ibans,
         isLoadingRecipients' \in BOOLEAN, isLoadingHistory' \in BOOLEAN,
         recipientLoadError' \in BOOLEAN, historyLoadError' \in BOOLEAN,
         demoConfirmationEnabled' \in BOOLEAN, version' \in Picker!Versions,
         savedAtRefresh' \subseteq Ibans, approvedAtRefresh' \subseteq Ibans,
         UNCHANGED <<Picker!choiceVars, Picker!dialogVars, saves, saved, approved>>
  PROVE  PageTypeOK'
BY DEF PageTypeOK, Picker!choiceVars, Picker!dialogVars

LEMMA RefreshInv ==
  ASSUME PickerInv, Picker!refreshRecipients
  PROVE  PickerInv'
<1> USE DEF Picker!refreshRecipients
<1>1. PageTypeOK /\ RequestsTypeOK /\ Picker!SaveMessageTruthful
  BY DEF PickerInv
<1>2. version' \in Picker!Versions
  <2>1. version \in 1..MaxRequests /\ MaxRequests \in Nat /\ Len(saves) \in Nat
    BY <1>1, SaveType, PickerParametersTyped DEF PageTypeOK, RequestsTypeOK, Picker!Versions
  <2>2. version' = version + 1 /\ version + Len(saves) < MaxRequests
    OBVIOUS
  <2>3. version' \in 1..MaxRequests
    BY ONLY <2>1, <2>2
  <2> QED BY <2>3 DEF Picker!Versions
<1>3. history'[version'] = Picker!Flying /\ list' = Picker!Flying
  BY <1>1, <1>2 DEF RequestsTypeOK
<1>4. list'.phase = "flying" /\ history'[version'].phase = "flying"
  BY <1>3 DEF Picker!Flying
<1>5. ~isRecipientDialogOpen
  BY DEF PickerInv, DialogIsShown, Picker!DialogShown
<1>6. PageTypeOK'
  <2>1. /\ isLoadingRecipients' \in BOOLEAN /\ isLoadingHistory' \in BOOLEAN
        /\ demoConfirmationEnabled' \in BOOLEAN /\ recipientLoadError' \in BOOLEAN
        /\ historyLoadError' \in BOOLEAN
    OBVIOUS
  <2>2. /\ recipients' \subseteq Ibans /\ historicalIbans' \subseteq Ibans
        /\ savedAtRefresh' \subseteq Ibans /\ approvedAtRefresh' \subseteq Ibans
    BY <1>1 DEF PageTypeOK
  <2> QED BY <1>1, <1>2, <2>1, <2>2, LoadTypes
<1>7. RequestsTypeOK'
  BY <1>1, <1>2 DEF RequestsTypeOK, ListRequest, HistoryRequests
<1>8. ListIsAwaited' /\ DialogIsShown'
  BY <1>4, <1>5 DEF ListIsAwaited, DialogIsShown, Picker!dialogVars
<1>9. AnswersAreFresh' /\ Picker!ListsAreFresh'
  BY <1>4 DEF AnswersAreFresh, Picker!ListsAreFresh
<1>10. SaveIsAwaited' /\ SuccessIsSaved'
  BY DEF PickerInv, SaveIsAwaited, SuccessIsSaved, Picker!dialogVars
<1>11. Picker!SaveMessageTruthful'
  BY <1>1 DEF Picker!SaveMessageTruthful, Picker!selectedRecipient, Picker!Options,
              Picker!SavedOption, Picker!choiceVars
<1> QED BY <1>6, <1>7, <1>8, <1>9, <1>10, <1>11 DEF PickerInv

\* The server tells what it has, which is at least what it had at the refresh.
LEMMA ServerListsInv ==
  ASSUME PickerInv, Picker!ServerLists
  PROVE  PickerInv'
<1>1. /\ list = Picker!Flying /\ list' = [phase |-> "answered", ibans |-> saved]
      /\ UNCHANGED <<Picker!listVars, Picker!choiceVars, Picker!dialogVars, history, saves,
                     Picker!serverVars>>
  BY DEF Picker!ServerLists
<1>2. list.phase = "flying" /\ list'.phase = "answered" /\ list'.ibans = saved
  BY <1>1 DEF Picker!Flying
<1>3. PageTypeOK'
  BY <1>1 DEF PickerInv, PageTypeOK, Picker!listVars, Picker!choiceVars, Picker!dialogVars,
              Picker!serverVars
<1>4. RequestsTypeOK'
  BY <1>1 DEF PickerInv, PageTypeOK, RequestsTypeOK, ListRequest
<1>5. ListIsAwaited' /\ DialogIsShown' /\ SaveIsAwaited' /\ SuccessIsSaved'
  BY <1>1, <1>2 DEF PickerInv, ListIsAwaited, DialogIsShown, SaveIsAwaited, SuccessIsSaved,
              Picker!listVars, Picker!dialogVars, Picker!serverVars
<1>6. AnswersAreFresh'
  BY <1>1, <1>2 DEF PickerInv, AnswersAreFresh, Picker!SaveMessageTruthful, Picker!listVars,
              Picker!choiceVars, Picker!serverVars
<1>7. Picker!ListsAreFresh' /\ Picker!SaveMessageTruthful'
  BY <1>1 DEF PickerInv, Picker!ListsAreFresh, Picker!SaveMessageTruthful,
              Picker!selectedRecipient, Picker!Options, Picker!SavedOption,
              Picker!listVars, Picker!choiceVars, Picker!serverVars
<1> QED BY <1>3, <1>4, <1>5, <1>6, <1>7 DEF PickerInv

\* The list that arrives has what was saved at the refresh, and the recipient that is named.
LEMMA ListArrivesInv ==
  ASSUME PickerInv, Picker!ListArrives
  PROVE  PickerInv'
<1>1. /\ list.phase = "answered" /\ recipients' = list.ibans
      /\ demoConfirmationEnabled' = DemoAllowed
      /\ isLoadingRecipients' = FALSE /\ list' = Picker!Idle
      /\ UNCHANGED <<historicalIbans, isLoadingHistory, recipientLoadError, historyLoadError, version>>
      /\ UNCHANGED <<Picker!choiceVars, Picker!dialogVars, history, saves, Picker!serverVars>>
  BY DEF Picker!ListArrives
<1>2. /\ PageTypeOK /\ RequestsTypeOK /\ ListIsAwaited /\ DialogIsShown /\ AnswersAreFresh
      /\ SaveIsAwaited /\ SuccessIsSaved /\ Picker!ListsAreFresh /\ Picker!SaveMessageTruthful
  BY DEF PickerInv
<1>3. list.ibans \subseteq Ibans /\ DemoAllowed \in BOOLEAN
  BY <1>1, <1>2, PickerParametersTyped DEF RequestsTypeOK, ListRequest, Picker!Idle, Picker!Flying
<1>4. ~isRecipientDialogOpen /\ list'.phase = "idle"
  BY <1>1, <1>2 DEF ListIsAwaited, DialogIsShown, Picker!Idle
<1>5. PageTypeOK'
  <2>1. /\ isLoadingRecipients' \in BOOLEAN /\ isLoadingHistory' \in BOOLEAN
        /\ demoConfirmationEnabled' \in BOOLEAN /\ recipientLoadError' \in BOOLEAN
        /\ historyLoadError' \in BOOLEAN
    <3>1. demoConfirmationEnabled' \in BOOLEAN
      BY <1>1, <1>3, Zenon
    <3>2. isLoadingRecipients' \in BOOLEAN
      BY <1>1, Zenon
    <3>3. /\ isLoadingHistory' \in BOOLEAN /\ recipientLoadError' \in BOOLEAN
          /\ historyLoadError' \in BOOLEAN
      BY <1>1, <1>2 DEF PageTypeOK
    <3> QED BY <3>1, <3>2, <3>3
  <2>2. /\ recipients' \subseteq Ibans /\ historicalIbans' \subseteq Ibans
        /\ savedAtRefresh' \subseteq Ibans /\ approvedAtRefresh' \subseteq Ibans
        /\ version' \in Picker!Versions
    BY <1>1, <1>2, <1>3 DEF PageTypeOK, Picker!serverVars
  <2> QED BY <1>1, <1>2, <2>1, <2>2, LoadTypes DEF Picker!serverVars
<1>6. RequestsTypeOK'
  BY <1>1, <1>2 DEF RequestsTypeOK, ListRequest
<1>7. ListIsAwaited' /\ DialogIsShown'
  BY <1>1, <1>4 DEF ListIsAwaited, DialogIsShown, Picker!dialogVars
<1>8. SaveIsAwaited' /\ SuccessIsSaved'
  BY <1>1, <1>2 DEF SaveIsAwaited, SuccessIsSaved, Picker!dialogVars, Picker!serverVars
<1>9. AnswersAreFresh' /\ Picker!ListsAreFresh'
  BY <1>1, <1>2, <1>4 DEF AnswersAreFresh, Picker!ListsAreFresh, Picker!serverVars
<1>10. Picker!SaveMessageTruthful'
  BY <1>1, <1>2 DEF Picker!SaveMessageTruthful, AnswersAreFresh, Picker!selectedRecipient,
                    Picker!Options, Picker!SavedOption, Picker!choiceVars, Picker!serverVars
<1> QED BY <1>5, <1>6, <1>7, <1>8, <1>9, <1>10 DEF PickerInv

LEMMA ListFailsInv ==
  ASSUME PickerInv, Picker!ListFails
  PROVE  PickerInv'
<1>1. /\ list # Picker!Idle /\ demoConfirmationEnabled' = FALSE /\ recipientLoadError' = TRUE
      /\ isLoadingRecipients' = FALSE /\ list' = Picker!Idle
      /\ UNCHANGED <<recipients, historicalIbans, isLoadingHistory, historyLoadError, version>>
      /\ UNCHANGED <<Picker!choiceVars, Picker!dialogVars, history, saves, Picker!serverVars>>
  BY DEF Picker!ListFails
<1>2. /\ PageTypeOK /\ RequestsTypeOK /\ ListIsAwaited /\ DialogIsShown /\ AnswersAreFresh
      /\ SaveIsAwaited /\ SuccessIsSaved /\ Picker!ListsAreFresh /\ Picker!SaveMessageTruthful
  BY DEF PickerInv
<1>3. list.phase # "idle"
  BY <1>1, <1>2 DEF RequestsTypeOK, ListRequest, Picker!Flying
<1>4. ~isRecipientDialogOpen /\ list'.phase = "idle"
  BY <1>1, <1>2, <1>3 DEF ListIsAwaited, DialogIsShown, Picker!Idle
<1>5. PageTypeOK'
  <2>1. /\ isLoadingRecipients' \in BOOLEAN /\ isLoadingHistory' \in BOOLEAN
        /\ demoConfirmationEnabled' \in BOOLEAN /\ recipientLoadError' \in BOOLEAN
        /\ historyLoadError' \in BOOLEAN
    BY <1>1, <1>2 DEF PageTypeOK
  <2>2. /\ recipients' \subseteq Ibans /\ historicalIbans' \subseteq Ibans
        /\ savedAtRefresh' \subseteq Ibans /\ approvedAtRefresh' \subseteq Ibans
        /\ version' \in Picker!Versions
    BY <1>1, <1>2 DEF PageTypeOK, Picker!serverVars
  <2> QED BY <1>1, <1>2, <2>1, <2>2, LoadTypes DEF Picker!serverVars
<1>6. RequestsTypeOK'
  BY <1>1, <1>2 DEF RequestsTypeOK, ListRequest
<1>7. ListIsAwaited' /\ DialogIsShown'
  BY <1>1, <1>4 DEF ListIsAwaited, DialogIsShown, Picker!dialogVars
<1>8. SaveIsAwaited' /\ SuccessIsSaved'
  BY <1>1, <1>2 DEF SaveIsAwaited, SuccessIsSaved, Picker!dialogVars, Picker!serverVars
<1>9. AnswersAreFresh' /\ Picker!ListsAreFresh'
  BY <1>1, <1>2, <1>4 DEF AnswersAreFresh, Picker!ListsAreFresh, Picker!serverVars
<1>10. Picker!SaveMessageTruthful'
  BY <1>1, <1>2 DEF Picker!SaveMessageTruthful, Picker!selectedRecipient,
                    Picker!Options, Picker!SavedOption, Picker!choiceVars, Picker!serverVars
<1> QED BY <1>5, <1>6, <1>7, <1>8, <1>9, <1>10 DEF PickerInv

\* A step of the history's requests: only the answer to the present version reaches the page,
\* and whatever it lacks is said to be missing.
LEMMA HistoryStepInv ==
  ASSUME PickerInv, history' \in [Picker!Versions -> HistoryRequests],
         historicalIbans' \subseteq Ibans,
         historyLoadError' \in BOOLEAN, isLoadingHistory' \in BOOLEAN,
         history'[version].phase = "answered" /\ history'[version].incomplete = FALSE =>
           approvedAtRefresh \subseteq history'[version].ibans,
         ~isLoadingHistory' /\ ~historyLoadError' => approvedAtRefresh \subseteq historicalIbans',
         UNCHANGED <<recipients, isLoadingRecipients, recipientLoadError>>,
         UNCHANGED <<demoConfirmationEnabled, version>>,
         UNCHANGED <<Picker!choiceVars, Picker!dialogVars, list, saves, Picker!serverVars>>
  PROVE  PickerInv'
<1>1. /\ PageTypeOK /\ RequestsTypeOK /\ ListIsAwaited /\ DialogIsShown /\ AnswersAreFresh
      /\ SaveIsAwaited /\ SuccessIsSaved /\ Picker!ListsAreFresh /\ Picker!SaveMessageTruthful
  BY DEF PickerInv
<1>2. PageTypeOK'
  BY <1>1 DEF PageTypeOK, Picker!choiceVars, Picker!dialogVars, Picker!serverVars
<1>3. RequestsTypeOK' /\ ListIsAwaited' /\ DialogIsShown' /\ SaveIsAwaited' /\ SuccessIsSaved'
  BY <1>1 DEF RequestsTypeOK, ListIsAwaited, DialogIsShown, SaveIsAwaited, SuccessIsSaved,
              Picker!dialogVars, Picker!serverVars
<1>4. AnswersAreFresh'
  BY <1>1 DEF AnswersAreFresh, Picker!choiceVars, Picker!serverVars
<1>5. Picker!ListsAreFresh'
  BY <1>1 DEF Picker!ListsAreFresh, Picker!serverVars
<1>6. Picker!SaveMessageTruthful'
  BY <1>1 DEF Picker!SaveMessageTruthful, Picker!selectedRecipient,
              Picker!Options, Picker!SavedOption, Picker!choiceVars, Picker!serverVars
<1> QED BY <1>2, <1>3, <1>4, <1>5, <1>6 DEF PickerInv

LEMMA HistoryInvKept ==
  ASSUME PickerInv, NEW v \in Picker!Versions,
         Picker!ServerTellsHistory(v) \/ Picker!HistoryArrives(v) \/ Picker!HistoryFails(v)
  PROVE  PickerInv'
<1>1. PageTypeOK /\ RequestsTypeOK /\ AnswersAreFresh /\ Picker!ListsAreFresh
  BY DEF PickerInv
<1>2. history \in [Picker!Versions -> HistoryRequests] /\ version \in Picker!Versions
  BY <1>1 DEF RequestsTypeOK, PageTypeOK
<1>3. Picker!Idle \in HistoryRequests /\ Picker!Idle.phase = "idle"
  BY DEF HistoryRequests, Picker!Idle
<1>4. CASE Picker!ServerTellsHistory(v)
  <2>1. PICK known \in SUBSET approved, incomplete_ \in BOOLEAN :
          /\ ~incomplete_ => known = approved
          /\ history' = [history EXCEPT ![v] = [phase |-> "answered", ibans |-> known,
                                                incomplete |-> incomplete_]]
    BY <1>4 DEF Picker!ServerTellsHistory
  <2> DEFINE answer == [phase |-> "answered", ibans |-> known, incomplete |-> incomplete_]
  <2>2. UNCHANGED <<Picker!listVars, Picker!choiceVars, Picker!dialogVars, list, saves, Picker!serverVars>>
    BY <1>4 DEF Picker!ServerTellsHistory
  <2>3. answer \in HistoryRequests
    BY <1>1 DEF HistoryRequests, PageTypeOK
  <2>4. answer.incomplete = FALSE => approvedAtRefresh \subseteq answer.ibans
    BY <1>1, <2>1 DEF AnswersAreFresh
  <2> HIDE DEF answer
  <2>5. history' = [history EXCEPT ![v] = answer]
    BY <2>1 DEF answer
  <2>6. history' \in [Picker!Versions -> HistoryRequests]
    BY <1>2, <2>3, <2>5
  <2>7. history'[version] \in {answer, history[version]}
    BY <1>2, <2>5
  <2>8. history'[version].phase = "answered" /\ history'[version].incomplete = FALSE =>
          approvedAtRefresh \subseteq history'[version].ibans
    BY <1>1, <2>4, <2>7 DEF AnswersAreFresh
  <2> QED BY <1>1, <2>2, <2>6, <2>8, HistoryStepInv DEF Picker!listVars, PageTypeOK, Picker!ListsAreFresh
<1>5. ASSUME history' = [history EXCEPT ![v] = Picker!Idle]
      PROVE  /\ history' \in [Picker!Versions -> HistoryRequests]
             /\ history'[version].phase = "answered" /\ history'[version].incomplete = FALSE =>
                  approvedAtRefresh \subseteq history'[version].ibans
  <2>1. history'[version] \in {Picker!Idle, history[version]}
    BY <1>2, <1>5
  <2> QED BY <1>1, <1>2, <1>3, <1>5, <2>1 DEF AnswersAreFresh
<1>6. CASE Picker!HistoryArrives(v)
  <2>1. history[v].phase = "answered"
    BY <1>6 DEF Picker!HistoryArrives
  <2>2. history[v].ibans \subseteq Ibans /\ history[v].incomplete \in BOOLEAN
    BY <1>2, <2>1 DEF HistoryRequests, Picker!Idle, Picker!Flying
  <2>3. /\ history' = [history EXCEPT ![v] = Picker!Idle]
        /\ UNCHANGED <<recipients, isLoadingRecipients, recipientLoadError>>
        /\ UNCHANGED <<demoConfirmationEnabled, version>>
        /\ UNCHANGED <<Picker!choiceVars, Picker!dialogVars, list, saves, Picker!serverVars>>
    BY <1>6 DEF Picker!HistoryArrives
  <2>4. CASE /\ v = version /\ historicalIbans' = history[v].ibans
             /\ historyLoadError' = (historyLoadError \/ history[v].incomplete)
             /\ isLoadingHistory' = FALSE
    <3>1. historyLoadError' \in BOOLEAN /\ isLoadingHistory' \in BOOLEAN
      BY <2>4
    <3>2. ~historyLoadError' => history[v].incomplete = FALSE
      BY <2>2, <2>4
    <3>3. ~isLoadingHistory' /\ ~historyLoadError' => approvedAtRefresh \subseteq historicalIbans'
      BY <1>1, <2>1, <2>4, <3>2 DEF AnswersAreFresh
    <3> QED BY <1>5, <2>2, <2>3, <2>4, <3>1, <3>3, HistoryStepInv
  <2>5. CASE UNCHANGED <<historicalIbans, historyLoadError, isLoadingHistory>>
    <3>1. /\ historicalIbans' \subseteq Ibans
          /\ historyLoadError' \in BOOLEAN /\ isLoadingHistory' \in BOOLEAN
      BY <1>1, <2>5 DEF PageTypeOK
    <3>2. ~isLoadingHistory' /\ ~historyLoadError' => approvedAtRefresh \subseteq historicalIbans'
      BY <1>1, <2>5 DEF Picker!ListsAreFresh
    <3> QED BY <1>5, <2>3, <3>1, <3>2, HistoryStepInv
  <2> QED BY <1>6, <2>4, <2>5 DEF Picker!HistoryArrives, Picker!NotAborted
<1>7. CASE Picker!HistoryFails(v)
  <2>1. /\ history' = [history EXCEPT ![v] = Picker!Idle]
        /\ historyLoadError' = (historyLoadError \/ v = version)
        /\ isLoadingHistory' = (isLoadingHistory /\ ~(v = version))
        /\ UNCHANGED <<recipients, historicalIbans, isLoadingRecipients, recipientLoadError>>
        /\ UNCHANGED <<demoConfirmationEnabled, version>>
        /\ UNCHANGED <<Picker!choiceVars, Picker!dialogVars, list, saves, Picker!serverVars>>
    BY <1>7 DEF Picker!HistoryFails, Picker!NotAborted
  <2>2. historyLoadError' \in BOOLEAN /\ isLoadingHistory' \in BOOLEAN
    BY <2>1
  <2>3. ~isLoadingHistory' /\ ~historyLoadError' => approvedAtRefresh \subseteq historicalIbans'
    BY <1>1, <2>1 DEF Picker!ListsAreFresh
  <2> QED BY <1>1, <1>5, <2>1, <2>2, <2>3, HistoryStepInv DEF PageTypeOK
<1> QED BY <1>4, <1>6, <1>7

-----------------------------------------------------------------------------
(* Saving a recipient                                                      *)

LEMMA ConfirmInv ==
  ASSUME PickerInv, Picker!confirmDemo
  PROVE  PickerInv'
<1> DEFINE save == [iban |-> iban, phase |-> "flying", code |-> 0, told |-> "nothing"]
           n == Len(saves) + 1
<1>1. /\ step = "confirmation" /\ requestInFlight = 0 /\ Picker!DialogShown
      /\ saves' = Append(saves, save) /\ requestInFlight' = Len(saves') /\ error' = 0
      /\ UNCHANGED <<isRecipientDialogOpen, step, iban>>
      /\ UNCHANGED <<Picker!listVars, Picker!choiceVars, list, history, Picker!serverVars>>
  BY DEF Picker!confirmDemo
<1>2. /\ PageTypeOK /\ RequestsTypeOK /\ ListIsAwaited /\ DialogIsShown /\ AnswersAreFresh
      /\ SaveIsAwaited /\ SuccessIsSaved /\ Picker!ListsAreFresh /\ Picker!SaveMessageTruthful
  BY DEF PickerInv
<1>3. saves \in Seq(Save) /\ Len(saves) \in Nat /\ DOMAIN saves = 1..Len(saves)
  BY <1>2, SaveType DEF RequestsTypeOK
<1>4. save \in Save /\ save.told = "nothing" /\ save.code = 0
  BY <1>1, <1>2 DEF SaveIsAwaited, Save
<1> HIDE DEF save
<1>5. /\ saves' \in Seq(Save) /\ Len(saves') = n /\ DOMAIN saves' = 1..n /\ n \in Nat /\ n > 0
      /\ saves'[n] = save /\ \A m \in DOMAIN saves : m # n /\ saves'[m] = saves[m]
  BY <1>1, <1>3, <1>4
<1>6. \A m \in DOMAIN saves' : m = n \/ m \in DOMAIN saves
  BY <1>3, <1>5
<1>7. PageTypeOK'
  <2>1. requestInFlight' \in 0..Len(saves')
    BY <1>1, <1>5
  <2> QED BY <1>1, <1>2, <2>1 DEF PageTypeOK, Picker!listVars, Picker!choiceVars, Picker!serverVars
<1>8. RequestsTypeOK' /\ ListIsAwaited' /\ DialogIsShown'
  BY <1>1, <1>2, <1>5 DEF RequestsTypeOK, ListIsAwaited, DialogIsShown, Picker!listVars
<1>9. AnswersAreFresh' /\ Picker!ListsAreFresh'
  BY <1>1, <1>2 DEF AnswersAreFresh, Picker!ListsAreFresh, Picker!listVars, Picker!choiceVars,
              Picker!serverVars
<1>10. SaveIsAwaited'
  <2>1. \A m \in DOMAIN saves : saves[m].told # "nothing"
    BY <1>1, <1>2, <1>3 DEF SaveIsAwaited
  <2>2. \A m \in DOMAIN saves' : saves'[m].told = "nothing" <=> requestInFlight' = m
    BY <1>1, <1>4, <1>5, <1>6, <2>1
  <2> QED BY <1>1, <1>2, <2>2 DEF SaveIsAwaited, Picker!DialogShown
<1>11. SuccessIsSaved'
  BY <1>1, <1>2, <1>4, <1>5, <1>6 DEF SuccessIsSaved, Picker!serverVars
<1>12. Picker!SaveMessageTruthful'
  BY <1>1, <1>2 DEF Picker!SaveMessageTruthful, Picker!selectedRecipient, Picker!Options,
              Picker!SavedOption, Picker!listVars, Picker!choiceVars, Picker!serverVars
<1> QED BY <1>7, <1>8, <1>9, <1>10, <1>11, <1>12 DEF PickerInv

\* One save moves on: the others, and the recipient it is about, stay what they were.
LEMMA SaveReplaced ==
  ASSUME saves \in Seq(Save), NEW n \in DOMAIN saves, NEW s \in Save, s.iban = saves[n].iban,
         saves' = [saves EXCEPT ![n] = s]
  PROVE  /\ saves' \in Seq(Save) /\ Len(saves') = Len(saves) /\ DOMAIN saves' = DOMAIN saves
         /\ saves'[n] = s /\ \A m \in DOMAIN saves \ {n} : saves'[m] = saves[m]
BY SaveType

\* The server has more than it had, and what it had at the last refresh is the same.
ServerGains ==
  /\ saved \subseteq saved' /\ saved' \subseteq Ibans
  /\ approved \subseteq approved' /\ approved' \subseteq Ibans
  /\ UNCHANGED <<savedAtRefresh, approvedAtRefresh>>

\* No save is begun or told by this step.
SavesStand ==
  /\ saves' \in Seq(Save) /\ Len(saves') = Len(saves) /\ DOMAIN saves' = DOMAIN saves
  /\ \A n \in DOMAIN saves : saves'[n].told = saves[n].told

PickerRests ==
  UNCHANGED <<Picker!listVars, Picker!choiceVars, Picker!dialogVars, list, history>>

\* What the server gains leaves what the page shows true.
LEMMA ServerGainsInv ==
  ASSUME PickerInv, ServerGains, SavesStand, SuccessIsSaved', PickerRests
  PROVE  PickerInv'
<1> USE DEF ServerGains, SavesStand, PickerRests
<1>1. /\ PageTypeOK /\ RequestsTypeOK /\ ListIsAwaited /\ DialogIsShown /\ AnswersAreFresh
      /\ SaveIsAwaited /\ SuccessIsSaved /\ Picker!ListsAreFresh /\ Picker!SaveMessageTruthful
  BY DEF PickerInv
<1>2. PageTypeOK'
  BY <1>1 DEF PageTypeOK, Picker!listVars, Picker!choiceVars, Picker!dialogVars
<1>3. RequestsTypeOK' /\ ListIsAwaited' /\ DialogIsShown'
  BY <1>1 DEF RequestsTypeOK, ListIsAwaited, DialogIsShown, Picker!listVars, Picker!dialogVars
<1>4. AnswersAreFresh' /\ Picker!ListsAreFresh'
  BY <1>1 DEF AnswersAreFresh, Picker!ListsAreFresh, Picker!listVars, Picker!choiceVars
<1>5. SaveIsAwaited' /\ SuccessIsSaved'
  BY <1>1 DEF SaveIsAwaited, SuccessIsSaved, Picker!dialogVars
<1>6. Picker!SaveMessageTruthful'
  BY <1>1 DEF Picker!SaveMessageTruthful, Picker!selectedRecipient, Picker!Options,
              Picker!SavedOption, Picker!listVars, Picker!choiceVars
<1> QED BY <1>2, <1>3, <1>4, <1>5, <1>6 DEF PickerInv

Answered(n, c) == saves' = [saves EXCEPT ![n].phase = "answered", ![n].code = c]

\* The answer to a save is about the same recipient, and is not told yet.
LEMMA AnswerMoves ==
  ASSUME saves \in Seq(Save), NEW n \in DOMAIN saves, NEW c \in {0, 201, 401, 409, 500},
         Answered(n, c)
  PROVE  /\ saves' \in Seq(Save) /\ Len(saves') = Len(saves) /\ DOMAIN saves' = DOMAIN saves
         /\ saves'[n].iban = saves[n].iban /\ saves'[n].told = saves[n].told
         /\ saves'[n].code = c
         /\ \A m \in DOMAIN saves \ {n} : saves'[m] = saves[m]
<1> DEFINE r == [saves[n] EXCEPT !.phase = "answered"]
           s == [r EXCEPT !.code = c]
<1>1. saves[n] \in Save
  BY SaveType
<1>2. s \in Save /\ s.iban = saves[n].iban /\ s.told = saves[n].told /\ s.code = c
  <2>1. r \in Save /\ r.iban = saves[n].iban /\ r.told = saves[n].told
    BY <1>1 DEF Save
  <2> HIDE DEF r
  <2> QED BY <2>1 DEF Save
<1>3. saves' = [saves EXCEPT ![n] = s]
  BY DEF Answered
<1> HIDE DEF s
<1>4. /\ saves' \in Seq(Save) /\ Len(saves') = Len(saves) /\ DOMAIN saves' = DOMAIN saves
      /\ saves'[n] = s /\ \A m \in DOMAIN saves \ {n} : saves'[m] = saves[m]
  BY <1>2, <1>3, SaveReplaced
<1> QED BY <1>2, <1>4

LEMMA ServerSavesInv ==
  ASSUME PickerInv, NEW n, Picker!ServerSaves(n)
  PROVE  PickerInv'
<1>1. PageTypeOK /\ RequestsTypeOK /\ SuccessIsSaved
  BY DEF PickerInv
<1>2. /\ n \in DOMAIN saves
      /\ UNCHANGED <<approved, savedAtRefresh, approvedAtRefresh>>
      /\ PickerRests
  BY DEF Picker!ServerSaves, Picker!InFlight, PickerRests
<1>3. saves \in Seq(Save) /\ saves[n] \in Save
  BY <1>1, <1>2, SaveType DEF RequestsTypeOK
<1>4. PICK code \in {201, 401, 409, 500} :
        /\ code = 409 <=> saves[n].iban \in saved
        /\ saves' = [saves EXCEPT ![n].phase = "answered", ![n].code = code]
        /\ saved' \in IF code \in {201, 409} THEN {saved \cup {saves[n].iban}}
                      ELSE IF code = 500 THEN {saved, saved \cup {saves[n].iban}} ELSE {saved}
  BY DEF Picker!ServerSaves
<1>5. Answered(n, code) /\ code \in {0, 201, 401, 409, 500}
  BY <1>4 DEF Answered
<1>6. /\ saves' \in Seq(Save) /\ Len(saves') = Len(saves) /\ DOMAIN saves' = DOMAIN saves
      /\ saves'[n].iban = saves[n].iban /\ saves'[n].told = saves[n].told
      /\ saves'[n].code = code
      /\ \A m \in DOMAIN saves \ {n} : saves'[m] = saves[m]
  BY <1>2, <1>3, <1>5, AnswerMoves
<1>7. /\ saved' = saved \/ saved' = saved \cup {saves[n].iban}
      /\ code = 201 => saved' = saved \cup {saves[n].iban}
  BY <1>4
<1>8. saved \subseteq saved' /\ saved' \subseteq Ibans /\ (code = 201 => saves[n].iban \in saved')
  BY <1>1, <1>3, <1>7 DEF PageTypeOK, Save
<1>9. SavesStand
  BY <1>6 DEF SavesStand
<1>10. SuccessIsSaved'
  BY <1>1, <1>6, <1>8 DEF SuccessIsSaved
<1>11. ServerGains
  BY <1>1, <1>2, <1>8 DEF PageTypeOK, ServerGains
<1> QED BY <1>2, <1>9, <1>10, <1>11, ServerGainsInv

LEMMA EverybodyElseInv ==
  ASSUME PickerInv, NEW i \in Ibans, Picker!ColleagueSaves(i) \/ Picker!PaymentApproved(i)
  PROVE  PickerInv'
<1>1. PageTypeOK /\ RequestsTypeOK /\ SuccessIsSaved
  BY DEF PickerInv
<1>2. ServerGains /\ PickerRests /\ UNCHANGED saves
  BY <1>1 DEF Picker!ColleagueSaves, Picker!PaymentApproved, PageTypeOK, ServerGains, PickerRests
<1>3. SavesStand
  BY <1>1, <1>2 DEF SavesStand, RequestsTypeOK
<1>4. SuccessIsSaved'
  BY <1>1, <1>2 DEF SuccessIsSaved, ServerGains
<1> QED BY <1>2, <1>3, <1>4, ServerGainsInv

Told(n, p, t) == saves' = [saves EXCEPT ![n].phase = p, ![n].told = t]

\* A save that the dialog is told about is about the same recipient, with the same answer.
LEMMA TellingMoves ==
  ASSUME saves \in Seq(Save), NEW n \in DOMAIN saves, NEW p \in {"flying", "answered", "over"},
         NEW t \in {"nothing", "saved", "error"}, Told(n, p, t)
  PROVE  /\ saves' \in Seq(Save) /\ Len(saves') = Len(saves) /\ DOMAIN saves' = DOMAIN saves
         /\ saves'[n].iban = saves[n].iban /\ saves'[n].code = saves[n].code
         /\ saves'[n].told = t
         /\ \A m \in DOMAIN saves \ {n} : saves'[m] = saves[m]
<1> DEFINE r == [saves[n] EXCEPT !.phase = p]
           s == [r EXCEPT !.told = t]
<1>1. saves[n] \in Save
  BY SaveType
<1>2. s \in Save /\ s.iban = saves[n].iban /\ s.code = saves[n].code /\ s.told = t
  <2>1. r \in Save /\ r.iban = saves[n].iban /\ r.code = saves[n].code
    BY <1>1 DEF Save
  <2> HIDE DEF r
  <2> QED BY <2>1 DEF Save
<1>3. saves' = [saves EXCEPT ![n] = s]
  BY DEF Told
<1> HIDE DEF s
<1>4. /\ saves' \in Seq(Save) /\ Len(saves') = Len(saves) /\ DOMAIN saves' = DOMAIN saves
      /\ saves'[n] = s /\ \A m \in DOMAIN saves \ {n} : saves'[m] = saves[m]
  BY <1>2, <1>3, SaveReplaced
<1> QED BY <1>2, <1>4

\* What a save that was told leaves behind: none is waited for, none was told nothing, and
\* what is said to be stored is stored.
LEMMA ToldIsOver ==
  ASSUME PickerInv, NEW n, n \in DOMAIN saves, requestInFlight = n,
         NEW p \in {"flying", "answered", "over"}, NEW t \in {"saved", "error"}, Told(n, p, t),
         requestInFlight' = 0, UNCHANGED saved, step' = "details" \/ UNCHANGED <<step, iban>>
  PROVE  /\ saves' \in Seq(Save) /\ requestInFlight' \in 0..Len(saves')
         /\ SaveIsAwaited' /\ SuccessIsSaved'
<1>1. PageTypeOK /\ RequestsTypeOK /\ SaveIsAwaited /\ SuccessIsSaved
  BY DEF PickerInv
<1>2. /\ saves \in Seq(Save) /\ Len(saves) \in Nat
      /\ \A m \in DOMAIN saves : m \in Nat /\ m > 0
  BY <1>1, SaveType DEF RequestsTypeOK
<1>3. t \in {"nothing", "saved", "error"} /\ t # "nothing"
  OBVIOUS
<1>4. /\ saves' \in Seq(Save) /\ Len(saves') = Len(saves) /\ DOMAIN saves' = DOMAIN saves
      /\ saves'[n].iban = saves[n].iban /\ saves'[n].code = saves[n].code
      /\ saves'[n].told = t
      /\ \A m \in DOMAIN saves \ {n} : saves'[m] = saves[m]
  BY <1>2, <1>3, TellingMoves
<1>5. requestInFlight' \in 0..Len(saves')
  BY <1>2, <1>4
<1>6. \A m \in DOMAIN saves' : saves'[m].told # "nothing" /\ requestInFlight' # m
  BY <1>1, <1>2, <1>3, <1>4 DEF SaveIsAwaited
<1>7. step' = "confirmation" => iban' \in Ibans
  BY <1>1 DEF SaveIsAwaited
<1>8. SaveIsAwaited'
  BY <1>6, <1>7 DEF SaveIsAwaited
<1>9. SuccessIsSaved'
  BY <1>1, <1>4 DEF SuccessIsSaved
<1> QED BY <1>4, <1>5, <1>8, <1>9

\* The dialog goes, and the form has the recipient that was saved, which no list on its way
\* can lack: none is on its way while the dialog is shown.
LEMMA SaveSucceedsInv ==
  ASSUME PickerInv, NEW n, Picker!SaveSucceeds(n)
  PROVE  PickerInv'
<1> DEFINE i == saves[n].iban
<1>1. /\ n \in DOMAIN saves /\ saves[n].code = 201 /\ requestInFlight = n
      /\ requestInFlight' = 0 /\ recipients' = recipients \cup {i}
      /\ selectedRecipientId' = TRUE /\ toIban' = i /\ recipientSaveMessage' = i
      /\ isRecipientDialogOpen' = FALSE /\ step' = "details" /\ iban' = Picker!NoIban /\ error' = 0
      /\ UNCHANGED <<historicalIbans, isLoadingRecipients, isLoadingHistory, recipientLoadError,
                     historyLoadError, demoConfirmationEnabled, version>>
      /\ UNCHANGED <<list, history, Picker!serverVars>>
  BY DEF Picker!SaveSucceeds, Picker!InFlight, Picker!handleRecipientSaved, Picker!Choose,
         Picker!Unmount, Picker!Fresh
<1>2. /\ PageTypeOK /\ RequestsTypeOK /\ ListIsAwaited /\ DialogIsShown /\ AnswersAreFresh
      /\ SaveIsAwaited /\ SuccessIsSaved /\ Picker!ListsAreFresh /\ Picker!SaveMessageTruthful
  BY DEF PickerInv
<1>3. Told(n, "over", "saved")
  BY DEF Picker!SaveSucceeds, Told
<1>4. UNCHANGED saved
  BY <1>1 DEF Picker!serverVars
<1>5. /\ saves' \in Seq(Save) /\ requestInFlight' \in 0..Len(saves')
      /\ SaveIsAwaited' /\ SuccessIsSaved'
  BY <1>1, <1>3, <1>4, ToldIsOver
<1>6. i \in Ibans /\ i \in saved /\ n # 0
  <2>1. saves[n] \in Save /\ n # 0
    BY <1>1, <1>2, SaveType DEF RequestsTypeOK
  <2> QED BY <1>1, <1>2, <2>1 DEF Save, SuccessIsSaved
<1> HIDE DEF i
<1>7. list.phase = "idle"
  BY <1>1, <1>2, <1>6 DEF SaveIsAwaited, DialogIsShown, ListIsAwaited, PageTypeOK
<1>8. PageTypeOK'
  <2>1. selectedRecipientId' \in BOOLEAN /\ isRecipientDialogOpen' \in BOOLEAN
    BY <1>1
  <2>2. /\ isLoadingRecipients' \in BOOLEAN /\ isLoadingHistory' \in BOOLEAN
        /\ recipientLoadError' \in BOOLEAN /\ historyLoadError' \in BOOLEAN
        /\ demoConfirmationEnabled' \in BOOLEAN
    BY <1>1, <1>2 DEF PageTypeOK
  <2>3. /\ recipients' \subseteq Ibans /\ historicalIbans' \subseteq Ibans
        /\ saved' \subseteq Ibans /\ approved' \subseteq Ibans
        /\ savedAtRefresh' \subseteq Ibans /\ approvedAtRefresh' \subseteq Ibans
        /\ version' \in Picker!Versions
    BY <1>1, <1>2, <1>6 DEF PageTypeOK, Picker!serverVars
  <2>4. /\ toIban' \in Picker!Texts /\ recipientSaveMessage' \in Ibans \cup {Picker!None}
        /\ step' \in {"details", "confirmation"} /\ iban' \in Picker!Texts
        /\ error' \in {0, 201, 400, 401, 409, 500}
    BY <1>1, <1>6 DEF Picker!Texts
  <2> QED BY ONLY <1>5, <2>1, <2>2, <2>3, <2>4 DEF PageTypeOK
<1>9. RequestsTypeOK' /\ ListIsAwaited' /\ DialogIsShown'
  BY <1>1, <1>2, <1>5 DEF RequestsTypeOK, ListIsAwaited, DialogIsShown
<1>10. AnswersAreFresh' /\ Picker!ListsAreFresh'
  BY <1>1, <1>2, <1>7 DEF AnswersAreFresh, Picker!ListsAreFresh, Picker!serverVars
<1>11. Picker!SaveMessageTruthful'
  BY <1>1, <1>4, <1>6 DEF Picker!SaveMessageTruthful, Picker!selectedRecipient, Picker!Options,
                          Picker!SavedOption
<1> QED BY <1>5, <1>8, <1>9, <1>10, <1>11 DEF PickerInv

LEMMA SaveFailsInv ==
  ASSUME PickerInv, NEW n, Picker!SaveFails(n)
  PROVE  PickerInv'
<1>1. /\ PageTypeOK /\ RequestsTypeOK /\ ListIsAwaited /\ DialogIsShown /\ AnswersAreFresh
      /\ SaveIsAwaited /\ SuccessIsSaved /\ Picker!ListsAreFresh /\ Picker!SaveMessageTruthful
  BY DEF PickerInv
<1>2. /\ requestInFlight = n /\ n # 0 /\ requestInFlight' = 0
      /\ UNCHANGED <<isRecipientDialogOpen, step, iban>>
      /\ UNCHANGED <<Picker!listVars, Picker!choiceVars, list, history, Picker!serverVars>>
  BY DEF Picker!SaveFails
<1>3. saves \in Seq(Save) /\ Len(saves) \in Nat /\ DOMAIN saves = 1..Len(saves)
  BY <1>1, SaveType DEF RequestsTypeOK
<1>4. n \in DOMAIN saves
  <2>1. n \in 0..Len(saves)
    BY <1>1, <1>2 DEF PageTypeOK
  <2> QED BY ONLY <1>2, <1>3, <2>1
<1>5. saves[n].phase \in {"flying", "answered", "over"}
      /\ saves[n].code \in {0, 201, 401, 409, 500}
  BY <1>3, <1>4, SaveType DEF Save
<1>6. /\ error' \in {0, 201, 400, 401, 409, 500}
      /\ \E p \in {"flying", "answered", "over"} : Told(n, p, "error")
  BY <1>5 DEF Picker!SaveFails, Told
<1>7. UNCHANGED saved
  BY <1>2 DEF Picker!serverVars
<1>8. /\ saves' \in Seq(Save) /\ requestInFlight' \in 0..Len(saves')
      /\ SaveIsAwaited' /\ SuccessIsSaved'
  BY <1>2, <1>4, <1>6, <1>7, ToldIsOver
<1>9. PageTypeOK'
  BY <1>1, <1>2, <1>6, <1>8 DEF PageTypeOK, Picker!listVars, Picker!choiceVars, Picker!serverVars
<1>10. RequestsTypeOK' /\ ListIsAwaited' /\ DialogIsShown'
  BY <1>1, <1>2, <1>8 DEF RequestsTypeOK, ListIsAwaited, DialogIsShown, Picker!listVars
<1>11. AnswersAreFresh' /\ Picker!ListsAreFresh'
  BY <1>1, <1>2 DEF AnswersAreFresh, Picker!ListsAreFresh, Picker!listVars, Picker!choiceVars,
                    Picker!serverVars
<1>12. Picker!SaveMessageTruthful'
  BY <1>1, <1>2 DEF Picker!SaveMessageTruthful, Picker!selectedRecipient, Picker!Options,
                    Picker!SavedOption, Picker!listVars, Picker!choiceVars, Picker!serverVars
<1> QED BY <1>8, <1>9, <1>10, <1>11, <1>12 DEF PickerInv

\* Every step of the picker keeps its invariant.
LEMMA PickerStep ==
  ASSUME PickerInv, [Picker!Next]_(Picker!pickerVars)
  PROVE  PickerInv'
<1>1. CASE Picker!User
  BY <1>1, ChoosingInv, InDialogInv, OpenAndCloseInv, RefreshInv, ConfirmInv DEF Picker!User
<1>2. CASE Picker!Loading
  BY <1>2, ServerListsInv, ListArrivesInv, ListFailsInv, HistoryInvKept DEF Picker!Loading
<1>3. CASE Picker!Saving
  BY <1>3, ServerSavesInv, SaveSucceedsInv, SaveFailsInv DEF Picker!Saving
<1>4. ASSUME NEW i \in Ibans, Picker!ColleagueSaves(i) \/ Picker!PaymentApproved(i)
      PROVE  PickerInv'
  BY <1>4, EverybodyElseInv
<1>5. CASE UNCHANGED Picker!pickerVars
  <2>1. PickerRests /\ UNCHANGED <<saves, Picker!serverVars>>
    BY <1>5 DEF Picker!pickerVars, PickerRests
  <2>2. PageTypeOK /\ RequestsTypeOK /\ SuccessIsSaved
    BY DEF PickerInv
  <2>3. ServerGains /\ SavesStand /\ SuccessIsSaved'
    BY <2>1, <2>2 DEF ServerGains, SavesStand, SuccessIsSaved, PageTypeOK, RequestsTypeOK,
                      Picker!serverVars
  <2> QED BY <2>1, <2>3, ServerGainsInv
<1> QED BY <1>1, <1>2, <1>3, <1>4, <1>5 DEF Picker!Next

-----------------------------------------------------------------------------
(* The picker on the payment page                                          *)

LEMMA PageStepsPicker == [PageNext]_pageVars => [Picker!Next]_(Picker!pickerVars)
<1> SUFFICES ASSUME [PageNext]_pageVars PROVE [Picker!Next]_(Picker!pickerVars)
  OBVIOUS
<1>1. CASE UNCHANGED pickerVars
  BY <1>1 DEF pickerVars, Picker!pickerVars, Picker!listVars, Picker!choiceVars,
              Picker!dialogVars, Picker!serverVars
<1> QED BY <1>1 DEF PageNext, InForm, InPicker, InHistory, pageVars

LEMMA PickerAlways == PageSpec => []PickerInv
<1>1. PageInit => PickerInv
  BY PickerInit DEF PageInit
<1>2. PickerInv /\ [PageNext]_pageVars => PickerInv'
  BY PickerStep, PageStepsPicker
<1> QED BY <1>1, <1>2, PTL DEF PageSpec

\* For any recipients and any number of refreshes, whichever answers come late or fail, the
\* lists and the hint that there are none are not older than the last refresh, or the page
\* says that a load failed (the two effects of NewPayment).
THEOREM ListsAreTrue == PageSpec => []ListsTruthful
<1>1. ASSUME PickerInv PROVE ListsTruthful
  <2>1. Picker!PickerTypeOK
    BY <1>1 DEF PickerInv, PageTypeOK, Picker!PickerTypeOK
  <2>2. Picker!ListsAreFresh
    BY <1>1 DEF PickerInv
  <2>3. Picker!EmptyHintTruthful
    BY <2>2 DEF Picker!ListsAreFresh, Picker!EmptyHintTruthful, Picker!EmptyHint, Picker!Options
  <2> QED BY <2>1, <2>2, <2>3 DEF ListsTruthful, Picker!ListsTruthful
<1> QED BY <1>1, PickerAlways, PTL

\* Every save of NewRecipientDialog is told before the dialog can go, and the recipient that
\* is named as saved and chosen is saved, listed and chosen (handleRecipientSaved).
THEOREM SavesAreTrue == PageSpec => []SavesTruthful
<1>1. ASSUME PickerInv PROVE SavesTruthful
  <2>1. PageTypeOK /\ RequestsTypeOK /\ SaveIsAwaited /\ DialogIsShown /\ Picker!SaveMessageTruthful
    BY <1>1 DEF PickerInv
  <2>2. \A n \in DOMAIN saves : n # 0
    BY <2>1, SaveType DEF RequestsTypeOK
  <2>3. Picker!SavesAreReported
    BY <2>1, <2>2 DEF Picker!SavesAreReported, SaveIsAwaited, DialogIsShown, Picker!DialogShown
  <2> QED BY <2>1, <2>3 DEF SavesTruthful, Picker!SavesTruthful
<1> QED BY <1>1, PickerAlways, PTL

-----------------------------------------------------------------------------
(* The history: its lists                                                  *)

\* A candidate is a completed payment of the payments within the limit.
LEMMA CandidateType ==
  ASSUME NEW payments \in RecentLists
  PROVE  /\ Candidates(payments) \subseteq DOMAIN payments
         /\ DOMAIN payments \subseteq Nat \ {0}
         /\ \A i \in DOMAIN payments : payments[i].id \in Id
<1>1. payments \in Seq([id : Id, status : Status])
  BY HistoryAssumption
<1>2. ASSUME NEW i \in DOMAIN payments PROVE i \in Nat \ {0} /\ payments[i].id \in Id
  <2>1. i \in 1..Len(payments) /\ Len(payments) \in Nat
    BY <1>1
  <2>2. payments[i] \in [id : Id, status : Status]
    BY <1>1, <2>1, ElementOfSeq
  <2> QED BY <2>1, <2>2
<1> QED BY <1>2 DEF Candidates

\* No two candidates have the same id.
LEMMA CandidatesDiffer ==
  ASSUME NEW payments \in RecentLists, NEW i \in Candidates(payments), NEW j \in Candidates(payments),
         payments[i].id = payments[j].id
  PROVE  i = j
<1>1. i \in Nat /\ j \in Nat /\ i >= 1 /\ j >= 1
  BY CandidateType
<1>2. ~(i < j) /\ ~(j < i)
  BY <1>1 DEF Candidates
<1> QED BY <1>1, <1>2

\* Every completed payment within the limit has a candidate with its id.
LEMMA CandidateFound ==
  ASSUME NEW payments \in RecentLists, NEW i \in DOMAIN payments, i <= Limit,
         payments[i].status = "completed"
  PROVE  \E j \in Candidates(payments) : payments[j].id = payments[i].id
<1> DEFINE S == {j \in DOMAIN payments : payments[j].status = "completed" /\ payments[j].id = payments[i].id}
<1>1. S \in SUBSET Nat /\ S # {}
  BY CandidateType
<1>2. PICK m \in S : \A n \in S : m <= n
  BY <1>1, Least
<1>3. m <= i /\ m \in Nat /\ i \in Nat /\ Limit \in Nat
  BY <1>1, <1>2, CandidateType, HistoryAssumption
<1>4. m \in Candidates(payments)
  <2>1. m \in DOMAIN payments /\ m <= Limit /\ payments[m].status = "completed"
    BY <1>3
  <2>2. ASSUME NEW j \in 1..(m - 1), payments[j].status = "completed", payments[j].id = payments[m].id
        PROVE  FALSE
    <3>1. j \in DOMAIN payments
      <4>1. payments \in Seq([id : Id, status : Status])
        BY HistoryAssumption
      <4>2. DOMAIN payments = 1..Len(payments) /\ Len(payments) \in Nat
        BY <4>1
      <4> QED BY <1>3, <2>1, <4>2
    <3> QED BY <1>2, <1>3, <2>2, <3>1
  <2> QED BY <2>1, <2>2 DEF Candidates
<1> QED BY <1>4

\* With a candidate there is one that a loop starts with.
LEMMA FirstFound ==
  ASSUME NEW c \in SUBSET Nat, First(c) = {}
  PROVE  c = {}
<1> SUFFICES ASSUME c # {} PROVE FALSE
  OBVIOUS
<1>1. PICK m \in c : \A n \in c : m <= n
  BY Least
<1>2. {j \in c : j < m} = {}
  <2>1. \A j \in c : j \in Nat /\ m \in Nat /\ m <= j
    BY <1>1
  <2>2. \A j \in {k \in c : k < m} : FALSE
    BY <2>1
  <2> QED BY <2>2
<1>3. Cardinality({j \in c : j < m}) = 0
  BY <1>2, FS_EmptySet
<1>4. Cardinality(Loop) \in Nat /\ Cardinality(Loop) # 0
  BY HistoryAssumption, FS_CardinalityType, FS_EmptySet
<1> QED BY <1>1, <1>3, <1>4 DEF First

-----------------------------------------------------------------------------
(* The invariant.  What was found so far is what the details of the taken  *)
(* payments said, and while nothing was thrown a payment that no loop waits *)
(* for any more has been counted, unless the result is marked incomplete.  *)

Said(i) == getApprovedRecipientIban(details[recent[i].id])
WaitedFor(i) == \E l \in Loop : loop[l] = i

Before   == stage = "overview" =>
              taken = {} /\ ibans = {} /\ \A l \in Loop : loop[l] = NotStarted
Complete == stage = "returned" => Untaken = {} /\ \A l \in Loop : loop[l] = Done
Apart    == \A k, l \in Loop : k # l /\ loop[k] > 0 => loop[k] # loop[l]
Founded  == \A b \in ibans : \E i \in taken : b = Said(i)
Counted  == stage # "thrown" /\ ~incomplete =>
              \A i \in taken : WaitedFor(i) \/ Said(i) \in ibans \cup {NoIban}
Inv == HistoryTypeOK /\ Before /\ Complete /\ Apart /\ Founded /\ Counted

\* A payment is taken once, so that two of the taken ones have different ids.
LEMMA TakenType ==
  ASSUME HistoryTypeOK
  PROVE  /\ taken \subseteq DOMAIN recent
         /\ \A i \in taken : /\ i \in Nat \ {0} /\ i <= Limit
                             /\ recent[i].status = "completed" /\ recent[i].id \in Id
                             /\ details[recent[i].id] \in Details
         /\ \A i, j \in taken : recent[i].id = recent[j].id => i = j
         /\ \A l \in Loop : loop[l] \in Int /\ (loop[l] > 0 => loop[l] \in taken)
<1> recent \in RecentLists
  BY DEF HistoryTypeOK
<1>1. /\ Candidates(recent) \subseteq DOMAIN recent
      /\ DOMAIN recent \subseteq Nat \ {0}
      /\ \A i \in DOMAIN recent : recent[i].id \in Id
  BY CandidateType
<1>2. \A i \in Candidates(recent) : i <= Limit /\ recent[i].status = "completed"
  BY DEF Candidates
<1>3. taken \subseteq Candidates(recent)
  BY DEF HistoryTypeOK
<1>4. \A i, j \in taken : recent[i].id = recent[j].id => i = j
  BY <1>3, CandidatesDiffer
<1>5. ASSUME NEW l \in Loop
      PROVE  loop[l] \in Int /\ (loop[l] > 0 => loop[l] \in taken)
  <2>1. loop[l] \in taken \cup {NotStarted, Done, Threw}
    BY DEF HistoryTypeOK
  <2> QED BY <1>1, <1>3, <2>1 DEF NotStarted, Done, Threw
<1>6. \A i \in Id : details[i] \in Details
  BY DEF HistoryTypeOK
<1> QED BY <1>1, <1>2, <1>3, <1>4, <1>5, <1>6

\* What the details of a payment may say.
LEMMA SaidType ==
  ASSUME HistoryTypeOK, NEW i \in taken
  PROVE  Said(i) \in Iban \cup {NoIban}
<1>1. details[recent[i].id] \in Details
  BY TakenType
<1>2. details[recent[i].id].toIban \in Iban \cup {NoIban}
  BY <1>1, HistoryAssumption
<1> QED BY <1>2 DEF Said, getApprovedRecipientIban

\* The invariant gives the run's property: what was said is what ApprovedIbans holds.
LEMMA InvGivesHistoryInv ==
  ASSUME Inv
  PROVE  HistoryInv
<1> HistoryTypeOK
  BY DEF Inv
<1>1. NoPaymentTwice
  <2> SUFFICES ASSUME NEW l \in Loop, loop[l] > 0
               PROVE  /\ loop[l] \in taken
                      /\ \A i \in taken \ {loop[l]} : recent[i].id # recent[loop[l]].id
                      /\ \A k \in Loop \ {l} : loop[k] # loop[l]
    BY DEF NoPaymentTwice
  <2> QED BY TakenType DEF Inv, Apart
<1>2. ASSUME NEW b \in ibans PROVE b \in ApprovedIbans
  <2>1. PICK i \in taken : b = Said(i)
    BY DEF Inv, Founded
  <2>2. b \in Iban /\ b # NoIban
    BY HistoryAssumption DEF HistoryTypeOK
  <2>3. i \in DOMAIN recent /\ i <= Limit /\ recent[i].status = "completed"
    BY TakenType
  <2>4. LET d == details[recent[i].id]
        IN  /\ d.toIban = b /\ d.status = "completed"
            /\ "approved by hand" \in d.timeline /\ "not approved" \notin d.timeline
    BY <2>1, <2>2 DEF Said, getApprovedRecipientIban
  <2> QED BY <2>2, <2>3, <2>4 DEF ApprovedIbans
<1>3. ASSUME stage = "returned", ~incomplete, NEW b \in ApprovedIbans PROVE b \in ibans
  <2>1. PICK i \in DOMAIN recent :
          LET d == details[recent[i].id]
          IN  /\ i <= Limit /\ recent[i].status = "completed"
              /\ d.toIban = b /\ d.status = "completed"
              /\ "approved by hand" \in d.timeline /\ "not approved" \notin d.timeline
    BY DEF ApprovedIbans
  <2>2. PICK j \in Candidates(recent) : recent[j].id = recent[i].id
    BY <2>1, CandidateFound DEF HistoryTypeOK
  <2>3. j \in taken
    BY <1>3 DEF Inv, Complete, Untaken
  <2>4. ~WaitedFor(j)
    <3>1. j > 0
      BY <2>3, TakenType
    <3> QED BY <1>3, <3>1 DEF Inv, Complete, WaitedFor, Done
  <2>5. Said(j) \in ibans \cup {NoIban}
    BY <1>3, <2>3, <2>4 DEF Inv, Counted
  <2>6. Said(j) = b
    BY <2>1, <2>2 DEF Said, getApprovedRecipientIban
  <2>7. b # NoIban
    BY HistoryAssumption DEF ApprovedIbans
  <2> QED BY <2>5, <2>6, <2>7
<1>4. ResultIsComplete
  BY <1>2, <1>3 DEF ResultIsComplete
<1> QED BY <1>1, <1>4 DEF HistoryInv

LEMMA InitInv == Init => Inv
<1> SUFFICES ASSUME Init PROVE Inv
  OBVIOUS
<1> USE DEF Init
<1>1. HistoryTypeOK
  BY DEF HistoryTypeOK
<1>2. Before /\ Complete
  BY DEF Before, Complete
<1>3. Apart
  BY DEF Apart, NotStarted
<1>4. Founded /\ Counted
  BY DEF Founded, Counted
<1> QED BY <1>1, <1>2, <1>3, <1>4 DEF Inv

\* The loops start with different candidates, or there is none.
LEMMA ArrivesInv ==
  ASSUME Inv, OverviewArrives
  PROVE  Inv'
<1> DEFINE first == First(Candidates(recent))
<1> USE DEF OverviewArrives
<1>1. first \subseteq Candidates(recent) /\ recent \in RecentLists
  BY DEF First, Inv, HistoryTypeOK
<1>2. \A i \in first : i \in Nat \ {0}
  BY <1>1, CandidateType
<1>3. ibans = {} /\ taken' = first
  BY DEF Inv, Before
<1>4. HistoryTypeOK'
  <2>1. loop' \in [Loop -> taken' \cup {NotStarted, Done, Threw}]
    BY <1>3
  <2> QED BY <1>1, <1>3, <2>1 DEF Inv, HistoryTypeOK
<1>5. Before'
  BY DEF Before
<1>6. Complete'
  <2> SUFFICES ASSUME stage' = "returned"
               PROVE  Untaken' = {} /\ \A l \in Loop : loop'[l] = Done
    BY DEF Complete
  <2>1. first = {}
    OBVIOUS
  <2>2. Candidates(recent) = {}
    BY <2>1, <1>1, CandidateType, FirstFound
  <2> QED BY <2>1, <2>2 DEF Untaken
<1>7. Apart'
  BY <1>2 DEF Apart, Done
<1>8. Founded'
  BY <1>3 DEF Founded
<1>9. Counted'
  BY <1>3 DEF Counted, WaitedFor
<1> QED BY <1>4, <1>5, <1>6, <1>7, <1>8, <1>9 DEF Inv

\* A loop that goes on takes an index that no other loop has, or ends with none left.
LEMMA TakeNextInv ==
  ASSUME Inv, NEW l \in Loop, loop[l] > 0, TakeNext(l), Proceed,
         UNCHANGED <<recent, details, aborted>>, ibans' \subseteq Iban, incomplete' \in BOOLEAN
  PROVE  HistoryTypeOK' /\ Before' /\ Complete' /\ Apart'
<1> recent \in RecentLists /\ HistoryTypeOK
  BY DEF Inv, HistoryTypeOK
<1>1. \A i \in Candidates(recent) : i \in Nat \ {0}
  BY CandidateType
<1>2. stage # "overview"
  BY DEF Inv, Before, NotStarted
<1>3. stage' # "overview"
  BY <1>2 DEF Proceed
<1>4. CASE \E i \in DOMAIN recent :
             IsNext(i) /\ loop' = [loop EXCEPT ![l] = i] /\ taken' = taken \cup {i}
  <2>1. PICK i \in DOMAIN recent :
          IsNext(i) /\ loop' = [loop EXCEPT ![l] = i] /\ taken' = taken \cup {i}
    BY <1>4
  <2>2. i \in Candidates(recent) /\ i \notin taken /\ i \in Nat \ {0}
    BY <2>1, <1>1 DEF IsNext, Untaken
  <2>3. loop'[l] = i /\ loop'[l] # Done
    BY <2>1, <2>2 DEF HistoryTypeOK, Done
  <2>4. stage' = stage
    BY <2>3 DEF Proceed, AllDone
  <2>5. HistoryTypeOK'
    <3>1. loop' \in [Loop -> taken' \cup {NotStarted, Done, Threw}]
      BY <2>1 DEF HistoryTypeOK
    <3>2. taken' \subseteq Candidates(recent')
      BY <2>1, <2>2 DEF HistoryTypeOK
    <3> QED BY <2>4, <3>1, <3>2 DEF HistoryTypeOK
  <2>6. stage' # "returned"
    BY <2>4 DEF Inv, Complete, Done
  <2>7. Apart'
    <3>1. \A k \in Loop \ {l} : loop'[k] = loop[k] /\ loop[k] # i
      <4>1. \A k \in Loop : loop[k] # i
        BY <2>2, TakenType
      <4> QED BY <2>1, <4>1 DEF HistoryTypeOK
    <3> QED BY <2>3, <3>1 DEF Inv, Apart
  <2> QED BY <1>3, <2>5, <2>6, <2>7 DEF Before, Complete
<1>5. CASE Untaken = {} /\ loop' = [loop EXCEPT ![l] = Done] /\ UNCHANGED taken
  <2>1. stage' \in {stage, "returned"}
    BY DEF Proceed
  <2>2. HistoryTypeOK'
    <3>1. loop' \in [Loop -> taken' \cup {NotStarted, Done, Threw}]
      BY <1>5 DEF HistoryTypeOK
    <3> QED BY <1>5, <2>1, <3>1 DEF HistoryTypeOK
  <2>3. Complete'
    <3> SUFFICES ASSUME stage' = "returned"
                 PROVE  Untaken' = {} /\ \A k \in Loop : loop'[k] = Done
      BY DEF Complete
    <3>1. Untaken' = {}
      BY <1>5 DEF Untaken
    <3>2. stage # "returned"
      BY DEF Inv, Complete, Done
    <3>3. AllDone
      BY <3>2 DEF Proceed
    <3> QED BY <3>1, <3>3 DEF AllDone
  <2>4. Apart'
    <3>1. loop'[l] = Done /\ \A k \in Loop \ {l} : loop'[k] = loop[k]
      BY <1>5 DEF HistoryTypeOK
    <3> QED BY <3>1 DEF Inv, Apart, Done
  <2> QED BY <1>3, <2>2, <2>3, <2>4 DEF Before
<1> QED BY <1>4, <1>5 DEF TakeNext

\* The payments that are taken stay taken, and all but the one that was answered or newly
\* taken are waited for as before.
LEMMA TakeNextKeeps ==
  ASSUME Inv, NEW l \in Loop, loop[l] > 0, TakeNext(l)
  PROVE  /\ taken \subseteq taken'
         /\ \A i \in taken' \ taken : WaitedFor(i)'
         /\ \A i \in taken \ {loop[l]} : WaitedFor(i) => WaitedFor(i)'
<1> HistoryTypeOK
  BY DEF Inv
<1>1. \A k \in Loop \ {l} : loop'[k] = loop[k]
  BY DEF TakeNext, HistoryTypeOK
<1>2. \A i \in taken' \ taken : loop'[l] = i
  BY DEF TakeNext, HistoryTypeOK
<1>3. taken \subseteq taken'
  BY DEF TakeNext
<1> QED BY <1>1, <1>2, <1>3 DEF WaitedFor

LEMMA DetailsArriveInv ==
  ASSUME Inv, NEW l \in Loop, DetailsArrive(l)
  PROVE  Inv'
<1> DEFINE i == loop[l]
<1> USE DEF DetailsArrive
<1> HistoryTypeOK /\ loop[l] > 0 /\ TakeNext(l) /\ Proceed
  BY DEF Inv
<1>1. i \in taken /\ i > 0
  BY TakenType
<1>2. ibans' = ibans \cup ({Said(i)} \ {NoIban})
  BY DEF Said
<1>3. ibans' \subseteq Iban
  BY <1>1, <1>2, SaidType DEF HistoryTypeOK
<1>4. HistoryTypeOK' /\ Before' /\ Complete' /\ Apart'
  BY <1>3, TakeNextInv DEF HistoryTypeOK
<1>5. \A j : Said(j)' = Said(j)
  BY DEF Said, getApprovedRecipientIban
<1>6. taken \subseteq taken'
  BY TakeNextKeeps
<1>7. Founded'
  BY <1>1, <1>2, <1>5, <1>6 DEF Inv, Founded
<1>8. Counted'
  <2> SUFFICES ASSUME stage' # "thrown", ~incomplete', NEW j \in taken'
               PROVE  WaitedFor(j)' \/ Said(j)' \in ibans' \cup {NoIban}
    BY DEF Counted
  <2> stage # "thrown"
    BY DEF Proceed
  <2>1. CASE j \notin taken
    BY <2>1, TakeNextKeeps
  <2>2. CASE j = i
    BY <2>2, <1>2, <1>5
  <2>3. CASE j \in taken \ {i}
    BY <2>3, <1>2, <1>5, TakeNextKeeps DEF Inv, Counted
  <2> QED BY <2>1, <2>2, <2>3
<1> QED BY <1>4, <1>7, <1>8 DEF Inv

LEMMA DetailsFailInv ==
  ASSUME Inv, NEW l \in Loop, DetailsFail(l)
  PROVE  Inv'
<1> USE DEF DetailsFail
<1> HistoryTypeOK /\ loop[l] > 0 /\ TakeNext(l) /\ Proceed
  BY DEF Inv
<1>1. HistoryTypeOK' /\ Before' /\ Complete' /\ Apart'
  BY TakeNextInv DEF HistoryTypeOK
<1>2. \A j : Said(j)' = Said(j)
  BY DEF Said, getApprovedRecipientIban
<1>3. taken \subseteq taken'
  BY TakeNextKeeps
<1>4. Founded'
  BY <1>2, <1>3 DEF Inv, Founded
<1>5. Counted'
  BY DEF Counted
<1> QED BY <1>1, <1>4, <1>5 DEF Inv

\* A throw, an abort or a stuttering step leaves what was found as it is.
LEMMA OthersInv ==
  ASSUME Inv,
         OverviewFails \/ Abort \/ (\E l \in Loop : AbortNoticed(l)) \/ UNCHANGED vars
  PROVE  Inv'
<1> HistoryTypeOK
  BY DEF Inv
<1>1. CASE OverviewFails
  BY <1>1 DEF OverviewFails, Inv, HistoryTypeOK, Before, Complete, Apart, Founded, Counted,
              Said, WaitedFor, Untaken
<1>2. CASE Abort \/ UNCHANGED vars
  BY <1>2 DEF Abort, vars, Inv, HistoryTypeOK, Before, Complete, Apart, Founded, Counted,
              Said, WaitedFor, Untaken
<1>3. ASSUME NEW l \in Loop, AbortNoticed(l) PROVE Inv'
  <2> USE <1>3 DEF AbortNoticed
  <2>1. loop'[l] = Threw /\ \A k \in Loop \ {l} : loop'[k] = loop[k]
    BY DEF HistoryTypeOK
  <2>2. HistoryTypeOK'
    <3>1. loop' \in [Loop -> taken' \cup {NotStarted, Done, Threw}]
      BY DEF HistoryTypeOK
    <3> QED BY <3>1 DEF HistoryTypeOK
  <2>3. Before' /\ Complete'
    BY DEF Before, Complete
  <2>4. Apart'
    BY <2>1 DEF Inv, Apart, Threw
  <2>5. Founded'
    BY DEF Inv, Founded, Said
  <2>6. Counted'
    BY DEF Counted
  <2> QED BY <2>2, <2>3, <2>4, <2>5, <2>6 DEF Inv
<1> QED BY <1>1, <1>2, <1>3

\* The initial states have the invariant and every step keeps it.
LEMMA NextInv ==
  ASSUME Inv, [Next]_vars
  PROVE  Inv'
<1>1. CASE OverviewArrives
  BY <1>1, ArrivesInv
<1>2. ASSUME NEW l \in Loop, DetailsArrive(l) PROVE Inv'
  BY <1>2, DetailsArriveInv
<1>3. ASSUME NEW l \in Loop, DetailsFail(l) PROVE Inv'
  BY <1>3, DetailsFailInv
<1>4. CASE OverviewFails \/ Abort \/ (\E l \in Loop : AbortNoticed(l)) \/ UNCHANGED vars
  BY <1>4, OthersInv
<1> QED BY <1>1, <1>2, <1>3, <1>4 DEF Next, Work

\* Always, the variables have their types, no payment is asked for twice, and what is
\* returned is the approved IBANs, all of them unless it says "incomplete": for every
\* number of loops and every order in which the details of getHistoricalRecipients arrive.
THEOREM HistoryCorrect == Spec => []HistoryInv
<1>1. Init => Inv
  BY InitInv
<1>2. Inv /\ [Next]_vars => Inv'
  BY NextInv
<1>3. Inv => HistoryInv
  BY InvGivesHistoryInv
<1> QED BY <1>1, <1>2, <1>3, PTL DEF Spec

-----------------------------------------------------------------------------
(* The refinement: the page's request ends once, and with what was promised *)

\* The payments and the details that the request reads do not change, so what is approved stays.
LEMMA ApprovedStays ==
  ASSUME UNCHANGED <<recent, details>>
  PROVE  ApprovedIbans' = ApprovedIbans
BY DEF ApprovedIbans

\* The request starts as it is promised: nothing is known and nothing returned.
LEMMA InitRefines == Init => Request!Init
<1> SUFFICES ASSUME Init PROVE Request!Init
  OBVIOUS
<1>1. ApprovedIbans \in SUBSET Iban
  BY DEF ApprovedIbans
<1>2. stage = "overview" /\ aborted = FALSE
  BY DEF Init
<1> QED BY <1>1, <1>2 DEF Request!Init

\* A step that ends the loops without an abort returns what HistoryRequest lets it return.
LEMMA ReturnRefines ==
  ASSUME HistoryInv', UNCHANGED <<recent, details, aborted>>, ~aborted,
         stage \in {"overview", "details"}, stage' = "returned"
  PROVE  Request!Return
<1>1. ApprovedIbans' = ApprovedIbans
  BY ApprovedStays
<1>2. ibans' \subseteq ApprovedIbans /\ (~incomplete' => ibans' = ApprovedIbans)
  BY <1>1 DEF HistoryInv, ResultIsComplete
<1>3. incomplete' \in BOOLEAN
  BY DEF HistoryInv, HistoryTypeOK
<1> QED BY <1>1, <1>2, <1>3 DEF Request!Return

\* The details of a payment end the request only with the last loop, and without an abort.
LEMMA DetailsRefine ==
  ASSUME Inv, HistoryInv', NEW l \in Loop, loop[l] > 0, ~aborted, Proceed,
         UNCHANGED <<recent, details, aborted>>
  PROVE  Request!Return \/ UNCHANGED Request!requestVars
<1>1. stage \in {"details", "thrown"}
  BY DEF Inv, HistoryTypeOK, Before, Complete, NotStarted, Done
<1>2. ApprovedIbans' = ApprovedIbans
  BY ApprovedStays
<1>3. CASE stage' = stage
  BY <1>1, <1>2, <1>3 DEF Request!requestVars
<1>4. CASE stage = "details" /\ stage' = "returned"
  BY <1>4, ReturnRefines
<1> QED BY <1>1, <1>3, <1>4 DEF Proceed

\* Every step of the loops is a step of the promised request or does not change it.
LEMMA StepRefines ==
  ASSUME Inv, HistoryInv', [Next]_vars
  PROVE  [Request!Next]_(Request!requestVars)
<1> USE DEF Request!Next
<1>1. CASE OverviewArrives
  <2>1. UNCHANGED <<recent, details, aborted>> /\ ~aborted /\ stage = "overview"
    BY <1>1 DEF OverviewArrives
  <2>2. CASE stage' = "returned"
    BY <2>1, <2>2, ReturnRefines
  <2>3. CASE stage' = "details"
    BY <2>1, <2>3, ApprovedStays DEF Request!requestVars
  <2> QED BY <1>1, <2>2, <2>3 DEF OverviewArrives
<1>2. CASE OverviewFails
  BY <1>2, ApprovedStays DEF OverviewFails, Request!Throw
<1>3. ASSUME NEW l \in Loop, DetailsArrive(l) \/ DetailsFail(l)
      PROVE  [Request!Next]_(Request!requestVars)
  <2>1. loop[l] > 0 /\ ~aborted /\ Proceed /\ UNCHANGED <<recent, details, aborted>>
    BY <1>3 DEF DetailsArrive, DetailsFail
  <2> QED BY <2>1, DetailsRefine
<1>4. ASSUME NEW l \in Loop, AbortNoticed(l)
      PROVE  [Request!Next]_(Request!requestVars)
  <2>1. /\ loop[l] > 0 /\ stage' = "thrown"
        /\ UNCHANGED <<recent, details, ibans, incomplete, aborted>>
    BY <1>4 DEF AbortNoticed
  <2>2. stage \in {"details", "thrown"}
    BY <2>1 DEF Inv, HistoryTypeOK, Before, Complete, NotStarted, Done
  <2>3. CASE stage = "details"
    BY <2>1, <2>3, ApprovedStays DEF Request!Throw
  <2>4. CASE stage = "thrown"
    BY <2>1, <2>4, ApprovedStays DEF Request!requestVars
  <2> QED BY <2>2, <2>3, <2>4
<1>5. CASE Abort
  BY <1>5, ApprovedStays DEF Abort, Request!Abort
<1>6. CASE UNCHANGED vars
  BY <1>6, ApprovedStays DEF vars, Request!requestVars
<1> QED BY <1>1, <1>2, <1>3, <1>4, <1>5, <1>6 DEF Next, Work

\* getHistoricalRecipients keeps HistoryRequest's promise: it ends once, and not after an
\* abort with a result, and it returns only approved IBANs, all of them unless it says
\* "incomplete".
THEOREM HistoryKeepsPromise == Spec => HistoryPromise
<1>1. Init => Inv /\ Request!Init
  BY InitInv, InitRefines
<1>2. Inv /\ [Next]_vars => Inv'
  BY NextInv
<1>3. Spec => []HistoryInv
  BY HistoryCorrect
<1>4. Inv /\ HistoryInv' /\ [Next]_vars => [Request!Next]_(Request!requestVars)
  BY StepRefines
<1> QED BY <1>1, <1>2, <1>3, <1>4, PTL DEF Spec, HistoryPromise, Request!Spec
=============================================================================
