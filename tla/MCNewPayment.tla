---------------------------- MODULE MCNewPayment ----------------------------
(***************************************************************************)
(* The payment page in three parts, of which a behaviour shows one: the    *)
(* form and its requests, the choice of a recipient, and the request for   *)
(* the recipients of earlier payments.  They share no state but the IBAN   *)
(* field, so the parts that rest keep their initial values.                *)
(*                                                                         *)
(* Form: two requests of two visits, one IBAN typed in two ways, another   *)
(* one and white space.  Recipients: one, two loads and a save of it or    *)
(* one load and two saves.  History: three payments in lists with a        *)
(* repetition, an open payment and one beyond the limit.                   *)
(***************************************************************************)
EXTENDS HistoricalRecipients, TLC

CONSTANTS
  Accounts, IbanTexts, AmountTexts, IbanOf, AmountOf, MaxKeys, MaxCalls, MaxPages,
  Ibans, DemoAllowed, MaxRequests,
  Role,                      \* the role of the user, in both
  p1, p2, p3, x, y

VARIABLES
  part,                      \* "form" | "recipients" | "history"
  form, awaited, attempt, submitError, createdPayment, confirmationOpen,
  page, calls, lastKey, stored, confirmed,
  recipients, historicalIbans, isLoadingRecipients, isLoadingHistory,
  recipientLoadError, historyLoadError, demoConfirmationEnabled, version,
  toIban, selectedRecipientId, recipientSaveMessage, isRecipientDialogOpen,
  step, iban, requestInFlight, error, list, history, saves,
  saved, approved, savedAtRefresh, approvedAtRefresh

Form   == INSTANCE PaymentForm
Picker == INSTANCE RecipientPicker

ASSUME FormParameters   == Form!FormAssumption
ASSUME PickerParameters == Picker!PickerAssumption

MCIbanOf == "" :> "no iban" @@ " " :> "no iban" @@ "SE1" :> "SE1" @@ "SE2" :> "SE2"
MCAmountOf == "" :> "no amount" @@ "10" :> "10.00"

completed(p) == [id |-> p, status |-> "completed"]
MCRecentLists == {
  << >>, <<completed(p1)>>, <<completed(p1), completed(p1), completed(p2)>>,
  <<completed(p1), completed(p2), completed(p3), completed(p1)>>,
  <<[id |-> p1, status |-> "pending_approval"], completed(p2), completed(p1), completed(p3),
    completed(p3)>>,
  <<completed(p1), [id |-> p2, status |-> "rejected"], completed(p3), completed(p2)>> }

detail(s, t, i) == [status |-> s, timeline |-> t, toIban |-> i]
NoDetail == detail("completed", {}, x)
MCDetails == {
  detail("completed", {"approved by hand"}, x), detail("completed", {"approved by hand"}, y),
  detail("completed", {"approved by hand", "approved by the system"}, x),
  detail("completed", {"approved by the system"}, y), NoDetail,
  detail("completed", {"approved by hand", "not approved"}, y),
  detail("completed", {"approved by hand"}, NoIban),
  detail("pending_approval", {"approved by hand", "not approved"}, x),
  detail("rejected", {"approved by hand", "not approved"}, y) }

formVars   == <<form, awaited, attempt, submitError, createdPayment, confirmationOpen,
                page, calls, lastKey, stored, confirmed>>
pickerVars == <<recipients, historicalIbans, isLoadingRecipients, isLoadingHistory,
                recipientLoadError, historyLoadError, demoConfirmationEnabled, version,
                toIban, selectedRecipientId, recipientSaveMessage, isRecipientDialogOpen,
                step, iban, requestInFlight, error, list, history, saves,
                saved, approved, savedAtRefresh, approvedAtRefresh>>
pageVars   == <<part, formVars, pickerVars, vars>>

\* The parts that rest start from one state each.
PageInit ==
  /\ Form!Init /\ Picker!Init /\ Init
  /\ part \in {"form", "recipients", "history"}
  /\ part # "recipients" => approved = {}
  /\ part # "history" => recent = << >> /\ details = [i \in Id |-> NoDetail]

InForm    == part = "form" /\ UNCHANGED <<part, pickerVars, vars>>
InPicker  == part = "recipients" /\ UNCHANGED <<part, formVars, vars>>
InHistory == part = "history" /\ UNCHANGED <<part, formVars, pickerVars>>

PageNext ==
  \/ InForm /\ Form!Next
  \/ InPicker /\ Picker!Next
  \/ InHistory /\ Next

\* Every request that is waited for is answered or fails.  Only one part moves, so that one
\* condition states the fairness of all three.
Answers ==
  \/ InForm /\ Form!Settle
  \/ InPicker /\ Picker!Loading
  \/ InHistory /\ Work
Failures ==
  \/ InForm /\ Form!ConnectionLost
  \/ InPicker /\ Picker!Saving
PageSpec == PageInit /\ [][PageNext]_pageVars /\ WF_pageVars(Answers) /\ WF_pageVars(Failures)

-----------------------------------------------------------------------------
\* PaymentForm: one key for one payment, whatever is edited, retried or lost.
KeyDiscipline == part = "form" => Form!KeyDiscipline

\* PaymentForm: what is confirmed is what was sent and stored.
ConfirmationMatches == part = "form" => Form!ConfirmationMatches

\* RecipientPicker: the lists and the hint are as of the last refresh.
ListsTruthful == part = "recipients" => Picker!ListsTruthful

\* RecipientPicker: each save is reported, and the message about it stays true.
SavesTruthful == part = "recipients" => Picker!SavesTruthful

\* What the user waits for: a submission, the saved recipients, the search through the history.
Waiting ==
  \/ part = "form" /\ Form!isSubmitting
  \/ part = "recipients" /\ isLoadingRecipients
  \/ part = "history" /\ stage \in {"overview", "details"}
WaitingForHistory == part = "recipients" /\ isLoadingHistory

\* None of them lasts: the form can be submitted again, and both lists are shown or said to
\* have failed (the finally of handleSubmit and of the two effects, Promise.all).
PageSettles == []<>~Waiting /\ []<>~WaitingForHistory
=============================================================================
