--------------------------- MODULE RecipientPicker ---------------------------
(***************************************************************************)
(* The recipients on the payment page: the saved ones and those of earlier *)
(* approved payments are loaded side by side and refreshed, one of them is *)
(* chosen or an IBAN is typed, and NewRecipientDialog saves a new one over *)
(* a network that loses or delays requests, while colleagues save theirs.  *)
(* A tenant has one recipient per IBAN, so a recipient is its IBAN here.   *)
(***************************************************************************)
EXTENDS Integers, Sequences

CONSTANTS
  Ibans,                  \* well-formed, normalised IBANs
  Role, DemoAllowed,      \* the stored role; the server's demoConfirmationEnabled
  MaxRequests             \* bound: loads of the lists and confirmed saves together

NoIban  == "no iban"      \* an empty field
BadIban == "bad iban"     \* a text that is no IBAN
Texts   == Ibans \cup {NoIban, BadIban}
None    == "none"

PickerAssumption ==
  /\ {NoIban, BadIban, None} \cap Ibans = {}
  /\ DemoAllowed \in BOOLEAN /\ MaxRequests \in Nat \ {0}

VARIABLES
  \* NewPayment
  recipients, historicalIbans,              \* what is listed
  isLoadingRecipients, isLoadingHistory, recipientLoadError, historyLoadError,
  demoConfirmationEnabled, version,         \* recipientRequestVersion
  toIban, selectedRecipientId,              \* the field; whether a recipient was chosen for it
  recipientSaveMessage,                     \* the recipient it names
  isRecipientDialogOpen,
  \* NewRecipientDialog
  step, iban, requestInFlight, error,       \* the awaited save, 0 for none; an HTTP status
  \* requests: the list's, the history's by version, and the saves
  list, history, saves,
  \* the server, and what it had when the lists were last asked for
  saved, approved, savedAtRefresh, approvedAtRefresh

listVars   == <<recipients, historicalIbans, isLoadingRecipients, isLoadingHistory,
                recipientLoadError, historyLoadError, demoConfirmationEnabled, version>>
choiceVars == <<toIban, selectedRecipientId, recipientSaveMessage>>
dialogVars == <<isRecipientDialogOpen, step, iban, requestInFlight, error>>
serverVars == <<saved, approved, savedAtRefresh, approvedAtRefresh>>
pickerVars == <<listVars, choiceVars, dialogVars, list, history, saves, serverVars>>

Idle   == [phase |-> "idle"]
Flying == [phase |-> "flying"]

-----------------------------------------------------------------------------
(* Choosing                                                                *)

\* One option for each IBAN; a saved recipient comes before a historical one.
Options == recipients \cup historicalIbans
selectedRecipient == selectedRecipientId /\ toIban \in Options
SavedOption(i) == i \in recipients

canAddRecipients == Role \in {"initiator", "admin"}
DialogShown == isRecipientDialogOpen /\ canAddRecipients /\ demoConfirmationEnabled

Choose(i) == selectedRecipientId' = TRUE /\ toIban' = i

\* The list of recipients: one of them, or "enter the IBAN by hand".
selectRecipient(i) ==
  /\ ~DialogShown /\ ~isLoadingRecipients /\ i \in Options
  /\ Choose(i) /\ recipientSaveMessage' = None
  /\ UNCHANGED <<listVars, dialogVars, list, history, saves, serverVars>>

EnterManually ==
  /\ ~DialogShown /\ ~isLoadingRecipients /\ Options # {}
  /\ selectedRecipientId' = FALSE /\ recipientSaveMessage' = None
  /\ UNCHANGED <<toIban, listVars, dialogVars, list, history, saves, serverVars>>

\* handleInputChange: the field can be edited while no recipient is shown in it.
TypeIban(t) ==
  /\ ~DialogShown /\ ~selectedRecipient
  /\ toIban' = t /\ selectedRecipientId' = FALSE /\ recipientSaveMessage' = None
  /\ UNCHANGED <<listVars, dialogVars, list, history, saves, serverVars>>

-----------------------------------------------------------------------------
(* Loading the two lists                                                   *)

\* "Uppdatera mottagare": a new version of both requests; those of the old one are aborted.
refreshRecipients ==
  /\ ~DialogShown /\ ~isLoadingRecipients /\ version + Len(saves) < MaxRequests
  /\ isLoadingRecipients' = TRUE /\ isLoadingHistory' = TRUE
  /\ demoConfirmationEnabled' = FALSE
  /\ recipientLoadError' = FALSE /\ historyLoadError' = FALSE
  /\ historicalIbans' = {} /\ version' = version + 1
  /\ list' = Flying /\ history' = [history EXCEPT ![version'] = Flying]
  /\ savedAtRefresh' = saved /\ approvedAtRefresh' = approved
  /\ UNCHANGED <<recipients, choiceVars, dialogVars, saves, saved, approved>>

ServerLists ==
  /\ list = Flying
  /\ list' = [phase |-> "answered", ibans |-> saved]
  /\ UNCHANGED <<listVars, choiceVars, dialogVars, history, saves, serverVars>>

ListArrives ==
  /\ list.phase = "answered"
  /\ recipients' = list.ibans /\ demoConfirmationEnabled' = DemoAllowed
  /\ isLoadingRecipients' = FALSE /\ list' = Idle
  /\ UNCHANGED <<historicalIbans, isLoadingHistory, recipientLoadError, historyLoadError, version>>
  /\ UNCHANGED <<choiceVars, dialogVars, history, saves, serverVars>>

\* Refused, unreadable, incomplete or never answered.
ListFails ==
  /\ list # Idle
  /\ demoConfirmationEnabled' = FALSE /\ recipientLoadError' = TRUE
  /\ isLoadingRecipients' = FALSE /\ list' = Idle
  /\ UNCHANGED <<recipients, historicalIbans, isLoadingHistory, historyLoadError, version>>
  /\ UNCHANGED <<choiceVars, dialogVars, history, saves, serverVars>>

\* getHistoricalRecipients gets all of the IBANs, or without some whose details failed.
ServerTellsHistory(v) ==
  /\ history[v] = Flying
  /\ \E known \in SUBSET approved, incomplete \in BOOLEAN :
       /\ ~incomplete => known = approved
       /\ history' = [history EXCEPT ![v] = [phase |-> "answered", ibans |-> known,
                                              incomplete |-> incomplete]]
  /\ UNCHANGED <<listVars, choiceVars, dialogVars, list, saves, serverVars>>

\* Mutant: the answer to an aborted request is used as well.
NeverAborted(v) == v > 0

\* The request of version v belongs to the present version of the lists.
NotAborted(v) == v = version

HistoryArrives(v) ==
  /\ history[v].phase = "answered"
  /\ history' = [history EXCEPT ![v] = Idle]
  /\ \/ /\ NotAborted(v)
        /\ historicalIbans' = history[v].ibans
        /\ historyLoadError' = (historyLoadError \/ history[v].incomplete)
        /\ isLoadingHistory' = FALSE
     \/ ~NotAborted(v) /\ UNCHANGED <<historicalIbans, historyLoadError, isLoadingHistory>>
  /\ UNCHANGED <<recipients, isLoadingRecipients, recipientLoadError>>
  /\ UNCHANGED <<demoConfirmationEnabled, version>>
  /\ UNCHANGED <<choiceVars, dialogVars, list, saves, serverVars>>

HistoryFails(v) ==
  /\ history[v] # Idle
  /\ history' = [history EXCEPT ![v] = Idle]
  /\ historyLoadError' = (historyLoadError \/ NotAborted(v))
  /\ isLoadingHistory' = (isLoadingHistory /\ ~NotAborted(v))
  /\ UNCHANGED <<recipients, historicalIbans, isLoadingRecipients, recipientLoadError>>
  /\ UNCHANGED <<demoConfirmationEnabled, version>>
  /\ UNCHANGED <<choiceVars, dialogVars, list, saves, serverVars>>

-----------------------------------------------------------------------------
(* The dialog                                                              *)

Fresh == step' = "details" /\ iban' = NoIban /\ error' = 0

\* The dialog goes, and its state with it.
Unmount == isRecipientDialogOpen' = FALSE /\ Fresh

OpenDialog ==
  /\ ~DialogShown /\ canAddRecipients /\ ~isLoadingRecipients /\ demoConfirmationEnabled
  /\ recipientSaveMessage' = None /\ isRecipientDialogOpen' = TRUE
  /\ Fresh
  /\ UNCHANGED <<requestInFlight, toIban, selectedRecipientId>>
  /\ UNCHANGED <<listVars, list, history, saves, serverVars>>

TypeDetails(t) ==
  /\ DialogShown /\ step = "details"
  /\ iban' = t /\ error' = 0
  /\ UNCHANGED <<isRecipientDialogOpen, step, requestInFlight>>
  /\ UNCHANGED <<listVars, choiceVars, list, history, saves, serverVars>>

\* "Nästa": the details are checked; the field itself may not be empty.
continueToConfirmation ==
  /\ DialogShown /\ step = "details" /\ iban # NoIban
  /\ \/ iban = BadIban /\ error' = 400 /\ UNCHANGED step
     \/ iban # BadIban /\ error' = 0 /\ step' = "confirmation"
  /\ UNCHANGED <<isRecipientDialogOpen, iban, requestInFlight>>
  /\ UNCHANGED <<listVars, choiceVars, list, history, saves, serverVars>>

BackToDetails ==
  /\ DialogShown /\ step = "confirmation" /\ requestInFlight = 0
  /\ step' = "details" /\ error' = 0
  /\ UNCHANGED <<isRecipientDialogOpen, iban, requestInFlight>>
  /\ UNCHANGED <<listVars, choiceVars, list, history, saves, serverVars>>

\* confirmDemo: one save at a time, none after a 401.
confirmDemo ==
  /\ DialogShown /\ step = "confirmation" /\ requestInFlight = 0 /\ error # 401
  /\ version + Len(saves) < MaxRequests
  /\ saves' = Append(saves, [iban |-> iban, phase |-> "flying", code |-> 0, told |-> "nothing"])
  /\ requestInFlight' = Len(saves') /\ error' = 0
  /\ UNCHANGED <<isRecipientDialogOpen, step, iban>>
  /\ UNCHANGED <<listVars, choiceVars, list, history, serverVars>>

\* Mutant: the dialog can be closed while the save is on its way.
closeAnyTime ==
  /\ DialogShown
  /\ Unmount /\ requestInFlight' = 0
  /\ UNCHANGED <<listVars, choiceVars, list, history, saves, serverVars>>

\* "Avbryt", the close button and Escape.
closeDialog ==
  /\ DialogShown /\ requestInFlight = 0
  /\ Unmount /\ UNCHANGED requestInFlight
  /\ UNCHANGED <<listVars, choiceVars, list, history, saves, serverVars>>

\* The new recipient is listed and chosen, and the dialog closes.
handleRecipientSaved(i) ==
  /\ recipients' = recipients \cup {i}
  /\ Choose(i) /\ recipientSaveMessage' = i
  /\ Unmount

\* The answer of POST /api/recipients, or of the token before it (status 0).
InFlight(n, phases) == n \in DOMAIN saves /\ saves[n].phase \in phases

ServerSaves(n) ==
  /\ InFlight(n, {"flying"})
  /\ \E code \in {201, 401, 409, 500} :
       /\ code = 409 <=> saves[n].iban \in saved
       /\ saves' = [saves EXCEPT ![n].phase = "answered", ![n].code = code]
       /\ saved' \in IF code \in {201, 409} THEN {saved \cup {saves[n].iban}}
                     ELSE IF code = 500 THEN {saved, saved \cup {saves[n].iban}} ELSE {saved}
  /\ UNCHANGED <<approved, savedAtRefresh, approvedAtRefresh>>
  /\ UNCHANGED <<listVars, choiceVars, dialogVars, list, history>>

\* createRecipient returns the recipient to the dialog that waits for it.
SaveSucceeds(n) ==
  /\ InFlight(n, {"answered"}) /\ saves[n].code = 201 /\ requestInFlight = n
  /\ requestInFlight' = 0
  /\ handleRecipientSaved(saves[n].iban)
  /\ saves' = [saves EXCEPT ![n].phase = "over", ![n].told = "saved"]
  /\ UNCHANGED <<historicalIbans, isLoadingRecipients, isLoadingHistory, recipientLoadError,
                 historyLoadError, demoConfirmationEnabled, version>>
  /\ UNCHANGED <<list, history, serverVars>>

\* createRecipient throws: no token or no answer (0), a refusal, or a 201 whose body cannot
\* be read.  A request that got no answer may still be on its way.
SaveFails(n) ==
  /\ requestInFlight = n /\ n # 0
  /\ \/ saves[n].phase = "answered" /\ error' = saves[n].code
        /\ saves' = [saves EXCEPT ![n].phase = "over", ![n].told = "error"]
     \/ error' = 0 /\ \E p \in {saves[n].phase, "over"} :
          saves' = [saves EXCEPT ![n].phase = p, ![n].told = "error"]
  /\ requestInFlight' = 0
  /\ UNCHANGED <<isRecipientDialogOpen, step, iban>>
  /\ UNCHANGED <<listVars, choiceVars, list, history, serverVars>>

-----------------------------------------------------------------------------
(* Everybody else                                                          *)

ColleagueSaves(i) ==
  /\ i \notin saved /\ saved' = saved \cup {i}
  /\ UNCHANGED <<approved, savedAtRefresh, approvedAtRefresh>>
  /\ UNCHANGED <<listVars, choiceVars, dialogVars, list, history, saves>>

PaymentApproved(i) ==
  /\ i \notin approved /\ approved' = approved \cup {i}
  /\ UNCHANGED <<saved, savedAtRefresh, approvedAtRefresh>>
  /\ UNCHANGED <<listVars, choiceVars, dialogVars, list, history, saves>>

-----------------------------------------------------------------------------
Versions == 1..MaxRequests

Init ==
  /\ recipients = {} /\ historicalIbans = {}
  /\ isLoadingRecipients = TRUE /\ isLoadingHistory = TRUE
  /\ recipientLoadError = FALSE /\ historyLoadError = FALSE
  /\ demoConfirmationEnabled = FALSE /\ version = 1
  /\ toIban = NoIban /\ selectedRecipientId = FALSE /\ recipientSaveMessage = None
  /\ isRecipientDialogOpen = FALSE /\ step = "details" /\ iban = NoIban
  /\ requestInFlight = 0 /\ error = 0
  /\ list = Flying /\ history = [v \in Versions |-> IF v = 1 THEN Flying ELSE Idle]
  /\ saves = << >>
  /\ saved = {} /\ approved \in SUBSET Ibans
  /\ savedAtRefresh = saved /\ approvedAtRefresh = approved

User ==
  \/ \E i \in Ibans : selectRecipient(i)
  \/ \E t \in Ibans \cup {NoIban} : TypeIban(t)
  \/ \E t \in Texts : TypeDetails(t)
  \/ EnterManually \/ refreshRecipients
  \/ OpenDialog \/ continueToConfirmation \/ BackToDetails \/ confirmDemo \/ closeDialog

Loading ==
  \/ ServerLists \/ ListArrives \/ ListFails
  \/ \E v \in Versions : ServerTellsHistory(v) \/ HistoryArrives(v) \/ HistoryFails(v)

Saving == \E n \in 1..MaxRequests : ServerSaves(n) \/ SaveSucceeds(n) \/ SaveFails(n)

Next == User \/ Loading \/ Saving \/ \E i \in Ibans : ColleagueSaves(i) \/ PaymentApproved(i)

Spec == Init /\ [][Next]_pickerVars

\* A request that is waited for is answered or fails.
FairSpec == Spec /\ WF_pickerVars(Loading) /\ WF_pickerVars(Saving)

-----------------------------------------------------------------------------
\* The page, its requests and the server keep their types.
PickerTypeOK ==
  /\ {recipients, historicalIbans, saved, approved, savedAtRefresh, approvedAtRefresh}
       \subseteq SUBSET Ibans
  /\ {isLoadingRecipients, isLoadingHistory, recipientLoadError, historyLoadError,
      demoConfirmationEnabled, selectedRecipientId, isRecipientDialogOpen} \subseteq BOOLEAN
  /\ version \in Versions /\ toIban \in Texts /\ recipientSaveMessage \in Ibans \cup {None}
  /\ step \in {"details", "confirmation"} /\ iban \in Texts
  /\ requestInFlight \in 0..Len(saves) /\ error \in {0, 201, 400, 401, 409, 500}

\* What is listed after a refresh is at least what the server had when it was asked for,
\* although a slow answer to an earlier version may come after it (the abort signals).
ListsAreFresh ==
  /\ ~isLoadingRecipients /\ ~recipientLoadError => savedAtRefresh \subseteq recipients
  /\ ~isLoadingHistory /\ ~historyLoadError => approvedAtRefresh \subseteq historicalIbans

\* "... har sparats och valts som mottagare": as long as it is shown, the recipient is saved,
\* listed as saved, and chosen in the form, through refreshes and failed loads.
SaveMessageTruthful ==
  recipientSaveMessage # None =>
    /\ recipientSaveMessage \in saved
    /\ selectedRecipient /\ toIban = recipientSaveMessage /\ SavedOption(toIban)

\* A confirmed save ends with the new recipient or with an error in the dialog before the
\* dialog can be closed: it is never dropped without a word (closeDialog and mounted).
SavesAreReported ==
  ~DialogShown => \A n \in DOMAIN saves : saves[n].told # "nothing"

\* The hint that there are no saved recipients yet.
EmptyHint == ~recipientLoadError /\ ~isLoadingRecipients /\ ~isLoadingHistory /\ Options = {}

\* It is shown only if the company had none when the lists were asked for.
EmptyHintTruthful == EmptyHint => savedAtRefresh = {} /\ (~historyLoadError => approvedAtRefresh = {})

\* The two lists and the hint about them are never older than the last refresh, whichever of
\* the loads failed, was overtaken or came last (the two effects of NewPayment).
ListsTruthful == PickerTypeOK /\ ListsAreFresh /\ EmptyHintTruthful

\* Every save is told to the user as what it was, and what is told stays true: through retries
\* after lost answers, refreshes and choices (NewRecipientDialog and handleRecipientSaved).
SavesTruthful == SavesAreReported /\ SaveMessageTruthful

=============================================================================
