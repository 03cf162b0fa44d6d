---------------------------- MODULE HistoryRequest ----------------------------
(***************************************************************************)
(* What getHistoricalRecipients promises to the payment page: it ends once *)
(* with a set of IBANs of approved payments, with all of them unless it    *)
(* says "incomplete", and never with a set after it was aborted.           *)
(***************************************************************************)
CONSTANT Iban

VARIABLES approved, outcome, result, incomplete, aborted
requestVars == <<approved, outcome, result, incomplete, aborted>>

Init ==
  /\ approved \in SUBSET Iban
  /\ outcome = "waiting" /\ result = {} /\ incomplete = FALSE /\ aborted = FALSE

Return ==
  /\ outcome = "waiting" /\ ~aborted /\ outcome' = "returned"
  /\ incomplete' \in BOOLEAN
  /\ result' \in IF incomplete' THEN SUBSET approved ELSE {approved}
  /\ UNCHANGED <<approved, aborted>>

Throw ==
  /\ outcome = "waiting" /\ outcome' = "thrown"
  /\ UNCHANGED <<approved, result, incomplete, aborted>>

Abort ==
  /\ ~aborted /\ aborted' = TRUE
  /\ UNCHANGED <<approved, outcome, result, incomplete>>

Next == Return \/ Throw \/ Abort
Spec == Init /\ [][Next]_requestVars
=============================================================================
