---------------------------- MODULE PaymentSystem ----------------------------
(***************************************************************************)
(* Payments and decisions together: the payments that PaymentCreation      *)
(* stores are the ones ApprovalDecision decides, and both compete for the  *)
(* tenant lock, the account row and the end of the audit chain.            *)
(***************************************************************************)
EXTENDS PaymentCreation, ApprovalDecision

systemVars == <<storeVars, draft, verdict>>

SystemInit ==
  /\ StoreInit
  /\ draft = [r \in CreateRequests |-> EmptyDraft]
  /\ verdict = [r \in DecideRequests |-> EmptyVerdict]

SystemNext ==
  \/ \E r \in CreateRequests :
       /\ CreatePayment(r) \/ RefuseMalformed(r) \/ CreationStep(r)
       /\ UNCHANGED verdict
  \/ \E r \in DecideRequests :
       /\ Decide(r) \/ DecisionStep(r)
       /\ UNCHANGED draft
  \/ \E i \in Instances : Restart(i) /\ UNCHANGED <<draft, verdict>>

SystemSpec == SystemInit /\ [][SystemNext]_systemVars

FairSystemSpec ==
  /\ SystemSpec
  /\ \A r \in CreateRequests : WF_systemVars(CreationStep(r) /\ UNCHANGED verdict)
  /\ \A r \in DecideRequests : WF_systemVars(DecisionStep(r) /\ UNCHANGED draft)

-----------------------------------------------------------------------------
(* The ledger this state stands for: the committed rows only.              *)

ApproversOf(p) ==
  {payment[p].steps[i].decidedBy : i \in StepsWith(payment[p].steps, "approved")}

LedgerRow(p) ==
  IF p \in Stored
  THEN [creator |-> payment[p].creator, account |-> payment[p].account,
        amount |-> payment[p].amount, key |-> payment[p].key,
        status |-> payment[p].status, approvers |-> ApproversOf(p)]
  ELSE NoPayment

TrailEntry(e) == [id |-> e.id, tenant |-> e.tenant, action |-> e.action, payment |-> e.payment]

Ledger == INSTANCE PaymentLedger WITH
            Keyless <- NoKey, Unknown <- Nobody,
            ledger <- [p \in PaymentIds |-> LedgerRow(p)],
            trail <- {TrailEntry(e) : e \in audit}

\* The types of both handlers' variables.
SystemTypeOK == CreationTypeOK /\ DecisionTypeOK

\* Every behaviour of the handlers, on the committed rows, is a behaviour of the ledger:
\* each payment appears, is approved, completed or rejected in one step, with its debit
\* and its entry, however the requests interleave, fail or are cut off.
ImplementsLedger == Ledger!LedgerSpec

\* No request is left without an answer when creations and decisions share the lock.
EveryRequestAnswered == \A r \in Requests : InFlight(r) ~> pc[r] = "done"
=============================================================================
