---------------------------- MODULE PaymentLedger ----------------------------
(***************************************************************************)
(* What the portal promises about money, with requests, locks, snapshots   *)
(* and transactions left out: payments are created, approved, completed    *)
(* and rejected in single steps, each with its entry in the audit trail.   *)
(* PaymentSystem is shown to implement it.                                 *)
(***************************************************************************)
EXTENDS Integers, FiniteSets

CONSTANTS PaymentIds, Accounts, AccountTenant, Keyless, Unknown,
          ApprovalThreshold, DoubleApprovalThreshold

VARIABLES
  balance,   \* account -> balance
  ledger,    \* payment -> its creator, account, amount, key, status and approvers,
             \* with status "none" while it does not exist
  trail      \* the audit trail: entries with increasing ids per tenant

ledgerVars == <<balance, ledger, trail>>

Exists(p) == ledger[p].status # "none"
Double(amount) == amount > DoubleApprovalThreshold
NeedsApproval(amount) == amount > ApprovalThreshold \/ Double(amount)
Pending(p) == Exists(p) /\ ledger[p].status = "pending_approval"

\* One new entry goes to the end of a tenant's trail.
Record(action, tenant, p) ==
  \E e \in trail' :
    /\ e \notin trail /\ trail' = trail \cup {e}
    /\ e.action = action /\ e.tenant = tenant /\ e.payment = p
    /\ \A f \in trail : f.tenant = tenant => f.id < e.id

Debit(a, amount) ==
  /\ balance[a] >= amount
  /\ balance' = [balance EXCEPT ![a] = @ - amount]

\* A creator gets at most one payment per key; it is completed at once unless it needs
\* an approval.
Create(p) ==
  LET x == ledger'[p]
  IN  /\ ~Exists(p) /\ x.status # "none"
      /\ x.account \in Accounts
      /\ ledger' = [ledger EXCEPT ![p] = x]
      /\ x.key # Keyless =>
           \A q \in PaymentIds : Exists(q) =>
             ~(ledger[q].creator = x.creator /\ ledger[q].key = x.key)
      /\ x.approvers = {}
      /\ IF NeedsApproval(x.amount)
         THEN x.status = "pending_approval" /\ UNCHANGED balance
         ELSE x.status = "completed" /\ Debit(x.account, x.amount)
      /\ Record("CREATE_PAYMENT", AccountTenant[x.account], p)

\* Nobody approves a double approval twice.
MayApprove(u, p) == Double(ledger[p].amount) => u \notin ledger[p].approvers

\* One of several approvals.
Approve(p) ==
  Pending(p) /\ \E u \in ledger'[p].approvers :
    /\ MayApprove(u, p)
    /\ ledger' = [ledger EXCEPT ![p].approvers = @ \cup {u}]
    /\ Record("APPROVE_PAYMENT_STEP", AccountTenant[ledger[p].account], p)
    /\ UNCHANGED balance

\* The last approval moves the money.
Complete(p) ==
  Pending(p) /\ \E u \in ledger'[p].approvers :
    /\ MayApprove(u, p)
    /\ Double(ledger[p].amount) =>
         Cardinality((ledger[p].approvers \cup {u}) \ {Unknown}) >= 2
    /\ ledger' = [ledger EXCEPT ![p].approvers = @ \cup {u}, ![p].status = "completed"]
    /\ Debit(ledger[p].account, ledger[p].amount)
    /\ Record("APPROVE_PAYMENT", AccountTenant[ledger[p].account], p)

Reject(p) ==
  /\ Pending(p)
  /\ ledger' = [ledger EXCEPT ![p].status = "rejected"]
  /\ Record("REJECT_PAYMENT", AccountTenant[ledger[p].account], p)
  /\ UNCHANGED balance

\* A refused IBAN is recorded and changes nothing else.
RecordInvalidIban ==
  /\ \E e \in trail' : Record("VALIDATE_IBAN", e.tenant, e.payment)
  /\ UNCHANGED <<balance, ledger>>

LedgerInit ==
  /\ \A a \in Accounts : balance[a] >= 0
  /\ \A p \in PaymentIds : ledger[p].status \in {"none", "pending_approval"}

LedgerNext ==
  \/ \E p \in PaymentIds : Create(p) \/ Approve(p) \/ Complete(p) \/ Reject(p)
  \/ RecordInvalidIban

LedgerSpec == LedgerInit /\ [][LedgerNext]_ledgerVars
=============================================================================
