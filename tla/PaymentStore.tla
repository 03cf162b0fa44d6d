---------------------------- MODULE PaymentStore ----------------------------
(***************************************************************************)
(* What the operations of SebPortal.Api share: the PostgreSQL rows they    *)
(* read and write, the per-tenant lock of AuditLockProvider, the audit     *)
(* chain of AuditService, and the progress of every HTTP request.          *)
(*                                                                         *)
(* A request is a process.  Its pc names the next database call or lock    *)
(* operation of the handler; everything between two of them is one step.   *)
(* PaymentCreation and ApprovalDecision add the handlers.                  *)
(***************************************************************************)
EXTENDS Integers, Sequences, FiniteSets, FiniteSetsExt

CONSTANTS
  Tenants, Accounts, Keys,   \* rows and idempotency keys
  Users,                     \* user ids (positive, as PostgreSQL serials are)
  Amounts,                   \* payment amounts, in the smallest unit
  Instances,                 \* processes that run the API
  CreateRequests,            \* POST /api/payments requests
  DecideRequests,            \* POST /api/approvals/{id} requests
  UserTenant, UserRole, AccountTenant, OpeningBalance,
  ApprovalThreshold, DoubleApprovalThreshold,   \* PaymentRulesOptions
  Legacy,                    \* pending payments already stored at the start
  SeedAudit                  \* the audit rows stored at the start

Nobody == 0                  \* a null user id
NoKey  == "no key"           \* a null idempotency key
NoPayment == [status |-> "none"]
Free   == "free"             \* a semaphore nobody holds

Roles == {"initiator", "attestant", "admin"}
CreatorRoles  == {"initiator", "admin"}
ApproverRoles == {"attestant", "admin"}

LegacyPayments == DOMAIN Legacy
PaymentIds == CreateRequests \cup LegacyPayments
Requests   == CreateRequests \cup DecideRequests

Step == [attestant : Users \cup {Nobody},
         status    : {"pending", "approved", "rejected"},
         decidedBy : Users \cup {Nobody},
         source    : {"none", "manual", "payment_rejected"}]

Payment == [creator : Users \cup {Nobody}, account : Accounts, amount : Amounts,
            key     : Keys \cup {NoKey},
            status  : {"pending_approval", "completed", "rejected"},
            steps   : Seq(Step)]

AuditActions == {"CREATE_PAYMENT", "VALIDATE_IBAN", "APPROVE_PAYMENT_STEP",
                 "APPROVE_PAYMENT", "REJECT_PAYMENT"}
NoEntity == "no entity"      \* a null entity_id

\* An audit row.  The signature is the row's own identity, so previous_signature
\* is the id of the row that was read as the latest one, 0 for GENESIS.
AuditEntry == [id : Nat \ {0}, prev : Nat, tenant : Tenants, user : Users \cup {Nobody},
               action : AuditActions, payment : PaymentIds \cup {NoEntity}]

\* e is linked to the row of its tenant that precedes it in id order.
LinkedIn(e, log) ==
  /\ e.prev < e.id
  /\ e.prev # 0 => \E f \in log : f.tenant = e.tenant /\ f.id = e.prev
  /\ \A f \in log : f.tenant = e.tenant => ~(e.prev < f.id /\ f.id < e.id)

ASSUME StoreAssumption ==
  /\ Users \subseteq Nat \ {0}
  /\ UserTenant \in [Users -> Tenants]
  /\ UserRole \in [Users -> Roles]
  /\ AccountTenant \in [Accounts -> Tenants]
  /\ OpeningBalance \in [Accounts -> Nat]
  /\ Amounts \subseteq Nat \ {0}
  /\ ApprovalThreshold \in Nat /\ DoubleApprovalThreshold \in Nat
  /\ NoKey \notin Keys
  /\ Free \notin Requests /\ NoEntity \notin PaymentIds
  /\ CreateRequests \cap DecideRequests = {}
  /\ Requests \cap LegacyPayments = {}

ASSUME SeedAssumption ==
  /\ Legacy \in [LegacyPayments -> Payment]
  /\ \A p \in LegacyPayments : Legacy[p].status = "pending_approval" /\ Legacy[p].key = NoKey
  /\ SeedAudit \subseteq AuditEntry /\ IsFiniteSet(SeedAudit)
  /\ \A e \in SeedAudit : LinkedIn(e, SeedAudit)
  /\ \A e, f \in SeedAudit : e.id = f.id => e = f
  /\ \A e \in SeedAudit : e.id <= Cardinality(SeedAudit)
  /\ \A e \in SeedAudit : e.action = "CREATE_PAYMENT" /\ e.payment \in LegacyPayments
  /\ \A p \in LegacyPayments : \E e \in SeedAudit : e.payment = p
  /\ \A e, f \in SeedAudit : e.payment = f.payment => e = f

VARIABLES
  \* committed rows
  balance, version,   \* accounts: balance and xmin
  payment,            \* payments with their approval steps
  booked,             \* how many transactions rows a payment has
  audit, nextEntry,   \* audit_entries, and the next value of their id sequence
  \* the memory of the processes
  lock,               \* AuditLockProvider: the holder of each tenant's semaphore
  pc, args, reply     \* requests: next step, payload, answer

database == <<balance, version, payment, booked, audit, nextEntry>>
storeVars == <<database, lock, pc, args, reply>>

-----------------------------------------------------------------------------
(* Rows and rules                                                          *)

Stored == {p \in PaymentIds : payment[p] # NoPayment}

RequiresDoubleApproval(amount) == amount > DoubleApprovalThreshold
RequiresApproval(amount) == amount > ApprovalThreshold \/ RequiresDoubleApproval(amount)
RequiredApprovalSteps(amount) == IF RequiresDoubleApproval(amount) THEN 2 ELSE 1

\* The lowest user id of the tenant that may decide a step and is not excluded, if any.
FindNextAttestantId(t, excluded) ==
  LET candidates == {u \in Users : /\ UserTenant[u] = t
                                   /\ UserRole[u] \in ApproverRoles
                                   /\ u \notin excluded}
      First(u) == u \in candidates /\ \A v \in candidates : u <= v
  IN  IF \E u \in Users : First(u) THEN CHOOSE u \in Users : First(u) ELSE Nobody

PendingStep(u) == [attestant |-> u, status |-> "pending",
                   decidedBy |-> Nobody, source |-> "none"]

\* Mutant: the balance is not checked.
CanCompleteUnfunded(amount, funds) == amount > 0

\* CompletePayment refuses a payment of no value and one the balance does not cover.
CanComplete(amount, funds) == amount > 0 /\ funds >= amount

\* CompletePayment's rows: the account row that was read with balance "funds" is
\* written back without the amount, and one transactions row is added.
CompletePayment(p, a, amount, funds) ==
  /\ balance' = [balance EXCEPT ![a] = funds - amount]
  /\ version' = [version EXCEPT ![a] = @ + 1]
  /\ booked'  = [booked EXCEPT ![p] = @ + 1]

-----------------------------------------------------------------------------
(* The audit chain                                                         *)

EntriesOf(t) == {e \in audit : e.tenant = t}

\* The signature of the entry with the highest id, 0 for GENESIS.
GetLatestSignature(t) ==
  LET Latest(e) == \A f \in EntriesOf(t) : f.id <= e.id
  IN  IF \E e \in EntriesOf(t) : Latest(e)
      THEN (CHOOSE e \in EntriesOf(t) : Latest(e)).id ELSE 0

-----------------------------------------------------------------------------
(* Requests                                                                *)

Codes == {"none", "created", "existing", "decided", "bad_request", "forbidden",
          "not_found", "access_denied", "already_decided", "duplicate_decision",
          "insufficient_funds", "idempotency_conflict", "account_changed",
          "error", "lost"}

TenantOf(r) == UserTenant[args[r].user]
InstanceOf(r) == args[r].inst
LockOf(r) == lock[InstanceOf(r)][TenantOf(r)]

\* A creation request completes its payment itself.
Direct(r) == ~RequiresApproval(args[r].amount)

\* r has inserted its payment, and for a direct one updated its account row, in a
\* transaction that is not committed yet.
OpenTransaction(r) == pc[r] \in {"append", "log", "commit"} /\ args[r].iban = "valid"

\* A creation request has the row of account a locked until it commits.
AccountRowLocked(a) ==
  \E q \in CreateRequests : OpenTransaction(q) /\ args[q].account = a /\ Direct(q)

\* The request goes on at label l.
Goto(r, l) == pc' = [pc EXCEPT ![r] = l] /\ UNCHANGED reply

\* The request is answered with code c.
Answer(r, c) == pc' = [pc EXCEPT ![r] = "done"] /\ reply' = [reply EXCEPT ![r] = c]

\* The request leaves its try block with code c: the finally block is still to run.
Leave(r, c) == pc' = [pc EXCEPT ![r] = "finally"] /\ reply' = [reply EXCEPT ![r] = c]

\* Mutant: the semaphore lets several requests in.
AcquireSharedLock(r, l) ==
  /\ pc[r] = "lock"
  /\ lock' = [lock EXCEPT ![InstanceOf(r)][TenantOf(r)] = r]
  /\ Goto(r, l)
  /\ UNCHANGED <<database, args>>

\* WaitAsync on the tenant's semaphore.
AcquireTenantLock(r, l) ==
  /\ pc[r] = "lock"
  /\ LockOf(r) = Free
  /\ lock' = [lock EXCEPT ![InstanceOf(r)][TenantOf(r)] = r]
  /\ Goto(r, l)
  /\ UNCHANGED <<database, args>>

\* Mutant: no finally block, the semaphore stays taken after an exception.
ReleaseOnSuccessOnly(r) ==
  /\ pc[r] = "finally"
  /\ lock' = IF reply[r] = "error" THEN lock
             ELSE [lock EXCEPT ![InstanceOf(r)][TenantOf(r)] = Free]
  /\ pc' = [pc EXCEPT ![r] = "done"]
  /\ UNCHANGED <<database, args, reply>>

\* The finally block: Release, then the answer is sent.
ReleaseTenantLock(r) ==
  /\ pc[r] = "finally"
  /\ lock' = [lock EXCEPT ![InstanceOf(r)][TenantOf(r)] = Free]
  /\ pc' = [pc EXCEPT ![r] = "done"]
  /\ UNCHANGED <<database, args, reply>>

InFlight(r) == pc[r] \notin {"idle", "done"}

\* A process dies and is started again: its semaphores are new, its open
\* transactions are rolled back and its requests never get an answer.
Restart(i) ==
  LET dying == {r \in Requests : InFlight(r) /\ InstanceOf(r) = i}
  IN  /\ dying # {}
      /\ lock'  = [lock EXCEPT ![i] = [t \in Tenants |-> Free]]
      /\ pc'    = [r \in Requests |-> IF r \in dying THEN "done" ELSE pc[r]]
      /\ reply' = [r \in Requests |-> IF r \in dying THEN "lost" ELSE reply[r]]
      /\ UNCHANGED <<database, args>>

NoArgs == [inst |-> "none"]   \* a request that was not sent yet

StoreInit ==
  /\ balance = OpeningBalance
  /\ version = [a \in Accounts |-> 0]
  /\ payment = [p \in PaymentIds |-> IF p \in LegacyPayments THEN Legacy[p] ELSE NoPayment]
  /\ booked  = [p \in PaymentIds |-> 0]
  /\ audit = SeedAudit
  /\ nextEntry = Cardinality(SeedAudit) + 1
  /\ lock  = [i \in Instances |-> [t \in Tenants |-> Free]]
  /\ pc    = [r \in Requests |-> "idle"]
  /\ args  = [r \in Requests |-> NoArgs]
  /\ reply = [r \in Requests |-> "none"]
-----------------------------------------------------------------------------
(* What the rows must satisfy, whichever handlers run                      *)

Labels == {"idle", "find", "account", "lock", "recheck", "insert", "append", "log",
           "commit", "requery", "load", "save", "finally", "done"}

\* The rows, the semaphores and the requests keep their types.
StoreTypeOK ==
  /\ balance \in [Accounts -> Int] /\ version \in [Accounts -> Nat]
  /\ payment \in [PaymentIds -> Payment \cup {NoPayment}]
  /\ booked \in [PaymentIds -> Nat]
  /\ audit \subseteq AuditEntry /\ nextEntry \in Nat \ {0}
  /\ lock \in [Instances -> [Tenants -> Requests \cup {Free}]]
  /\ pc \in [Requests -> Labels]
  /\ args = [r \in Requests |-> args[r]]
  /\ reply \in [Requests -> Codes]

Completed == {p \in Stored : payment[p].status = "completed"}

AmountOfCompleted(a) ==
  MapThenSumSet(LAMBDA p : payment[p].amount,
                {p \in Completed : payment[p].account = a})

\* The unique index and the recheck under the lock keep one payment per key of a
\* creator, however many retries and processes race (CreatePaymentAsync).
OnePaymentPerKey ==
  \A p, q \in Stored :
    /\ payment[p].key # NoKey
    /\ payment[p].key = payment[q].key /\ payment[p].creator = payment[q].creator
    => p = q

\* A payment never exists without its CREATE_PAYMENT entry, and no entry describes a
\* payment that was not saved (the comment before the lock in CreatePaymentAsync).
PaymentAudited ==
  /\ \A p \in Stored : Cardinality({e \in audit : e.action = "CREATE_PAYMENT" /\ e.payment = p}) = 1
  /\ \A e \in audit : e.action # "VALIDATE_IBAN" =>
       e.payment \in Stored /\ e.tenant = AccountTenant[payment[e.payment].account]

\* Balance, status and transactions rows agree: no debit is lost, doubled or taken
\* for a payment that is not completed (CompletePayment with the xmin check).
BooksBalance ==
  /\ \A a \in Accounts : balance[a] = OpeningBalance[a] - AmountOfCompleted(a)
  /\ \A p \in PaymentIds : booked[p] = IF p \in Completed THEN 1 ELSE 0

\* No account is overdrawn, not even with several processes: the xmin check makes a
\* balance that was read before the lock as good as one read now (CompletePayment).
NoOverdraft == \A a \in Accounts : balance[a] >= 0

\* Every entry links to the one just before it in its tenant: the chain of
\* AuditService never forks and never skips a row.
AuditChainLinear == \A e \in audit : LinkedIn(e, audit)

ExactDebit ==
  /\ \A p \in Completed' \ Completed :
       balance' = [balance EXCEPT ![payment'[p].account] = @ - payment'[p].amount]
  /\ balance' # balance => Completed' \ Completed # {}

\* A step that completes a payment takes exactly its amount from the balance the account
\* has at that moment, and no other step touches a balance: a balance that was read
\* before other payments went through is never written back (CompletePayment and xmin).
DebitsAreExact == [][ExactDebit]_database
=============================================================================
