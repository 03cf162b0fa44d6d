--------------------------- MODULE PaymentCreation ---------------------------
(***************************************************************************)
(* POST /api/payments: PaymentsController.CreatePayment and                *)
(* PaymentService.CreatePaymentAsync, one action per database call, lock   *)
(* operation or early return between two of them.                          *)
(*                                                                         *)
(*   find -> account -> lock -> recheck -> insert -> append -> log ->      *)
(*   commit -> finally -> done                                             *)
(*                                                                         *)
(* A request with an invalid IBAN goes lock -> append -> log -> commit ->  *)
(* finally -> done (AuditService.LogImmediatelyAsync).                     *)
(***************************************************************************)
EXTENDS PaymentStore

CONSTANT CreatePayloads   \* the payment requests clients send

CreateArgs == [inst : Instances, user : Users, account : Accounts,
               amount : Amounts, key : Keys, iban : {"valid", "invalid"}]

ASSUME CreationAssumption == CreatePayloads \subseteq CreateArgs

VARIABLE draft   \* what a request has read and tracks for its next save

EmptyDraft == [version |-> 0, funds |-> 0, steps |-> <<>>, prev |-> 0, entry |-> 0]

creationVars == <<storeVars, draft>>

-----------------------------------------------------------------------------
(* The idempotency key                                                     *)

ExistingPayments(r) ==
  {p \in Stored : payment[p].creator = args[r].user /\ payment[p].key = args[r].key}

HasSamePaymentData(p, r) ==
  payment[p].account = args[r].account /\ payment[p].amount = args[r].amount

\* Mutant: the comparison is the wrong way round.
ExistingAnswerInverted(r) ==
  IF \E p \in ExistingPayments(r) : HasSamePaymentData(p, r)
  THEN "idempotency_conflict" ELSE "existing"

\* What FindExistingIdempotentPaymentAsync makes of the row it finds.
ExistingAnswer(r) ==
  IF \E p \in ExistingPayments(r) : HasSamePaymentData(p, r)
  THEN "existing" ELSE "idempotency_conflict"

\* AddInitialApprovalStepsAsync: never the creator, never the same user twice.
InitialApprovalSteps(r) ==
  LET t == TenantOf(r)
      first  == FindNextAttestantId(t, {args[r].user})
      second == FindNextAttestantId(t, {args[r].user, first})
  IN  IF RequiredApprovalSteps(args[r].amount) = 2
      THEN <<PendingStep(first), PendingStep(second)>>
      ELSE <<PendingStep(first)>>

DraftPayment(r) ==
  [creator |-> args[r].user, account |-> args[r].account, amount |-> args[r].amount,
   key |-> args[r].key, steps |-> draft[r].steps,
   status |-> IF Direct(r) THEN "completed" ELSE "pending_approval"]

-----------------------------------------------------------------------------
(* Before the lock                                                         *)

\* The controller: role, required fields, IBAN.
CreatePayment(r) ==
  /\ pc[r] = "idle"
  /\ \E a \in CreatePayloads :
       /\ args' = [args EXCEPT ![r] = a]
       /\ \/ UserRole[a.user] \notin CreatorRoles /\ Answer(r, "forbidden")
          \/ UserRole[a.user] \in CreatorRoles /\ a.iban = "invalid" /\ Goto(r, "lock")
          \/ UserRole[a.user] \in CreatorRoles /\ a.iban = "valid" /\ Goto(r, "find")
  /\ UNCHANGED <<database, lock, draft>>

\* A missing key, account or amount, or a key longer than 128 characters.
RefuseMalformed(r) ==
  /\ pc[r] = "idle"
  /\ Answer(r, "bad_request")
  /\ UNCHANGED <<database, lock, args, draft>>

FindExistingPayment(r) ==
  /\ pc[r] = "find"
  /\ \/ ExistingPayments(r) # {} /\ Answer(r, ExistingAnswer(r))
     \/ ExistingPayments(r) = {} /\ Goto(r, "account")
  /\ UNCHANGED <<database, lock, args, draft>>

OwnsAccount(r) == AccountTenant[args[r].account] = TenantOf(r)

\* The account is read, and the payment gets its approval steps or is completed in
\* memory against the balance that was read.
GetAccount(r) ==
  LET a == args[r].account
  IN  /\ pc[r] = "account"
      /\ \/ /\ ~OwnsAccount(r)
            /\ Answer(r, "not_found")
            /\ UNCHANGED draft
         \/ /\ OwnsAccount(r) /\ Direct(r) /\ ~CanComplete(args[r].amount, balance[a])
            /\ Answer(r, "insufficient_funds")
            /\ UNCHANGED draft
         \/ /\ OwnsAccount(r) /\ Direct(r) /\ CanComplete(args[r].amount, balance[a])
            /\ draft' = [draft EXCEPT ![r].version = version[a], ![r].funds = balance[a]]
            /\ Goto(r, "lock")
         \/ /\ OwnsAccount(r) /\ ~Direct(r)
            /\ draft' = [draft EXCEPT ![r].steps = InitialApprovalSteps(r)]
            /\ Goto(r, "lock")
      /\ UNCHANGED <<database, lock, args>>

-----------------------------------------------------------------------------
(* Under the lock                                                          *)

EnterCreation(r) ==
  /\ AcquireTenantLock(r, IF args[r].iban = "valid" THEN "recheck" ELSE "append")
  /\ UNCHANGED draft

RecheckExistingPayment(r) ==
  /\ pc[r] = "recheck"
  /\ \/ ExistingPayments(r) # {} /\ Leave(r, ExistingAnswer(r))
     \/ ExistingPayments(r) = {} /\ Goto(r, "insert")
  /\ UNCHANGED <<database, lock, args, draft>>

\* PostgreSQL makes r wait for the row or the index entry an open transaction holds.
WaitsForRow(r) ==
  \/ Direct(r) /\ AccountRowLocked(args[r].account)
  \/ \E q \in CreateRequests :
       OpenTransaction(q) /\ args[q].user = args[r].user /\ args[q].key = args[r].key

\* Mutant: accounts have no row version.
AccountUnversioned(r) == FALSE

\* The account row no longer has the xmin that was read.
AccountChanged(r) == Direct(r) /\ version[args[r].account] # draft[r].version

\* Mutant: no unique index.
NoIdempotencyIndex(r) == FALSE

\* ux_payments_tenant_creator_idempotency refuses the row.
IdempotencyKeyViolation(r) == ExistingPayments(r) # {}

\* BeginTransaction and AddPaymentAsync.  Which of two violations is reported first
\* is the order in which Entity Framework sends the statements.
AddPayment(r) ==
  /\ pc[r] = "insert"
  /\ ~WaitsForRow(r)
  /\ \/ AccountChanged(r) /\ Leave(r, "account_changed")
     \/ IdempotencyKeyViolation(r) /\ Goto(r, "requery")
     \/ ~AccountChanged(r) /\ ~IdempotencyKeyViolation(r) /\ Goto(r, "append")
  /\ UNCHANGED <<database, lock, args, draft>>

\* AuditService.AppendEntryAsync: read the latest signature, build the entry.
AppendCreationEntry(r) ==
  /\ pc[r] = "append"
  /\ draft' = [draft EXCEPT ![r].prev = GetLatestSignature(TenantOf(r))]
  /\ Goto(r, "log")
  /\ UNCHANGED <<database, lock, args>>

\* SaveChangesAsync: the entry is inserted and takes its id from the sequence.
SaveCreationEntry(r) ==
  /\ pc[r] = "log"
  /\ draft' = [draft EXCEPT ![r].entry = nextEntry]
  /\ nextEntry' = nextEntry + 1
  /\ Goto(r, "commit")
  /\ UNCHANGED <<balance, version, payment, booked, audit, lock, args>>

CreationEntry(r) ==
  [id |-> draft[r].entry, prev |-> draft[r].prev,
   tenant |-> TenantOf(r), user |-> args[r].user,
   action |-> IF args[r].iban = "valid" THEN "CREATE_PAYMENT" ELSE "VALIDATE_IBAN",
   payment |-> IF args[r].iban = "valid" THEN r ELSE NoEntity]

\* The rows of r's transaction become visible.
PersistCreation(r) ==
  /\ audit' = audit \cup {CreationEntry(r)}
  /\ payment' = IF args[r].iban = "valid"
                THEN [payment EXCEPT ![r] = DraftPayment(r)] ELSE payment
  /\ IF args[r].iban = "valid" /\ Direct(r)
     THEN CompletePayment(r, args[r].account, args[r].amount, draft[r].funds)
     ELSE UNCHANGED <<balance, version, booked>>
  /\ UNCHANGED nextEntry

CommitCreation(r) ==
  /\ pc[r] = "commit"
  /\ PersistCreation(r)
  /\ Leave(r, IF args[r].iban = "valid" THEN "created" ELSE "bad_request")
  /\ UNCHANGED <<lock, args, draft>>

\* The filtered catch block: the failed insert is cleared and the winner returned.
ReturnWinner(r) ==
  /\ pc[r] = "requery"
  /\ Leave(r, IF ExistingPayments(r) # {} THEN ExistingAnswer(r) ELSE "error")
  /\ UNCHANGED <<database, lock, args, draft>>

-----------------------------------------------------------------------------
(* A database call throws.  Nothing of an open transaction is kept, except *)
(* that a COMMIT whose answer is lost may have happened.                   *)

\* Mutant: no transaction, the payment stays when its entry cannot be saved.
CreationCallFailsHalfSaved(r) ==
  /\ pc[r] = "log" /\ Leave(r, "error")
  /\ payment' = IF args[r].iban = "valid"
                THEN [payment EXCEPT ![r] = DraftPayment(r)] ELSE payment
  /\ UNCHANGED <<balance, version, booked, audit, nextEntry, lock, args, draft>>

CreationCallFails(r) ==
  /\ \/ pc[r] \in {"find", "account"} /\ Answer(r, "error")
     \/ pc[r] \in {"recheck", "insert", "append", "log", "commit", "requery"}
          /\ Leave(r, "error")
  /\ UNCHANGED <<database, lock, args, draft>>

CommitAnswerLost(r) ==
  /\ pc[r] = "commit"
  /\ PersistCreation(r)
  /\ Leave(r, "error")
  /\ UNCHANGED <<lock, args, draft>>

-----------------------------------------------------------------------------
CreationInit == StoreInit /\ draft = [r \in CreateRequests |-> EmptyDraft]

\* What the server does with a request it has received.
CreationStep(r) ==
  \/ FindExistingPayment(r) \/ GetAccount(r)
  \/ EnterCreation(r) \/ RecheckExistingPayment(r) \/ AddPayment(r)
  \/ AppendCreationEntry(r) \/ SaveCreationEntry(r) \/ CommitCreation(r)
  \/ ReturnWinner(r)
  \/ CreationCallFails(r) \/ CommitAnswerLost(r)
  \/ ReleaseTenantLock(r) /\ UNCHANGED draft

CreationNext ==
  \/ \E r \in CreateRequests : CreatePayment(r) \/ RefuseMalformed(r) \/ CreationStep(r)
  \/ \E i \in Instances : Restart(i) /\ UNCHANGED draft

CreationSpec == CreationInit /\ [][CreationNext]_creationVars

-----------------------------------------------------------------------------
(* Properties                                                              *)

Draft == [version : Nat, funds : Int, steps : Seq(Step), prev : Nat, entry : Nat]

\* Every variable keeps its type; a request that runs has a payload.
CreationTypeOK ==
  /\ StoreTypeOK
  /\ draft \in [CreateRequests -> Draft]
  /\ \A r \in CreateRequests :
       args[r] \in CreateArgs \cup {NoArgs} /\ (InFlight(r) => args[r] \in CreateArgs)

Refusals == {"bad_request", "forbidden", "not_found", "insufficient_funds",
             "idempotency_conflict", "account_changed"}

\* The answer tells the client what was stored: 201 means that exactly one payment has
\* the request's key, with the data of the request, a conflict that the key is in use for
\* other data, and a refusal that this request stored none (CreatePaymentAsync's returns
\* and exceptions).
AnswersTruthful ==
  \A r \in CreateRequests : pc[r] \in {"finally", "done"} =>
    /\ reply[r] = "created" => r \in Stored
    /\ reply[r] \in {"created", "existing"} =>
         \E p \in ExistingPayments(r) : HasSamePaymentData(p, r)
    /\ reply[r] = "idempotency_conflict" =>
         \E p \in ExistingPayments(r) : ~HasSamePaymentData(p, r)
    /\ reply[r] \in Refusals \cup {"existing"} => r \notin Stored

\* A retry of a stored payment, with the same key and data, is never refused for lack
\* of funds (contracts/payments-contract.md: the existing payment is returned).
RetryReturnsExisting ==
  [][\A r \in CreateRequests :
       reply[r] # "insufficient_funds" /\ reply'[r] = "insufficient_funds" =>
         ~\E p \in ExistingPayments(r) : HasSamePaymentData(p, r)]_creationVars
=============================================================================
