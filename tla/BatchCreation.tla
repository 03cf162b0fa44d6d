---------------------------- MODULE BatchCreation ----------------------------
(***************************************************************************)
(* POST /api/payments/batch: PaymentsController.CreatePaymentsBatch,       *)
(* PaymentBatchService.CreateAsync and PaymentService.CreatePaymentsAsync, *)
(* for the batches of one tenant on one process.                           *)
(*                                                                         *)
(*   validate (a row at a time) -> debit (a row at a time) -> lock ->      *)
(*   insert -> append -> log -> ... one pair per row ... -> commit ->      *)
(*   finally -> done                                                       *)
(*                                                                         *)
(* The single payments made meanwhile, by creations or last approvals, are *)
(* those of PaymentSystem: each is one step on the rows (PaymentLedger),   *)
(* taken while its own request has the tenant's lock.                      *)
(***************************************************************************)
EXTENDS Integers, Sequences, FiniteSets, FiniteSetsExt

CONSTANTS
  Accounts, OwnAccounts,     \* account ids in files, and those of the tenant
  OpeningBalance, Amounts, ApprovalThreshold,
  Batches,                   \* requests
  Files,                     \* what they may hold: sequences of rows
  Singles,                   \* single payments made meanwhile
  Null                       \* an account that was not read, nobody, no payment

\* correct: the IBAN is valid and the amount and the account id are numbers in range.
Row == [account : Accounts, amount : Amounts, correct : BOOLEAN]

Payment == [account : Accounts, amount : Amounts, status : {"completed", "pending_approval"}]

ASSUME BatchAssumption ==
  /\ OwnAccounts \subseteq Accounts /\ IsFiniteSet(Accounts)
  /\ OpeningBalance \in [Accounts -> Nat]
  /\ Amounts \subseteq Nat \ {0} /\ ApprovalThreshold \in Nat
  /\ Files \subseteq Seq(Row) \ {<<>>} /\ IsFiniteSet(Files)
  /\ Singles \cap (Batches \X Nat) = {}
  /\ Null \notin Batches /\ Null \notin Payment
  /\ Null \notin [version : Nat, balance : Nat, running : Nat]

VARIABLES
  \* committed rows
  balance, version,   \* accounts: balance and xmin
  payments,           \* payments: a batch's are named by their row
  audit, nextEntry,   \* audit_entries, and the next value of their id sequence
  \* the memory of the process
  lock,               \* the holder of the tenant's semaphore, or Null
  pc, file, reply,    \* requests: next step, rows, answer
  tracked,            \* the account rows a request's DbContext has read
  at,                 \* the row a loop is at
  wrong,              \* whether a row was found invalid
  entries             \* the audit rows of the open transaction

database == <<balance, version, payments, audit, nextEntry>>
memory == <<file, tracked, wrong>>
vars == <<database, memory, lock, pc, reply, at, entries>>

Direct(row) == row.amount <= ApprovalThreshold

RowsOf(b) == DOMAIN file[b]
CurrentRow(b) == file[b][at[b]]
DebitedAccounts(b) == {file[b][i].account : i \in {j \in RowsOf(b) : Direct(file[b][j])}}

Goto(b, l) == pc' = [pc EXCEPT ![b] = l] /\ UNCHANGED reply
Answer(b, c) == pc' = [pc EXCEPT ![b] = "done"] /\ reply' = [reply EXCEPT ![b] = c]
Leave(b, c) == pc' = [pc EXCEPT ![b] = "finally"] /\ reply' = [reply EXCEPT ![b] = c]

\* A loop goes to its next row, or on at label l after the last one.
NextRow(b, loop, l) ==
  IF at[b] < Len(file[b])
  THEN at' = [at EXCEPT ![b] = @ + 1] /\ Goto(b, loop)
  ELSE at' = [at EXCEPT ![b] = 1] /\ Goto(b, l)

-----------------------------------------------------------------------------
\* The controller: a file that can be parsed and has rows, from a user who may create.
CreatePaymentsBatch(b) ==
  /\ pc[b] = "idle"
  /\ \E f \in Files : file' = [file EXCEPT ![b] = f]
  /\ Goto(b, "validate")
  /\ UNCHANGED <<database, lock, tracked, at, wrong, entries>>

\* Another role, a file that is too large, empty or cannot be parsed.
RefuseFile(b) ==
  /\ pc[b] = "idle"
  /\ \E c \in {"forbidden", "bad_request"} : Answer(b, c)
  /\ UNCHANGED <<database, memory, lock, at, entries>>

\* GetAccountAsync: a row that is already tracked is not replaced by what the query finds.
GetAccount(b, a) ==
  IF tracked[b][a] # Null THEN tracked[b][a]
  ELSE [version |-> version[a], balance |-> balance[a], running |-> balance[a]]

\* One row of ValidateAsync: only one that is otherwise valid takes from the running balance.
ValidateRow(b) ==
  LET row == CurrentRow(b)
      a == row.account
      found == a \in OwnAccounts
      account == GetAccount(b, a)
      takes == found /\ row.correct /\ Direct(row)
      covered == account.running >= row.amount
      invalid == wrong[b] \/ ~found \/ ~row.correct \/ (takes /\ ~covered)
  IN  /\ pc[b] = "validate"
      /\ tracked' = IF ~found THEN tracked
                    ELSE [tracked EXCEPT ![b][a] =
                            IF takes /\ covered
                            THEN [account EXCEPT !.running = @ - row.amount] ELSE account]
      /\ wrong' = [wrong EXCEPT ![b] = invalid]
      /\ IF at[b] = Len(file[b]) /\ invalid
         THEN Answer(b, "invalid_rows") /\ UNCHANGED at
         ELSE NextRow(b, "validate", "debit")
      /\ UNCHANGED <<database, lock, file, entries>>

\* One payment of CreatePaymentsAsync's first loop: the account is looked up again, and a
\* payment that needs no approval is taken from its balance in memory.
DebitRow(b) ==
  LET row == CurrentRow(b)
      account == GetAccount(b, row.account)
  IN  /\ pc[b] = "debit"
      /\ \/ /\ Direct(row) /\ account.balance < row.amount
            /\ Answer(b, "insufficient_funds")
            /\ UNCHANGED <<at, tracked>>
         \/ /\ Direct(row) /\ account.balance >= row.amount
            /\ tracked' = [tracked EXCEPT ![b][row.account] =
                             [account EXCEPT !.balance = @ - row.amount]]
            /\ NextRow(b, "debit", "lock")
         \/ /\ ~Direct(row)
            /\ NextRow(b, "debit", "lock")
            /\ UNCHANGED tracked
      /\ UNCHANGED <<database, lock, file, wrong, entries>>

EnterBatch(b) ==
  /\ pc[b] = "lock"
  /\ lock = Null
  /\ lock' = b
  /\ Goto(b, "insert")
  /\ UNCHANGED <<database, memory, at, entries>>

\* Mutant: accounts have no row version.
NoAccountChanged(b) == FALSE

\* An account row the batch writes no longer has the xmin that was read.
AccountChanged(b) == \E a \in DebitedAccounts(b) : version[a] # tracked[b][a].version

\* BeginTransaction, and the SaveChanges of all payments and accounts.
AddPayments(b) ==
  /\ pc[b] = "insert"
  /\ \/ AccountChanged(b) /\ Leave(b, "account_changed")
     \/ ~AccountChanged(b) /\ Goto(b, "append")
  /\ UNCHANGED <<database, memory, lock, at, entries>>

Latest(log) == IF log = {} THEN 0 ELSE Max({e.id : e \in log})

\* Mutant: the latest signature is read outside of the transaction.
GetCommittedSignature(b) == Latest(audit)

\* The signature of the latest entry, as the transaction sees it.
GetLatestSignature(b) == Latest(audit \cup entries[b])

\* AppendEntryAsync of the current row.
AppendEntry(b) ==
  /\ pc[b] = "append"
  /\ entries' = [entries EXCEPT ![b] =
       @ \cup {[id |-> nextEntry, prev |-> GetLatestSignature(b), payment |-> <<b, at[b]>>]}]
  /\ Goto(b, "log")
  /\ UNCHANGED <<database, memory, lock, at>>

\* Its SaveChanges: the entry takes the next id of the sequence.
SaveEntry(b) ==
  /\ pc[b] = "log"
  /\ nextEntry' = nextEntry + 1
  /\ NextRow(b, "append", "commit")
  /\ UNCHANGED <<balance, version, payments, audit, memory, lock, entries>>

PaymentOf(row) == [account |-> row.account, amount |-> row.amount,
                   status |-> IF Direct(row) THEN "completed" ELSE "pending_approval"]

\* The rows the transaction has inserted.
WithPayments(b) ==
  [p \in DOMAIN payments |->
     IF p \in {b} \X RowsOf(b) THEN PaymentOf(file[b][p[2]]) ELSE payments[p]]

\* The transaction becomes visible.
Persist(b) ==
  /\ payments' = WithPayments(b)
  /\ balance' = [a \in Accounts |-> IF a \in DebitedAccounts(b)
                                    THEN tracked[b][a].balance ELSE balance[a]]
  /\ version' = [a \in Accounts |-> IF a \in DebitedAccounts(b)
                                    THEN version[a] + 1 ELSE version[a]]
  /\ audit' = audit \cup entries[b]
  /\ UNCHANGED nextEntry

Commit(b) ==
  /\ pc[b] = "commit"
  /\ Persist(b)
  /\ Leave(b, "created")
  /\ UNCHANGED <<memory, lock, at, entries>>

Release(b) ==
  /\ pc[b] = "finally"
  /\ lock' = Null
  /\ pc' = [pc EXCEPT ![b] = "done"]
  /\ UNCHANGED <<database, memory, reply, at, entries>>

\* Mutant: no transaction, what was saved before the failed call stays.
CallFailsHalfSaved(b) ==
  /\ pc[b] \in {"append", "log"} /\ Leave(b, "error")
  /\ payments' = WithPayments(b)
  /\ UNCHANGED <<balance, version, audit, nextEntry, memory, lock, at, entries>>

\* A database call throws, and the transaction is rolled back.
CallFails(b) ==
  /\ \/ pc[b] \in {"validate", "debit"} /\ Answer(b, "error")
     \/ pc[b] \in {"insert", "append", "log", "commit"} /\ Leave(b, "error")
  /\ UNCHANGED <<database, memory, lock, at, entries>>

\* The COMMIT has happened, its answer is lost.
CommitAnswerLost(b) ==
  /\ pc[b] = "commit"
  /\ Persist(b)
  /\ Leave(b, "error")
  /\ UNCHANGED <<memory, lock, at, entries>>

InFlight(b) == pc[b] \notin {"idle", "done"}

\* The process dies and is started again.
Restart ==
  /\ \E b \in Batches : InFlight(b)
  /\ lock' = Null
  /\ pc' = [b \in Batches |-> IF InFlight(b) THEN "done" ELSE pc[b]]
  /\ reply' = [b \in Batches |-> IF InFlight(b) THEN "lost" ELSE reply[b]]
  /\ UNCHANGED <<database, memory, at, entries>>

\* A single payment of an own account is completed.
SinglePayment(p) ==
  \E a \in OwnAccounts, n \in Amounts :
    /\ payments[p] = Null /\ lock = Null
    /\ balance[a] >= n
    /\ payments' = [payments EXCEPT ![p] = [account |-> a, amount |-> n, status |-> "completed"]]
    /\ balance' = [balance EXCEPT ![a] = @ - n]
    /\ version' = [version EXCEPT ![a] = @ + 1]
    /\ audit' = audit \cup {[id |-> nextEntry, prev |-> Latest(audit), payment |-> p]}
    /\ nextEntry' = nextEntry + 1
    /\ UNCHANGED <<memory, lock, pc, reply, at, entries>>

-----------------------------------------------------------------------------
MaxRows == Max({Len(f) : f \in Files})

Init ==
  /\ balance = OpeningBalance
  /\ version = [a \in Accounts |-> 0]
  /\ payments = [p \in (Batches \X (1..MaxRows)) \cup Singles |-> Null]
  /\ audit = {} /\ nextEntry = 1
  /\ lock = Null
  /\ pc = [b \in Batches |-> "idle"]
  /\ file = [b \in Batches |-> <<>>]
  /\ reply = [b \in Batches |-> "none"]
  /\ tracked = [b \in Batches |-> [a \in Accounts |-> Null]]
  /\ at = [b \in Batches |-> 1]
  /\ wrong = [b \in Batches |-> FALSE]
  /\ entries = [b \in Batches |-> {}]

BatchStep(b) ==
  \/ CreatePaymentsBatch(b) \/ RefuseFile(b)
  \/ ValidateRow(b) \/ DebitRow(b)
  \/ EnterBatch(b) \/ AddPayments(b) \/ AppendEntry(b) \/ SaveEntry(b) \/ Commit(b)
  \/ CallFails(b) \/ CommitAnswerLost(b) \/ Release(b)

Next ==
  \/ \E b \in Batches : BatchStep(b)
  \/ \E p \in Singles : SinglePayment(p)
  \/ Restart

Spec == Init /\ [][Next]_vars
-----------------------------------------------------------------------------
(* Properties                                                              *)

Stored == {p \in DOMAIN payments : payments[p] # Null}
StoredOf(b) == {i \in RowsOf(b) : <<b, i>> \in Stored}
Refusals == {"bad_request", "forbidden", "invalid_rows", "insufficient_funds",
             "account_changed"}
EntriesFor(p) == {e \in audit : e.payment = p}

\* A batch is stored with all its rows or with none, each row with one audit entry, and
\* the client is told which: 201 means all of them, a refusal none (CreatePaymentsAsync's
\* transaction; contracts/payments-batch-contract.md).
BatchAllOrNothing ==
  \A b \in Batches :
    /\ StoredOf(b) \in {{}, RowsOf(b)}
    /\ reply[b] = "created" => StoredOf(b) = RowsOf(b)
    /\ reply[b] \in Refusals => StoredOf(b) = {}
    /\ \A i \in RowsOf(b) :
         IF i \in StoredOf(b) THEN \E e \in audit : EntriesFor(<<b, i>>) = {e}
                              ELSE EntriesFor(<<b, i>>) = {}

CompletedFrom(a) ==
  {p \in Stored : payments[p].account = a /\ payments[p].status = "completed"}

NoOverdraft == \A a \in Accounts : balance[a] >= 0

\* No account is overdrawn and no debit is lost, although a batch takes several payments
\* from one balance in memory and writes the balance it read earlier (the xmin check); and
\* a file whose rows were all found valid is never refused for funds afterwards, although
\* the accounts are looked up a second time (CreatePaymentsAsync).
BatchMoney ==
  /\ NoOverdraft
  /\ \A a \in Accounts :
       balance[a] = OpeningBalance[a]
                      - MapThenSumSet(LAMBDA p : payments[p].amount, CompletedFrom(a))
  /\ \A b \in Batches : reply[b] # "insufficient_funds"

\* The entries of a batch follow each other in the order of the file, and every entry
\* links to the one before it: those of one transaction see each other before the commit,
\* and nobody else's come between them (AppendEntryAsync in the loop under the lock).
BatchChain ==
  \A e \in audit :
    /\ e.prev = Latest({f \in audit : f.id < e.id})
    /\ \A b \in Batches, i \in 2..MaxRows :
         e.payment = <<b, i>> => \E f \in audit : f.id = e.prev /\ f.payment = <<b, i - 1>>
=============================================================================
