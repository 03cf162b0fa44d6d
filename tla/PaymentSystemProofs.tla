-------------------------- MODULE PaymentSystemProofs --------------------------
(***************************************************************************)
(* Theorems about PaymentSystem for every number of users, accounts,       *)
(* requests and processes: types, unique keys, that no account is          *)
(* overdrawn and no debit is lost or doubled, and the four eyes.  The      *)
(* tenant lock plays no part in the first arguments: it is the unique      *)
(* index that protects the keys and the row version that protects the      *)
(* balance.  CompletedOnEnoughApprovals needs one process, where the lock  *)
(* keeps the rows a decision was ruled on until it is saved.               *)
(***************************************************************************)
EXTENDS PaymentSystem, TLAPS, FiniteSetTheorems, SequenceTheorems

-----------------------------------------------------------------------------
(* What the operators return                                               *)

\* FindNextAttestantIdAsync returns a user or null.
LEMMA NextAttestantIsUser ==
  ASSUME NEW t, NEW excluded
  PROVE  FindNextAttestantId(t, excluded) \in Users \cup {Nobody}
  BY DEF FindNextAttestantId

\* A new step has the type of the approval_steps rows.
LEMMA PendingStepIsStep ==
  ASSUME NEW t, NEW excluded
  PROVE  PendingStep(FindNextAttestantId(t, excluded)) \in Step
  <1> DEFINE u == FindNextAttestantId(t, excluded)
  <1>1. u \in Users \cup {Nobody}
    BY NextAttestantIsUser
  <1> HIDE DEF u
  <1>2. PendingStep(u) \in Step
    BY <1>1 DEF PendingStep, Step
  <1> QED
    BY <1>2 DEF u

\* The signature that is read as the latest is a row's id or GENESIS.
LEMMA LatestSignatureIsNat ==
  ASSUME NEW t, audit \subseteq AuditEntry
  PROVE  GetLatestSignature(t) \in Nat
  BY DEF GetLatestSignature, EntriesOf, AuditEntry

\* A payment starts with one or two open steps.
LEMMA InitialStepsAreSteps ==
  ASSUME NEW r
  PROVE  InitialApprovalSteps(r) \in Seq(Step)
  <1> DEFINE first == FindNextAttestantId(TenantOf(r), {args[r].user})
  <1> DEFINE second == FindNextAttestantId(TenantOf(r), {args[r].user, first})
  <1>1. PendingStep(first) \in Step /\ PendingStep(second) \in Step
    BY PendingStepIsStep
  <1>2. InitialApprovalSteps(r) \in {<<PendingStep(first), PendingStep(second)>>, <<PendingStep(first)>>}
    BY DEF InitialApprovalSteps
  <1> HIDE DEF first, second
  <1>3. \A x \in Step : <<x>> \in Seq(Step)
    OBVIOUS
  <1>4. \A x, y \in Step : <<x, y>> \in Seq(Step)
    OBVIOUS
  <1> QED
    BY <1>1, <1>2, <1>3, <1>4

\* A stored payment is a payment, and a payment row is never the missing row.
LEMMA StoredIsPayment ==
  ASSUME StoreTypeOK, NEW p \in Stored
  PROVE  payment[p] \in Payment
  BY DEF StoreTypeOK, Stored

LEMMA PaymentIsNotMissing ==
  ASSUME NEW x \in Payment
  PROVE  x # NoPayment
  BY DEF Payment, NoPayment

-----------------------------------------------------------------------------
(* Type correctness                                                        *)

\* What a request carries once it is about to save: an entry id from the sequence, or
\* a decision about a payment that is stored.
Carried ==
  /\ \A r \in CreateRequests : pc[r] = "commit" => draft[r].entry # 0
  /\ \A r \in DecideRequests : pc[r] \in {"append", "save"} =>
       /\ args[r].payment \in Stored
       /\ verdict[r].action \in {"APPROVE_PAYMENT_STEP", "APPROVE_PAYMENT", "REJECT_PAYMENT"}

TypeInv == SystemTypeOK /\ Carried

LEMMA TypeInit == SystemInit => TypeInv
  <1> SUFFICES ASSUME SystemInit PROVE TypeInv
    OBVIOUS
  <1> USE DEF SystemInit, StoreInit
  <1>1. nextEntry \in Nat \ {0}
    BY SeedAssumption, FS_CardinalityType
  <1>2. balance \in [Accounts -> Int]
    BY StoreAssumption
  <1>3. payment \in [PaymentIds -> Payment \cup {NoPayment}]
    BY SeedAssumption DEF LegacyPayments
  <1>4. StoreTypeOK
    BY <1>1, <1>2, <1>3, SeedAssumption DEF StoreTypeOK, Labels, Codes, Requests
  <1>5. CreationTypeOK
    BY <1>4 DEF CreationTypeOK, Draft, EmptyDraft, InFlight, Requests
  <1>6. DecisionTypeOK
    BY <1>4 DEF DecisionTypeOK, Verdict, EmptyVerdict, InFlight, DecisionLabels, Requests
  <1> QED
    BY <1>5, <1>6 DEF TypeInv, SystemTypeOK, Carried, Requests

\* A step of a creation request keeps the types if it keeps those of its own data.
LEMMA CreationFrame ==
  ASSUME TypeInv, NEW r \in CreateRequests, verdict' = verdict,
         \A q \in Requests \ {r} : pc'[q] = pc[q] /\ args'[q] = args[q],
         \A q \in CreateRequests \ {r} : draft'[q] = draft[q],
         StoreTypeOK', Stored \subseteq Stored', draft' \in [CreateRequests -> Draft],
         args'[r] \in CreateArgs \cup {NoArgs},
         pc'[r] \notin {"idle", "done"} => args'[r] \in CreateArgs,
         pc'[r] = "commit" => draft'[r].entry # 0
  PROVE  TypeInv'
  <1> USE DEF TypeInv, SystemTypeOK, Requests, InFlight
  <1>1. CreationTypeOK'
    BY DEF CreationTypeOK
  <1>2. \A q \in DecideRequests : q \in Requests \ {r}
    BY StoreAssumption
  <1>3. DecisionTypeOK'
    BY <1>2 DEF DecisionTypeOK
  <1>4. Carried'
    BY <1>2 DEF Carried
  <1> QED
    BY <1>1, <1>3, <1>4

\* The same for a step of a decision request.
LEMMA DecisionFrame ==
  ASSUME TypeInv, NEW r \in DecideRequests, draft' = draft,
         \A q \in Requests \ {r} : pc'[q] = pc[q] /\ args'[q] = args[q],
         \A q \in DecideRequests \ {r} : verdict'[q] = verdict[q],
         StoreTypeOK', Stored \subseteq Stored', verdict' \in [DecideRequests -> Verdict],
         args'[r] \in DecideArgs \cup {NoArgs}, pc'[r] \in DecisionLabels,
         pc'[r] \notin {"idle", "done"} => args'[r] \in DecideArgs,
         pc'[r] \in {"append", "save"} =>
           /\ args'[r].payment \in Stored'
           /\ verdict'[r].action \in {"APPROVE_PAYMENT_STEP", "APPROVE_PAYMENT", "REJECT_PAYMENT"}
  PROVE  TypeInv'
  <1> USE DEF TypeInv, SystemTypeOK, Requests, InFlight
  <1>1. DecisionTypeOK'
    BY DEF DecisionTypeOK
  <1>2. \A q \in CreateRequests : q \in Requests \ {r}
    BY StoreAssumption
  <1>3. CreationTypeOK'
    BY <1>2 DEF CreationTypeOK
  <1>4. Carried'
    BY <1>2 DEF Carried
  <1> QED
    BY <1>1, <1>3, <1>4

\* A request goes on, leaves its try block or is answered.
Moves(r, labels, codes) ==
  /\ \E l \in labels : pc' = [pc EXCEPT ![r] = l]
  /\ reply' = reply \/ \E c \in codes : reply' = [reply EXCEPT ![r] = c]

LEMMA MoveKeepsStoreTypes ==
  ASSUME StoreTypeOK, NEW r \in Requests, UNCHANGED <<database, lock, args>>,
         Moves(r, Labels, Codes)
  PROVE  /\ StoreTypeOK' /\ Stored' = Stored
         /\ \A q \in Requests \ {r} : pc'[q] = pc[q] /\ args'[q] = args[q]
  BY DEF StoreTypeOK, Moves, database, Stored

LEMMA CreatePaymentKeepsTypes ==
  ASSUME TypeInv, NEW r \in CreateRequests, CreatePayment(r), UNCHANGED verdict
  PROVE  TypeInv'
  <1> USE DEF TypeInv, SystemTypeOK, CreationTypeOK, Requests
  <1>1. PICK a \in CreatePayloads :
          /\ args' = [args EXCEPT ![r] = a]
          /\ \E l \in {"lock", "find", "done"} : pc' = [pc EXCEPT ![r] = l]
          /\ reply' = reply \/ reply' = [reply EXCEPT ![r] = "forbidden"]
          /\ UNCHANGED <<database, lock, draft>>
    BY DEF CreatePayment, Goto, Answer
  <1>2. a \in CreateArgs
    BY CreationAssumption
  <1>3. /\ args' = [q \in Requests |-> args'[q]] /\ args'[r] = a
        /\ \A q \in Requests \ {r} : args'[q] = args[q]
    BY <1>1 DEF StoreTypeOK
  <1>4. StoreTypeOK' /\ Stored' = Stored
    BY <1>1, <1>3 DEF StoreTypeOK, Labels, Codes, database, Stored
  <1>5. pc'[r] # "commit" /\ \A q \in Requests \ {r} : pc'[q] = pc[q]
    BY <1>1 DEF StoreTypeOK
  <1> QED
    BY <1>1, <1>2, <1>3, <1>4, <1>5, CreationFrame

\* The other steps of a creation request that leave the rows alone.
CreationMove(r) ==
  \/ RefuseMalformed(r) \/ FindExistingPayment(r) \/ GetAccount(r)
  \/ RecheckExistingPayment(r) \/ AddPayment(r) \/ AppendCreationEntry(r)
  \/ ReturnWinner(r) \/ CreationCallFails(r)

\* A draft that gets the balance that was read, or its steps, is a draft.
LEMMA DraftUpdates ==
  ASSUME draft \in [CreateRequests -> Draft], NEW r \in CreateRequests,
         NEW v \in Nat, NEW f \in Int, NEW s \in Seq(Step),
         \/ draft' = draft
         \/ draft' = [draft EXCEPT ![r].version = v, ![r].funds = f]
         \/ draft' = [draft EXCEPT ![r].steps = s]
  PROVE  /\ draft' \in [CreateRequests -> Draft]
         /\ \A q \in CreateRequests \ {r} : draft'[q] = draft[q]
  <1>1. CASE draft' = draft
    BY <1>1
  <1>2. CASE draft' = [draft EXCEPT ![r].version = v, ![r].funds = f]
    <2>1. draft'[r] = [draft[r] EXCEPT !.version = v, !.funds = f]
      BY <1>2
    <2>2. [draft[r] EXCEPT !.version = v, !.funds = f] \in Draft
      BY DEF Draft
    <2> QED
      BY <1>2, <2>1, <2>2
  <1>3. CASE draft' = [draft EXCEPT ![r].steps = s]
    BY <1>3 DEF Draft
  <1> QED
    BY <1>1, <1>2, <1>3

LEMMA CreationMoveKeepsTypes ==
  ASSUME TypeInv, NEW r \in CreateRequests, CreationMove(r), UNCHANGED verdict
  PROVE  TypeInv'
  <1> USE DEF TypeInv, SystemTypeOK, CreationTypeOK, Requests
  <1> USE DEF Goto, Answer, Leave
  <1>1. /\ Moves(r, Labels \ {"commit"}, Codes) /\ UNCHANGED <<database, lock, args>>
        /\ pc[r] = "idle" => \E c \in Codes : Answer(r, c)
    <2> USE DEF Moves, Labels, Codes
    <2>1. CASE RefuseMalformed(r) \/ FindExistingPayment(r)
      BY <2>1 DEF RefuseMalformed, FindExistingPayment, ExistingAnswer
    <2>4. CASE GetAccount(r)
      BY <2>4 DEF GetAccount
    <2>2. CASE RecheckExistingPayment(r) \/ AddPayment(r)
      BY <2>2 DEF RecheckExistingPayment, AddPayment, ExistingAnswer
    <2>3. CASE AppendCreationEntry(r) \/ ReturnWinner(r) \/ CreationCallFails(r)
      BY <2>3 DEF AppendCreationEntry, ReturnWinner, CreationCallFails, ExistingAnswer
    <2> QED
      BY <2>1, <2>2, <2>3, <2>4 DEF CreationMove
  <1>2. StoreTypeOK' /\ Stored' = Stored
        /\ \A q \in Requests \ {r} : pc'[q] = pc[q] /\ args'[q] = args[q]
    BY <1>1, MoveKeepsStoreTypes DEF Moves
  <1>3. pc'[r] # "commit" /\ args' = args /\ (pc[r] = "idle" => pc'[r] = "done")
    BY <1>1 DEF Moves, StoreTypeOK
  <1>4. pc[r] # "done"
    BY DEF CreationMove, RefuseMalformed, FindExistingPayment, GetAccount,
           RecheckExistingPayment, AddPayment, AppendCreationEntry, ReturnWinner,
           CreationCallFails
  <1>5. /\ draft' \in [CreateRequests -> Draft]
        /\ \A q \in CreateRequests \ {r} : draft'[q] = draft[q]
    <2>1. CASE GetAccount(r)
      <3>1. args[r].account \in Accounts
        BY <2>1 DEF GetAccount, InFlight, CreateArgs
      <3>2. version[args[r].account] \in Nat /\ balance[args[r].account] \in Int
        BY <3>1 DEF StoreTypeOK
      <3>3. InitialApprovalSteps(r) \in Seq(Step)
        BY InitialStepsAreSteps
      <3>4. PICK v \in Nat, f \in Int, s \in Seq(Step) :
              \/ draft' = draft
              \/ draft' = [draft EXCEPT ![r].version = v, ![r].funds = f]
              \/ draft' = [draft EXCEPT ![r].steps = s]
        BY <2>1, <3>2, <3>3 DEF GetAccount
      <3>5. draft \in [CreateRequests -> Draft]
        OBVIOUS
      <3> QED
        BY <3>4, <3>5, DraftUpdates
    <2>2. CASE AppendCreationEntry(r)
      <3>1. GetLatestSignature(TenantOf(r)) \in Nat
        BY LatestSignatureIsNat DEF StoreTypeOK
      <3> QED
        BY <2>2, <3>1 DEF AppendCreationEntry, Draft
    <2>3. CASE draft' = draft
      BY <2>3
    <2> QED
      BY <2>1, <2>2, <2>3 DEF CreationMove, RefuseMalformed, FindExistingPayment,
           RecheckExistingPayment, AddPayment, ReturnWinner, CreationCallFails
  <1>6. pc'[r] \notin {"idle", "done"} => args'[r] \in CreateArgs
    BY <1>3, <1>4 DEF InFlight
  <1> QED
    BY <1>2, <1>3, <1>5, <1>6, CreationFrame

\* The tenant's semaphore changes hands.
LEMMA LockKeepsStoreTypes ==
  ASSUME StoreTypeOK, NEW r \in Requests, NEW h \in Requests \cup {Free}, NEW l \in Labels,
         lock' = [lock EXCEPT ![InstanceOf(r)][TenantOf(r)] = h],
         pc' = [pc EXCEPT ![r] = l], UNCHANGED <<database, args, reply>>
  PROVE  /\ StoreTypeOK' /\ Stored' = Stored /\ pc'[r] = l
         /\ \A q \in Requests \ {r} : pc'[q] = pc[q] /\ args'[q] = args[q]
  BY DEF StoreTypeOK, database, Stored

LEMMA CreationLockKeepsTypes ==
  ASSUME TypeInv, NEW r \in CreateRequests, UNCHANGED verdict,
         EnterCreation(r) \/ (ReleaseTenantLock(r) /\ UNCHANGED draft)
  PROVE  TypeInv'
  <1> USE DEF TypeInv, SystemTypeOK, CreationTypeOK, Requests
  <1>1. PICK h \in Requests \cup {Free}, l \in {"recheck", "append", "done"} :
          /\ lock' = [lock EXCEPT ![InstanceOf(r)][TenantOf(r)] = h]
          /\ pc' = [pc EXCEPT ![r] = l] /\ pc[r] \in {"lock", "finally"}
          /\ UNCHANGED <<database, args, reply, draft>>
    BY DEF EnterCreation, AcquireTenantLock, ReleaseTenantLock, Goto
  <1>2. /\ StoreTypeOK' /\ Stored' = Stored /\ pc'[r] = l
        /\ \A q \in Requests \ {r} : pc'[q] = pc[q] /\ args'[q] = args[q]
    BY <1>1, LockKeepsStoreTypes DEF Labels
  <1>3. args'[r] \in CreateArgs
    BY <1>1 DEF InFlight
  <1> QED
    BY <1>1, <1>2, <1>3, CreationFrame

LEMMA SaveEntryKeepsTypes ==
  ASSUME TypeInv, NEW r \in CreateRequests, SaveCreationEntry(r), UNCHANGED verdict
  PROVE  TypeInv'
  <1> USE DEF TypeInv, SystemTypeOK, CreationTypeOK, Requests, SaveCreationEntry, Goto
  <1>1. nextEntry \in Nat \ {0}
    BY DEF StoreTypeOK
  <1>2. /\ draft' \in [CreateRequests -> Draft] /\ draft'[r].entry # 0
        /\ \A q \in CreateRequests \ {r} : draft'[q] = draft[q]
    BY <1>1 DEF Draft
  <1>3. StoreTypeOK' /\ Stored' = Stored
    BY <1>1 DEF StoreTypeOK, Labels, Stored
  <1>4. \A q \in Requests \ {r} : pc'[q] = pc[q] /\ args'[q] = args[q]
    BY DEF StoreTypeOK
  <1>5. args'[r] \in CreateArgs
    BY DEF InFlight
  <1> QED
    BY <1>2, <1>3, <1>4, <1>5, CreationFrame

\* What CompletePayment writes.
LEMMA CompletionTypes ==
  ASSUME StoreTypeOK, NEW p \in PaymentIds, NEW a \in Accounts, NEW n \in Amounts,
         NEW funds \in Int, CompletePayment(p, a, n, funds)
  PROVE  /\ balance' \in [Accounts -> Int] /\ version' \in [Accounts -> Nat]
         /\ booked' \in [PaymentIds -> Nat]
  <1>1. funds - n \in Int
    BY StoreAssumption
  <1> QED
    BY <1>1 DEF StoreTypeOK, CompletePayment

LEMMA DraftPaymentIsPayment ==
  ASSUME TypeInv, NEW r \in CreateRequests, args[r] \in CreateArgs
  PROVE  DraftPayment(r) \in Payment
  BY DEF TypeInv, SystemTypeOK, CreationTypeOK, DraftPayment, Payment, CreateArgs, Draft

LEMMA CreationEntryIsEntry ==
  ASSUME TypeInv, NEW r \in CreateRequests, pc[r] = "commit"
  PROVE  CreationEntry(r) \in AuditEntry
  <1> USE DEF TypeInv, SystemTypeOK, CreationTypeOK
  <1>1. args[r] \in CreateArgs
    BY DEF InFlight
  <1>2. TenantOf(r) \in Tenants /\ args[r].user \in Users
    BY <1>1, StoreAssumption DEF TenantOf, CreateArgs
  <1>3. draft[r].entry \in Nat \ {0} /\ draft[r].prev \in Nat
    BY DEF Carried, Draft
  <1>4. /\ CreationEntry(r).action \in AuditActions
        /\ CreationEntry(r).payment \in PaymentIds \cup {NoEntity}
    BY DEF CreationEntry, AuditActions, PaymentIds
  <1>5. \A i \in Nat \ {0}, p \in Nat, t \in Tenants, u \in Users,
           a \in AuditActions, x \in PaymentIds \cup {NoEntity} :
          [id |-> i, prev |-> p, tenant |-> t, user |-> u, action |-> a, payment |-> x]
            \in AuditEntry
    BY DEF AuditEntry
  <1>6. CreationEntry(r) = [id |-> draft[r].entry, prev |-> draft[r].prev,
                            tenant |-> TenantOf(r), user |-> args[r].user,
                            action |-> CreationEntry(r).action,
                            payment |-> CreationEntry(r).payment]
    BY DEF CreationEntry
  <1>7. args[r].user \in Users \cup {Nobody}
    BY <1>2
  <1> QED
    BY <1>2, <1>3, <1>4, <1>5, <1>6, <1>7

\* A commit, whether or not its answer arrives.
LEMMA CommitKeepsTypes ==
  ASSUME TypeInv, NEW r \in CreateRequests, UNCHANGED verdict,
         CommitCreation(r) \/ CommitAnswerLost(r)
  PROVE  TypeInv'
  <1> USE DEF TypeInv, SystemTypeOK, CreationTypeOK, Requests
  <1>1. /\ PersistCreation(r) /\ pc[r] = "commit" /\ UNCHANGED <<lock, args, draft>>
        /\ \E c \in Codes : Leave(r, c)
    BY DEF CommitCreation, CommitAnswerLost, Codes
  <1>2. args[r] \in CreateArgs
    BY <1>1 DEF InFlight
  <1>3. audit' \subseteq AuditEntry /\ nextEntry' \in Nat \ {0}
    BY <1>1, CreationEntryIsEntry DEF StoreTypeOK, PersistCreation
  <1>4. payment' \in [PaymentIds -> Payment \cup {NoPayment}] /\ Stored \subseteq Stored'
    <2>1. DraftPayment(r) \in Payment /\ DraftPayment(r) # NoPayment
      BY <1>2, DraftPaymentIsPayment, PaymentIsNotMissing
    <2> QED
      BY <1>1, <2>1 DEF StoreTypeOK, PersistCreation, Stored, PaymentIds
  <1>5. /\ balance' \in [Accounts -> Int] /\ version' \in [Accounts -> Nat]
        /\ booked' \in [PaymentIds -> Nat]
    <2>1. CASE args[r].iban = "valid" /\ Direct(r)
      <3>1. CompletePayment(r, args[r].account, args[r].amount, draft[r].funds)
        BY <1>1, <2>1 DEF PersistCreation
      <3>2. args[r].account \in Accounts /\ args[r].amount \in Amounts /\ draft[r].funds \in Int
        BY <1>2 DEF CreateArgs, Draft
      <3> QED
        BY <3>1, <3>2, CompletionTypes DEF PaymentIds
    <2>2. CASE ~(args[r].iban = "valid" /\ Direct(r))
      BY <1>1, <2>2 DEF PersistCreation, StoreTypeOK
    <2> QED
      BY <2>1, <2>2
  <1>6. StoreTypeOK' /\ pc'[r] = "finally" /\ \A q \in Requests \ {r} : pc'[q] = pc[q]
    BY <1>1, <1>3, <1>4, <1>5 DEF StoreTypeOK, Leave, Labels
  <1> QED
    BY <1>1, <1>2, <1>4, <1>6, CreationFrame

LEMMA CreationStepKeepsTypes ==
  ASSUME TypeInv, NEW r \in CreateRequests, UNCHANGED verdict,
         CreatePayment(r) \/ RefuseMalformed(r) \/ CreationStep(r)
  PROVE  TypeInv'
  BY CreatePaymentKeepsTypes, CreationMoveKeepsTypes, CreationLockKeepsTypes,
     SaveEntryKeepsTypes, CommitKeepsTypes DEF CreationStep, CreationMove

-----------------------------------------------------------------------------
(* Type correctness of the decisions                                       *)

LEMMA DecideKeepsTypes ==
  ASSUME TypeInv, NEW r \in DecideRequests, Decide(r), UNCHANGED draft
  PROVE  TypeInv'
  <1> USE DEF TypeInv, SystemTypeOK, DecisionTypeOK, Requests
  <1>1. PICK a \in DecisionPayloads :
          /\ args' = [args EXCEPT ![r] = a]
          /\ \E l \in {"lock", "done"} : pc' = [pc EXCEPT ![r] = l]
          /\ reply' = reply \/ reply' = [reply EXCEPT ![r] = "forbidden"]
          /\ UNCHANGED <<database, lock, verdict>>
    BY DEF Decide, Goto, Answer
  <1>2. a \in DecideArgs
    BY DecisionAssumption
  <1>3. /\ args' = [q \in Requests |-> args'[q]] /\ args'[r] = a
        /\ \A q \in Requests \ {r} : args'[q] = args[q]
    BY <1>1 DEF StoreTypeOK
  <1>4. StoreTypeOK' /\ Stored' = Stored
    BY <1>1, <1>3 DEF StoreTypeOK, Labels, Codes, database, Stored
  <1>5. pc'[r] \in {"lock", "done"} /\ \A q \in Requests \ {r} : pc'[q] = pc[q]
    BY <1>1 DEF StoreTypeOK
  <1> QED
    BY <1>1, <1>2, <1>3, <1>4, <1>5, DecisionFrame DEF DecisionLabels

LEMMA DecisionLockKeepsTypes ==
  ASSUME TypeInv, NEW r \in DecideRequests, UNCHANGED draft,
         EnterDecision(r) \/ (ReleaseTenantLock(r) /\ UNCHANGED verdict)
  PROVE  TypeInv'
  <1> USE DEF TypeInv, SystemTypeOK, DecisionTypeOK, Requests
  <1>1. PICK h \in Requests \cup {Free}, l \in {"load", "done"} :
          /\ lock' = [lock EXCEPT ![InstanceOf(r)][TenantOf(r)] = h]
          /\ pc' = [pc EXCEPT ![r] = l] /\ pc[r] \in {"lock", "finally"}
          /\ UNCHANGED <<database, args, reply, verdict>>
    BY DEF EnterDecision, AcquireTenantLock, ReleaseTenantLock, Goto
  <1>2. /\ StoreTypeOK' /\ Stored' = Stored /\ pc'[r] = l
        /\ \A q \in Requests \ {r} : pc'[q] = pc[q] /\ args'[q] = args[q]
    BY <1>1, LockKeepsStoreTypes DEF Labels
  <1>3. args'[r] \in DecideArgs
    BY <1>1 DEF InFlight
  <1> QED
    BY <1>1, <1>2, <1>3, DecisionFrame DEF DecisionLabels

\* A decision that goes on has found the step in a stored payment.
LEMMA FoundPaymentIsStored ==
  ASSUME NEW r, RefusalOf(r) = "none"
  PROVE  args[r].payment \in Stored /\ args[r].step \in DOMAIN StepsOf(r)
  BY DEF RefusalOf, StepFound

\* The steps of a decision request that leave the rows alone and end the try block.
DecisionEnds(r) == RefuseDecision(r) \/ SaveConflicts(r) \/ DecisionCallFails(r)

LEMMA DecisionEndsKeepTypes ==
  ASSUME TypeInv, NEW r \in DecideRequests, DecisionEnds(r), UNCHANGED draft
  PROVE  TypeInv'
  <1> USE DEF TypeInv, SystemTypeOK, DecisionTypeOK, Requests
  <1>1. /\ \E c \in Codes : Leave(r, c)
        /\ UNCHANGED <<database, lock, args, verdict>>
        /\ pc[r] \in {"load", "append", "save"}
    BY DEF DecisionEnds, RefuseDecision, RefusalOf, SaveConflicts, ReadyToSave,
           DecisionCallFails, Codes
  <1>2. Moves(r, {"finally"}, Codes)
    BY <1>1 DEF Moves, Leave
  <1>3. /\ StoreTypeOK' /\ Stored' = Stored /\ pc'[r] = "finally" /\ args'[r] = args[r]
        /\ \A q \in Requests \ {r} : pc'[q] = pc[q] /\ args'[q] = args[q]
    BY <1>1, <1>2, MoveKeepsStoreTypes DEF Moves, Labels, StoreTypeOK
  <1>4. args[r] \in DecideArgs
    BY <1>1 DEF InFlight
  <1> QED
    BY <1>1, <1>3, <1>4, DecisionFrame DEF DecisionLabels

\* A verdict that gets its action and what it tracks is a verdict.
LEMMA VerdictUpdates ==
  ASSUME verdict \in [DecideRequests -> Verdict], NEW r \in DecideRequests,
         NEW v \in Nat, NEW f \in Int, NEW extra \in Seq(Step), NEW c \in SUBSET Nat,
         \/ verdict' = [verdict EXCEPT ![r].action = "APPROVE_PAYMENT_STEP", ![r].extra = extra]
         \/ verdict' = [verdict EXCEPT ![r].action = "APPROVE_PAYMENT",
                                       ![r].version = v, ![r].funds = f]
         \/ verdict' = [verdict EXCEPT ![r].action = "REJECT_PAYMENT", ![r].closed = c]
  PROVE  /\ verdict' \in [DecideRequests -> Verdict]
         /\ verdict'[r].action \in {"APPROVE_PAYMENT_STEP", "APPROVE_PAYMENT", "REJECT_PAYMENT"}
         /\ \A q \in DecideRequests \ {r} : verdict'[q] = verdict[q]
  <1> DEFINE old == verdict[r]
             row(action, x, cl, w, g) == [action |-> action, extra |-> x, closed |-> cl,
                                          version |-> w, funds |-> g, prev |-> old.prev]
             actions == {"APPROVE_PAYMENT_STEP", "APPROVE_PAYMENT", "REJECT_PAYMENT"}
  <1>1. /\ old = [action |-> old.action, extra |-> old.extra, closed |-> old.closed,
                  version |-> old.version, funds |-> old.funds, prev |-> old.prev]
        /\ old.extra \in Seq(Step) /\ old.closed \in SUBSET Nat /\ old.version \in Nat
        /\ old.funds \in Int /\ old.prev \in Nat
    BY DEF Verdict
  <1>2. PICK new : /\ verdict' = [verdict EXCEPT ![r] = new]
                   /\ \/ new = row("APPROVE_PAYMENT_STEP", extra, old.closed, old.version, old.funds)
                      \/ new = row("APPROVE_PAYMENT", old.extra, old.closed, v, f)
                      \/ new = row("REJECT_PAYMENT", old.extra, c, old.version, old.funds)
    BY <1>1
  <1>3. \A a \in actions, x \in Seq(Step), cl \in SUBSET Nat, w \in Nat, g \in Int :
          row(a, x, cl, w, g) \in Verdict /\ row(a, x, cl, w, g).action \in actions
    BY <1>1 DEF Verdict, AuditActions
  <1> HIDE DEF row
  <1>4. new \in Verdict /\ new.action \in actions
    BY <1>1, <1>2, <1>3
  <1> QED
    BY <1>2, <1>4

LEMMA RulingKeepsTypes ==
  ASSUME TypeInv, NEW r \in DecideRequests, UNCHANGED draft,
         ApproveStep(r) \/ ApprovePayment(r) \/ RejectPayment(r)
  PROVE  TypeInv'
  <1> USE DEF TypeInv, SystemTypeOK, DecisionTypeOK, Requests
  <1>1. /\ Goto(r, "append") /\ UNCHANGED <<database, lock, args>>
        /\ pc[r] = "load" /\ RefusalOf(r) = "none"
    BY DEF ApproveStep, ApprovePayment, RejectPayment
  <1>2. args[r] \in DecideArgs
    BY <1>1 DEF InFlight
  <1>3. args[r].payment \in Stored
    BY <1>1, FoundPaymentIsStored
  <1>4. PaymentOf(r) \in Payment
    BY <1>3, StoredIsPayment DEF PaymentOf
  <1>5. /\ verdict' \in [DecideRequests -> Verdict]
        /\ verdict'[r].action \in {"APPROVE_PAYMENT_STEP", "APPROVE_PAYMENT", "REJECT_PAYMENT"}
        /\ \A q \in DecideRequests \ {r} : verdict'[q] = verdict[q]
    <2>0. verdict \in [DecideRequests -> Verdict] /\ 0 \in Nat /\ 0 \in Int
             /\ <<>> \in Seq(Step) /\ {} \in SUBSET Nat
      OBVIOUS
    <2>1. CASE ApproveStep(r)
      <3>1. PICK extra \in {<<>>, <<MissingApprovalStep(r)>>} :
              verdict' = [verdict EXCEPT ![r].action = "APPROVE_PAYMENT_STEP", ![r].extra = extra]
        BY <2>1 DEF ApproveStep
      <3>2. MissingApprovalStep(r) \in Step
        BY PendingStepIsStep DEF MissingApprovalStep
      <3>3. <<>> \in Seq(Step) /\ \A x \in Step : <<x>> \in Seq(Step)
        OBVIOUS
      <3>4. extra \in Seq(Step)
        BY <3>2, <3>3
      <3> QED
        BY <3>1, <3>4, <2>0, VerdictUpdates
    <2>2. CASE ApprovePayment(r)
      <3>1. version[PaymentOf(r).account] \in Nat /\ balance[PaymentOf(r).account] \in Int
        BY <1>4 DEF Payment, StoreTypeOK
      <3>2. PICK v \in Nat, f \in Int :
              verdict' = [verdict EXCEPT ![r].action = "APPROVE_PAYMENT",
                                         ![r].version = v, ![r].funds = f]
        BY <2>2, <3>1 DEF ApprovePayment
      <3> QED
        BY <3>2, <2>0, VerdictUpdates
    <2>3. CASE RejectPayment(r)
      <3>1. StepsOf(r) \in Seq(Step)
        BY <1>4 DEF StepsOf, Payment
      <3>2. StepsWith(StepsOf(r), "pending") \ {args[r].step} \in SUBSET Nat
        BY <3>1 DEF StepsWith
      <3>3. PICK c \in SUBSET Nat :
              verdict' = [verdict EXCEPT ![r].action = "REJECT_PAYMENT", ![r].closed = c]
        BY <2>3, <3>2 DEF RejectPayment
      <3> QED
        BY <3>3, <2>0, VerdictUpdates
    <2> QED
      BY <2>1, <2>2, <2>3
  <1>6. /\ StoreTypeOK' /\ Stored' = Stored /\ pc'[r] = "append" /\ args'[r] = args[r]
        /\ \A q \in Requests \ {r} : pc'[q] = pc[q] /\ args'[q] = args[q]
    BY <1>1, MoveKeepsStoreTypes DEF Moves, Goto, Labels, StoreTypeOK
  <1> QED
    BY <1>2, <1>3, <1>5, <1>6, DecisionFrame DEF DecisionLabels

LEMMA AppendDecisionKeepsTypes ==
  ASSUME TypeInv, NEW r \in DecideRequests, AppendDecisionEntry(r), UNCHANGED draft
  PROVE  TypeInv'
  <1> USE DEF TypeInv, SystemTypeOK, DecisionTypeOK, Requests, AppendDecisionEntry
  <1>1. GetLatestSignature(PaymentTenant(r)) \in Nat
    BY LatestSignatureIsNat DEF StoreTypeOK
  <1>2. /\ verdict' \in [DecideRequests -> Verdict]
        /\ verdict'[r].action = verdict[r].action
        /\ \A q \in DecideRequests \ {r} : verdict'[q] = verdict[q]
    BY <1>1 DEF Verdict
  <1>3. /\ StoreTypeOK' /\ Stored' = Stored /\ pc'[r] = "save" /\ args'[r] = args[r]
        /\ \A q \in Requests \ {r} : pc'[q] = pc[q] /\ args'[q] = args[q]
    BY MoveKeepsStoreTypes DEF Moves, Goto, Labels, StoreTypeOK
  <1>4. args[r] \in DecideArgs
    BY DEF InFlight
  <1> QED
    BY <1>2, <1>3, <1>4, DecisionFrame DEF DecisionLabels, Carried

\* The steps that are saved are steps.
LEMMA SavedStepsAreSteps ==
  ASSUME TypeInv, NEW r \in DecideRequests, pc[r] = "save"
  PROVE  SavedSteps(r) \in Seq(Step)
  <1> USE DEF TypeInv, SystemTypeOK, DecisionTypeOK
  <1>1. args[r].user \in Users /\ args[r].payment \in Stored
    BY DEF InFlight, DecideArgs, Carried
  <1>2. StepsOf(r) \in Seq(Step)
    BY <1>1, StoredIsPayment DEF StepsOf, PaymentOf, Payment
  <1>3. verdict[r].extra \in Seq(Step)
    BY DEF Verdict
  <1> DEFINE decided == IF verdict[r].action = "REJECT_PAYMENT" THEN "rejected" ELSE "approved"
             After(i) ==
               IF i = args[r].step THEN DecidedStep(StepsOf(r)[i], decided, args[r].user, "manual")
               ELSE IF i \in verdict[r].closed
               THEN DecidedStep(StepsOf(r)[i], "rejected", Nobody, "payment_rejected")
               ELSE StepsOf(r)[i]
             body == [i \in DOMAIN StepsOf(r) |-> After(i)]
  <1>4. \A i \in DOMAIN StepsOf(r) : After(i) \in Step
    <2> SUFFICES ASSUME NEW i \in DOMAIN StepsOf(r) PROVE After(i) \in Step
      OBVIOUS
    <2>1. StepsOf(r)[i] \in Step
      BY <1>2
    <2> QED
      BY <1>1, <2>1 DEF DecidedStep, Step
  <1>5. DOMAIN StepsOf(r) = 1..Len(StepsOf(r)) /\ Len(StepsOf(r)) \in Nat
    BY <1>2
  <1>6. SavedSteps(r) = body \o verdict[r].extra
    BY DEF SavedSteps
  <1> HIDE DEF After
  <1>7. body \in Seq(Step)
    BY <1>4, <1>5
  <1> QED
    BY <1>3, <1>6, <1>7, ConcatProperties

\* A save, whether or not its answer arrives.
LEMMA SaveKeepsTypes ==
  ASSUME TypeInv, NEW r \in DecideRequests, UNCHANGED draft,
         SaveDecision(r) \/ SaveAnswerLost(r)
  PROVE  TypeInv'
  <1> USE DEF TypeInv, SystemTypeOK, DecisionTypeOK, Requests
  <1> DEFINE p == args[r].payment
  <1>1. /\ PersistDecision(r) /\ pc[r] = "save" /\ UNCHANGED <<lock, args, verdict>>
        /\ \E c \in Codes : Leave(r, c)
    BY DEF SaveDecision, SaveAnswerLost, ReadyToSave, Codes
  <1>2. args[r] \in DecideArgs /\ p \in Stored /\ p \in PaymentIds
    BY <1>1 DEF InFlight, DecideArgs, Carried
  <1>3. PaymentOf(r) \in Payment
    BY <1>2, StoredIsPayment DEF PaymentOf
  <1>4. /\ payment' = [payment EXCEPT ![p] = [PaymentOf(r) EXCEPT !.steps = SavedSteps(r),
                                                               !.status = SavedStatus(r)]]
    BY <1>1, <1>2 DEF PersistDecision, PaymentOf, StoreTypeOK
  <1>5. [PaymentOf(r) EXCEPT !.steps = SavedSteps(r), !.status = SavedStatus(r)] \in Payment
    BY <1>1, <1>3, SavedStepsAreSteps DEF Payment, SavedStatus
  <1>6. payment' \in [PaymentIds -> Payment \cup {NoPayment}] /\ Stored \subseteq Stored'
    BY <1>2, <1>4, <1>5, PaymentIsNotMissing DEF StoreTypeOK, Stored
  <1>7. DecisionEntry(r) \in AuditEntry
    <2>1. PaymentTenant(r) \in Tenants
      BY <1>3, StoreAssumption DEF PaymentTenant, Payment
    <2>2. nextEntry \in Nat \ {0} /\ verdict[r].prev \in Nat /\ args[r].user \in Users
      BY <1>2 DEF StoreTypeOK, Verdict, DecideArgs
    <2> QED
      BY <1>1, <1>2, <2>1, <2>2 DEF DecisionEntry, AuditEntry, AuditActions, Carried
  <1>8. audit' \subseteq AuditEntry /\ nextEntry' \in Nat \ {0}
    BY <1>1, <1>7 DEF PersistDecision, StoreTypeOK
  <1>9. /\ balance' \in [Accounts -> Int] /\ version' \in [Accounts -> Nat]
        /\ booked' \in [PaymentIds -> Nat]
    <2>1. CASE Completes(r)
      <3>1. CompletePayment(p, PaymentOf(r).account, PaymentOf(r).amount, verdict[r].funds)
        BY <1>1, <2>1 DEF PersistDecision
      <3>2. verdict[r].funds \in Int
        BY DEF Verdict
      <3> QED
        BY <1>2, <1>3, <3>1, <3>2, CompletionTypes DEF Payment
    <2>2. CASE ~Completes(r)
      BY <1>1, <2>2 DEF PersistDecision, StoreTypeOK
    <2> QED
      BY <2>1, <2>2
  <1>10. StoreTypeOK' /\ pc'[r] = "finally" /\ \A q \in Requests \ {r} : pc'[q] = pc[q]
    BY <1>1, <1>6, <1>8, <1>9 DEF StoreTypeOK, Leave, Labels
  <1> QED
    BY <1>1, <1>2, <1>6, <1>10, DecisionFrame DEF DecisionLabels

LEMMA DecisionStepKeepsTypes ==
  ASSUME TypeInv, NEW r \in DecideRequests, UNCHANGED draft,
         Decide(r) \/ DecisionStep(r)
  PROVE  TypeInv'
  BY DecideKeepsTypes, DecisionLockKeepsTypes, DecisionEndsKeepTypes, RulingKeepsTypes,
     AppendDecisionKeepsTypes, SaveKeepsTypes DEF DecisionStep, DecisionEnds

-----------------------------------------------------------------------------
(* Type correctness of the system                                          *)

LEMMA RestartKeepsTypes ==
  ASSUME TypeInv, NEW i \in Instances, Restart(i), UNCHANGED <<draft, verdict>>
  PROVE  TypeInv'
  <1> USE DEF TypeInv, SystemTypeOK, Requests
  <1>1. \A q \in Requests : pc'[q] \in {pc[q], "done"} /\ reply'[q] \in {reply[q], "lost"}
    BY DEF Restart
  <1>2. StoreTypeOK' /\ Stored' = Stored
    BY DEF Restart, CreationTypeOK, StoreTypeOK, Labels, Codes, database, Stored
  <1>3. CreationTypeOK' /\ args' = args
    BY <1>1, <1>2 DEF Restart, CreationTypeOK, InFlight
  <1>4. DecisionTypeOK'
    BY <1>1, <1>2, <1>3 DEF DecisionTypeOK, DecisionLabels, InFlight
  <1>5. Carried'
    BY <1>1, <1>2, <1>3 DEF Carried
  <1> QED
    BY <1>3, <1>4, <1>5

LEMMA TypeNext == TypeInv /\ [SystemNext]_systemVars => TypeInv'
  <1>1. CASE UNCHANGED systemVars
    BY <1>1 DEF systemVars, storeVars, database, TypeInv, SystemTypeOK, CreationTypeOK,
                DecisionTypeOK, StoreTypeOK, Carried, InFlight, Stored
  <1>2. CASE SystemNext
    BY <1>2, CreationStepKeepsTypes, DecisionStepKeepsTypes, RestartKeepsTypes DEF SystemNext
  <1> QED
    BY <1>1, <1>2

\* Every row, semaphore and request of the portal keeps its type, for any number of
\* users, requests and processes: whatever was read, tracked or handed to a save fits
\* the columns of infra/seed.sql it is written to.
THEOREM SystemTypeCorrect == SystemSpec => []SystemTypeOK
  <1>1. TypeInv => SystemTypeOK
    BY DEF TypeInv
  <1> QED
    BY TypeInit, TypeNext, <1>1, PTL DEF SystemSpec

-----------------------------------------------------------------------------
(* One payment per idempotency key                                         *)

SameKey(p, q) == payment[p].creator = args[q].user /\ payment[p].key = args[q].key

\* An open transaction has the key of its request for itself: no stored payment and no
\* other open transaction uses it.  The recheck under the lock does not establish this
\* for several processes; the unique index does, by refusing and by making r wait.
KeysReserved ==
  /\ \A q \in CreateRequests : OpenTransaction(q) => \A p \in Stored : ~SameKey(p, q)
  /\ \A q, r \in CreateRequests :
       /\ OpenTransaction(q) /\ OpenTransaction(r)
       /\ args[q].user = args[r].user /\ args[q].key = args[r].key
       => q = r

KeyInv == OnePaymentPerKey /\ KeysReserved

LEMMA KeyInit == SystemInit => KeyInv
  <1> SUFFICES ASSUME SystemInit PROVE KeyInv
    OBVIOUS
  <1>1. \A p \in Stored : p \in LegacyPayments /\ payment[p] = Legacy[p]
    BY DEF SystemInit, StoreInit, Stored
  <1>2. OnePaymentPerKey
    BY <1>1, SeedAssumption DEF OnePaymentPerKey
  <1>3. \A q \in CreateRequests : ~OpenTransaction(q)
    BY DEF SystemInit, StoreInit, OpenTransaction, Requests
  <1> QED
    BY <1>2, <1>3 DEF KeyInv, KeysReserved

\* No payment is stored, and no transaction is opened.
QuietForKeys ==
  /\ Stored' = Stored
  /\ \A p \in Stored : payment'[p].creator = payment[p].creator /\ payment'[p].key = payment[p].key
  /\ \A q \in CreateRequests : OpenTransaction(q)' => OpenTransaction(q) /\ args'[q] = args[q]

LEMMA QuietKeepsKeys == KeyInv /\ QuietForKeys => KeyInv'
  <1> SUFFICES ASSUME KeyInv, QuietForKeys PROVE KeyInv'
    OBVIOUS
  <1>1. OnePaymentPerKey'
    BY DEF KeyInv, OnePaymentPerKey, QuietForKeys
  <1>2. KeysReserved'
    BY DEF KeyInv, KeysReserved, SameKey, QuietForKeys
  <1> QED
    BY <1>1, <1>2 DEF KeyInv

\* Every step of a creation request but the insert and the commit.
LEMMA CreationQuietForKeys ==
  ASSUME TypeInv, NEW r \in CreateRequests,
         \/ CreatePayment(r) \/ RefuseMalformed(r) \/ FindExistingPayment(r) \/ GetAccount(r)
         \/ EnterCreation(r) \/ RecheckExistingPayment(r) \/ AppendCreationEntry(r)
         \/ SaveCreationEntry(r) \/ ReturnWinner(r) \/ CreationCallFails(r)
         \/ ReleaseTenantLock(r)
  PROVE  QuietForKeys
  <1>1. payment' = payment
    BY DEF CreatePayment, RefuseMalformed, FindExistingPayment, GetAccount, EnterCreation,
           RecheckExistingPayment, AppendCreationEntry, SaveCreationEntry, ReturnWinner,
           CreationCallFails, ReleaseTenantLock, AcquireTenantLock, database
  <1>2. \A q \in CreateRequests \ {r} : pc'[q] = pc[q] /\ args'[q] = args[q]
    BY DEF TypeInv, SystemTypeOK, CreationTypeOK, StoreTypeOK, Requests, Goto, Answer, Leave,
           CreatePayment, RefuseMalformed, FindExistingPayment, GetAccount, EnterCreation,
           RecheckExistingPayment, AppendCreationEntry, SaveCreationEntry, ReturnWinner,
           CreationCallFails, ReleaseTenantLock, AcquireTenantLock
  <1>3. OpenTransaction(r)' => OpenTransaction(r) /\ args'[r] = args[r]
    BY DEF OpenTransaction, TypeInv, SystemTypeOK, CreationTypeOK, StoreTypeOK, Requests,
           Goto, Answer, Leave,
           CreatePayment, RefuseMalformed, FindExistingPayment, GetAccount, EnterCreation,
           RecheckExistingPayment, AppendCreationEntry, SaveCreationEntry, ReturnWinner,
           CreationCallFails, ReleaseTenantLock, AcquireTenantLock
  <1> QED
    BY <1>1, <1>2, <1>3 DEF QuietForKeys, Stored, OpenTransaction

\* Every step of a decision request: payments keep their creators and keys.
LEMMA DecisionQuietForKeys ==
  ASSUME TypeInv, NEW r \in DecideRequests, Decide(r) \/ DecisionStep(r)
  PROVE  QuietForKeys
  <1> USE DEF TypeInv, SystemTypeOK, DecisionTypeOK, StoreTypeOK, Requests
  <1>1. \A q \in CreateRequests : q # r /\ pc'[q] = pc[q] /\ args'[q] = args[q]
    BY StoreAssumption DEF Goto, Answer, Leave, Decide, DecisionStep, EnterDecision,
           AcquireTenantLock, RefuseDecision, ApproveStep, ApprovePayment, RejectPayment,
           AppendDecisionEntry, SaveDecision, SaveConflicts, DecisionCallFails,
           SaveAnswerLost, ReleaseTenantLock
  <1>2. CASE SaveDecision(r) \/ SaveAnswerLost(r)
    <2> DEFINE p == args[r].payment
    <2>1. PersistDecision(r) /\ pc[r] = "save"
      BY <1>2 DEF SaveDecision, SaveAnswerLost, ReadyToSave
    <2>2. p \in Stored
      BY <2>1 DEF Carried
    <2>3. PaymentOf(r) \in Payment
      BY <2>2 DEF PaymentOf, Stored
    <2>4. payment' = [payment EXCEPT ![p] = [PaymentOf(r) EXCEPT !.steps = SavedSteps(r),
                                                             !.status = SavedStatus(r)]]
      BY <2>1, <2>2 DEF PersistDecision, PaymentOf, Stored
    <2>5. [PaymentOf(r) EXCEPT !.steps = SavedSteps(r), !.status = SavedStatus(r)] \in Payment
      BY <2>1, <2>3, SavedStepsAreSteps DEF Payment, SavedStatus
    <2>6. /\ payment'[p].creator = payment[p].creator /\ payment'[p].key = payment[p].key
          /\ payment'[p] # NoPayment
          /\ \A x \in PaymentIds \ {p} : payment'[x] = payment[x]
      BY <2>2, <2>3, <2>4, <2>5, PaymentIsNotMissing DEF Payment, PaymentOf, Stored
    <2> QED
      BY <1>1, <2>2, <2>6 DEF QuietForKeys, Stored, OpenTransaction
  <1>3. CASE payment' = payment
    BY <1>1, <1>3 DEF QuietForKeys, Stored, OpenTransaction
  <1> QED
    BY <1>2, <1>3 DEF Decide, DecisionStep, EnterDecision, AcquireTenantLock, RefuseDecision,
           ApproveStep, ApprovePayment, RejectPayment, AppendDecisionEntry, SaveConflicts,
           DecisionCallFails, ReleaseTenantLock, database

\* The insert: the index refuses a key that is stored and waits for one that is inserted.
LEMMA InsertKeepsKeys ==
  ASSUME TypeInv, KeyInv, NEW r \in CreateRequests, AddPayment(r)
  PROVE  KeyInv'
  <1> USE DEF TypeInv, SystemTypeOK, CreationTypeOK, StoreTypeOK, Requests, AddPayment, Goto, Leave
  <1>1. /\ payment' = payment /\ args' = args /\ Stored' = Stored
        /\ \A q \in CreateRequests \ {r} : pc'[q] = pc[q]
    BY DEF database, Stored
  <1>2. OpenTransaction(r)' => ExistingPayments(r) = {} /\ pc[r] = "insert"
    BY DEF OpenTransaction, IdempotencyKeyViolation
  <1>3. \A q \in CreateRequests :
          OpenTransaction(q) => ~(args[q].user = args[r].user /\ args[q].key = args[r].key)
    BY DEF WaitsForRow
  <1>4. OnePaymentPerKey'
    BY <1>1 DEF KeyInv, OnePaymentPerKey
  <1>5. \A q \in CreateRequests : OpenTransaction(q)' => q = r \/ OpenTransaction(q)
    BY <1>1 DEF OpenTransaction
  <1>6. KeysReserved'
    BY <1>1, <1>2, <1>3, <1>5 DEF KeyInv, KeysReserved, SameKey, ExistingPayments
  <1> QED
    BY <1>4, <1>6 DEF KeyInv

\* The commit: the payment takes the key that was reserved for it.
LEMMA CommitKeepsKeys ==
  ASSUME TypeInv, KeyInv, NEW r \in CreateRequests, CommitCreation(r) \/ CommitAnswerLost(r)
  PROVE  KeyInv'
  <1> USE DEF TypeInv, SystemTypeOK, CreationTypeOK, StoreTypeOK, Requests
  <1>1. /\ PersistCreation(r) /\ pc[r] = "commit" /\ args' = args
        /\ pc' = [pc EXCEPT ![r] = "finally"]
    BY DEF CommitCreation, CommitAnswerLost, Leave
  <1>2. CASE args[r].iban # "valid"
    <2>1. payment' = payment
      BY <1>1, <1>2 DEF PersistCreation
    <2> QED
      BY <1>1, <2>1, QuietKeepsKeys DEF QuietForKeys, Stored, OpenTransaction
  <1>3. CASE args[r].iban = "valid"
    <2>1. payment' = [payment EXCEPT ![r] = DraftPayment(r)] /\ r \in PaymentIds
      BY <1>1, <1>3 DEF PersistCreation, PaymentIds
    <2>2. /\ payment'[r].creator = args[r].user /\ payment'[r].key = args[r].key
          /\ \A p \in PaymentIds \ {r} : payment'[p] = payment[p]
          /\ Stored' \subseteq Stored \cup {r}
      BY <2>1 DEF DraftPayment, Stored
    <2>3. OpenTransaction(r)
      BY <1>1, <1>3 DEF OpenTransaction
    <2>4. \A q \in CreateRequests : OpenTransaction(q)' => q # r /\ OpenTransaction(q)
      BY <1>1 DEF OpenTransaction
    <2>5. OnePaymentPerKey'
      BY <2>2, <2>3 DEF KeyInv, KeysReserved, SameKey, OnePaymentPerKey, Stored
    <2>6. KeysReserved'
      BY <1>1, <2>2, <2>3, <2>4 DEF KeyInv, KeysReserved, SameKey, Stored
    <2> QED
      BY <2>5, <2>6 DEF KeyInv
  <1> QED
    BY <1>2, <1>3

LEMMA KeyNext == TypeInv /\ KeyInv /\ [SystemNext]_systemVars => KeyInv'
  <1> SUFFICES ASSUME TypeInv, KeyInv, [SystemNext]_systemVars PROVE KeyInv'
    OBVIOUS
  <1>1. CASE UNCHANGED systemVars
    BY <1>1, QuietKeepsKeys
       DEF systemVars, storeVars, database, QuietForKeys, Stored, OpenTransaction
  <1>2. ASSUME NEW r \in CreateRequests, CreatePayment(r) \/ RefuseMalformed(r) \/ CreationStep(r)
        PROVE  KeyInv'
    BY <1>2, CreationQuietForKeys, QuietKeepsKeys, InsertKeepsKeys, CommitKeepsKeys
       DEF CreationStep
  <1>3. ASSUME NEW r \in DecideRequests, Decide(r) \/ DecisionStep(r)
        PROVE  KeyInv'
    BY <1>3, DecisionQuietForKeys, QuietKeepsKeys
  <1>4. ASSUME NEW i \in Instances, Restart(i)
        PROVE  KeyInv'
    <2>1. \A q \in Requests : pc'[q] \in {pc[q], "done"}
      BY <1>4 DEF Restart
    <2> QED
      BY <1>4, <2>1, QuietKeepsKeys
         DEF Restart, QuietForKeys, Stored, OpenTransaction, database, Requests
  <1> QED
    BY <1>1, <1>2, <1>3, <1>4 DEF SystemNext

\* However many retries of a payment run on however many processes, a creator gets at most
\* one payment for a key (CreatePaymentAsync and ux_payments_tenant_creator_idempotency).
THEOREM PaymentsUniquePerKey == SystemSpec => []OnePaymentPerKey
  <1>1. TypeInv /\ KeyInv => OnePaymentPerKey
    BY DEF KeyInv
  <1> QED
    BY TypeInit, TypeNext, KeyInit, KeyNext, <1>1, PTL DEF SystemSpec

-----------------------------------------------------------------------------
(* The money                                                               *)

\* A creation request has a completed payment in memory, with the balance it read.
Tracks(q) ==
  /\ pc[q] \in {"lock", "recheck", "insert", "append", "log", "commit"}
  /\ args[q].iban = "valid" /\ Direct(q)

\* A decision request has completed its payment in memory.
Rules(d) == pc[d] \in {"append", "save"} /\ Completes(d)

\* A balance that was read is the balance of now unless the version has moved on.
Fresh(a, v, funds) == v <= version[a] /\ (v = version[a] => funds = balance[a])

NotYetStored ==
  \A q \in CreateRequests : pc[q] \notin {"finally", "done"} => q \notin Stored

DraftsFresh ==
  \A q \in CreateRequests : Tracks(q) =>
    /\ CanComplete(args[q].amount, draft[q].funds)
    /\ Fresh(args[q].account, draft[q].version, draft[q].funds)

\* Inserting the payment has checked the version and locked the account row.
RowsReserved ==
  /\ \A q \in CreateRequests : Tracks(q) /\ OpenTransaction(q) =>
       draft[q].version = version[args[q].account]
  /\ \A q, r \in CreateRequests :
       /\ Tracks(q) /\ OpenTransaction(q) /\ Tracks(r) /\ OpenTransaction(r)
       /\ args[q].account = args[r].account
       => q = r

VerdictFresh(d) ==
  /\ CanComplete(PaymentOf(d).amount, verdict[d].funds)
  /\ Fresh(PaymentOf(d).account, verdict[d].version, verdict[d].funds)
  /\ verdict[d].version = version[PaymentOf(d).account] => PaymentOf(d).status # "completed"

VerdictsFresh == \A d \in DecideRequests : Rules(d) => VerdictFresh(d)

MoneyInv == NoOverdraft /\ NotYetStored /\ DraftsFresh /\ RowsReserved /\ VerdictsFresh

LEMMA MoneyInit == SystemInit => MoneyInv
  <1> SUFFICES ASSUME SystemInit PROVE MoneyInv
    OBVIOUS
  <1> USE DEF SystemInit, StoreInit, Requests
  <1>1. NoOverdraft
    BY StoreAssumption DEF NoOverdraft
  <1>2. NotYetStored
    BY StoreAssumption DEF NotYetStored, Stored, Requests
  <1> QED
    BY <1>1, <1>2 DEF MoneyInv, DraftsFresh, RowsReserved, VerdictsFresh, VerdictFresh, Tracks, Rules

-----------------------------------------------------------------------------
(* Steps that move no money                                                *)

\* No balance is written, no completion is prepared and no row is locked.
QuietForMoney ==
  /\ UNCHANGED <<balance, version>>
  /\ \A p \in Stored :
       payment'[p].account = payment[p].account /\ payment'[p].amount = payment[p].amount
  /\ \A p \in PaymentIds :
       payment'[p].status = "completed" => payment[p].status = "completed"
  /\ \A q \in CreateRequests :
       /\ q \in Stored' => q \in Stored \/ pc'[q] \in {"finally", "done"}
       /\ pc[q] \in {"finally", "done"} => pc'[q] \in {"finally", "done"}
       /\ Tracks(q)' => /\ Tracks(q) /\ args'[q] = args[q]
                        /\ draft'[q].version = draft[q].version
                        /\ draft'[q].funds = draft[q].funds
       /\ OpenTransaction(q)' => OpenTransaction(q)
  /\ \A d \in DecideRequests :
       Rules(d)' => /\ Rules(d) /\ args'[d] = args[d]
                    /\ verdict'[d].version = verdict[d].version
                    /\ verdict'[d].funds = verdict[d].funds

LEMMA QuietKeepsMoney ==
  ASSUME TypeInv, MoneyInv, QuietForMoney
  PROVE  MoneyInv'
  <1> USE DEF MoneyInv, QuietForMoney
  <1>1. NoOverdraft'
    BY DEF NoOverdraft
  <1>2. NotYetStored'
    BY DEF NotYetStored
  <1>3. DraftsFresh'
    BY DEF DraftsFresh, Fresh
  <1>4. RowsReserved'
    BY DEF RowsReserved
  <1>5. \A d \in DecideRequests :
          Rules(d) => args[d].payment \in Stored /\ args[d].payment \in PaymentIds
    BY DEF TypeInv, Carried, Rules, Stored
  <1>6. VerdictsFresh'
    BY <1>5 DEF VerdictsFresh, VerdictFresh, Fresh, PaymentOf
  <1> QED
    BY <1>1, <1>2, <1>3, <1>4, <1>6

LEMMA CreationQuietForMoney ==
  ASSUME TypeInv, NEW r \in CreateRequests, UNCHANGED verdict,
         \/ CreatePayment(r) \/ RefuseMalformed(r) \/ FindExistingPayment(r)
         \/ EnterCreation(r) \/ RecheckExistingPayment(r) \/ AppendCreationEntry(r)
         \/ SaveCreationEntry(r) \/ ReturnWinner(r) \/ CreationCallFails(r)
         \/ (ReleaseTenantLock(r) /\ UNCHANGED draft)
  PROVE  QuietForMoney
  <1> USE DEF Goto, Answer, Leave, AcquireTenantLock, CreatePayment, RefuseMalformed,
              FindExistingPayment, EnterCreation, RecheckExistingPayment, AppendCreationEntry,
              SaveCreationEntry, ReturnWinner, CreationCallFails, ReleaseTenantLock
  <1> USE DEF TypeInv, SystemTypeOK, CreationTypeOK, DecisionTypeOK, StoreTypeOK, Requests
  <1>1. UNCHANGED <<balance, version, payment>>
    BY DEF database
  <1>2. \A q \in Requests \ {r} : pc'[q] = pc[q] /\ args'[q] = args[q]
    OBVIOUS
  <1>3. \A q \in CreateRequests \ {r} : draft'[q] = draft[q]
    OBVIOUS
  <1>4. /\ Tracks(r)' => /\ Tracks(r) /\ args'[r] = args[r]
                         /\ draft'[r].version = draft[r].version
                         /\ draft'[r].funds = draft[r].funds
        /\ OpenTransaction(r)' => OpenTransaction(r)
        /\ pc[r] \in {"finally", "done"} => pc'[r] \in {"finally", "done"}
    BY DEF Tracks, OpenTransaction, Draft, Direct
  <1>5. \A d \in DecideRequests : d \in Requests \ {r}
    BY StoreAssumption
  <1>6. \A q \in CreateRequests :
          /\ q \in Stored' => q \in Stored \/ pc'[q] \in {"finally", "done"}
          /\ pc[q] \in {"finally", "done"} => pc'[q] \in {"finally", "done"}
          /\ Tracks(q)' => /\ Tracks(q) /\ args'[q] = args[q]
                           /\ draft'[q].version = draft[q].version
                           /\ draft'[q].funds = draft[q].funds
          /\ OpenTransaction(q)' => OpenTransaction(q)
    <2> SUFFICES ASSUME NEW q \in CreateRequests, q # r
                 PROVE  /\ q \in Stored' => q \in Stored
                        /\ pc[q] \in {"finally", "done"} => pc'[q] \in {"finally", "done"}
                        /\ Tracks(q)' => Tracks(q)
                        /\ OpenTransaction(q)' => OpenTransaction(q)
                        /\ args'[q] = args[q] /\ draft'[q] = draft[q]
      BY <1>1, <1>4 DEF Stored
    <2> HIDE DEF Goto, Answer, Leave, AcquireTenantLock, CreatePayment, RefuseMalformed,
              FindExistingPayment, EnterCreation, RecheckExistingPayment, AppendCreationEntry,
              SaveCreationEntry, ReturnWinner, CreationCallFails, ReleaseTenantLock
    <2> QED
      BY <1>1, <1>2, <1>3 DEF Tracks, OpenTransaction, Direct, Stored
  <1>7. \A d \in DecideRequests : Rules(d)' => Rules(d) /\ args'[d] = args[d]
    BY <1>2, <1>5 DEF Rules, Completes
  <1> HIDE DEF Goto, Answer, Leave, AcquireTenantLock, CreatePayment, RefuseMalformed,
              FindExistingPayment, EnterCreation, RecheckExistingPayment, AppendCreationEntry,
              SaveCreationEntry, ReturnWinner, CreationCallFails, ReleaseTenantLock
  <1> QED
    BY <1>1, <1>6, <1>7 DEF QuietForMoney

\* Decisions that complete nothing: all but ApprovePayment and a save of its result.
LEMMA DecisionQuietForMoney ==
  ASSUME TypeInv, NEW r \in DecideRequests, UNCHANGED draft,
         \/ Decide(r) \/ EnterDecision(r) \/ RefuseDecision(r) \/ ApproveStep(r)
         \/ RejectPayment(r) \/ AppendDecisionEntry(r) \/ SaveConflicts(r)
         \/ DecisionCallFails(r) \/ (ReleaseTenantLock(r) /\ UNCHANGED verdict)
  PROVE  QuietForMoney
  <1> USE DEF Goto, Answer, Leave, AcquireTenantLock, Decide, EnterDecision, RefuseDecision,
              ApproveStep, RejectPayment, AppendDecisionEntry, SaveConflicts, ReadyToSave,
              DecisionCallFails, ReleaseTenantLock
  <1> USE DEF TypeInv, SystemTypeOK, DecisionTypeOK, StoreTypeOK, Requests
  <1>1. UNCHANGED <<balance, version, payment>>
    BY DEF database
  <1>2. \A q \in Requests \ {r} : pc'[q] = pc[q] /\ args'[q] = args[q]
    OBVIOUS
  <1>3. \A d \in DecideRequests \ {r} : verdict'[d] = verdict[d]
    OBVIOUS
  <1>4. Rules(r)' => /\ Rules(r) /\ args'[r] = args[r]
                     /\ verdict'[r].version = verdict[r].version
                     /\ verdict'[r].funds = verdict[r].funds
    BY DEF Rules, Completes, Verdict
  <1>5. \A q \in CreateRequests : q \in Requests \ {r}
    BY StoreAssumption
  <1> QED
    BY <1>1, <1>2, <1>3, <1>4, <1>5
       DEF QuietForMoney, Tracks, OpenTransaction, Direct, Rules, Completes, Stored

\* The rows of a payment after a decision about it was saved.
LEMMA SavedPayment ==
  ASSUME TypeInv, NEW r \in DecideRequests, pc[r] = "save", PersistDecision(r)
  PROVE  LET p == args[r].payment
         IN  /\ p \in Stored /\ payment[p] \in Payment
             /\ payment'[p].account = payment[p].account
             /\ payment'[p].amount = payment[p].amount
             /\ payment'[p].status = SavedStatus(r)
             /\ \A x \in PaymentIds \ {p} : payment'[x] = payment[x]
             /\ Stored' = Stored
  <1> USE DEF TypeInv, SystemTypeOK, DecisionTypeOK, StoreTypeOK
  <1> DEFINE p == args[r].payment
  <1>1. p \in Stored
    BY DEF Carried
  <1>2. PaymentOf(r) \in Payment
    BY <1>1 DEF PaymentOf, Stored
  <1>3. payment' = [payment EXCEPT ![p] = [PaymentOf(r) EXCEPT !.steps = SavedSteps(r),
                                                           !.status = SavedStatus(r)]]
    BY <1>1 DEF PersistDecision, PaymentOf, Stored
  <1>4. [PaymentOf(r) EXCEPT !.steps = SavedSteps(r), !.status = SavedStatus(r)] \in Payment
    BY <1>2, SavedStepsAreSteps DEF Payment, SavedStatus
  <1>5. /\ payment'[p] # NoPayment
        /\ payment'[p].account = payment[p].account /\ payment'[p].amount = payment[p].amount
        /\ payment'[p].status = SavedStatus(r)
        /\ \A x \in PaymentIds \ {p} : payment'[x] = payment[x]
    BY <1>1, <1>2, <1>3, <1>4, PaymentIsNotMissing DEF Payment, PaymentOf, Stored
  <1> QED
    BY <1>1, <1>2, <1>5 DEF PaymentOf, Stored

\* A save of an approval that is not the last, or of a rejection.
LEMMA OtherSaveQuietForMoney ==
  ASSUME TypeInv, NEW r \in DecideRequests, UNCHANGED draft, ~Completes(r),
         SaveDecision(r) \/ SaveAnswerLost(r)
  PROVE  QuietForMoney
  <1> USE DEF TypeInv, SystemTypeOK, DecisionTypeOK, StoreTypeOK, Requests
  <1>1. /\ PersistDecision(r) /\ pc[r] = "save" /\ UNCHANGED <<args, verdict>>
        /\ pc' = [pc EXCEPT ![r] = "finally"]
    BY DEF SaveDecision, SaveAnswerLost, ReadyToSave, Leave
  <1>2. UNCHANGED <<balance, version>>
    BY <1>1 DEF PersistDecision
  <1>3. SavedStatus(r) = "completed" => PaymentOf(r).status = "completed"
    BY DEF SavedStatus, Completes
  <1>4. /\ Stored' = Stored
        /\ \A p \in Stored :
             payment'[p].account = payment[p].account /\ payment'[p].amount = payment[p].amount
        /\ \A p \in PaymentIds :
             payment'[p].status = "completed" => payment[p].status = "completed"
    BY <1>1, <1>3, SavedPayment DEF PaymentOf, Stored
  <1>5. \A q \in CreateRequests : q # r
    BY StoreAssumption
  <1>6. ~Rules(r)'
    BY <1>1 DEF Rules
  <1> QED
    BY <1>1, <1>2, <1>4, <1>5, <1>6
       DEF QuietForMoney, Tracks, OpenTransaction, Direct, Rules, Completes

\* A commit of a payment that waits for approval, or of a refused IBAN.
LEMMA OtherCommitQuietForMoney ==
  ASSUME TypeInv, MoneyInv, NEW r \in CreateRequests, UNCHANGED verdict,
         ~(args[r].iban = "valid" /\ Direct(r)), CommitCreation(r) \/ CommitAnswerLost(r)
  PROVE  QuietForMoney
  <1> USE DEF TypeInv, SystemTypeOK, CreationTypeOK, StoreTypeOK, Requests
  <1>1. /\ PersistCreation(r) /\ pc[r] = "commit" /\ UNCHANGED <<args, draft>>
        /\ pc' = [pc EXCEPT ![r] = "finally"]
    BY DEF CommitCreation, CommitAnswerLost, Leave
  <1>2. UNCHANGED <<balance, version>>
    BY <1>1 DEF PersistCreation
  <1>3. r \notin Stored /\ r \in PaymentIds
    BY <1>1 DEF MoneyInv, NotYetStored, PaymentIds
  <1>4. /\ \A p \in PaymentIds \ {r} : payment'[p] = payment[p]
        /\ payment'[r] = payment[r] \/ payment'[r].status = "pending_approval"
    BY <1>1, <1>3 DEF PersistCreation, DraftPayment
  <1>5. \A d \in DecideRequests : d # r
    BY StoreAssumption
  <1> QED
    BY <1>1, <1>2, <1>3, <1>4, <1>5
       DEF QuietForMoney, Tracks, OpenTransaction, Direct, Rules, Completes, Stored

LEMMA RestartQuietForMoney ==
  ASSUME TypeInv, NEW i \in Instances, Restart(i), UNCHANGED <<draft, verdict>>
  PROVE  QuietForMoney
  <1>1. \A q \in Requests : pc'[q] \in {pc[q], "done"}
    BY DEF Restart
  <1>2. UNCHANGED <<database, args>>
    BY DEF Restart
  <1> QED
    BY <1>1, <1>2 DEF QuietForMoney, Tracks, OpenTransaction, Direct, Rules, Completes,
                      Stored, database, Requests

-----------------------------------------------------------------------------
(* Steps that prepare a completion                                         *)

\* The account is read: what is tracked is what is stored.
LEMMA GetAccountKeepsMoney ==
  ASSUME TypeInv, MoneyInv, NEW r \in CreateRequests, GetAccount(r), UNCHANGED verdict
  PROVE  MoneyInv'
  <1> USE DEF TypeInv, SystemTypeOK, CreationTypeOK, StoreTypeOK, Requests
  <1>1. /\ UNCHANGED <<balance, version, payment, args>> /\ Stored' = Stored
        /\ pc[r] = "account" /\ pc'[r] \in {"lock", "done"}
        /\ \A q \in Requests \ {r} : pc'[q] = pc[q]
        /\ \A q \in CreateRequests \ {r} : draft'[q] = draft[q]
    BY DEF GetAccount, Goto, Answer, database, Stored
  <1>2. args[r].account \in Accounts
    BY <1>1 DEF InFlight, CreateArgs
  <1>3. version[args[r].account] \in Nat
    BY <1>2
  <1>4. Tracks(r)' => /\ draft'[r].version = version[args[r].account]
                      /\ draft'[r].funds = balance[args[r].account]
                      /\ CanComplete(args[r].amount, balance[args[r].account])
    BY DEF GetAccount, Goto, Answer, Tracks, Draft, Direct
  <1>5. DraftsFresh'
    BY <1>1, <1>3, <1>4 DEF MoneyInv, DraftsFresh, Fresh, Tracks, Direct
  <1>6. ~OpenTransaction(r)'
    BY <1>1 DEF OpenTransaction
  <1>7. RowsReserved'
    BY <1>1, <1>6 DEF MoneyInv, RowsReserved, Tracks, OpenTransaction, Direct
  <1>8. NoOverdraft' /\ NotYetStored'
    BY <1>1 DEF MoneyInv, NoOverdraft, NotYetStored
  <1>9. \A d \in DecideRequests : d \in Requests \ {r}
    BY StoreAssumption
  <1>10. VerdictsFresh'
    BY <1>1, <1>9 DEF MoneyInv, VerdictsFresh, VerdictFresh, Rules, Completes, PaymentOf, Fresh
  <1> QED
    BY <1>5, <1>7, <1>8, <1>10 DEF MoneyInv

\* The insert: the version has not moved, and no one else has the row.
LEMMA InsertKeepsMoney ==
  ASSUME TypeInv, MoneyInv, NEW r \in CreateRequests, AddPayment(r), UNCHANGED verdict
  PROVE  MoneyInv'
  <1> USE DEF TypeInv, SystemTypeOK, CreationTypeOK, StoreTypeOK, Requests
  <1>1. /\ UNCHANGED <<balance, version, payment, args, draft>> /\ Stored' = Stored
        /\ pc[r] = "insert" /\ pc'[r] \in {"finally", "requery", "append"}
        /\ \A q \in Requests \ {r} : pc'[q] = pc[q]
    BY DEF AddPayment, Goto, Leave, database, Stored
  <1>2. Tracks(r)' => Tracks(r)
    BY <1>1 DEF Tracks, Direct
  <1>3. Tracks(r)' /\ OpenTransaction(r)' => draft[r].version = version[args[r].account]
    BY DEF AddPayment, Goto, Leave, AccountChanged, Tracks, OpenTransaction, Direct
  <1>4. \A q \in CreateRequests :
          Tracks(r) /\ OpenTransaction(q) /\ Direct(q) => args[q].account # args[r].account
    BY DEF AddPayment, WaitsForRow, AccountRowLocked, Tracks
  <1>5. DraftsFresh'
    BY <1>1, <1>2 DEF MoneyInv, DraftsFresh, Fresh, Tracks, Direct
  <1>6. RowsReserved'
    BY <1>1, <1>2, <1>3, <1>4 DEF MoneyInv, RowsReserved, Tracks, OpenTransaction, Direct
  <1>7. NoOverdraft' /\ NotYetStored'
    BY <1>1 DEF MoneyInv, NoOverdraft, NotYetStored
  <1>8. \A d \in DecideRequests : d \in Requests \ {r}
    BY StoreAssumption
  <1>9. VerdictsFresh'
    BY <1>1, <1>8 DEF MoneyInv, VerdictsFresh, VerdictFresh, Rules, Completes, PaymentOf, Fresh
  <1> QED
    BY <1>5, <1>6, <1>7, <1>9 DEF MoneyInv

\* The last approval: the account and the payment were just loaded.
LEMMA ApprovalKeepsMoney ==
  ASSUME TypeInv, MoneyInv, NEW r \in DecideRequests, ApprovePayment(r), UNCHANGED draft
  PROVE  MoneyInv'
  <1> USE DEF TypeInv, SystemTypeOK, DecisionTypeOK, StoreTypeOK, Requests
  <1> DEFINE a == PaymentOf(r).account
  <1>1. /\ UNCHANGED <<balance, version, payment, args>> /\ Stored' = Stored
        /\ pc[r] = "load" /\ pc'[r] = "append"
        /\ \A q \in Requests \ {r} : pc'[q] = pc[q]
        /\ \A d \in DecideRequests \ {r} : verdict'[d] = verdict[d]
    BY DEF ApprovePayment, Goto, database, Stored
  <1>2. args[r].payment \in Stored
    BY FoundPaymentIsStored DEF ApprovePayment
  <1>3. PaymentOf(r) \in Payment /\ a \in Accounts
    BY <1>2 DEF PaymentOf, Stored, Payment
  <1>4. version[a] \in Nat
    BY <1>3
  <1>5. verdict'[r].version = version[a] /\ verdict'[r].funds = balance[a]
    BY DEF ApprovePayment, Verdict
  <1>6. CanComplete(PaymentOf(r).amount, balance[a]) /\ PaymentOf(r).status # "completed"
    BY DEF ApprovePayment, RefusalOf, AlreadyDecided
  <1>7. VerdictsFresh'
    <2> SUFFICES ASSUME NEW d \in DecideRequests, Rules(d)' PROVE VerdictFresh(d)'
      BY DEF VerdictsFresh
    <2>1. CASE d = r
      BY <1>1, <1>4, <1>5, <1>6, <2>1 DEF VerdictFresh, PaymentOf, Fresh
    <2>2. CASE d # r
      <3>1. Rules(d) /\ verdict'[d] = verdict[d] /\ PaymentOf(d)' = PaymentOf(d)
        BY <1>1, <2>2 DEF Rules, Completes, PaymentOf
      <3>2. VerdictFresh(d)
        BY <3>1 DEF MoneyInv, VerdictsFresh
      <3> QED
        BY <1>1, <3>1, <3>2 DEF VerdictFresh, Fresh
    <2> QED
      BY <2>1, <2>2
  <1>8. \A q \in CreateRequests : q \in Requests \ {r}
    BY StoreAssumption
  <1>9. NoOverdraft' /\ NotYetStored' /\ DraftsFresh' /\ RowsReserved'
    BY <1>1, <1>8 DEF MoneyInv, NoOverdraft, NotYetStored, DraftsFresh, RowsReserved, Fresh,
                      Tracks, OpenTransaction, Direct, ApprovePayment
  <1> QED
    BY <1>7, <1>9 DEF MoneyInv

-----------------------------------------------------------------------------
(* Steps that move money                                                   *)

\* CompletePayment on a balance that is the one of now takes n from account a.
LEMMA FreshDebit ==
  ASSUME StoreTypeOK, NEW p \in PaymentIds, NEW a \in Accounts, NEW n \in Amounts,
         NEW funds, NEW v, Fresh(a, v, funds), v = version[a], CanComplete(n, funds),
         CompletePayment(p, a, n, funds)
  PROVE  /\ balance' = [balance EXCEPT ![a] = @ - n] /\ balance'[a] \in Nat
         /\ version'[a] = version[a] + 1
         /\ \A b \in Accounts \ {a} : balance'[b] = balance[b] /\ version'[b] = version[b]
  BY StoreAssumption DEF StoreTypeOK, Fresh, CanComplete, CompletePayment

\* A version that moves on leaves every balance that was read before behind.
LEMMA MovedOn ==
  ASSUME StoreTypeOK, NEW a \in Accounts, version'[a] = version[a] + 1,
         \A b \in Accounts \ {a} : balance'[b] = balance[b] /\ version'[b] = version[b],
         NEW b \in Accounts, NEW v \in Nat, NEW funds, Fresh(b, v, funds)
  PROVE  Fresh(b, v, funds)' /\ (v = version'[b] => v = version[b])
  BY DEF Fresh, StoreTypeOK

\* What the commit of a direct payment does to the money.
LEMMA CommitDebits ==
  ASSUME TypeInv, MoneyInv, NEW r \in CreateRequests,
         args[r].iban = "valid", Direct(r), CommitCreation(r) \/ CommitAnswerLost(r)
  PROVE  LET a == args[r].account
         IN  /\ a \in Accounts
             /\ balance' = [balance EXCEPT ![a] = @ - args[r].amount] /\ balance'[a] \in Nat
             /\ version'[a] = version[a] + 1
             /\ \A b \in Accounts \ {a} : balance'[b] = balance[b] /\ version'[b] = version[b]
             /\ payment' = [payment EXCEPT ![r] = DraftPayment(r)]
  <1> USE DEF TypeInv, SystemTypeOK, CreationTypeOK, Requests
  <1>1. PersistCreation(r) /\ pc[r] = "commit"
    BY DEF CommitCreation, CommitAnswerLost
  <1>2. CompletePayment(r, args[r].account, args[r].amount, draft[r].funds)
        /\ payment' = [payment EXCEPT ![r] = DraftPayment(r)]
    BY <1>1 DEF PersistCreation
  <1>3. args[r].account \in Accounts /\ args[r].amount \in Amounts /\ r \in PaymentIds
    BY <1>1 DEF InFlight, CreateArgs, PaymentIds
  <1>4. Tracks(r) /\ OpenTransaction(r)
    BY <1>1 DEF Tracks, OpenTransaction
  <1>5. /\ draft[r].version = version[args[r].account]
        /\ CanComplete(args[r].amount, draft[r].funds)
        /\ Fresh(args[r].account, draft[r].version, draft[r].funds)
    BY <1>4 DEF MoneyInv, DraftsFresh, RowsReserved
  <1> QED
    BY <1>2, <1>3, <1>5, FreshDebit

LEMMA CommitKeepsMoney ==
  ASSUME TypeInv, MoneyInv, NEW r \in CreateRequests, UNCHANGED verdict,
         args[r].iban = "valid", Direct(r), CommitCreation(r) \/ CommitAnswerLost(r)
  PROVE  MoneyInv'
  <1> USE DEF TypeInv, SystemTypeOK, CreationTypeOK, DecisionTypeOK, StoreTypeOK, Requests
  <1> DEFINE a == args[r].account
  <1>1. /\ pc[r] = "commit" /\ pc' = [pc EXCEPT ![r] = "finally"] /\ UNCHANGED <<args, draft>>
    BY DEF CommitCreation, CommitAnswerLost, Leave
  <1>2. /\ a \in Accounts /\ balance'[a] \in Nat /\ version'[a] = version[a] + 1
        /\ \A b \in Accounts \ {a} : balance'[b] = balance[b] /\ version'[b] = version[b]
        /\ payment' = [payment EXCEPT ![r] = DraftPayment(r)]
    BY CommitDebits
  <1>3. r \notin Stored /\ r \in PaymentIds /\ Tracks(r) /\ OpenTransaction(r)
    BY <1>1 DEF MoneyInv, NotYetStored, PaymentIds, Tracks, OpenTransaction
  <1>4. \A p \in Stored : payment'[p] = payment[p]
    BY <1>2, <1>3 DEF Stored
  <1>5. \A q \in CreateRequests :
          Tracks(q)' => /\ Tracks(q) /\ q # r /\ args[q].account \in Accounts
                        /\ draft[q].version \in Nat
    BY <1>1 DEF Tracks, Direct, InFlight, CreateArgs, Draft
  <1>6. NoOverdraft'
    BY <1>2 DEF MoneyInv, NoOverdraft
  <1>7. NotYetStored'
    BY <1>1, <1>2 DEF MoneyInv, NotYetStored, Stored
  <1>8. DraftsFresh'
    <2> SUFFICES ASSUME NEW q \in CreateRequests, Tracks(q)'
                 PROVE  /\ CanComplete(args[q].amount, draft[q].funds)
                        /\ Fresh(args[q].account, draft[q].version, draft[q].funds)'
      BY <1>1 DEF DraftsFresh
    <2>1. /\ CanComplete(args[q].amount, draft[q].funds)
          /\ Fresh(args[q].account, draft[q].version, draft[q].funds)
      BY <1>5 DEF MoneyInv, DraftsFresh
    <2> QED
      BY <1>1, <1>2, <1>5, <2>1 DEF Fresh
  <1>9. RowsReserved'
    BY <1>1, <1>2, <1>3, <1>5 DEF MoneyInv, RowsReserved, OpenTransaction
  <1>10. VerdictsFresh'
    <2> SUFFICES ASSUME NEW d \in DecideRequests, Rules(d)' PROVE VerdictFresh(d)'
      BY DEF VerdictsFresh
    <2>1. Rules(d) /\ args[d].payment \in Stored
      BY <1>1, StoreAssumption DEF Rules, Completes, Carried
    <2>2. PaymentOf(d) \in Payment /\ PaymentOf(d)' = PaymentOf(d)
      BY <1>1, <1>4, <2>1 DEF PaymentOf, Stored
    <2>3. PICK b \in Accounts, v \in Nat, f \in Int :
            b = PaymentOf(d).account /\ v = verdict[d].version /\ f = verdict[d].funds
      BY <2>2 DEF Payment, Verdict
    <2>4. VerdictFresh(d)
      BY <2>1 DEF MoneyInv, VerdictsFresh
    <2>5. Fresh(b, v, f)
      BY <2>3, <2>4 DEF VerdictFresh
    <2>6. Fresh(b, v, f)' /\ (v = version'[b] => v = version[b])
      BY <1>2, <2>5, MovedOn
    <2> QED
      BY <2>2, <2>3, <2>4, <2>6 DEF VerdictFresh, Fresh
  <1> QED
    BY <1>6, <1>7, <1>8, <1>9, <1>10 DEF MoneyInv

\* What the save of a last approval does to the money.
LEMMA SaveDebits ==
  ASSUME TypeInv, MoneyInv, NEW r \in DecideRequests, Completes(r),
         SaveDecision(r) \/ SaveAnswerLost(r)
  PROVE  LET x == PaymentOf(r)
         IN  /\ x \in Payment /\ x.status # "completed"
             /\ balance' = [balance EXCEPT ![x.account] = @ - x.amount]
             /\ balance'[x.account] \in Nat
             /\ version'[x.account] = version[x.account] + 1
             /\ \A b \in Accounts \ {x.account} :
                  balance'[b] = balance[b] /\ version'[b] = version[b]
  <1> USE DEF TypeInv, SystemTypeOK, DecisionTypeOK, StoreTypeOK
  <1>1. /\ PersistDecision(r) /\ pc[r] = "save"
        /\ verdict[r].version = version[PaymentOf(r).account]
    BY DEF SaveDecision, SaveAnswerLost, ReadyToSave, AccountChangedSinceLoad
  <1>2. args[r].payment \in Stored /\ PaymentOf(r) \in Payment
    BY <1>1 DEF Carried, PaymentOf, Stored
  <1>3. PaymentOf(r).account \in Accounts /\ PaymentOf(r).amount \in Amounts
    BY <1>2 DEF Payment
  <1>4. CompletePayment(args[r].payment, PaymentOf(r).account, PaymentOf(r).amount,
                        verdict[r].funds)
    BY <1>1 DEF PersistDecision
  <1>5. Rules(r)
    BY <1>1 DEF Rules
  <1>6. /\ CanComplete(PaymentOf(r).amount, verdict[r].funds)
        /\ Fresh(PaymentOf(r).account, verdict[r].version, verdict[r].funds)
        /\ PaymentOf(r).status # "completed"
    BY <1>1, <1>5 DEF MoneyInv, VerdictsFresh, VerdictFresh
  <1> QED
    BY <1>1, <1>2, <1>3, <1>4, <1>6, FreshDebit DEF Stored

LEMMA SaveKeepsMoney ==
  ASSUME TypeInv, MoneyInv, NEW r \in DecideRequests, UNCHANGED draft, Completes(r),
         SaveDecision(r) \/ SaveAnswerLost(r)
  PROVE  MoneyInv'
  <1> USE DEF TypeInv, SystemTypeOK, CreationTypeOK, DecisionTypeOK, StoreTypeOK, Requests
  <1> DEFINE a == PaymentOf(r).account
             p == args[r].payment
  <1>1. /\ PersistDecision(r) /\ pc[r] = "save" /\ UNCHANGED <<args, verdict>>
        /\ pc' = [pc EXCEPT ![r] = "finally"] /\ ~AccountRowLocked(a)
    BY DEF SaveDecision, SaveAnswerLost, ReadyToSave, Leave
  <1>2. /\ a \in Accounts /\ balance'[a] \in Nat /\ version'[a] = version[a] + 1
        /\ \A b \in Accounts \ {a} : balance'[b] = balance[b] /\ version'[b] = version[b]
    BY SaveDebits DEF Payment
  <1>3. /\ Stored' = Stored /\ p \in Stored
        /\ payment'[p].account = payment[p].account /\ payment'[p].amount = payment[p].amount
        /\ \A x \in PaymentIds \ {p} : payment'[x] = payment[x]
    BY <1>1, SavedPayment
  <1>4. \A q \in CreateRequests : pc'[q] = pc[q]
    BY <1>1, StoreAssumption
  <1>5. \A q \in CreateRequests :
          Tracks(q)' => /\ Tracks(q) /\ args[q].account \in Accounts
                        /\ draft[q].version \in Nat
                        /\ OpenTransaction(q) => args[q].account # a
    BY <1>1, <1>4 DEF Tracks, Direct, InFlight, CreateArgs, Draft, AccountRowLocked
  <1>6. NoOverdraft'
    BY <1>2 DEF MoneyInv, NoOverdraft
  <1>7. NotYetStored'
    BY <1>3, <1>4 DEF MoneyInv, NotYetStored
  <1>8. DraftsFresh'
    <2> SUFFICES ASSUME NEW q \in CreateRequests, Tracks(q)'
                 PROVE  /\ CanComplete(args[q].amount, draft[q].funds)
                        /\ Fresh(args[q].account, draft[q].version, draft[q].funds)'
      BY <1>1 DEF DraftsFresh
    <2>1. /\ CanComplete(args[q].amount, draft[q].funds)
          /\ Fresh(args[q].account, draft[q].version, draft[q].funds)
      BY <1>5 DEF MoneyInv, DraftsFresh
    <2> QED
      BY <1>1, <1>2, <1>5, <2>1 DEF Fresh
  <1>9. RowsReserved'
    BY <1>1, <1>2, <1>4, <1>5 DEF MoneyInv, RowsReserved, OpenTransaction
  <1>10. VerdictsFresh'
    <2> SUFFICES ASSUME NEW d \in DecideRequests, Rules(d)' PROVE VerdictFresh(d)'
      BY DEF VerdictsFresh
    <2>1. Rules(d) /\ args[d].payment \in Stored
      BY <1>1 DEF Rules, Completes, Carried
    <2>2. PaymentOf(d) \in Payment
      BY <2>1 DEF PaymentOf, Stored
    <2>3. PICK b \in Accounts, v \in Nat, f \in Int :
            b = PaymentOf(d).account /\ v = verdict[d].version /\ f = verdict[d].funds
      BY <2>2 DEF Payment, Verdict
    <2>4. VerdictFresh(d)
      BY <2>1 DEF MoneyInv, VerdictsFresh
    <2>5. Fresh(b, v, f)
      BY <2>3, <2>4 DEF VerdictFresh
    <2>6. Fresh(b, v, f)' /\ (v = version'[b] => v = version[b])
      BY <1>2, <2>5, MovedOn
    <2>7. /\ PaymentOf(d)'.account = PaymentOf(d).account
          /\ PaymentOf(d)'.amount = PaymentOf(d).amount
          /\ args[d].payment # p => PaymentOf(d)' = PaymentOf(d)
      BY <1>1, <1>3, <2>1 DEF PaymentOf, Stored
    <2>8. args[d].payment = p => v # version'[b]
      <3> SUFFICES ASSUME args[d].payment = p PROVE v # version'[b]
        OBVIOUS
      <3>1. b = a
        BY <2>3 DEF PaymentOf
      <3> QED
        BY <1>2, <2>5, <3>1 DEF Fresh
    <2> QED
      BY <1>1, <2>3, <2>4, <2>6, <2>7, <2>8 DEF VerdictFresh, Fresh
  <1> QED
    BY <1>6, <1>7, <1>8, <1>9, <1>10 DEF MoneyInv

LEMMA MoneyNext == TypeInv /\ MoneyInv /\ [SystemNext]_systemVars => MoneyInv'
  <1> SUFFICES ASSUME TypeInv, MoneyInv, [SystemNext]_systemVars PROVE MoneyInv'
    OBVIOUS
  <1>1. CASE UNCHANGED systemVars
    BY <1>1, QuietKeepsMoney
       DEF systemVars, storeVars, database, QuietForMoney, Tracks, OpenTransaction, Direct,
           Rules, Completes, Stored
  <1>2. ASSUME NEW r \in CreateRequests, UNCHANGED verdict,
               CreatePayment(r) \/ RefuseMalformed(r) \/ CreationStep(r)
        PROVE  MoneyInv'
    BY <1>2, CreationQuietForMoney, OtherCommitQuietForMoney, QuietKeepsMoney,
       GetAccountKeepsMoney, InsertKeepsMoney, CommitKeepsMoney DEF CreationStep
  <1>3. ASSUME NEW r \in DecideRequests, UNCHANGED draft, Decide(r) \/ DecisionStep(r)
        PROVE  MoneyInv'
    BY <1>3, DecisionQuietForMoney, OtherSaveQuietForMoney, QuietKeepsMoney,
       ApprovalKeepsMoney, SaveKeepsMoney DEF DecisionStep
  <1>4. ASSUME NEW i \in Instances, Restart(i), UNCHANGED <<draft, verdict>>
        PROVE  MoneyInv'
    BY <1>4, RestartQuietForMoney, QuietKeepsMoney
  <1> QED
    BY <1>1, <1>2, <1>3, <1>4 DEF SystemNext

-----------------------------------------------------------------------------
\* No account is ever overdrawn, however many payments are checked against the same
\* balance at once and on however many processes (CompletePayment, SaveChangesAsync).
THEOREM NeverOverdrawn == SystemSpec => []NoOverdraft
  <1>1. MoneyInv => NoOverdraft
    BY DEF MoneyInv
  <1> QED
    BY TypeInit, TypeNext, MoneyInit, MoneyNext, <1>1, PTL DEF SystemSpec

LEMMA QuietDebitsNothing ==
  ASSUME TypeInv, QuietForMoney
  PROVE  ExactDebit
  <1>1. Completed' \subseteq Completed
    BY DEF Completed, Stored, QuietForMoney, NoPayment, TypeInv, SystemTypeOK,
           CreationTypeOK, StoreTypeOK, Payment
  <1> QED
    BY <1>1 DEF ExactDebit, QuietForMoney

LEMMA ReadingDebitsNothing ==
  ASSUME UNCHANGED database
  PROVE  ExactDebit
  BY DEF ExactDebit, Completed, Stored, database

LEMMA CommitIsExact ==
  ASSUME TypeInv, MoneyInv, NEW r \in CreateRequests,
         args[r].iban = "valid", Direct(r), CommitCreation(r) \/ CommitAnswerLost(r)
  PROVE  ExactDebit
  <1> USE DEF TypeInv, SystemTypeOK, CreationTypeOK, StoreTypeOK
  <1>1. /\ balance' = [balance EXCEPT ![args[r].account] = @ - args[r].amount]
        /\ payment' = [payment EXCEPT ![r] = DraftPayment(r)]
    BY CommitDebits
  <1>2. r \in PaymentIds /\ r \notin Stored
    BY DEF CommitCreation, CommitAnswerLost, MoneyInv, NotYetStored, PaymentIds
  <1>3. /\ payment'[r].account = args[r].account /\ payment'[r].amount = args[r].amount
        /\ payment'[r].status = "completed"
        /\ \A p \in PaymentIds \ {r} : payment'[p] = payment[p]
    BY <1>1, <1>2 DEF DraftPayment
  <1>4. payment'[r] # NoPayment
    BY <1>3 DEF NoPayment
  <1>5. Completed' \ Completed = {r}
    BY <1>2, <1>3, <1>4 DEF Completed, Stored
  <1> QED
    BY <1>1, <1>3, <1>5 DEF ExactDebit

LEMMA SaveIsExact ==
  ASSUME TypeInv, MoneyInv, NEW r \in DecideRequests, Completes(r),
         SaveDecision(r) \/ SaveAnswerLost(r)
  PROVE  ExactDebit
  <1> DEFINE p == args[r].payment
  <1>1. PersistDecision(r) /\ pc[r] = "save"
    BY DEF SaveDecision, SaveAnswerLost, ReadyToSave
  <1>2. /\ PaymentOf(r).status # "completed"
        /\ balance' = [balance EXCEPT ![PaymentOf(r).account] = @ - PaymentOf(r).amount]
    BY SaveDebits
  <1>3. /\ p \in Stored /\ Stored' = Stored /\ payment'[p].status = "completed"
        /\ payment'[p].account = PaymentOf(r).account
        /\ payment'[p].amount = PaymentOf(r).amount
        /\ \A x \in PaymentIds \ {p} : payment'[x] = payment[x]
    BY <1>1, SavedPayment DEF PaymentOf, SavedStatus, Completes
  <1>4. Completed' \ Completed = {p}
    BY <1>2, <1>3 DEF Completed, PaymentOf, Stored
  <1> QED
    BY <1>2, <1>3, <1>4 DEF ExactDebit

LEMMA DebitStep == TypeInv /\ MoneyInv /\ [SystemNext]_systemVars => [ExactDebit]_database
  <1> SUFFICES ASSUME TypeInv, MoneyInv, [SystemNext]_systemVars PROVE [ExactDebit]_database
    OBVIOUS
  <1>1. CASE UNCHANGED systemVars
    BY <1>1 DEF systemVars, storeVars
  <1>2. ASSUME NEW r \in CreateRequests, UNCHANGED verdict,
               CreatePayment(r) \/ RefuseMalformed(r) \/ CreationStep(r)
        PROVE  ExactDebit
    BY <1>2, CreationQuietForMoney, OtherCommitQuietForMoney, QuietDebitsNothing,
       ReadingDebitsNothing, CommitIsExact DEF CreationStep, GetAccount, AddPayment
  <1>3. ASSUME NEW r \in DecideRequests, UNCHANGED draft, Decide(r) \/ DecisionStep(r)
        PROVE  ExactDebit
    BY <1>3, DecisionQuietForMoney, OtherSaveQuietForMoney, QuietDebitsNothing,
       ReadingDebitsNothing, SaveIsExact DEF DecisionStep, ApprovePayment
  <1>4. ASSUME NEW i \in Instances, Restart(i), UNCHANGED <<draft, verdict>>
        PROVE  ExactDebit
    BY <1>4, RestartQuietForMoney, QuietDebitsNothing
  <1> QED
    BY <1>1, <1>2, <1>3, <1>4 DEF SystemNext

\* A payment that is completed takes exactly its amount from what the account holds at
\* that moment, and nothing else moves money: no update of a balance is lost, for any
\* number of processes that read it before (CompletePayment and the xmin check).
THEOREM NoLostDebit == SystemSpec => DebitsAreExact
  BY TypeInit, TypeNext, MoneyInit, MoneyNext, DebitStep, PTL DEF SystemSpec, DebitsAreExact

-----------------------------------------------------------------------------
(* Four eyes                                                               *)

\* The deployment AuditLockProvider is written for.
OneProcess == \A i, j \in Instances : i = j

-----------------------------------------------------------------------------
(* The lock                                                                *)

InSection(r) == pc[r] \in {"recheck", "insert", "append", "log", "commit", "requery",
                           "load", "save", "finally"}

LockInv == \A r \in Requests : InSection(r) => LockOf(r) = r

\* A request in flight belongs to a process and to a tenant.
LEMMA InFlightArgs ==
  ASSUME TypeInv, NEW r \in Requests, InFlight(r)
  PROVE  InstanceOf(r) \in Instances /\ TenantOf(r) \in Tenants /\ args[r].user \in Users
<1>1. args[r] \in CreateArgs \/ args[r] \in DecideArgs
  BY DEF TypeInv, SystemTypeOK, CreationTypeOK, DecisionTypeOK, Requests
<1> QED BY <1>1, StoreAssumption DEF CreateArgs, DecideArgs, InstanceOf, TenantOf

LEMMA SectionInFlight ==
  ASSUME NEW r, InSection(r)
  PROVE  InFlight(r)
BY DEF InSection, InFlight

\* On one process two requests of one tenant are not in the section together.
LEMMA Alone ==
  ASSUME OneProcess, TypeInv, LockInv, NEW q \in Requests, NEW r \in Requests,
         InSection(q), InSection(r), TenantOf(q) = TenantOf(r)
  PROVE  q = r
<1>1. InstanceOf(q) = InstanceOf(r)
  BY InFlightArgs, SectionInFlight DEF OneProcess
<1> QED BY <1>1 DEF LockInv, LockOf

\* A step of r that leaves the lock alone and enters no section.
LEMMA LockUntouched ==
  ASSUME LockInv, NEW r \in Requests, lock' = lock,
         \A q \in Requests \ {r} : pc'[q] = pc[q] /\ args'[q] = args[q],
         InSection(r)' => InSection(r) /\ args'[r] = args[r]
  PROVE  LockInv'
BY DEF LockInv, InSection, LockOf, InstanceOf, TenantOf

LEMMA AcquireKeepsLock ==
  ASSUME TypeInv, LockInv, NEW r \in Requests, NEW l \in Labels, AcquireTenantLock(r, l)
  PROVE  LockInv'
<1>1. /\ LockOf(r) = Free /\ lock' = [lock EXCEPT ![InstanceOf(r)][TenantOf(r)] = r]
      /\ args' = args /\ \A q \in Requests \ {r} : pc'[q] = pc[q]
  BY DEF AcquireTenantLock, Goto, TypeInv, SystemTypeOK, CreationTypeOK, StoreTypeOK
<1>2. InstanceOf(r) \in Instances /\ TenantOf(r) \in Tenants
  BY InFlightArgs DEF AcquireTenantLock, InFlight
<1>3. lock \in [Instances -> [Tenants -> Requests \cup {Free}]]
  BY DEF TypeInv, SystemTypeOK, CreationTypeOK, StoreTypeOK
<1>4. lock'[InstanceOf(r)][TenantOf(r)] = r
  BY <1>1, <1>2, <1>3
<1>5. ASSUME NEW q \in Requests \ {r}, InSection(q)
      PROVE  lock'[InstanceOf(q)][TenantOf(q)] = q
  <2>1. lock[InstanceOf(q)][TenantOf(q)] = q
    BY <1>5 DEF LockInv, LockOf
  <2>2. ~(InstanceOf(q) = InstanceOf(r) /\ TenantOf(q) = TenantOf(r))
    BY <1>1, <2>1, StoreAssumption DEF LockOf
  <2>3. InstanceOf(q) \in Instances /\ TenantOf(q) \in Tenants
    BY <1>5, InFlightArgs, SectionInFlight
  <2> QED BY <1>1, <1>2, <1>3, <2>1, <2>2, <2>3
<1> QED BY <1>1, <1>4, <1>5 DEF LockInv, LockOf, InSection, InstanceOf, TenantOf

LEMMA ReleaseKeepsLock ==
  ASSUME TypeInv, LockInv, NEW r \in Requests, ReleaseTenantLock(r)
  PROVE  LockInv'
<1>1. /\ lock' = [lock EXCEPT ![InstanceOf(r)][TenantOf(r)] = Free] /\ LockOf(r) = r
      /\ args' = args /\ pc'[r] = "done" /\ \A q \in Requests \ {r} : pc'[q] = pc[q]
  BY DEF ReleaseTenantLock, LockInv, InSection, TypeInv, SystemTypeOK, CreationTypeOK, StoreTypeOK
<1>2. InstanceOf(r) \in Instances /\ TenantOf(r) \in Tenants
  BY InFlightArgs DEF ReleaseTenantLock, InFlight
<1>3. lock \in [Instances -> [Tenants -> Requests \cup {Free}]]
  BY DEF TypeInv, SystemTypeOK, CreationTypeOK, StoreTypeOK
<1>4. ASSUME NEW q \in Requests \ {r}, InSection(q)
      PROVE  lock'[InstanceOf(q)][TenantOf(q)] = q
  <2>1. lock[InstanceOf(q)][TenantOf(q)] = q
    BY <1>4 DEF LockInv, LockOf
  <2>2. ~(InstanceOf(q) = InstanceOf(r) /\ TenantOf(q) = TenantOf(r))
    BY <1>1, <2>1 DEF LockOf
  <2>3. InstanceOf(q) \in Instances /\ TenantOf(q) \in Tenants
    BY <1>4, InFlightArgs, SectionInFlight
  <2> QED BY <1>1, <1>2, <1>3, <2>1, <2>2, <2>3
<1> QED BY <1>1, <1>4 DEF LockInv, LockOf, InSection, InstanceOf, TenantOf

\* The requests of a process that dies are no longer in its section.
LEMMA RestartKeepsLock ==
  ASSUME TypeInv, LockInv, NEW i \in Instances, Restart(i)
  PROVE  LockInv'
<1>1. /\ lock' = [lock EXCEPT ![i] = [t \in Tenants |-> Free]] /\ args' = args
      /\ \A q \in Requests : \/ pc'[q] = "done"
                             \/ pc'[q] = pc[q] /\ (InFlight(q) => InstanceOf(q) # i)
  BY DEF Restart
<1>2. lock \in [Instances -> [Tenants -> Requests \cup {Free}]]
  BY DEF TypeInv, SystemTypeOK, CreationTypeOK, StoreTypeOK
<1>3. ASSUME NEW q \in Requests, InSection(q)'
      PROVE  lock'[InstanceOf(q)][TenantOf(q)] = q
  <2>1. InSection(q) /\ InstanceOf(q) # i
    BY <1>1, <1>3, SectionInFlight DEF InSection
  <2>2. lock[InstanceOf(q)][TenantOf(q)] = q /\ InstanceOf(q) \in Instances
    BY <2>1, InFlightArgs, SectionInFlight DEF LockInv, LockOf
  <2> QED BY <1>1, <1>2, <2>1, <2>2
<1> QED BY <1>1, <1>3 DEF LockInv, LockOf, InSection, InstanceOf, TenantOf

LEMMA CreationKeepsLock ==
  ASSUME TypeInv, LockInv, NEW r \in CreateRequests,
         CreatePayment(r) \/ RefuseMalformed(r) \/ CreationStep(r)
  PROVE  LockInv'
<1> r \in Requests
  BY DEF Requests
<1>1. CASE EnterCreation(r)
  BY <1>1, AcquireKeepsLock DEF EnterCreation, Labels
<1>2. CASE ReleaseTenantLock(r)
  BY <1>2, ReleaseKeepsLock
<1>3. CASE \/ CreatePayment(r) \/ RefuseMalformed(r) \/ FindExistingPayment(r)
           \/ GetAccount(r) \/ RecheckExistingPayment(r) \/ AddPayment(r)
           \/ AppendCreationEntry(r) \/ SaveCreationEntry(r) \/ CommitCreation(r)
           \/ ReturnWinner(r) \/ CreationCallFails(r) \/ CommitAnswerLost(r)
  <2>1. /\ lock' = lock
        /\ \A q \in Requests \ {r} : pc'[q] = pc[q] /\ args'[q] = args[q]
        /\ InSection(r)' => InSection(r) /\ args'[r] = args[r]
    BY <1>3 DEF TypeInv, SystemTypeOK, CreationTypeOK, StoreTypeOK, InSection,
          Goto, Answer, Leave, CreatePayment, RefuseMalformed, FindExistingPayment,
          GetAccount, RecheckExistingPayment, AddPayment, AppendCreationEntry,
          SaveCreationEntry, CommitCreation, ReturnWinner, CreationCallFails, CommitAnswerLost
  <2> QED BY <2>1, LockUntouched
<1> QED BY <1>1, <1>2, <1>3 DEF CreationStep

LEMMA DecisionKeepsLock ==
  ASSUME TypeInv, LockInv, NEW r \in DecideRequests, Decide(r) \/ DecisionStep(r)
  PROVE  LockInv'
<1> r \in Requests
  BY DEF Requests
<1>1. CASE EnterDecision(r)
  BY <1>1, AcquireKeepsLock DEF EnterDecision, Labels
<1>2. CASE ReleaseTenantLock(r)
  BY <1>2, ReleaseKeepsLock
<1>3. CASE \/ Decide(r) \/ RefuseDecision(r) \/ ApproveStep(r) \/ ApprovePayment(r)
           \/ RejectPayment(r) \/ AppendDecisionEntry(r) \/ SaveDecision(r)
           \/ SaveConflicts(r) \/ DecisionCallFails(r) \/ SaveAnswerLost(r)
  <2>1. /\ lock' = lock
        /\ \A q \in Requests \ {r} : pc'[q] = pc[q] /\ args'[q] = args[q]
        /\ InSection(r)' => InSection(r) /\ args'[r] = args[r]
    BY <1>3 DEF TypeInv, SystemTypeOK, DecisionTypeOK, StoreTypeOK, InSection,
          Goto, Answer, Leave, Decide, RefuseDecision, ApproveStep, ApprovePayment,
          RejectPayment, AppendDecisionEntry, SaveDecision, SaveConflicts, ReadyToSave,
          DecisionCallFails, SaveAnswerLost
  <2> QED BY <2>1, LockUntouched
<1> QED BY <1>1, <1>2, <1>3 DEF DecisionStep

LEMMA LockNext ==
  ASSUME TypeInv, LockInv, [SystemNext]_systemVars
  PROVE  LockInv'
<1>1. CASE UNCHANGED systemVars
  BY <1>1 DEF systemVars, storeVars, LockInv, LockOf, InSection, InstanceOf, TenantOf
<1> QED BY <1>1, CreationKeepsLock, DecisionKeepsLock, RestartKeepsLock DEF SystemNext

LEMMA LockInit == SystemInit => LockInv
BY DEF SystemInit, StoreInit, LockInv, InSection

-----------------------------------------------------------------------------
(* What a decision was ruled on                                            *)

Unruled(r) == pc[r] \in {"idle", "lock", "load"}
Ruled(r)   == pc[r] \in {"append", "save"}

\* The step is in a payment of the caller's tenant, and the caller may decide it.
CallerMay(r) ==
  args[r].step \in DOMAIN StepsOf(r) /\ PaymentTenant(r) = TenantOf(r) /\ MayDecide(r)

\* The payment is still as the ruling needs it.
AsRuled(r) ==
  /\ PaymentOf(r).status = "pending_approval"
  /\ Completes(r) => LastApproval(r) /\ verdict[r].extra = <<>> /\ verdict[r].closed = {}

\* Steps that are new have not been decided.
Undecided(steps) == \A i \in DOMAIN steps : steps[i].source = "none"

CallerInv ==
  /\ \A r \in DecideRequests :
       /\ Unruled(r) => verdict[r].extra = <<>> /\ verdict[r].closed = {}
       /\ Ruled(r) => CallerMay(r) /\ Undecided(verdict[r].extra)
  /\ \A r \in CreateRequests : Undecided(draft[r].steps)

\* A step was decided by nobody, or by somebody who may.
EntitledStep(t, s) ==
  s.source = "manual" =>
    /\ s.decidedBy \in Users /\ UserTenant[s.decidedBy] = t
    /\ s.decidedBy = s.attestant \/ IsAdmin(s.decidedBy)

EntitledPayment(x) == \A i \in DOMAIN x.steps : EntitledStep(AccountTenant[x.account], x.steps[i])

EntitledInv == \A p \in Stored : EntitledPayment(payment[p])

\* The payments that were stored before name their decision makers truthfully.
LegacyEntitled == \A p \in LegacyPayments : EntitledPayment(Legacy[p])

EnoughApprovals(x) ==
  x.status = "completed" /\ RequiresApproval(x.amount) =>
    ApprovalsCounted(x.amount, x.steps) >= RequiredApprovalSteps(x.amount)

ApprovedInv ==
  /\ \A r \in DecideRequests : Ruled(r) => AsRuled(r)
  /\ \A p \in Stored : EnoughApprovals(payment[p])

LEMMA RowsGiveProperties ==
  /\ EntitledInv => DecidersEntitled
  /\ ApprovedInv => CompletedOnEnoughApprovals
<1>1. EntitledInv => DecidersEntitled
  BY DEF EntitledInv, EntitledPayment, EntitledStep, DecidersEntitled
<1>2. ApprovedInv => CompletedOnEnoughApprovals
  BY DEF ApprovedInv, EnoughApprovals, CompletedOnEnoughApprovals, Completed
<1> QED BY <1>1, <1>2

LEMMA ApprovalInit ==
  ASSUME SystemInit
  PROVE  CallerInv /\ ApprovedInv /\ (LegacyEntitled => EntitledInv)
<1>1. CallerInv
  BY DEF SystemInit, StoreInit, CallerInv, Unruled, Ruled, EmptyVerdict, EmptyDraft,
         Undecided, Requests
<1>2. \A p \in Stored : p \in LegacyPayments /\ payment[p] = Legacy[p]
  BY DEF SystemInit, StoreInit, Stored
<1>3. ApprovedInv
  <2>1. \A p \in Stored : payment[p].status = "pending_approval"
    BY <1>2, SeedAssumption
  <2>2. \A r \in DecideRequests : ~Ruled(r)
    BY DEF SystemInit, StoreInit, Ruled, Requests
  <2> QED BY <2>1, <2>2 DEF ApprovedInv, EnoughApprovals
<1>4. LegacyEntitled => EntitledInv
  BY <1>2 DEF EntitledInv, LegacyEntitled
<1> QED BY <1>1, <1>3, <1>4

-----------------------------------------------------------------------------
(* Steps that store no decision                                            *)

\* r's ruling is about the same rows as before.
RulingKept(r) ==
  /\ Ruled(r) /\ args'[r] = args[r]
  /\ payment'[args[r].payment] = payment[args[r].payment]
  /\ verdict'[r].action = verdict[r].action /\ verdict'[r].extra = verdict[r].extra
  /\ verdict'[r].closed = verdict[r].closed

LEMMA KeptRuling ==
  ASSUME NEW r, RulingKept(r)
  PROVE  (CallerMay(r) => CallerMay(r)') /\ (AsRuled(r) => AsRuled(r)')
<1>1. /\ PaymentOf(r)' = PaymentOf(r) /\ StepsOf(r)' = StepsOf(r)
      /\ PaymentTenant(r)' = PaymentTenant(r) /\ TenantOf(r)' = TenantOf(r)
      /\ Completes(r)' = Completes(r) /\ args'[r] = args[r]
  BY DEF RulingKept, PaymentOf, StepsOf, PaymentTenant, TenantOf, Completes
<1>2. MayDecide(r)' = MayDecide(r)
  BY <1>1 DEF MayDecide, TargetStep
<1>3. StepsAfterApproval(r)' = StepsAfterApproval(r)
  BY <1>1 DEF StepsAfterApproval
<1>4. LastApproval(r)' = LastApproval(r)
  BY <1>1, <1>3 DEF LastApproval, MissingApproval
<1> QED BY <1>1, <1>2, <1>4 DEF CallerMay, AsRuled, RulingKept

\* No ruling is made or taken back, no row of a ruled payment is written, and a row that
\* appears is fine.
QuietForRulings ==
  /\ \A r \in DecideRequests :
       /\ Unruled(r)' => Unruled(r) /\ verdict'[r] = verdict[r]
       /\ Ruled(r)' => RulingKept(r)
  /\ \A r \in CreateRequests : Undecided(draft'[r].steps)
  /\ \A p \in Stored' : \/ p \in Stored /\ payment'[p] = payment[p]
                        \/ EnoughApprovals(payment'[p]) /\ EntitledPayment(payment'[p])

\* What every step has to keep: the third part is only kept on one process.
ApprovalsKept ==
  /\ CallerInv'
  /\ EntitledInv => EntitledInv'
  /\ ApprovedInv => ApprovedInv'

LEMMA QuietKeepsApprovals ==
  ASSUME CallerInv, QuietForRulings
  PROVE  ApprovalsKept
<1>1. ASSUME NEW r \in DecideRequests, Unruled(r)'
      PROVE  verdict'[r].extra = <<>> /\ verdict'[r].closed = {}
  BY <1>1 DEF CallerInv, QuietForRulings
<1>2. ASSUME NEW r \in DecideRequests, Ruled(r)'
      PROVE  /\ CallerMay(r)' /\ Undecided(verdict'[r].extra)
             /\ ApprovedInv => AsRuled(r)'
  <2>1. RulingKept(r) /\ Ruled(r)
    BY <1>2 DEF QuietForRulings, RulingKept
  <2>2. CallerMay(r) /\ Undecided(verdict[r].extra) /\ (ApprovedInv => AsRuled(r))
    BY <2>1 DEF CallerInv, ApprovedInv
  <2>3. CallerMay(r)' /\ (ApprovedInv => AsRuled(r)')
    BY <2>1, <2>2, KeptRuling
  <2> QED BY <2>1, <2>2, <2>3 DEF RulingKept
<1>3. CallerInv'
  BY <1>1, <1>2 DEF CallerInv, QuietForRulings
<1>4. EntitledInv => EntitledInv'
  BY DEF EntitledInv, QuietForRulings
<1>5. ApprovedInv => ApprovedInv'
  BY <1>2 DEF ApprovedInv, QuietForRulings
<1> QED BY <1>3, <1>4, <1>5 DEF ApprovalsKept

\* A new payment's steps are undecided.
LEMMA InitialStepsUndecided ==
  ASSUME NEW r
  PROVE  Undecided(InitialApprovalSteps(r))
<1> DEFINE first == FindNextAttestantId(TenantOf(r), {args[r].user})
           second == FindNextAttestantId(TenantOf(r), {args[r].user, first})
<1>1. InitialApprovalSteps(r) \in {<<PendingStep(first), PendingStep(second)>>,
                                   <<PendingStep(first)>>}
  BY DEF InitialApprovalSteps
<1>2. PendingStep(first).source = "none" /\ PendingStep(second).source = "none"
  BY DEF PendingStep
<1> HIDE DEF first, second
<1>3. \A x, y : x.source = "none" /\ y.source = "none" =>
        Undecided(<<x, y>>) /\ Undecided(<<x>>)
  BY DEF Undecided
<1> QED BY <1>1, <1>2, <1>3

\* A step of a creation leaves every draft the approval steps it has, or makes the initial ones.
LEMMA DraftStepsFrame ==
  ASSUME TypeInv, NEW r \in CreateRequests,
         CreatePayment(r) \/ RefuseMalformed(r) \/ CreationStep(r)
  PROVE  \A q \in CreateRequests :
           draft'[q].steps \in {draft[q].steps, InitialApprovalSteps(r)}
<1> USE DEF TypeInv, SystemTypeOK, CreationTypeOK
<1>1. draft' = draft \/ (\E v, f : draft' = [draft EXCEPT ![r].version = v, ![r].funds = f])
      \/ draft' = [draft EXCEPT ![r].steps = InitialApprovalSteps(r)]
      \/ (\E n : draft' = [draft EXCEPT ![r].prev = n])
      \/ (\E n : draft' = [draft EXCEPT ![r].entry = n])
  BY DEF CreatePayment, RefuseMalformed, CreationStep, EnterCreation,
       FindExistingPayment, GetAccount, RecheckExistingPayment, AddPayment,
       AppendCreationEntry, SaveCreationEntry, CommitCreation, ReturnWinner,
       CreationCallFails, CommitAnswerLost
<1>2. CASE draft' = draft
  BY <1>2
<1>3. CASE \E v, f : draft' = [draft EXCEPT ![r].version = v, ![r].funds = f]
  <2>1. PICK v, f : draft' = [draft EXCEPT ![r] = [draft[r] EXCEPT !.version = v, !.funds = f]]
    BY <1>3
  <2>2. [draft[r] EXCEPT !.version = v, !.funds = f].steps = draft[r].steps
    BY DEF Draft
  <2> QED BY <2>1, <2>2
<1>4. CASE draft' = [draft EXCEPT ![r].steps = InitialApprovalSteps(r)]
  BY <1>4 DEF Draft
<1>5. CASE \E n : draft' = [draft EXCEPT ![r].prev = n]
  BY <1>5 DEF Draft
<1>6. CASE \E n : draft' = [draft EXCEPT ![r].entry = n]
  BY <1>6 DEF Draft
<1> QED BY <1>1, <1>2, <1>3, <1>4, <1>5, <1>6

\* A creation stores a payment that no decision is about, of undecided steps.
LEMMA CreationKeepsApprovals ==
  ASSUME TypeInv, MoneyInv, CallerInv, NEW r \in CreateRequests, UNCHANGED verdict,
         CreatePayment(r) \/ RefuseMalformed(r) \/ CreationStep(r)
  PROVE  ApprovalsKept
<1> USE DEF TypeInv, SystemTypeOK, CreationTypeOK, StoreTypeOK, Requests
<1>1. \A d \in DecideRequests : pc'[d] = pc[d] /\ args'[d] = args[d]
  BY StoreAssumption
     DEF Goto, Answer, Leave, CreatePayment, RefuseMalformed, CreationStep, EnterCreation,
         AcquireTenantLock, ReleaseTenantLock, FindExistingPayment, GetAccount,
         RecheckExistingPayment, AddPayment, AppendCreationEntry, SaveCreationEntry,
         CommitCreation, ReturnWinner, CreationCallFails, CommitAnswerLost
<1>2. \A q \in CreateRequests : Undecided(draft'[q].steps)
  <2> SUFFICES ASSUME NEW q \in CreateRequests PROVE Undecided(draft'[q].steps)
    OBVIOUS
  <2>1. draft'[q].steps = draft[q].steps \/ draft'[q].steps = InitialApprovalSteps(r)
    BY DraftStepsFrame
  <2>2. Undecided(draft[q].steps)
    BY DEF CallerInv
  <2>3. Undecided(InitialApprovalSteps(r))
    BY InitialStepsUndecided
  <2> QED BY <2>1, <2>2, <2>3, Zenon
<1>3. \/ payment' = payment
      \/ /\ payment' = [payment EXCEPT ![r] = DraftPayment(r)] /\ r \notin Stored
         /\ r \in PaymentIds
  <2>1. CASE CommitCreation(r) \/ CommitAnswerLost(r)
    <3>1. pc[r] = "commit" /\ PersistCreation(r)
      BY <2>1 DEF CommitCreation, CommitAnswerLost
    <3> QED BY <3>1 DEF PersistCreation, MoneyInv, NotYetStored, PaymentIds
  <2>2. CASE ~(CommitCreation(r) \/ CommitAnswerLost(r))
    BY <2>2 DEF CreatePayment, RefuseMalformed, CreationStep, EnterCreation, database,
         AcquireTenantLock, ReleaseTenantLock, FindExistingPayment, GetAccount,
         RecheckExistingPayment, AddPayment, AppendCreationEntry, SaveCreationEntry,
         ReturnWinner, CreationCallFails
  <2> QED BY <2>1, <2>2
<1>4. \A p \in Stored : payment'[p] = payment[p]
  BY <1>3 DEF Stored
<1>5. \A d \in DecideRequests : Ruled(d) =>
        payment'[args[d].payment] = payment[args[d].payment]
  BY <1>4 DEF Carried, Ruled
<1>6. \A p \in Stored' : \/ p \in Stored /\ payment'[p] = payment[p]
                         \/ EnoughApprovals(payment'[p]) /\ EntitledPayment(payment'[p])
  <2>1. \A p \in Stored' : p \in Stored \/ (p = r /\ payment'[p] = DraftPayment(r))
    BY <1>3 DEF Stored
  <2>2. EnoughApprovals(DraftPayment(r))
    BY DEF EnoughApprovals, DraftPayment, Direct
  <2>3. EntitledPayment(DraftPayment(r))
    BY DEF EntitledPayment, EntitledStep, DraftPayment, CallerInv, Undecided
  <2> QED BY <1>4, <2>1, <2>2, <2>3
<1>7. QuietForRulings
  BY <1>1, <1>2, <1>5, <1>6 DEF QuietForRulings, RulingKept, Unruled, Ruled
<1> QED BY <1>7, QuietKeepsApprovals

\* The steps of a decision before it is ruled and after its save, and those without rows.
LEMMA OtherDecisionKeepsApprovals ==
  ASSUME TypeInv, CallerInv, NEW r \in DecideRequests, UNCHANGED draft,
         \/ Decide(r) \/ EnterDecision(r) \/ RefuseDecision(r) \/ AppendDecisionEntry(r)
         \/ SaveConflicts(r) \/ DecisionCallFails(r)
         \/ (ReleaseTenantLock(r) /\ UNCHANGED verdict)
  PROVE  ApprovalsKept
<1> USE DEF TypeInv, SystemTypeOK, DecisionTypeOK, StoreTypeOK, Requests
<1> USE DEF Goto, Answer, Leave, AcquireTenantLock, Decide, EnterDecision, RefuseDecision,
            AppendDecisionEntry, SaveConflicts, ReadyToSave, DecisionCallFails, ReleaseTenantLock
<1>1. payment' = payment
  BY DEF database
<1>2. \A d \in DecideRequests \ {r} :
        pc'[d] = pc[d] /\ args'[d] = args[d] /\ verdict'[d] = verdict[d]
  OBVIOUS
<1>3. /\ Unruled(r)' => Unruled(r) /\ verdict'[r] = verdict[r]
      /\ Ruled(r)' => RulingKept(r)
  BY <1>1 DEF Unruled, Ruled, RulingKept, Verdict
<1>4. QuietForRulings
  BY <1>1, <1>2, <1>3 DEF QuietForRulings, RulingKept, Unruled, Ruled, CallerInv, Stored
<1> QED BY <1>4, QuietKeepsApprovals

LEMMA RestartKeepsApprovals ==
  ASSUME TypeInv, CallerInv, NEW i \in Instances, Restart(i), UNCHANGED <<draft, verdict>>
  PROVE  ApprovalsKept
<1>1. \A q \in Requests : pc'[q] \in {pc[q], "done"}
  BY DEF Restart
<1>2. payment' = payment /\ args' = args
  BY DEF Restart, database
<1>3. QuietForRulings
  BY <1>1, <1>2 DEF QuietForRulings, RulingKept, Unruled, Ruled, CallerInv, Stored, Requests
<1> QED BY <1>3, QuietKeepsApprovals

-----------------------------------------------------------------------------
(* A ruling                                                                *)

\* A step that is added to reach the required number is undecided.
LEMMA MissingStepUndecided ==
  ASSUME NEW r
  PROVE  Undecided(<<MissingApprovalStep(r)>>)
<1>1. MissingApprovalStep(r).source = "none"
  BY DEF MissingApprovalStep, PendingStep
<1> HIDE DEF MissingApprovalStep
<1> QED BY <1>1 DEF Undecided

\* What the checks of DecideAsync and ApproveAsync have let through.
LEMMA AllowedDecision ==
  ASSUME NEW r, RefusalOf(r) = "none"
  PROVE  StepFound(r) /\ MayDecide(r) /\ ~AlreadyDecided(r)
BY DEF RefusalOf

LEMMA RulingKeepsApprovals ==
  ASSUME TypeInv, CallerInv, NEW r \in DecideRequests, UNCHANGED draft,
         ApproveStep(r) \/ ApprovePayment(r) \/ RejectPayment(r)
  PROVE  ApprovalsKept
<1> USE DEF TypeInv, SystemTypeOK, DecisionTypeOK, StoreTypeOK, Requests
<1>1. /\ payment' = payment /\ args' = args /\ pc[r] = "load" /\ pc'[r] = "append"
      /\ RefusalOf(r) = "none" /\ \A d \in DecideRequests \ {r} : pc'[d] = pc[d]
  BY DEF ApproveStep, ApprovePayment, RejectPayment, Goto, database
<1>2. verdict[r] \in Verdict /\ verdict[r].extra = <<>> /\ verdict[r].closed = {}
  BY <1>1 DEF CallerInv, Unruled
<1>3. StepFound(r) /\ MayDecide(r) /\ ~AlreadyDecided(r)
  BY <1>1, AllowedDecision
<1>4. /\ \A d \in DecideRequests \ {r} : verdict'[d] = verdict[d]
      /\ Undecided(verdict'[r].extra)
      /\ Completes(r)' => LastApproval(r) /\ verdict'[r].extra = <<>> /\ verdict'[r].closed = {}
  <2>1. CASE ApproveStep(r)
    <3>1. PICK extra \in {<<>>, <<MissingApprovalStep(r)>>} :
            verdict' = [verdict EXCEPT ![r] = [verdict[r] EXCEPT !.action = "APPROVE_PAYMENT_STEP",
                                                                 !.extra = extra]]
      BY <2>1 DEF ApproveStep
    <3>2. verdict'[r].action = "APPROVE_PAYMENT_STEP" /\ verdict'[r].extra = extra
      BY <1>2, <3>1 DEF Verdict
    <3>3. Undecided(<<>>)
      BY DEF Undecided
    <3>4. Undecided(extra)
      BY <3>1, <3>3, MissingStepUndecided
    <3> QED BY <3>1, <3>2, <3>4 DEF Completes
  <2>2. CASE ApprovePayment(r)
    <3> DEFINE v == version[PaymentOf(r).account]
               f == balance[PaymentOf(r).account]
    <3>0. verdict' = [verdict EXCEPT ![r].action = "APPROVE_PAYMENT",
                                     ![r].version = v, ![r].funds = f]
      BY <2>2 DEF ApprovePayment
    <3> HIDE DEF v, f
    <3>1. verdict' = [verdict EXCEPT ![r] = [verdict[r] EXCEPT !.action = "APPROVE_PAYMENT",
                                                               !.version = v, !.funds = f]]
      BY <3>0
    <3>2. verdict'[r].extra = <<>> /\ verdict'[r].closed = {}
      BY <1>2, <3>1 DEF Verdict
    <3> QED BY <2>2, <3>1, <3>2 DEF ApprovePayment, Undecided
  <2>3. CASE RejectPayment(r)
    <3>1. PICK c :
            verdict' = [verdict EXCEPT ![r] = [verdict[r] EXCEPT !.action = "REJECT_PAYMENT",
                                                                 !.closed = c]]
      BY <2>3 DEF RejectPayment
    <3>2. verdict'[r].action = "REJECT_PAYMENT" /\ verdict'[r].extra = <<>>
      BY <1>2, <3>1 DEF Verdict
    <3> QED BY <3>1, <3>2 DEF Completes, Undecided
  <2> QED BY <2>1, <2>2, <2>3
<1>5. /\ PaymentOf(r)' = PaymentOf(r) /\ StepsOf(r)' = StepsOf(r) /\ TargetStep(r)' = TargetStep(r)
      /\ PaymentTenant(r)' = PaymentTenant(r) /\ TenantOf(r)' = TenantOf(r)
  BY <1>1 DEF PaymentOf, StepsOf, TargetStep, PaymentTenant, TenantOf
<1>6. StepsAfterApproval(r)' = StepsAfterApproval(r) /\ MayDecide(r)' = MayDecide(r)
  BY <1>1, <1>5 DEF StepsAfterApproval, MayDecide
<1>7. LastApproval(r)' = LastApproval(r)
  BY <1>5, <1>6 DEF LastApproval, MissingApproval
<1>8. CallerMay(r)' /\ AsRuled(r)'
  BY <1>1, <1>3, <1>4, <1>5, <1>6, <1>7 DEF CallerMay, AsRuled, StepFound, AlreadyDecided
<1>9. \A d \in DecideRequests \ {r} : Ruled(d) => RulingKept(d)
  BY <1>1, <1>4 DEF RulingKept
<1>10. CallerInv'
  <2>1. ASSUME NEW d \in DecideRequests \ {r}
        PROVE  /\ Unruled(d)' => verdict'[d].extra = <<>> /\ verdict'[d].closed = {}
               /\ Ruled(d)' => CallerMay(d)' /\ Undecided(verdict'[d].extra)
    <3>1. pc'[d] = pc[d] /\ verdict'[d] = verdict[d]
      BY <1>1, <1>4
    <3> QED BY <1>9, <3>1, KeptRuling DEF CallerInv, Unruled, Ruled
  <2> QED BY <1>1, <1>4, <1>8, <2>1 DEF CallerInv, Unruled, Ruled
<1>11. EntitledInv => EntitledInv'
  BY <1>1 DEF EntitledInv, Stored
<1>12. ApprovedInv => ApprovedInv'
  <2> SUFFICES ASSUME ApprovedInv PROVE ApprovedInv'
    OBVIOUS
  <2>1. ASSUME NEW d \in DecideRequests, Ruled(d)'
        PROVE  AsRuled(d)'
    <3>1. CASE d = r
      BY <1>8, <3>1
    <3>2. CASE d # r
      <4>1. Ruled(d)
        BY <1>1, <2>1, <3>2 DEF Ruled
      <4> QED BY <1>9, <3>2, <4>1, KeptRuling DEF ApprovedInv
    <3> QED BY <3>1, <3>2
  <2>2. \A p \in Stored' : p \in Stored /\ payment'[p] = payment[p]
    BY <1>1 DEF Stored
  <2> QED BY <2>1, <2>2 DEF ApprovedInv
<1> QED BY <1>10, <1>11, <1>12 DEF ApprovalsKept

-----------------------------------------------------------------------------
(* A save                                                                  *)

\* However the approvals of a payment are counted, there is a number of them.
LEMMA ApprovalsAreCounted ==
  ASSUME NEW steps \in Seq(Step), NEW amount
  PROVE  ApprovalsCounted(amount, steps) \in Nat
<1> DEFINE approved == StepsWith(steps, "approved")
           who == {steps[i].decidedBy : i \in approved}
           by == [i \in approved |-> steps[i].decidedBy]
<1>1. approved \in SUBSET (1..Len(steps)) /\ Len(steps) \in Nat
  BY DEF StepsWith
<1>2. IsFiniteSet(1..Len(steps))
  BY <1>1, FS_Interval
<1>3. IsFiniteSet(approved)
  BY <1>1, <1>2, FS_Subset
<1>4. by \in Surjection(approved, who)
  BY DEF Surjection
<1>5. IsFiniteSet(who)
  BY <1>3, <1>4, FS_Surjection
<1>6. IsFiniteSet(Deciders(steps))
  BY <1>5, FS_RemoveElement DEF Deciders
<1> QED BY <1>3, <1>6, FS_CardinalityType DEF ApprovalsCounted

LEMMA ApprovedStepsAreSteps ==
  ASSUME TypeInv, NEW r \in DecideRequests, Ruled(r), CallerMay(r)
  PROVE  StepsAfterApproval(r) \in Seq(Step)
<1> USE DEF TypeInv, SystemTypeOK, DecisionTypeOK
<1>1. args[r].user \in Users /\ args[r].payment \in Stored
  BY DEF InFlight, DecideArgs, Carried, Ruled
<1>2. StepsOf(r) \in Seq(Step)
  BY <1>1, StoredIsPayment DEF StepsOf, PaymentOf, Payment
<1>3. \A s \in Step : DecidedStep(s, "approved", args[r].user, "manual") \in Step
  BY <1>1 DEF DecidedStep, Step
<1>4. args[r].step \in 1..Len(StepsOf(r)) /\ StepsOf(r)[args[r].step] \in Step
  BY <1>2 DEF CallerMay
<1> DEFINE new == DecidedStep(StepsOf(r)[args[r].step], "approved", args[r].user, "manual")
<1>5. StepsAfterApproval(r) = [StepsOf(r) EXCEPT ![args[r].step] = new]
  BY DEF StepsAfterApproval
<1>6. new \in Step
  BY <1>3, <1>4
<1> HIDE DEF new
<1> QED BY <1>2, <1>4, <1>5, <1>6, ExceptSeq

\* The approval that completes a payment is saved as it was counted.
LEMMA CompletingSave ==
  ASSUME TypeInv, NEW r \in DecideRequests, Ruled(r), CallerMay(r), AsRuled(r), Completes(r)
  PROVE  SavedSteps(r) = StepsAfterApproval(r)
<1>1. verdict[r].extra = <<>> /\ verdict[r].closed = {} /\ verdict[r].action = "APPROVE_PAYMENT"
  BY DEF AsRuled, Completes
<1> DEFINE body == [i \in DOMAIN StepsOf(r) |->
                      IF i = args[r].step
                      THEN DecidedStep(StepsOf(r)[i], "approved", args[r].user, "manual")
                      ELSE StepsOf(r)[i]]
<1>2. SavedSteps(r) = body \o <<>>
  BY <1>1 DEF SavedSteps
<1>3. StepsOf(r) \in Seq(Step)
  BY StoredIsPayment DEF TypeInv, SystemTypeOK, DecisionTypeOK, Carried, Ruled, StepsOf, PaymentOf, Payment
<1>4. body = StepsAfterApproval(r)
  BY <1>3 DEF StepsAfterApproval
<1>5. body \in Seq(Step)
  BY <1>4, ApprovedStepsAreSteps
<1> QED BY <1>2, <1>4, <1>5, ConcatEmptySeq

LEMMA SaveIsApproved ==
  ASSUME TypeInv, NEW r \in DecideRequests, Ruled(r), CallerMay(r), AsRuled(r),
         NEW x, x.steps = SavedSteps(r), x.status = SavedStatus(r), x.amount = PaymentOf(r).amount
  PROVE  EnoughApprovals(x)
<1> SUFFICES ASSUME x.status = "completed", RequiresApproval(x.amount)
             PROVE  ApprovalsCounted(x.amount, x.steps) >= RequiredApprovalSteps(x.amount)
  BY DEF EnoughApprovals
<1>1. Completes(r)
  BY DEF SavedStatus, Completes, AsRuled
<1>2. x.steps = StepsAfterApproval(r)
  BY <1>1, CompletingSave
<1>3. ~(ApprovalsCounted(x.amount, x.steps) < RequiredApprovalSteps(x.amount))
  BY <1>1, <1>2 DEF AsRuled, LastApproval, MissingApproval
<1>4. ApprovalsCounted(x.amount, x.steps) \in Nat
  BY <1>2, ApprovalsAreCounted, ApprovedStepsAreSteps
<1> QED BY <1>3, <1>4 DEF RequiredApprovalSteps

LEMMA SaveIsEntitled ==
  ASSUME TypeInv, EntitledInv, NEW r \in DecideRequests, Ruled(r), CallerMay(r),
         Undecided(verdict[r].extra),
         NEW x, x.steps = SavedSteps(r), x.account = PaymentOf(r).account
  PROVE  EntitledPayment(x)
<1> USE DEF TypeInv, SystemTypeOK, DecisionTypeOK
<1> DEFINE t == AccountTenant[x.account]
           decided == IF verdict[r].action = "REJECT_PAYMENT" THEN "rejected" ELSE "approved"
           After(i) ==
             IF i = args[r].step THEN DecidedStep(StepsOf(r)[i], decided, args[r].user, "manual")
             ELSE IF i \in verdict[r].closed
             THEN DecidedStep(StepsOf(r)[i], "rejected", Nobody, "payment_rejected")
             ELSE StepsOf(r)[i]
           body == [i \in DOMAIN StepsOf(r) |-> After(i)]
<1>1. args[r].user \in Users /\ args[r].payment \in Stored /\ verdict[r].extra \in Seq(Step)
  BY DEF InFlight, DecideArgs, Carried, Ruled, Verdict
<1>2. StepsOf(r) \in Seq(Step) /\ EntitledPayment(PaymentOf(r))
  BY <1>1, StoredIsPayment DEF StepsOf, PaymentOf, Payment, EntitledInv
<1>3. \A i \in DOMAIN StepsOf(r) : EntitledStep(t, After(i)) /\ After(i) \in Step
  <2> SUFFICES ASSUME NEW i \in DOMAIN StepsOf(r)
               PROVE  EntitledStep(t, After(i)) /\ After(i) \in Step
    OBVIOUS
  <2>1. StepsOf(r)[i] \in Step /\ EntitledStep(t, StepsOf(r)[i])
    BY <1>2 DEF EntitledPayment, StepsOf
  <2>2. CASE i = args[r].step
    <3>1. UserTenant[args[r].user] = t
      BY DEF CallerMay, PaymentTenant, TenantOf
    <3>2. StepsOf(r)[i].attestant = args[r].user \/ IsAdmin(args[r].user)
      BY <2>2 DEF CallerMay, MayDecide, TargetStep
    <3> QED BY <1>1, <2>1, <2>2, <3>1, <3>2 DEF EntitledStep, DecidedStep, Step
  <2>3. CASE i # args[r].step
    BY <2>1, <2>3 DEF EntitledStep, DecidedStep, Step
  <2> QED BY <2>2, <2>3
<1>4. x.steps = body \o verdict[r].extra
  BY DEF SavedSteps
<1>5. DOMAIN StepsOf(r) = 1..Len(StepsOf(r)) /\ Len(StepsOf(r)) \in Nat
  BY <1>2
<1> HIDE DEF After, t
<1>6. body \in Seq(Step) /\ Len(body) = Len(StepsOf(r))
  BY <1>3, <1>5
<1>7. \A i \in DOMAIN body : EntitledStep(t, body[i])
  BY <1>3
<1>8. \A j \in DOMAIN verdict[r].extra : EntitledStep(t, verdict[r].extra[j])
  BY DEF Undecided, EntitledStep
<1> HIDE DEF body
<1>9. \A i \in DOMAIN x.steps : EntitledStep(t, x.steps[i])
  BY <1>1, <1>4, <1>6, <1>7, <1>8, ConcatProperties
<1> QED BY <1>9 DEF EntitledPayment, t

\* Only one request of a tenant saves: the other rulings are about other payments.
LEMMA OthersDecideElsewhere ==
  ASSUME OneProcess, TypeInv, LockInv, NEW r \in DecideRequests, NEW d \in DecideRequests \ {r},
         Ruled(r), CallerMay(r), Ruled(d), CallerMay(d)
  PROVE  args[d].payment # args[r].payment
<1>1. InSection(r) /\ InSection(d) /\ r \in Requests /\ d \in Requests
  BY DEF Ruled, InSection, Requests
<1>2. TenantOf(r) # TenantOf(d)
  BY <1>1, Alone
<1> QED BY <1>2 DEF CallerMay, PaymentTenant, PaymentOf

\* A save leaves every step with its attestant, whatever else it writes.
LEMMA SavedStepsStay ==
  ASSUME TypeInv, NEW r \in DecideRequests, Ruled(r)
  PROVE  \A i \in DOMAIN StepsOf(r) :
           i \in DOMAIN SavedSteps(r) /\ SavedSteps(r)[i].attestant = StepsOf(r)[i].attestant
<1> USE DEF TypeInv, SystemTypeOK, DecisionTypeOK
<1> DEFINE decided == IF verdict[r].action = "REJECT_PAYMENT" THEN "rejected" ELSE "approved"
           After(i) ==
             IF i = args[r].step THEN DecidedStep(StepsOf(r)[i], decided, args[r].user, "manual")
             ELSE IF i \in verdict[r].closed
             THEN DecidedStep(StepsOf(r)[i], "rejected", Nobody, "payment_rejected")
             ELSE StepsOf(r)[i]
           body == [i \in DOMAIN StepsOf(r) |-> After(i)]
           Any == {After(i) : i \in DOMAIN StepsOf(r)} \cup Step
<1>1. args[r].payment \in Stored /\ verdict[r].extra \in Seq(Step)
  BY DEF Carried, Ruled, Verdict
<1>2. StepsOf(r) \in Seq(Step)
  BY <1>1, StoredIsPayment DEF StepsOf, PaymentOf, Payment
<1>3. DOMAIN StepsOf(r) = 1..Len(StepsOf(r)) /\ Len(StepsOf(r)) \in Nat
  BY <1>2
<1>4. \A i \in DOMAIN StepsOf(r) : After(i).attestant = StepsOf(r)[i].attestant
  BY DEF DecidedStep
<1>5. SavedSteps(r) = body \o verdict[r].extra
  BY DEF SavedSteps
<1> HIDE DEF After
<1>6. body \in Seq(Any) /\ Len(body) = Len(StepsOf(r)) /\ verdict[r].extra \in Seq(Any)
  <2>1. \A i \in DOMAIN StepsOf(r) : After(i) \in Any
    OBVIOUS
  <2>2. Step \subseteq Any
    OBVIOUS
  <2> HIDE DEF Any
  <2> QED BY <1>1, <1>3, <2>1, <2>2
<1>7. \A i \in DOMAIN StepsOf(r) : body[i].attestant = StepsOf(r)[i].attestant
  BY <1>4
<1> HIDE DEF body, Any
<1> QED BY <1>3, <1>5, <1>6, <1>7, ConcatProperties

LEMMA SaveKeepsApprovals ==
  ASSUME TypeInv, LockInv, CallerInv, NEW r \in DecideRequests, UNCHANGED draft,
         SaveDecision(r) \/ SaveAnswerLost(r)
  PROVE  /\ CallerInv'
         /\ EntitledInv => EntitledInv'
         /\ OneProcess /\ ApprovedInv => ApprovedInv'
<1> USE DEF TypeInv, SystemTypeOK, DecisionTypeOK, StoreTypeOK, Requests
<1> DEFINE p == args[r].payment
<1>1. /\ PersistDecision(r) /\ pc[r] = "save" /\ args' = args /\ verdict' = verdict
      /\ pc'[r] = "finally" /\ \A d \in DecideRequests \ {r} : pc'[d] = pc[d]
  BY DEF SaveDecision, SaveAnswerLost, ReadyToSave, Leave
<1>2. Ruled(r) /\ CallerMay(r) /\ Undecided(verdict[r].extra)
  BY <1>1 DEF CallerInv, Ruled
<1>3. /\ p \in Stored /\ payment[p] \in Payment /\ Stored' = Stored
      /\ \A x \in PaymentIds \ {p} : payment'[x] = payment[x]
      /\ payment'[p].account = PaymentOf(r).account /\ payment'[p].amount = PaymentOf(r).amount
      /\ payment'[p].status = SavedStatus(r)
  BY <1>1, SavedPayment DEF PaymentOf
<1>4. payment'[p].steps = SavedSteps(r)
  <2>1. payment' = [payment EXCEPT ![p] = [PaymentOf(r) EXCEPT !.steps = SavedSteps(r),
                                                               !.status = SavedStatus(r)]]
    BY <1>1, <1>3 DEF PersistDecision, PaymentOf, Stored
  <2>2. [PaymentOf(r) EXCEPT !.steps = SavedSteps(r), !.status = SavedStatus(r)].steps = SavedSteps(r)
    BY <1>3 DEF PaymentOf, Payment
  <2> QED BY <1>3, <2>1, <2>2 DEF Stored
<1>5. \A q \in Stored \ {p} : payment'[q] = payment[q]
  BY <1>3 DEF Stored
\* Another ruling on the same payment finds its step and its attestant as before.
<1>6. ASSUME NEW d \in DecideRequests, Ruled(d)'
      PROVE  d # r /\ Ruled(d) /\ CallerMay(d)' /\ Undecided(verdict'[d].extra)
  <2>1. d # r /\ Ruled(d)
    BY <1>1, <1>6 DEF Ruled
  <2>2. CallerMay(d) /\ Undecided(verdict[d].extra) /\ args[d].payment \in Stored
    BY <2>1 DEF CallerInv, Carried, Ruled
  <2>3. CASE args[d].payment # p
    <3>1. RulingKept(d)
      BY <1>1, <1>5, <2>1, <2>2, <2>3 DEF RulingKept
    <3> QED BY <1>1, <2>1, <2>2, <3>1, KeptRuling
  <2>4. CASE args[d].payment = p
    <3>1. StepsOf(d) = StepsOf(r) /\ StepsOf(d)' = SavedSteps(r)
      BY <1>1, <1>4, <2>4 DEF StepsOf, PaymentOf
    <3>2. args[d].step \in DOMAIN StepsOf(d)' /\ TargetStep(d)'.attestant = TargetStep(d).attestant
      BY <1>1, <1>2, <2>2, <3>1, SavedStepsStay DEF CallerMay, TargetStep
    <3>3. PaymentTenant(d)' = PaymentTenant(d) /\ TenantOf(d)' = TenantOf(d)
      BY <1>1, <1>3, <2>4 DEF PaymentTenant, PaymentOf, TenantOf
    <3>4. MayDecide(d)' = MayDecide(d)
      BY <1>1, <3>2 DEF MayDecide
    <3> QED BY <1>1, <2>1, <2>2, <3>2, <3>3, <3>4 DEF CallerMay
  <2> QED BY <2>3, <2>4
<1>7. CallerInv'
  <2>1. \A d \in DecideRequests : Unruled(d)' => Unruled(d)
    BY <1>1 DEF Unruled
  <2> QED BY <1>1, <1>6, <2>1 DEF CallerInv
<1>8. ASSUME EntitledInv PROVE EntitledInv'
  <2>1. EntitledPayment(payment'[p])
    BY <1>2, <1>3, <1>4, <1>8, SaveIsEntitled
  <2> QED BY <1>3, <1>5, <1>8, <2>1 DEF EntitledInv
<1>9. ASSUME OneProcess, ApprovedInv PROVE ApprovedInv'
  <2>1. EnoughApprovals(payment'[p])
    <3>1. AsRuled(r)
      BY <1>2, <1>9 DEF ApprovedInv
    <3> QED BY <1>2, <1>3, <1>4, <3>1, SaveIsApproved
  <2>2. ASSUME NEW d \in DecideRequests, Ruled(d)'
        PROVE  AsRuled(d)'
    <3>1. d \in DecideRequests \ {r} /\ Ruled(d) /\ AsRuled(d) /\ CallerMay(d)
      BY <1>6, <1>9, <2>2 DEF ApprovedInv, CallerInv
    <3>2. args[d].payment # p /\ args[d].payment \in Stored
      BY <1>2, <1>9, <3>1, OthersDecideElsewhere DEF Ruled, Carried
    <3>3. RulingKept(d)
      BY <1>1, <1>5, <3>1, <3>2 DEF RulingKept
    <3> QED BY <3>1, <3>3, KeptRuling
  <2> QED BY <1>3, <1>5, <1>9, <2>1, <2>2 DEF ApprovedInv
<1> QED BY <1>7, <1>8, <1>9

-----------------------------------------------------------------------------
\* Every step of the system keeps what the theorems below need.
LEMMA ApprovalNext ==
  ASSUME TypeInv, MoneyInv, LockInv, CallerInv, [SystemNext]_systemVars
  PROVE  /\ CallerInv'
         /\ EntitledInv => EntitledInv'
         /\ OneProcess /\ ApprovedInv => ApprovedInv'
<1>1. CASE UNCHANGED systemVars
  <2>1. QuietForRulings
    BY <1>1 DEF systemVars, storeVars, database, QuietForRulings, RulingKept, Unruled, Ruled,
                CallerInv, Stored
  <2> QED BY <2>1, QuietKeepsApprovals DEF ApprovalsKept
<1>2. ASSUME NEW r \in CreateRequests, UNCHANGED verdict,
             CreatePayment(r) \/ RefuseMalformed(r) \/ CreationStep(r)
      PROVE  ApprovalsKept
  BY <1>2, CreationKeepsApprovals
<1>3. ASSUME NEW r \in DecideRequests, UNCHANGED draft, Decide(r) \/ DecisionStep(r)
      PROVE  ApprovalsKept \/ SaveDecision(r) \/ SaveAnswerLost(r)
  BY <1>3, OtherDecisionKeepsApprovals, RulingKeepsApprovals DEF DecisionStep
<1>4. ASSUME NEW i \in Instances, Restart(i), UNCHANGED <<draft, verdict>>
      PROVE  ApprovalsKept
  BY <1>4, RestartKeepsApprovals
<1> QED BY <1>1, <1>2, <1>3, <1>4, SaveKeepsApprovals DEF SystemNext, ApprovalsKept

ApprovalInv == TypeInv /\ MoneyInv /\ LockInv /\ CallerInv

LEMMA ApprovalInvInit == SystemInit => ApprovalInv
BY TypeInit, MoneyInit, LockInit, ApprovalInit DEF ApprovalInv

LEMMA ApprovalInvNext == ApprovalInv /\ [SystemNext]_systemVars => ApprovalInv'
BY TypeNext, MoneyNext, LockNext, ApprovalNext DEF ApprovalInv

\* Nobody but its attestant or an admin of the tenant has decided a step by hand, on any
\* number of processes and in any order of approvals, rejections and restarts
\* (DecideAsync, BUG-011).
THEOREM DecisionsEntitled ==
  ASSUME LegacyEntitled
  PROVE  SystemSpec => []DecidersEntitled
<1> DEFINE IInv == ApprovalInv /\ EntitledInv
<1>1. SystemInit => IInv
  BY ApprovalInvInit, ApprovalInit
<1>2. IInv /\ [SystemNext]_systemVars => IInv'
  BY ApprovalInvNext, ApprovalNext DEF ApprovalInv
<1>3. IInv => DecidersEntitled
  BY RowsGiveProperties
<1> QED BY <1>1, <1>2, <1>3, PTL DEF SystemSpec

\* On one process a payment above a threshold is completed only with the approvals the rule
\* asks for, of two different people for a double approval, however many decisions of it race
\* with each other, with rejections and with restarts (ApproveAsync; BUG-006).
THEOREM EnoughApprovalsGiven ==
  ASSUME OneProcess
  PROVE  SystemSpec => []CompletedOnEnoughApprovals
<1> DEFINE IInv == ApprovalInv /\ ApprovedInv
<1>1. SystemInit => IInv
  BY ApprovalInvInit, ApprovalInit
<1>2. IInv /\ [SystemNext]_systemVars => IInv'
  BY ApprovalInvNext, ApprovalNext DEF ApprovalInv
<1>3. IInv => CompletedOnEnoughApprovals
  BY RowsGiveProperties
<1> QED BY <1>1, <1>2, <1>3, PTL DEF SystemSpec
=============================================================================
