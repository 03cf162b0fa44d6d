-------------------------- MODULE ApprovalDecision --------------------------
(***************************************************************************)
(* POST /api/approvals/{id}/decision: ApprovalService.DecideAsync, with    *)
(* ApproveAsync, RejectAsync and AddMissingApprovalStepAsync.              *)
(*                                                                         *)
(*   lock -> load -> append -> save -> finally -> done                     *)
(*                                                                         *)
(* The lock is taken before the first read, and one SaveChanges writes     *)
(* everything.  A step is named by its payment and its place in the list.  *)
(***************************************************************************)
EXTENDS PaymentStore

CONSTANT DecisionPayloads   \* the decisions clients send

DecideArgs == [inst : Instances, user : Users, payment : PaymentIds, step : Nat \ {0},
               action : {"approve", "reject", "malformed"}]

ASSUME DecisionAssumption == DecisionPayloads \subseteq DecideArgs

VARIABLE verdict   \* what a request tracks for its save

EmptyVerdict == [action |-> "none", extra |-> <<>>, closed |-> {},
                 version |-> 0, funds |-> 0, prev |-> 0]

decisionVars == <<storeVars, verdict>>

-----------------------------------------------------------------------------
(* The rules of ApproveAsync, on the rows r has loaded                     *)

PaymentOf(r) == payment[args[r].payment]
StepsOf(r) == PaymentOf(r).steps
TargetStep(r) == StepsOf(r)[args[r].step]
IsAdmin(u) == UserRole[u] = "admin"
PaymentTenant(r) == AccountTenant[PaymentOf(r).account]

\* The step exists, in a payment of the caller's tenant.
StepFound(r) ==
  /\ args[r].payment \in Stored
  /\ args[r].step \in DOMAIN StepsOf(r)
  /\ PaymentTenant(r) = TenantOf(r)

\* Mutant: whoever is signed in may decide.
AnyoneMayDecide(r) == TRUE

MayDecide(r) == TargetStep(r).attestant = args[r].user \/ IsAdmin(args[r].user)

AlreadyDecided(r) ==
  TargetStep(r).status # "pending" \/ PaymentOf(r).status # "pending_approval"

StepsWith(steps, s) == {i \in DOMAIN steps : steps[i].status = s}

\* The users known to have approved; a null decided_by is a legacy row.
Deciders(steps) == {steps[i].decidedBy : i \in StepsWith(steps, "approved")} \ {Nobody}

\* Mutant: only the assignment of the step counts, not who decided.
NoDuplicateDecider(r) == FALSE

DuplicateDecider(r) ==
  RequiresDoubleApproval(PaymentOf(r).amount) /\ args[r].user \in Deciders(StepsOf(r))

\* Mutant: the step is recorded as decided by its attestant.
StepDecidedByAttestant(s, status, u, source) ==
  [attestant |-> s.attestant, status |-> status, decidedBy |-> s.attestant, source |-> source]

DecidedStep(s, status, u, source) ==
  [attestant |-> s.attestant, status |-> status, decidedBy |-> u, source |-> source]

StepsAfterApproval(r) ==
  [StepsOf(r) EXCEPT ![args[r].step] = DecidedStep(@, "approved", args[r].user, "manual")]

\* Two different people for a double approval, any approved step otherwise.
ApprovalsCounted(amount, steps) ==
  IF RequiresDoubleApproval(amount)
  THEN Cardinality(Deciders(steps))
  ELSE Cardinality(StepsWith(steps, "approved"))

\* Mutant: a payment is complete when nothing is pending (BUG-006).
NothingMissing(r) == FALSE

\* Nothing is pending, and the rule asks for more approvals than there are.
MissingApproval(r) ==
  LET steps == StepsAfterApproval(r)
  IN  /\ StepsWith(steps, "pending") = {}
      /\ ApprovalsCounted(PaymentOf(r).amount, steps)
           < RequiredApprovalSteps(PaymentOf(r).amount)

\* AddMissingApprovalStepAsync: nobody who is assigned, has decided or created it.
MissingApprovalStep(r) ==
  LET steps == StepsAfterApproval(r)
      involved == {steps[i].attestant : i \in DOMAIN steps}
                    \cup {steps[i].decidedBy : i \in DOMAIN steps}
                    \cup {PaymentOf(r).creator}
  IN  PendingStep(FindNextAttestantId(PaymentTenant(r), involved))

LastApproval(r) ==
  StepsWith(StepsAfterApproval(r), "pending") = {} /\ ~MissingApproval(r)

-----------------------------------------------------------------------------
\* The controller: an unauthorised role never reaches the service.
Decide(r) ==
  /\ pc[r] = "idle"
  /\ \E a \in DecisionPayloads :
       /\ args' = [args EXCEPT ![r] = a]
       /\ \/ UserRole[a.user] \notin ApproverRoles /\ Answer(r, "forbidden")
          \/ UserRole[a.user] \in ApproverRoles /\ Goto(r, "lock")
  /\ UNCHANGED <<database, lock, verdict>>

EnterDecision(r) == AcquireTenantLock(r, "load") /\ UNCHANGED verdict

\* The checks of DecideAsync and ApproveAsync that end in an exception, in their order.
RefusalOf(r) ==
  IF args[r].action = "malformed" THEN "bad_request"
  ELSE IF ~StepFound(r) THEN "not_found"
  ELSE IF ~MayDecide(r) THEN "access_denied"
  ELSE IF AlreadyDecided(r) THEN "already_decided"
  ELSE IF args[r].action = "reject" THEN "none"
  ELSE IF DuplicateDecider(r) THEN "duplicate_decision"
  ELSE IF LastApproval(r) /\ ~CanComplete(PaymentOf(r).amount, balance[PaymentOf(r).account])
       THEN "insufficient_funds"
  ELSE "none"

RefuseDecision(r) ==
  /\ pc[r] = "load"
  /\ RefusalOf(r) # "none"
  /\ Leave(r, RefusalOf(r))
  /\ UNCHANGED <<database, lock, args, verdict>>

\* ApproveAsync while approvals are still missing.
ApproveStep(r) ==
  /\ pc[r] = "load"
  /\ RefusalOf(r) = "none" /\ args[r].action = "approve" /\ ~LastApproval(r)
  /\ verdict' = [verdict EXCEPT
       ![r].action = "APPROVE_PAYMENT_STEP",
       ![r].extra = IF MissingApproval(r) THEN <<MissingApprovalStep(r)>> ELSE <<>>]
  /\ Goto(r, "append")
  /\ UNCHANGED <<database, lock, args>>

\* ApproveAsync with the last approval: the payment is completed in memory.
ApprovePayment(r) ==
  LET a == PaymentOf(r).account
  IN  /\ pc[r] = "load"
      /\ RefusalOf(r) = "none" /\ args[r].action = "approve" /\ LastApproval(r)
      /\ verdict' = [verdict EXCEPT ![r].action = "APPROVE_PAYMENT",
                                    ![r].version = version[a], ![r].funds = balance[a]]
      /\ Goto(r, "append")
      /\ UNCHANGED <<database, lock, args>>

\* Mutant: the other pending steps are left open.
RejectStepOnly(r) ==
  /\ pc[r] = "load"
  /\ RefusalOf(r) = "none" /\ args[r].action = "reject"
  /\ verdict' = [verdict EXCEPT ![r].action = "REJECT_PAYMENT"]
  /\ Goto(r, "append")
  /\ UNCHANGED <<database, lock, args>>

\* RejectAsync: the other pending steps are closed with the payment.
RejectPayment(r) ==
  /\ pc[r] = "load"
  /\ RefusalOf(r) = "none" /\ args[r].action = "reject"
  /\ verdict' = [verdict EXCEPT
       ![r].action = "REJECT_PAYMENT",
       ![r].closed = StepsWith(StepsOf(r), "pending") \ {args[r].step}]
  /\ Goto(r, "append")
  /\ UNCHANGED <<database, lock, args>>

AppendDecisionEntry(r) ==
  /\ pc[r] = "append"
  /\ verdict' = [verdict EXCEPT ![r].prev = GetLatestSignature(PaymentTenant(r))]
  /\ Goto(r, "save")
  /\ UNCHANGED <<database, lock, args>>

\* The approval_steps rows after the save: only rows the request has changed are written.
SavedSteps(r) ==
  LET decided == IF verdict[r].action = "REJECT_PAYMENT" THEN "rejected" ELSE "approved"
      after(i) ==
        IF i = args[r].step THEN DecidedStep(StepsOf(r)[i], decided, args[r].user, "manual")
        ELSE IF i \in verdict[r].closed
        THEN DecidedStep(StepsOf(r)[i], "rejected", Nobody, "payment_rejected")
        ELSE StepsOf(r)[i]
  IN  [i \in DOMAIN StepsOf(r) |-> after(i)] \o verdict[r].extra

\* Mutant: the status of an approved step is given to the payment.
SavedStepStatus(r) ==
  CASE verdict[r].action = "APPROVE_PAYMENT" -> "approved"
    [] verdict[r].action = "REJECT_PAYMENT" -> "rejected"
    [] OTHER -> PaymentOf(r).status

SavedStatus(r) ==
  CASE verdict[r].action = "APPROVE_PAYMENT" -> "completed"
    [] verdict[r].action = "REJECT_PAYMENT" -> "rejected"
    [] OTHER -> PaymentOf(r).status

DecisionEntry(r) ==
  [id |-> nextEntry, prev |-> verdict[r].prev, tenant |-> PaymentTenant(r),
   user |-> args[r].user, action |-> verdict[r].action, payment |-> args[r].payment]

Completes(r) == verdict[r].action = "APPROVE_PAYMENT"

\* SaveChangesAsync is one transaction: steps, payment, account, transaction and entry.
PersistDecision(r) ==
  /\ payment' = [payment EXCEPT ![args[r].payment].steps = SavedSteps(r),
                                ![args[r].payment].status = SavedStatus(r)]
  /\ audit' = audit \cup {DecisionEntry(r)}
  /\ nextEntry' = nextEntry + 1
  /\ IF Completes(r)
     THEN CompletePayment(args[r].payment, PaymentOf(r).account, PaymentOf(r).amount,
                          verdict[r].funds)
     ELSE UNCHANGED <<balance, version, booked>>

\* Mutant: accounts have no row version.
AccountUnversionedSinceLoad(r) == FALSE

\* The account row no longer has the xmin that was loaded.
AccountChangedSinceLoad(r) ==
  Completes(r) /\ version[PaymentOf(r).account] # verdict[r].version

\* PostgreSQL makes the save wait for a creation that has the account row locked.
ReadyToSave(r) == pc[r] = "save" /\ ~(Completes(r) /\ AccountRowLocked(PaymentOf(r).account))

SaveDecision(r) ==
  /\ ReadyToSave(r)
  /\ ~AccountChangedSinceLoad(r)
  /\ PersistDecision(r)
  /\ Leave(r, "decided")
  /\ UNCHANGED <<lock, args, verdict>>

SaveConflicts(r) ==
  /\ ReadyToSave(r)
  /\ AccountChangedSinceLoad(r)
  /\ Leave(r, "account_changed")
  /\ UNCHANGED <<database, lock, args, verdict>>

\* Mutant: the steps are saved before the entry, and stay when the entry fails.
DecisionCallFailsHalfSaved(r) ==
  /\ pc[r] = "save" /\ Leave(r, "error")
  /\ payment' = [payment EXCEPT ![args[r].payment].steps = SavedSteps(r)]
  /\ UNCHANGED <<balance, version, booked, audit, nextEntry, lock, args, verdict>>

\* A database call throws; the answer of a save that happened may be lost as well.
DecisionCallFails(r) ==
  /\ pc[r] \in {"load", "append", "save"}
  /\ Leave(r, "error")
  /\ UNCHANGED <<database, lock, args, verdict>>

SaveAnswerLost(r) ==
  /\ ReadyToSave(r)
  /\ ~AccountChangedSinceLoad(r)
  /\ PersistDecision(r)
  /\ Leave(r, "error")
  /\ UNCHANGED <<lock, args, verdict>>

-----------------------------------------------------------------------------
DecisionInit == StoreInit /\ verdict = [r \in DecideRequests |-> EmptyVerdict]

DecisionStep(r) ==
  \/ EnterDecision(r) \/ RefuseDecision(r)
  \/ ApproveStep(r) \/ ApprovePayment(r) \/ RejectPayment(r)
  \/ AppendDecisionEntry(r) \/ SaveDecision(r) \/ SaveConflicts(r)
  \/ DecisionCallFails(r) \/ SaveAnswerLost(r)
  \/ ReleaseTenantLock(r) /\ UNCHANGED verdict

DecisionNext ==
  \/ \E r \in DecideRequests : Decide(r) \/ DecisionStep(r)
  \/ \E i \in Instances : Restart(i) /\ UNCHANGED verdict

DecisionSpec == DecisionInit /\ [][DecisionNext]_decisionVars

-----------------------------------------------------------------------------
(* Properties                                                              *)

Verdict == [action : AuditActions \cup {"none"}, extra : Seq(Step), closed : SUBSET Nat,
            version : Nat, funds : Int, prev : Nat]

DecisionLabels == {"idle", "lock", "load", "append", "save", "finally", "done"}

\* Every variable keeps its type; a request that runs has a payload.
DecisionTypeOK ==
  /\ StoreTypeOK
  /\ verdict \in [DecideRequests -> Verdict]
  /\ \A r \in DecideRequests :
       /\ pc[r] \in DecisionLabels
       /\ args[r] \in DecideArgs \cup {NoArgs} /\ (InFlight(r) => args[r] \in DecideArgs)

\* A payment above the threshold is completed only with approvals of two different known
\* people, any other attested payment with at least one (ApproveAsync; BUG-006).
CompletedOnEnoughApprovals ==
  \A p \in Completed :
    RequiresApproval(payment[p].amount) =>
      ApprovalsCounted(payment[p].amount, payment[p].steps)
        >= RequiredApprovalSteps(payment[p].amount)

\* While a payment is pending it has a step that is still open, so the inbox keeps
\* showing it; once it is decided nobody is left with a step to act on
\* (AddMissingApprovalStepAsync, RejectAsync).
OpenStepsWhilePending ==
  \A p \in Stored : RequiresApproval(payment[p].amount) =>
    (payment[p].status = "pending_approval" <=> StepsWith(payment[p].steps, "pending") # {})

\* Whoever decided a step by hand was its attestant or an admin, in the payment's tenant
\* (DecideAsync, BUG-011).
DecidersEntitled ==
  \A p \in Stored : \A i \in DOMAIN payment[p].steps :
    LET s == payment[p].steps[i]
    IN  s.source = "manual" =>
          /\ s.decidedBy \in Users
          /\ UserTenant[s.decidedBy] = AccountTenant[payment[p].account]
          /\ s.decidedBy = s.attestant \/ IsAdmin(s.decidedBy)

EntriesFor(p, actions) == {e \in audit : e.payment = p /\ e.action \in actions}

\* The audit trail tells the same story as the rows: one entry per step decided by hand,
\* one APPROVE_PAYMENT exactly for an attested payment whose money was moved, and one
\* REJECT_PAYMENT exactly for a rejected one (one SaveChanges for all of it).
DecisionsAudited ==
  \A p \in Stored :
    LET steps == payment[p].steps
        byHand == {i \in DOMAIN steps : steps[i].source = "manual"}
    IN  /\ Cardinality(EntriesFor(p, {"APPROVE_PAYMENT_STEP", "APPROVE_PAYMENT",
                                      "REJECT_PAYMENT"})) = Cardinality(byHand)
        /\ Cardinality(EntriesFor(p, {"APPROVE_PAYMENT"}))
             = IF steps # <<>> THEN booked[p] ELSE 0
        /\ Cardinality(EntriesFor(p, {"REJECT_PAYMENT"}))
             = IF payment[p].status = "rejected" THEN 1 ELSE 0

\* A caller who is told that the step was decided finds it decided that way, by hand and in
\* the caller's own name, for good: no decision that arrives later, of an admin on the same
\* step or a rejection of the payment, takes it over (DecideAsync).
DecisionAnswersTruthful ==
  \A r \in DecideRequests : reply[r] = "decided" =>
    /\ TargetStep(r).decidedBy = args[r].user /\ TargetStep(r).source = "manual"
    /\ TargetStep(r).status = IF args[r].action = "approve" THEN "approved" ELSE "rejected"

\* Some user could approve an open step of the payment: is its attestant or an admin
\* and, for a double approval, has not approved yet.
CanBeApproved(p) ==
  \E i \in StepsWith(payment[p].steps, "pending"), u \in Users :
    /\ UserTenant[u] = AccountTenant[payment[p].account]
    /\ UserRole[u] \in ApproverRoles
    /\ u = payment[p].steps[i].attestant \/ IsAdmin(u)
    /\ RequiresDoubleApproval(payment[p].amount) => u \notin Deciders(payment[p].steps)

\* "We never leave it stuck": a pending payment can still be approved by someone
\* (the comment on the safety net in ApproveAsync).
NeverStuck ==
  \A p \in Stored : payment[p].status = "pending_approval" => CanBeApproved(p)
=============================================================================
