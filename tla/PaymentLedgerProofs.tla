------------------------- MODULE PaymentLedgerProofs -------------------------
(***************************************************************************)
(* The audit chain, the audit trail and the ledger for every number of     *)
(* requests.                                                               *)
(* AuditChainLinear holds on one process: the tenant's lock keeps the      *)
(* signature that was read the latest one until the entry that names it is *)
(* visible, whatever the other tenants do with the sequence of ids.        *)
(* PaymentAudited holds on any number of processes: a payment and its      *)
(* entry are rows of one transaction.                                      *)
(* On one process the handlers implement PaymentLedger: every commit and   *)
(* every save is one step of the ledger, and nothing else changes it.      *)
(* What clients are told is true on any number of processes; what the      *)
(* inbox and the audit trail show of a payment while it is decided needs   *)
(* the tenant lock to keep the rows a decision was ruled on, as OpenInv    *)
(* states it, so one process.                                              *)
(***************************************************************************)
EXTENDS PaymentSystemProofs, SharedLemmas

-----------------------------------------------------------------------------
(* The chain of a tenant's entries                                         *)

\* n is the signature of the tenant's newest entry, 0 if it has none.
Newest(t, n) ==
  /\ n # 0 => \E f \in audit : f.tenant = t /\ f.id = n
  /\ \A f \in audit : f.tenant = t => f.id <= n

ChainInv ==
  /\ AuditChainLinear
  /\ \A e \in audit : e.id < nextEntry
  /\ \A r \in CreateRequests :
       /\ pc[r] \in {"log", "commit"} => Newest(TenantOf(r), draft[r].prev)
       /\ pc[r] = "commit" => draft[r].prev < draft[r].entry /\ draft[r].entry < nextEntry
  /\ \A r \in DecideRequests : pc[r] = "save" => Newest(TenantOf(r), verdict[r].prev)

LEMMA ChainInit == SystemInit => ChainInv
<1> SUFFICES ASSUME SystemInit PROVE ChainInv
  OBVIOUS
<1>1. audit = SeedAudit /\ nextEntry = Cardinality(SeedAudit) + 1
      /\ \A r \in Requests : pc[r] = "idle"
  BY DEF SystemInit, StoreInit
<1>2. Cardinality(SeedAudit) \in Nat
  BY SeedAssumption, FS_CardinalityType
<1>3. \A e \in audit : e.id \in Nat /\ e.id < nextEntry
  BY <1>1, <1>2, SeedAssumption DEF AuditEntry
<1>4. AuditChainLinear
  BY <1>1, SeedAssumption DEF AuditChainLinear
<1> QED BY <1>1, <1>3, <1>4 DEF ChainInv, Requests

-----------------------------------------------------------------------------
(* The latest signature                                                    *)

\* Every set of natural numbers that is not empty has a least member.
LEMMA LeastNumber ==
  ASSUME NEW S \in SUBSET Nat, S # {}
  PROVE  \E m \in S : \A n \in S : m <= n
<1> DEFINE Upto(n) == 1..n
           T == {Upto(n) : n \in S}
<1>1. \A n \in S : Upto(n) \in SUBSET Nat /\ IsFiniteSet(Upto(n))
  BY FS_Interval
<1>2. T \subseteq FiniteSubsetsOf(Nat) /\ T # {}
  BY <1>1 DEF FiniteSubsetsOf
<1>3. IsWellFoundedOn(StrictSubsetOrdering(Nat), FiniteSubsetsOf(Nat))
  BY FS_StrictSubsetOrderingWellFounded
<1>4. PICK x \in T : \A y \in T : <<y, x>> \notin StrictSubsetOrdering(Nat)
  <2> HIDE DEF T
  <2> QED BY <1>2, <1>3, WFMin
<1>5. PICK m \in S : x = Upto(m)
  OBVIOUS
<1>6. ASSUME NEW n \in S, n < m PROVE FALSE
  <2>1. Upto(n) \subseteq Upto(m) /\ m \in Upto(m) /\ m \notin Upto(n)
    BY <1>6
  <2>2. <<Upto(n), Upto(m)>> \in StrictSubsetOrdering(Nat)
    BY <2>1 DEF StrictSubsetOrdering
  <2> QED BY <2>2, <1>4, <1>5
<1> QED BY <1>6

\* Of the entries of a tenant one is the newest: the ids are bounded by the sequence.
LEMMA SomeLatest ==
  ASSUME StoreTypeOK, ChainInv, NEW t, EntriesOf(t) # {}
  PROVE  \E e \in EntriesOf(t) : \A f \in EntriesOf(t) : f.id <= e.id
<1> DEFINE Left == {nextEntry - e.id : e \in EntriesOf(t)}
<1>1. \A e \in EntriesOf(t) : e.id \in Nat /\ nextEntry \in Nat /\ nextEntry - e.id \in Nat
  BY DEF StoreTypeOK, ChainInv, EntriesOf, AuditEntry
<1>2. Left \in SUBSET Nat /\ Left # {}
  BY <1>1
<1>3. PICK m \in Left : \A n \in Left : m <= n
  <2> HIDE DEF Left
  <2> QED BY <1>2, LeastNumber
<1>4. PICK e \in EntriesOf(t) : m = nextEntry - e.id
  OBVIOUS
<1>5. ASSUME NEW f \in EntriesOf(t) PROVE f.id <= e.id
  <2>1. nextEntry - e.id <= nextEntry - f.id
    BY <1>3, <1>4
  <2> QED BY <1>1, <2>1
<1> QED BY <1>5

\* What GetLatestSignature reads is the newest signature of the tenant.
LEMMA LatestIsNewest ==
  ASSUME StoreTypeOK, ChainInv, NEW t
  PROVE  Newest(t, GetLatestSignature(t))
<1> DEFINE IsLatest(e) == \A f \in EntriesOf(t) : f.id <= e.id
<1>1. CASE EntriesOf(t) = {}
  <2>1. GetLatestSignature(t) = 0
    BY <1>1 DEF GetLatestSignature
  <2> QED BY <1>1, <2>1 DEF Newest, EntriesOf
<1>2. CASE EntriesOf(t) # {}
  <2>1. \E e \in EntriesOf(t) : IsLatest(e)
    BY <1>2, SomeLatest
  <2> DEFINE latest == CHOOSE e \in EntriesOf(t) : IsLatest(e)
  <2>2. GetLatestSignature(t) = latest.id
    BY <2>1 DEF GetLatestSignature
  <2>3. latest \in EntriesOf(t) /\ IsLatest(latest)
    BY <2>1
  <2> HIDE DEF latest
  <2> QED BY <2>2, <2>3 DEF Newest, EntriesOf
<1> QED BY <1>1, <1>2

-----------------------------------------------------------------------------
(* Steps that add no entry                                                 *)

\* No request takes up an entry, nor changes the one it has.
QuietForChain ==
  /\ audit' = audit /\ nextEntry' = nextEntry
  /\ \A r \in CreateRequests :
       /\ pc'[r] \in {"log", "commit"} =>
            pc'[r] = pc[r] /\ args'[r] = args[r] /\ draft'[r] = draft[r]
  /\ \A r \in DecideRequests :
       pc'[r] = "save" => pc[r] = "save" /\ args'[r] = args[r] /\ verdict'[r] = verdict[r]

LEMMA QuietKeepsChain ==
  ASSUME ChainInv, QuietForChain
  PROVE  ChainInv'
<1>1. AuditChainLinear'
  BY DEF ChainInv, QuietForChain, AuditChainLinear
<1>2. \A t, n : Newest(t, n) => Newest(t, n)'
  BY DEF QuietForChain, Newest
<1>3. ASSUME NEW r \in CreateRequests, pc'[r] \in {"log", "commit"}
      PROVE  /\ Newest(TenantOf(r), draft[r].prev)'
             /\ pc'[r] = "commit" => draft'[r].prev < draft'[r].entry /\ draft'[r].entry < nextEntry'
  <2>1. pc'[r] = pc[r] /\ TenantOf(r)' = TenantOf(r) /\ draft'[r] = draft[r] /\ nextEntry' = nextEntry
    BY <1>3 DEF QuietForChain, TenantOf
  <2>2. Newest(TenantOf(r), draft[r].prev)
    BY <1>3, <2>1 DEF ChainInv
  <2> QED BY <1>2, <2>1, <2>2 DEF ChainInv, Newest
<1>4. ASSUME NEW r \in DecideRequests, pc'[r] = "save"
      PROVE  Newest(TenantOf(r), verdict[r].prev)'
  <2>1. pc[r] = "save" /\ TenantOf(r)' = TenantOf(r) /\ verdict'[r] = verdict[r]
    BY <1>4 DEF QuietForChain, TenantOf
  <2>2. Newest(TenantOf(r), verdict[r].prev)
    BY <2>1 DEF ChainInv
  <2> QED BY <1>2, <2>1, <2>2 DEF Newest
<1>5. \A e \in audit' : e.id < nextEntry'
  BY DEF ChainInv, QuietForChain
<1> QED BY <1>1, <1>3, <1>4, <1>5 DEF ChainInv

LEMMA RestartKeepsChain ==
  ASSUME ChainInv, NEW i \in Instances, Restart(i), UNCHANGED <<draft, verdict>>
  PROVE  ChainInv'
<1>1. /\ audit' = audit /\ nextEntry' = nextEntry /\ args' = args
      /\ \A q \in Requests : pc'[q] \in {pc[q], "done"}
  BY DEF Restart, database
<1> QED BY <1>1, QuietKeepsChain DEF QuietForChain, Requests

LEMMA QuietCreationKeepsChain ==
  ASSUME TypeInv, ChainInv, NEW r \in CreateRequests, UNCHANGED verdict,
         \/ CreatePayment(r) \/ RefuseMalformed(r) \/ FindExistingPayment(r)
         \/ GetAccount(r) \/ EnterCreation(r) \/ RecheckExistingPayment(r) \/ AddPayment(r)
         \/ ReturnWinner(r) \/ CreationCallFails(r)
         \/ (ReleaseTenantLock(r) /\ UNCHANGED draft)
  PROVE  ChainInv'
<1> USE DEF TypeInv, SystemTypeOK, CreationTypeOK, StoreTypeOK, Requests
<1> USE DEF Goto, Answer, Leave, CreatePayment, RefuseMalformed, FindExistingPayment,
            GetAccount, EnterCreation, AcquireTenantLock, RecheckExistingPayment, AddPayment,
            ReturnWinner, CreationCallFails, ReleaseTenantLock
<1>1. audit' = audit /\ nextEntry' = nextEntry
  BY DEF database
<1>2. \A q \in CreateRequests \ {r} :
        pc'[q] = pc[q] /\ args'[q] = args[q] /\ draft'[q] = draft[q]
  OBVIOUS
<1>3. \A q \in DecideRequests : pc'[q] = pc[q] /\ args'[q] = args[q]
  BY StoreAssumption
<1>4. pc'[r] \notin {"log", "commit"}
  OBVIOUS
<1> QED BY <1>1, <1>2, <1>3, <1>4, QuietKeepsChain DEF QuietForChain

LEMMA QuietDecisionKeepsChain ==
  ASSUME TypeInv, ChainInv, NEW r \in DecideRequests, UNCHANGED draft,
         \/ Decide(r) \/ EnterDecision(r) \/ RefuseDecision(r) \/ ApproveStep(r)
         \/ ApprovePayment(r) \/ RejectPayment(r) \/ SaveConflicts(r) \/ DecisionCallFails(r)
         \/ (ReleaseTenantLock(r) /\ UNCHANGED verdict)
  PROVE  ChainInv'
<1> USE DEF TypeInv, SystemTypeOK, DecisionTypeOK, StoreTypeOK, Requests
<1> USE DEF Goto, Answer, Leave, AcquireTenantLock, Decide, EnterDecision, RefuseDecision,
            ApproveStep, ApprovePayment, RejectPayment, SaveConflicts, ReadyToSave,
            DecisionCallFails, ReleaseTenantLock
<1>1. audit' = audit /\ nextEntry' = nextEntry
  BY DEF database
<1>2. \A q \in DecideRequests \ {r} :
        pc'[q] = pc[q] /\ args'[q] = args[q] /\ verdict'[q] = verdict[q]
  OBVIOUS
<1>3. \A q \in CreateRequests : pc'[q] = pc[q] /\ args'[q] = args[q]
  BY StoreAssumption
<1>4. pc'[r] # "save"
  OBVIOUS
<1> QED BY <1>1, <1>2, <1>3, <1>4, QuietKeepsChain DEF QuietForChain

-----------------------------------------------------------------------------
(* Reading the latest signature and taking an id                           *)

LEMMA AppendCreationKeepsChain ==
  ASSUME TypeInv, ChainInv, NEW r \in CreateRequests, UNCHANGED verdict, AppendCreationEntry(r)
  PROVE  ChainInv'
<1> USE DEF TypeInv, SystemTypeOK, CreationTypeOK, Requests
<1>1. /\ audit' = audit /\ nextEntry' = nextEntry /\ args' = args /\ pc'[r] = "log"
      /\ draft'[r].prev = GetLatestSignature(TenantOf(r))
      /\ \A q \in Requests \ {r} : pc'[q] = pc[q]
      /\ \A q \in CreateRequests \ {r} : draft'[q] = draft[q]
  BY DEF AppendCreationEntry, Goto, database, StoreTypeOK, Draft
<1>2. r \notin DecideRequests
  BY StoreAssumption
<1>3. \A t, n : Newest(t, n)' <=> Newest(t, n)
  BY <1>1 DEF Newest
<1>4. Newest(TenantOf(r), draft'[r].prev)
  BY <1>1, LatestIsNewest
<1>5. AuditChainLinear'
  BY <1>1 DEF ChainInv, AuditChainLinear
<1>6. \A q \in Requests : TenantOf(q)' = TenantOf(q)
  BY <1>1 DEF TenantOf
<1>7. ASSUME NEW q \in CreateRequests, pc'[q] \in {"log", "commit"}
      PROVE  /\ Newest(TenantOf(q), draft[q].prev)'
             /\ pc'[q] = "commit" => draft'[q].prev < draft'[q].entry /\ draft'[q].entry < nextEntry'
  <2>1. CASE q = r
    BY <1>1, <1>4, <1>6, <2>1 DEF Newest
  <2>2. CASE q # r
    <3>1. pc'[q] = pc[q] /\ draft'[q] = draft[q] /\ Newest(TenantOf(q), draft[q].prev)
      BY <1>1, <1>7, <2>2 DEF ChainInv
    <3> QED BY <1>1, <1>6, <3>1 DEF ChainInv, Newest
  <2> QED BY <2>1, <2>2
<1>8. ASSUME NEW q \in DecideRequests, pc'[q] = "save"
      PROVE  Newest(TenantOf(q), verdict[q].prev)'
  BY <1>1, <1>2, <1>6, <1>8 DEF ChainInv, Newest
<1> QED BY <1>1, <1>5, <1>7, <1>8 DEF ChainInv

LEMMA AppendDecisionKeepsChain ==
  ASSUME TypeInv, CallerInv, ChainInv, NEW r \in DecideRequests, UNCHANGED draft,
         AppendDecisionEntry(r)
  PROVE  ChainInv'
<1> USE DEF TypeInv, SystemTypeOK, DecisionTypeOK, Requests
<1>1. /\ audit' = audit /\ nextEntry' = nextEntry /\ args' = args /\ pc'[r] = "save"
      /\ verdict'[r].prev = GetLatestSignature(PaymentTenant(r))
      /\ \A q \in Requests \ {r} : pc'[q] = pc[q]
      /\ \A q \in DecideRequests \ {r} : verdict'[q] = verdict[q]
  BY DEF AppendDecisionEntry, Goto, database, StoreTypeOK, Verdict
<1>2. r \notin CreateRequests
  BY StoreAssumption
<1>3. PaymentTenant(r) = TenantOf(r)
  BY DEF AppendDecisionEntry, CallerInv, Ruled, CallerMay
<1>4. Newest(TenantOf(r), verdict'[r].prev)
  BY <1>1, <1>3, LatestIsNewest
<1>5. AuditChainLinear'
  BY <1>1 DEF ChainInv, AuditChainLinear
<1>6. \A q \in Requests : TenantOf(q)' = TenantOf(q)
  BY <1>1 DEF TenantOf
<1>7. ASSUME NEW q \in CreateRequests, pc'[q] \in {"log", "commit"}
      PROVE  /\ Newest(TenantOf(q), draft[q].prev)'
             /\ pc'[q] = "commit" => draft'[q].prev < draft'[q].entry /\ draft'[q].entry < nextEntry'
  <2>1. pc'[q] = pc[q] /\ draft' = draft /\ Newest(TenantOf(q), draft[q].prev)
    BY <1>1, <1>2, <1>7 DEF ChainInv
  <2> QED BY <1>1, <1>6, <1>7, <2>1 DEF ChainInv, Newest
<1>8. ASSUME NEW q \in DecideRequests, pc'[q] = "save"
      PROVE  Newest(TenantOf(q), verdict[q].prev)'
  <2>1. CASE q = r
    BY <1>1, <1>4, <1>6, <2>1 DEF Newest
  <2>2. CASE q # r
    BY <1>1, <1>6, <1>8, <2>2 DEF ChainInv, Newest
  <2> QED BY <2>1, <2>2
<1> QED BY <1>1, <1>5, <1>7, <1>8 DEF ChainInv

\* The id that is taken is above those of all entries, and the sequence only grows.
LEMMA SaveCreationKeepsChain ==
  ASSUME TypeInv, ChainInv, NEW r \in CreateRequests, UNCHANGED verdict, SaveCreationEntry(r)
  PROVE  ChainInv'
<1> USE DEF TypeInv, SystemTypeOK, CreationTypeOK, Requests
<1>1. /\ audit' = audit /\ nextEntry' = nextEntry + 1 /\ args' = args
      /\ pc[r] = "log" /\ pc'[r] = "commit"
      /\ draft'[r].prev = draft[r].prev /\ draft'[r].entry = nextEntry
      /\ \A q \in Requests \ {r} : pc'[q] = pc[q]
      /\ \A q \in CreateRequests \ {r} : draft'[q] = draft[q]
  BY DEF SaveCreationEntry, Goto, StoreTypeOK, Draft
<1>2. r \notin DecideRequests /\ nextEntry \in Nat \ {0}
  BY StoreAssumption DEF StoreTypeOK
<1>3. AuditChainLinear'
  BY <1>1 DEF ChainInv, AuditChainLinear
<1>4. \A q \in Requests : TenantOf(q)' = TenantOf(q)
  BY <1>1 DEF TenantOf
<1>5. \A e \in audit : e.id \in Nat /\ e.id < nextEntry
  BY DEF ChainInv, StoreTypeOK, AuditEntry
<1>6. ASSUME NEW q \in CreateRequests, pc'[q] \in {"log", "commit"}
      PROVE  /\ Newest(TenantOf(q), draft[q].prev)'
             /\ pc'[q] = "commit" => draft'[q].prev < draft'[q].entry /\ draft'[q].entry < nextEntry'
  <2>1. CASE q = r
    <3>1. Newest(TenantOf(r), draft[r].prev)
      BY <1>1 DEF ChainInv
    <3>2. draft[r].prev < nextEntry
      BY <1>2, <1>5, <3>1 DEF Newest
    <3> QED BY <1>1, <1>2, <1>4, <2>1, <3>1, <3>2 DEF Newest
  <2>2. CASE q # r
    <3>1. pc'[q] = pc[q] /\ draft'[q] = draft[q] /\ Newest(TenantOf(q), draft[q].prev)
      BY <1>1, <1>6, <2>2 DEF ChainInv
    <3>2. pc[q] = "commit" => draft[q].prev < draft[q].entry /\ draft[q].entry < nextEntry
      BY DEF ChainInv
    <3>3. draft[q].entry \in Nat
      BY DEF Draft
    <3> QED BY <1>1, <1>2, <1>4, <3>1, <3>2, <3>3 DEF Newest
  <2> QED BY <2>1, <2>2
<1>7. ASSUME NEW q \in DecideRequests, pc'[q] = "save"
      PROVE  Newest(TenantOf(q), verdict[q].prev)'
  BY <1>1, <1>2, <1>4, <1>7 DEF ChainInv, Newest
<1>8. \A e \in audit' : e.id < nextEntry'
  BY <1>1, <1>2, <1>5
<1> QED BY <1>3, <1>6, <1>7, <1>8 DEF ChainInv

-----------------------------------------------------------------------------
(* An entry becomes visible                                                *)

\* An entry that names the newest signature of its tenant extends a linear chain.
LEMMA LinkOneEntry ==
  ASSUME AuditChainLinear, audit \subseteq AuditEntry, NEW e \in AuditEntry,
         Newest(e.tenant, e.prev), e.prev < e.id, audit' = audit \cup {e}
  PROVE  AuditChainLinear'
<1>1. \A f \in audit \cup {e} : f.id \in Nat /\ f.prev \in Nat
  BY DEF AuditEntry
<1>2. ASSUME NEW g \in audit PROVE LinkedIn(g, audit \cup {e})
  <2>1. LinkedIn(g, audit)
    BY DEF AuditChainLinear
  <2>2. e.tenant = g.tenant => ~(g.prev < e.id /\ e.id < g.id)
    BY <1>1 DEF Newest
  <2> QED BY <2>1, <2>2 DEF LinkedIn
<1>3. LinkedIn(e, audit \cup {e})
  BY <1>1 DEF LinkedIn, Newest
<1> QED BY <1>2, <1>3 DEF AuditChainLinear

\* Another tenant's newest signature stays the newest.
LEMMA OtherTenantsNewest ==
  ASSUME NEW e, NEW t, NEW n, t # e.tenant, audit' = audit \cup {e}, Newest(t, n)
  PROVE  Newest(t, n)'
BY DEF Newest

\* r is alone in its tenant, so that nobody else holds a signature that gets old.
LEMMA EntryKeepsChain ==
  ASSUME OneProcess, TypeInv, LockInv, ChainInv, NEW r \in Requests, InSection(r),
         pc'[r] = "finally", args' = args, UNCHANGED <<draft, verdict>>,
         \A q \in Requests \ {r} : pc'[q] = pc[q],
         NEW e \in AuditEntry, audit' = audit \cup {e}, e.tenant = TenantOf(r),
         Newest(e.tenant, e.prev), e.prev < e.id,
         nextEntry' \in Nat, nextEntry <= nextEntry', e.id < nextEntry'
  PROVE  ChainInv'
<1>1. nextEntry \in Nat /\ audit \subseteq AuditEntry
  BY DEF TypeInv, SystemTypeOK, CreationTypeOK, StoreTypeOK
<1>2. AuditChainLinear'
  BY <1>1, LinkOneEntry DEF ChainInv
<1>3. \A f \in audit' : f.id < nextEntry'
  BY <1>1 DEF ChainInv, AuditEntry
<1>4. \A q \in Requests : TenantOf(q)' = TenantOf(q)
  BY DEF TenantOf
<1>5. ASSUME NEW q \in Requests, NEW n, q # r, InSection(q), Newest(TenantOf(q), n)
      PROVE  Newest(TenantOf(q), n)'
  <2>1. TenantOf(q) # e.tenant
    BY <1>5, Alone
  <2> QED BY <1>4, <1>5, <2>1, OtherTenantsNewest DEF Newest
<1>6. ASSUME NEW q \in CreateRequests, pc'[q] \in {"log", "commit"}
      PROVE  /\ Newest(TenantOf(q), draft[q].prev)'
             /\ pc'[q] = "commit" => draft'[q].prev < draft'[q].entry /\ draft'[q].entry < nextEntry'
  <2>1. q \in Requests /\ q # r /\ pc'[q] = pc[q] /\ InSection(q) /\ draft' = draft
    BY <1>6 DEF Requests, InSection
  <2>2. Newest(TenantOf(q), draft[q].prev)
    BY <1>6, <2>1 DEF ChainInv
  <2>3. Newest(TenantOf(q), draft[q].prev)'
    <3>1. PICK n : n = draft[q].prev
      OBVIOUS
    <3>2. Newest(TenantOf(q), n)
      BY <2>2, <3>1
    <3>3. Newest(TenantOf(q), n)'
      BY ONLY <1>5, <2>1, <3>2
    <3>4. draft'[q].prev = n
      BY <2>1, <3>1
    <3> QED BY <3>3, <3>4 DEF Newest
  <2>4. draft[q].entry \in Nat
    BY DEF TypeInv, SystemTypeOK, CreationTypeOK, Draft
  <2>5. pc[q] = "commit" => draft[q].prev < draft[q].entry /\ draft[q].entry < nextEntry
    BY DEF ChainInv
  <2> QED BY <1>1, <2>1, <2>3, <2>4, <2>5
<1>7. ASSUME NEW q \in DecideRequests, pc'[q] = "save"
      PROVE  Newest(TenantOf(q), verdict[q].prev)'
  <2>1. q \in Requests /\ q # r /\ pc[q] = "save" /\ InSection(q) /\ verdict' = verdict
    BY <1>7 DEF Requests, InSection
  <2>2. Newest(TenantOf(q), verdict[q].prev)
    BY <2>1 DEF ChainInv
  <2> QED BY <1>5, <2>1, <2>2 DEF Newest
<1> QED BY <1>2, <1>3, <1>6, <1>7 DEF ChainInv

\* A creation's entry takes its place behind the newest one of the tenant.
LEMMA CreationEntryFits ==
  ASSUME TypeInv, ChainInv, NEW r \in CreateRequests, pc[r] = "commit"
  PROVE  LET e == CreationEntry(r)
         IN  /\ e \in AuditEntry /\ e.tenant = TenantOf(r)
             /\ Newest(e.tenant, e.prev) /\ e.prev < e.id /\ e.id < nextEntry
<1>1. draft[r].prev < draft[r].entry /\ draft[r].entry < nextEntry
      /\ Newest(TenantOf(r), draft[r].prev)
  BY DEF ChainInv
<1>2. /\ CreationEntry(r).tenant = TenantOf(r) /\ CreationEntry(r).prev = draft[r].prev
      /\ CreationEntry(r).id = draft[r].entry
  BY DEF CreationEntry
<1> QED BY <1>1, <1>2, CreationEntryIsEntry

LEMMA CommitKeepsChain ==
  ASSUME OneProcess, TypeInv, LockInv, ChainInv, NEW r \in CreateRequests, UNCHANGED verdict,
         CommitCreation(r) \/ CommitAnswerLost(r)
  PROVE  ChainInv'
<1> PICK e : e = CreationEntry(r)
  OBVIOUS
<1>1. /\ pc[r] = "commit" /\ PersistCreation(r) /\ UNCHANGED <<args, draft>>
      /\ pc' = [pc EXCEPT ![r] = "finally"]
  BY DEF CommitCreation, CommitAnswerLost, Leave
<1>2. /\ audit' = audit \cup {e} /\ nextEntry' = nextEntry /\ nextEntry \in Nat
      /\ pc'[r] = "finally" /\ \A q \in Requests \ {r} : pc'[q] = pc[q]
  BY <1>1 DEF PersistCreation, TypeInv, SystemTypeOK, CreationTypeOK, StoreTypeOK, Requests
<1>3. r \in Requests /\ InSection(r)
  BY <1>1 DEF Requests, InSection
<1> QED BY <1>1, <1>2, <1>3, CreationEntryFits, EntryKeepsChain

\* A decision's entry takes its place behind the newest one of the tenant.
LEMMA DecisionEntryFits ==
  ASSUME TypeInv, CallerInv, ChainInv, NEW r \in DecideRequests, pc[r] = "save"
  PROVE  LET e == DecisionEntry(r)
         IN  /\ e \in AuditEntry /\ e.tenant = TenantOf(r)
             /\ Newest(e.tenant, e.prev) /\ e.prev < e.id /\ e.id = nextEntry
<1>1. TenantOf(r) \in Tenants /\ args[r].user \in Users /\ nextEntry \in Nat \ {0}
      /\ audit \subseteq AuditEntry
  BY InFlightArgs DEF InFlight, Requests, TypeInv, SystemTypeOK, CreationTypeOK, StoreTypeOK
<1>2. PaymentTenant(r) = TenantOf(r)
  BY DEF CallerInv, Ruled, CallerMay
<1>3. Newest(TenantOf(r), verdict[r].prev) /\ verdict[r].prev \in Nat
  BY DEF ChainInv, TypeInv, SystemTypeOK, DecisionTypeOK, Verdict
<1>4. verdict[r].prev < nextEntry
  BY <1>1, <1>3 DEF ChainInv, Newest
<1>5. verdict[r].action \in AuditActions /\ args[r].payment \in PaymentIds
  BY DEF TypeInv, Carried, AuditActions, Stored
<1>6. DecisionEntry(r) \in AuditEntry
  BY <1>1, <1>2, <1>3, <1>5 DEF DecisionEntry, AuditEntry
<1>7. /\ DecisionEntry(r).tenant = TenantOf(r) /\ DecisionEntry(r).prev = verdict[r].prev
      /\ DecisionEntry(r).id = nextEntry
  BY <1>2 DEF DecisionEntry
<1> QED BY <1>3, <1>4, <1>6, <1>7

LEMMA SaveDecisionKeepsChain ==
  ASSUME OneProcess, TypeInv, LockInv, CallerInv, ChainInv, NEW r \in DecideRequests,
         UNCHANGED draft, SaveDecision(r) \/ SaveAnswerLost(r)
  PROVE  ChainInv'
<1> PICK e : e = DecisionEntry(r)
  OBVIOUS
<1>1. /\ pc[r] = "save" /\ PersistDecision(r) /\ UNCHANGED <<args, verdict>>
      /\ pc' = [pc EXCEPT ![r] = "finally"]
  BY DEF SaveDecision, SaveAnswerLost, ReadyToSave, Leave
<1>2. /\ audit' = audit \cup {e} /\ nextEntry' = nextEntry + 1 /\ nextEntry \in Nat
      /\ pc'[r] = "finally" /\ \A q \in Requests \ {r} : pc'[q] = pc[q]
  BY <1>1 DEF PersistDecision, TypeInv, SystemTypeOK, DecisionTypeOK, StoreTypeOK, Requests
<1>3. r \in Requests /\ InSection(r)
  BY <1>1 DEF Requests, InSection
<1> QED BY <1>1, <1>2, <1>3, DecisionEntryFits, EntryKeepsChain

-----------------------------------------------------------------------------
LEMMA ChainNext ==
  ASSUME OneProcess, ApprovalInv, ChainInv, [SystemNext]_systemVars
  PROVE  ChainInv'
<1> USE DEF ApprovalInv
<1>1. CASE UNCHANGED systemVars
  BY <1>1, QuietKeepsChain DEF systemVars, storeVars, database, QuietForChain
<1>2. ASSUME NEW r \in CreateRequests, UNCHANGED verdict,
             CreatePayment(r) \/ RefuseMalformed(r) \/ CreationStep(r)
      PROVE  ChainInv'
  BY <1>2, QuietCreationKeepsChain, AppendCreationKeepsChain, SaveCreationKeepsChain,
     CommitKeepsChain DEF CreationStep
<1>3. ASSUME NEW r \in DecideRequests, UNCHANGED draft, Decide(r) \/ DecisionStep(r)
      PROVE  ChainInv'
  BY <1>3, QuietDecisionKeepsChain, AppendDecisionKeepsChain, SaveDecisionKeepsChain
     DEF DecisionStep
<1> QED BY <1>1, <1>2, <1>3, RestartKeepsChain DEF SystemNext

\* On one process every entry links to the one before it in its tenant, for any number of
\* tenants, creations and decisions that race, fail, lose their answers or are cut off by a
\* restart, although an id is taken long before its entry is visible (AuditService).
THEOREM ChainNeverForks ==
  ASSUME OneProcess
  PROVE  SystemSpec => []AuditChainLinear
<1> DEFINE IInv == ApprovalInv /\ ChainInv
<1>1. SystemInit => IInv
  BY ApprovalInvInit, ChainInit
<1>2. IInv /\ [SystemNext]_systemVars => IInv'
  BY ApprovalInvNext, ChainNext
<1>3. IInv => AuditChainLinear
  BY DEF ChainInv
<1> QED BY <1>1, <1>2, <1>3, PTL DEF SystemSpec

-----------------------------------------------------------------------------
(* Payments and their entries                                              *)

\* A payment that is on its way debits and audits an account of the creator's tenant.
OwnedInv ==
  \A r \in CreateRequests :
    pc[r] \in {"lock", "recheck", "insert", "append", "log", "commit"}
      /\ args[r].iban = "valid" => OwnsAccount(r)

\* An entry describes a stored payment, in the tenant of its account.
Describes(e) ==
  e.action # "VALIDATE_IBAN" =>
    e.payment \in Stored /\ e.tenant = AccountTenant[payment[e.payment].account]

CreationEntriesOf(p) == {e \in audit : e.action = "CREATE_PAYMENT" /\ e.payment = p}

TrailInv ==
  /\ \A e \in audit : Describes(e)
  /\ \A p \in Stored : \E e \in audit : CreationEntriesOf(p) = {e}

\* The payments that were stored before were audited in the tenant of their account.
LegacyAudited == \A e \in SeedAudit : e.tenant = AccountTenant[Legacy[e.payment].account]

LEMMA TrailGivesProperty ==
  ASSUME TrailInv
  PROVE  PaymentAudited
<1>1. ASSUME NEW p \in Stored PROVE Cardinality(CreationEntriesOf(p)) = 1
  BY FS_Singleton DEF TrailInv
<1> QED BY <1>1 DEF TrailInv, Describes, PaymentAudited, CreationEntriesOf

LEMMA TrailInit ==
  ASSUME SystemInit
  PROVE  OwnedInv /\ (LegacyAudited => TrailInv)
<1>1. OwnedInv
  BY DEF SystemInit, StoreInit, OwnedInv, Requests
<1>2. audit = SeedAudit /\ Stored = LegacyPayments
      /\ \A p \in LegacyPayments : payment[p] = Legacy[p]
  <2>1. \A p \in LegacyPayments : p \in PaymentIds /\ Legacy[p] # NoPayment
    BY SeedAssumption, PaymentIsNotMissing DEF PaymentIds
  <2> QED BY <2>1 DEF SystemInit, StoreInit, Stored
<1>3. ASSUME LegacyAudited, NEW e \in audit PROVE Describes(e)
  BY <1>2, <1>3, SeedAssumption DEF Describes, LegacyAudited
<1>4. ASSUME NEW p \in Stored PROVE \E e \in audit : CreationEntriesOf(p) = {e}
  <2>1. PICK e \in SeedAudit : e.payment = p
    BY <1>2, SeedAssumption
  <2>2. CreationEntriesOf(p) = {e}
    BY <1>2, <2>1, SeedAssumption DEF CreationEntriesOf
  <2> QED BY <1>2, <2>1, <2>2
<1> QED BY <1>1, <1>3, <1>4 DEF TrailInv

\* The account is read before the lock and found to be the tenant's, or nothing goes on.
LEMMA OwnedNext ==
  ASSUME TypeInv, OwnedInv, [SystemNext]_systemVars
  PROVE  OwnedInv'
<1> USE DEF TypeInv, SystemTypeOK, CreationTypeOK, StoreTypeOK, Requests
<1>1. ASSUME NEW r \in CreateRequests,
             CreatePayment(r) \/ RefuseMalformed(r) \/ CreationStep(r)
      PROVE  OwnedInv'
  <2>1. \A q \in CreateRequests \ {r} : pc'[q] = pc[q] /\ args'[q] = args[q]
    BY <1>1 DEF Goto, Answer, Leave, CreatePayment, RefuseMalformed, CreationStep, EnterCreation,
         AcquireTenantLock, ReleaseTenantLock, FindExistingPayment, GetAccount,
         RecheckExistingPayment, AddPayment, AppendCreationEntry, SaveCreationEntry,
         CommitCreation, ReturnWinner, CreationCallFails, CommitAnswerLost
  <2>2. pc'[r] \in {"lock", "recheck", "insert", "append", "log", "commit"}
          /\ args'[r].iban = "valid" => OwnsAccount(r)'
    <3>1. CASE CreatePayment(r)
      BY <3>1 DEF CreatePayment, Goto, Answer
    <3>2. CASE GetAccount(r)
      BY <3>2 DEF GetAccount, Goto, Answer, OwnsAccount, TenantOf
    <3>3. CASE \/ RefuseMalformed(r) \/ FindExistingPayment(r) \/ CommitCreation(r)
               \/ ReturnWinner(r) \/ CreationCallFails(r) \/ CommitAnswerLost(r)
               \/ ReleaseTenantLock(r)
      BY <3>3 DEF RefuseMalformed, FindExistingPayment, CommitCreation, ReturnWinner,
           CreationCallFails, CommitAnswerLost, ReleaseTenantLock, Goto, Answer, Leave
    <3>4. CASE \/ EnterCreation(r) \/ RecheckExistingPayment(r) \/ AddPayment(r)
               \/ AppendCreationEntry(r) \/ SaveCreationEntry(r)
      <4>1. args' = args /\ pc[r] \in {"lock", "recheck", "insert", "append", "log"}
        BY <3>4 DEF EnterCreation, AcquireTenantLock, RecheckExistingPayment, AddPayment,
             AppendCreationEntry, SaveCreationEntry
      <4> QED BY <4>1 DEF OwnedInv, OwnsAccount, TenantOf
    <3> QED BY <1>1, <3>1, <3>2, <3>3, <3>4 DEF CreationStep
  <2> QED BY <2>1, <2>2 DEF OwnedInv, OwnsAccount, TenantOf
<1>2. ASSUME NEW r \in DecideRequests, Decide(r) \/ DecisionStep(r)
      PROVE  OwnedInv'
  <2>1. \A q \in CreateRequests : pc'[q] = pc[q] /\ args'[q] = args[q]
    BY <1>2, StoreAssumption
       DEF Goto, Answer, Leave, Decide, DecisionStep, EnterDecision, AcquireTenantLock,
           ReleaseTenantLock, RefuseDecision, ApproveStep, ApprovePayment, RejectPayment,
           AppendDecisionEntry, SaveDecision, SaveConflicts, DecisionCallFails, SaveAnswerLost
  <2> QED BY <2>1 DEF OwnedInv, OwnsAccount, TenantOf
<1>3. ASSUME NEW i \in Instances, Restart(i)
      PROVE  OwnedInv'
  <2>1. args' = args /\ \A q \in CreateRequests : pc'[q] \in {pc[q], "done"}
    BY <1>3 DEF Restart
  <2> QED BY <2>1 DEF OwnedInv, OwnsAccount, TenantOf
<1>4. CASE UNCHANGED systemVars
  BY <1>4 DEF systemVars, storeVars, OwnedInv, OwnsAccount, TenantOf
<1> QED BY <1>1, <1>2, <1>3, <1>4 DEF SystemNext

-----------------------------------------------------------------------------
(* The steps that store something                                          *)

\* The rows of stored payments stay where they are, and an entry is added that is not one
\* of theirs.
LEMMA OtherEntry ==
  ASSUME TrailInv, NEW e, audit' = audit \cup {e}, Stored \subseteq Stored', Describes(e)',
         \A p \in Stored : payment'[p].account = payment[p].account,
         e.action = "CREATE_PAYMENT" => e.payment \notin Stored
  PROVE  /\ \A f \in audit' : Describes(f)'
         /\ \A p \in Stored : \E f \in audit' : CreationEntriesOf(p)' = {f}
<1>1. \A f \in audit : Describes(f)'
  BY DEF TrailInv, Describes
<1>2. \A p \in Stored : CreationEntriesOf(p)' = CreationEntriesOf(p)
  BY DEF CreationEntriesOf
<1> QED BY <1>1, <1>2 DEF TrailInv

LEMMA CommitKeepsTrail ==
  ASSUME TypeInv, NotYetStored, OwnedInv, TrailInv, NEW r \in CreateRequests,
         CommitCreation(r) \/ CommitAnswerLost(r)
  PROVE  TrailInv'
<1> USE DEF TypeInv, SystemTypeOK, CreationTypeOK, StoreTypeOK
<1> PICK e : e = CreationEntry(r)
  OBVIOUS
<1>1. /\ pc[r] = "commit" /\ audit' = audit \cup {e} /\ r \notin Stored /\ r \in PaymentIds
      /\ payment' = IF args[r].iban = "valid"
                    THEN [payment EXCEPT ![r] = DraftPayment(r)] ELSE payment
  BY DEF CommitCreation, CommitAnswerLost, PersistCreation, NotYetStored, PaymentIds
<1>2. \A p \in Stored : payment'[p] = payment[p]
  BY <1>1
<1>3. Stored \subseteq Stored'
  BY <1>2 DEF Stored
<1>4. CASE args[r].iban # "valid"
  <2>1. e.action = "VALIDATE_IBAN"
    BY <1>4 DEF CreationEntry
  <2>2. payment' = payment
    BY <1>1, <1>4
  <2>3. Stored' = Stored
    BY <2>2 DEF Stored
  <2>4. Describes(e)'
    BY <2>1 DEF Describes
  <2> QED BY <1>1, <1>2, <2>1, <2>3, <2>4, OtherEntry DEF TrailInv
<1>5. CASE args[r].iban = "valid"
  <2>1. e.action = "CREATE_PAYMENT" /\ e.payment = r /\ e.tenant = TenantOf(r)
    BY <1>5 DEF CreationEntry
  <2>2. payment'[r] = DraftPayment(r) /\ \A p \in PaymentIds \ {r} : payment'[p] = payment[p]
    BY <1>1, <1>5
  <2>3. DraftPayment(r) # NoPayment
    <3>1. args[r] \in CreateArgs
      BY <1>1 DEF InFlight
    <3> QED BY <3>1, DraftPaymentIsPayment, PaymentIsNotMissing
  <2>4. Stored' = Stored \cup {r}
    BY <1>1, <2>2, <2>3 DEF Stored
  <2>5. AccountTenant[payment'[r].account] = TenantOf(r)
    BY <1>1, <1>5, <2>2 DEF OwnedInv, OwnsAccount, DraftPayment
  <2>6. \A f \in audit : ~(f.action = "CREATE_PAYMENT" /\ f.payment = r)
    BY <1>1 DEF TrailInv, Describes
  <2>7. Describes(e)'
    BY <2>1, <2>4, <2>5 DEF Describes
  <2>8. CreationEntriesOf(r)' = {e}
    BY <1>1, <2>1, <2>6 DEF CreationEntriesOf
  <2> QED BY <1>1, <1>2, <1>3, <2>1, <2>4, <2>7, <2>8, OtherEntry DEF TrailInv
<1> QED BY <1>4, <1>5

LEMMA SaveKeepsTrail ==
  ASSUME TypeInv, TrailInv, NEW r \in DecideRequests, SaveDecision(r) \/ SaveAnswerLost(r)
  PROVE  TrailInv'
<1> PICK e : e = DecisionEntry(r)
  OBVIOUS
<1> PICK x : x = args[r].payment
  OBVIOUS
<1>1. pc[r] = "save" /\ PersistDecision(r) /\ audit' = audit \cup {e}
  BY DEF SaveDecision, SaveAnswerLost, ReadyToSave, PersistDecision
<1>2. /\ x \in Stored /\ Stored' = Stored
      /\ \A p \in Stored : payment'[p].account = payment[p].account
  <2>1. Stored \subseteq PaymentIds
    BY DEF Stored
  <2> QED BY <1>1, <2>1, SavedPayment
<1>3. e.action # "CREATE_PAYMENT" /\ e.payment = x
      /\ e.tenant = AccountTenant[payment[x].account]
  BY <1>1 DEF DecisionEntry, PaymentTenant, PaymentOf, TypeInv, Carried
<1>4. Describes(e)'
  BY <1>2, <1>3 DEF Describes
<1> QED BY <1>1, <1>2, <1>3, <1>4, OtherEntry DEF TrailInv

LEMMA TrailNext ==
  ASSUME TypeInv, NotYetStored, OwnedInv, TrailInv, [SystemNext]_systemVars
  PROVE  TrailInv'
<1> DEFINE Rows == <<payment, audit>>
<1>1. ASSUME UNCHANGED Rows PROVE TrailInv'
  BY <1>1 DEF TrailInv, Describes, CreationEntriesOf, Stored
<1>2. ASSUME NEW r \in CreateRequests,
             CreatePayment(r) \/ RefuseMalformed(r) \/ CreationStep(r)
      PROVE  UNCHANGED Rows \/ CommitCreation(r) \/ CommitAnswerLost(r)
  BY <1>2 DEF database, CreatePayment, RefuseMalformed, CreationStep, EnterCreation,
       AcquireTenantLock, ReleaseTenantLock, FindExistingPayment, GetAccount,
       RecheckExistingPayment, AddPayment, AppendCreationEntry, SaveCreationEntry,
       ReturnWinner, CreationCallFails
<1>3. ASSUME NEW r \in DecideRequests, Decide(r) \/ DecisionStep(r)
      PROVE  UNCHANGED Rows \/ SaveDecision(r) \/ SaveAnswerLost(r)
  BY <1>3 DEF database, Decide, DecisionStep, EnterDecision, AcquireTenantLock,
       ReleaseTenantLock, RefuseDecision, ApproveStep, ApprovePayment, RejectPayment,
       AppendDecisionEntry, SaveConflicts, DecisionCallFails
<1>4. ASSUME NEW i \in Instances, Restart(i) PROVE UNCHANGED Rows
  BY <1>4 DEF Restart, database
<1>5. CASE UNCHANGED systemVars
  BY <1>1, <1>5 DEF systemVars, storeVars, database
<1> HIDE DEF Rows
<1> QED BY <1>1, <1>2, <1>3, <1>4, <1>5, CommitKeepsTrail, SaveKeepsTrail DEF SystemNext

\* On any number of processes a payment is stored with exactly one entry about its creation,
\* no entry describes a payment that was not saved, and each is in the tenant of the payment's
\* account, whichever calls fail, commits lose their answer or processes restart
\* (CreatePaymentAsync, DecideAsync).
THEOREM EveryPaymentAudited ==
  ASSUME LegacyAudited
  PROVE  SystemSpec => []PaymentAudited
<1> DEFINE IInv == TypeInv /\ MoneyInv /\ OwnedInv /\ TrailInv
<1>1. SystemInit => IInv
  BY TypeInit, MoneyInit, TrailInit
<1>2. IInv /\ [SystemNext]_systemVars => IInv'
  BY TypeNext, MoneyNext, OwnedNext, TrailNext DEF MoneyInv
<1>3. IInv => PaymentAudited
  BY TrailGivesProperty
<1> QED BY <1>1, <1>2, <1>3, PTL DEF SystemSpec

-----------------------------------------------------------------------------
(* The steps a decision was ruled on                                       *)

StillOpen(steps) == \A i \in DOMAIN steps : steps[i].status = "pending"

\* The step is still open, what is added is open, and what is closed was open; who
\* approves is not yet one of those a double approval has.
RuledOn(r) ==
  /\ TargetStep(r).status = "pending"
  /\ StillOpen(verdict[r].extra)
  /\ verdict[r].closed \subseteq StepsWith(StepsOf(r), "pending")
  /\ verdict[r].action # "REJECT_PAYMENT" => verdict[r].closed = {} /\ ~DuplicateDecider(r)

OpenInv ==
  /\ \A r \in CreateRequests : StillOpen(draft[r].steps)
  /\ \A r \in DecideRequests : Ruled(r) => RuledOn(r)

LEMMA OpenInit == SystemInit => OpenInv
BY DEF SystemInit, StoreInit, OpenInv, StillOpen, EmptyDraft, Ruled, Requests

LEMMA InitialStepsOpen ==
  ASSUME NEW r
  PROVE  StillOpen(InitialApprovalSteps(r))
<1> DEFINE first == FindNextAttestantId(TenantOf(r), {args[r].user})
           second == FindNextAttestantId(TenantOf(r), {args[r].user, first})
<1>1. InitialApprovalSteps(r) \in {<<PendingStep(first), PendingStep(second)>>,
                                   <<PendingStep(first)>>}
  BY DEF InitialApprovalSteps
<1>2. PendingStep(first).status = "pending" /\ PendingStep(second).status = "pending"
  BY DEF PendingStep
<1> HIDE DEF first, second
<1>3. \A x, y : x.status = "pending" /\ y.status = "pending" =>
        StillOpen(<<x, y>>) /\ StillOpen(<<x>>)
  BY DEF StillOpen
<1> QED BY <1>1, <1>2, <1>3

LEMMA MissingStepOpen ==
  ASSUME NEW r
  PROVE  StillOpen(<<MissingApprovalStep(r)>>) /\ StillOpen(<<>>)
<1>1. MissingApprovalStep(r).status = "pending"
  BY DEF MissingApprovalStep, PendingStep
<1> HIDE DEF MissingApprovalStep
<1> QED BY <1>1 DEF StillOpen

LEMMA KeptRuledOn ==
  ASSUME NEW r, RulingKept(r), RuledOn(r)
  PROVE  RuledOn(r)'
<1>1. /\ PaymentOf(r)' = PaymentOf(r) /\ StepsOf(r)' = StepsOf(r) /\ args'[r] = args[r]
      /\ verdict'[r].action = verdict[r].action /\ verdict'[r].extra = verdict[r].extra
      /\ verdict'[r].closed = verdict[r].closed
  BY DEF RulingKept, PaymentOf, StepsOf
<1>2. TargetStep(r)' = TargetStep(r)
  BY <1>1 DEF TargetStep
<1>3. DuplicateDecider(r)' <=> DuplicateDecider(r)
  BY <1>1 DEF DuplicateDecider
<1> QED BY <1>1, <1>2, <1>3 DEF RuledOn

\* A ruling rules on open steps.
LEMMA RulingIsOnOpenSteps ==
  ASSUME TypeInv, CallerInv, NEW r \in DecideRequests,
         ApproveStep(r) \/ ApprovePayment(r) \/ RejectPayment(r)
  PROVE  RuledOn(r)'
<1> USE DEF TypeInv, SystemTypeOK, DecisionTypeOK, StoreTypeOK, Requests
<1>1. /\ payment' = payment /\ args' = args /\ pc[r] = "load" /\ RefusalOf(r) = "none"
  BY DEF ApproveStep, ApprovePayment, RejectPayment, database
<1>2. verdict[r] \in Verdict /\ verdict[r].extra = <<>> /\ verdict[r].closed = {}
  BY <1>1 DEF CallerInv, Unruled
<1>3. TargetStep(r).status = "pending" /\ (args[r].action = "approve" => ~DuplicateDecider(r))
  BY <1>1, AllowedDecision DEF AlreadyDecided, RefusalOf
<1>4. /\ PaymentOf(r)' = PaymentOf(r) /\ StepsOf(r)' = StepsOf(r) /\ TargetStep(r)' = TargetStep(r)
  BY <1>1 DEF PaymentOf, StepsOf, TargetStep
<1>5. DuplicateDecider(r)' <=> DuplicateDecider(r)
  BY <1>1, <1>4 DEF DuplicateDecider
<1>6. CASE ApproveStep(r)
  <2> DEFINE e == IF MissingApproval(r) THEN <<MissingApprovalStep(r)>> ELSE <<>>
  <2>1. verdict' = [verdict EXCEPT ![r].action = "APPROVE_PAYMENT_STEP", ![r].extra = e]
    BY <1>6 DEF ApproveStep
  <2>2. e \in {<<>>, <<MissingApprovalStep(r)>>}
    OBVIOUS
  <2> HIDE DEF e
  <2>3. verdict' = [verdict EXCEPT ![r] = [verdict[r] EXCEPT !.action = "APPROVE_PAYMENT_STEP",
                                                             !.extra = e]]
    BY <2>1
  <2>4. verdict'[r].extra = e /\ verdict'[r].closed = {}
    BY <1>2, <2>3 DEF Verdict
  <2>5. StillOpen(e)
    BY ONLY <2>2, MissingStepOpen
  <2>6. ~DuplicateDecider(r)
    BY <1>3, <1>6 DEF ApproveStep
  <2> QED BY <1>3, <1>4, <1>5, <2>4, <2>5, <2>6 DEF RuledOn
<1>7. CASE ApprovePayment(r)
  <2> DEFINE v == version[PaymentOf(r).account]
             f == balance[PaymentOf(r).account]
  <2>1. verdict' = [verdict EXCEPT ![r].action = "APPROVE_PAYMENT",
                                   ![r].version = v, ![r].funds = f]
    BY <1>7 DEF ApprovePayment
  <2> HIDE DEF v, f
  <2>2. verdict' = [verdict EXCEPT ![r] = [verdict[r] EXCEPT !.action = "APPROVE_PAYMENT",
                                                             !.version = v, !.funds = f]]
    BY <2>1
  <2>3. verdict'[r].extra = <<>> /\ verdict'[r].closed = {}
    BY <1>2, <2>2 DEF Verdict
  <2>4. ~DuplicateDecider(r)
    BY <1>3, <1>7 DEF ApprovePayment
  <2> QED BY <1>3, <1>4, <1>5, <2>3, <2>4, MissingStepOpen DEF RuledOn
<1>8. CASE RejectPayment(r)
  <2> DEFINE c == StepsWith(StepsOf(r), "pending") \ {args[r].step}
  <2>1. verdict' = [verdict EXCEPT ![r].action = "REJECT_PAYMENT", ![r].closed = c]
    BY <1>8 DEF RejectPayment
  <2>2. c \subseteq StepsWith(StepsOf(r), "pending")
    OBVIOUS
  <2> HIDE DEF c
  <2>3. verdict' = [verdict EXCEPT ![r] = [verdict[r] EXCEPT !.action = "REJECT_PAYMENT",
                                                             !.closed = c]]
    BY <2>1
  <2>4. /\ verdict'[r].extra = <<>> /\ verdict'[r].closed = c
        /\ verdict'[r].action = "REJECT_PAYMENT"
    BY <1>2, <2>3 DEF Verdict
  <2> QED BY <1>3, <1>4, <2>2, <2>4, MissingStepOpen DEF RuledOn
<1> QED BY <1>6, <1>7, <1>8

\* A decision that is ruled was ruled just now or finds its payment as it was ruled: on one
\* process nobody else writes it in between.
LEMMA RulingsKept ==
  ASSUME OneProcess, ApprovalInv, [SystemNext]_systemVars, NEW d \in DecideRequests, Ruled(d)'
  PROVE  RulingKept(d) \/ ApproveStep(d) \/ ApprovePayment(d) \/ RejectPayment(d)
<1> USE DEF ApprovalInv, TypeInv, SystemTypeOK, CreationTypeOK, DecisionTypeOK, StoreTypeOK, Requests
<1>1. CASE UNCHANGED systemVars
  BY <1>1 DEF systemVars, storeVars, database, RulingKept, Ruled
<1>2. ASSUME NEW r \in CreateRequests, UNCHANGED verdict,
             CreatePayment(r) \/ RefuseMalformed(r) \/ CreationStep(r)
      PROVE  RulingKept(d)
  <2>1. pc'[d] = pc[d] /\ args'[d] = args[d]
    <3>1. d # r /\ d \in DOMAIN pc /\ d \in DOMAIN args
      BY StoreAssumption
    <3>2. CASE CreatePayment(r) \/ RefuseMalformed(r)
      BY <3>1, <3>2 DEF CreatePayment, RefuseMalformed, Goto, Answer
    <3>3. CASE \/ EnterCreation(r) \/ FindExistingPayment(r) \/ GetAccount(r)
               \/ RecheckExistingPayment(r) \/ AddPayment(r) \/ ReturnWinner(r)
      BY <3>1, <3>3 DEF EnterCreation, AcquireTenantLock, FindExistingPayment, GetAccount,
           RecheckExistingPayment, AddPayment, ReturnWinner, Goto, Answer, Leave
    <3>4. CASE \/ AppendCreationEntry(r) \/ SaveCreationEntry(r) \/ CommitCreation(r)
               \/ CreationCallFails(r) \/ CommitAnswerLost(r) \/ ReleaseTenantLock(r)
      BY <3>1, <3>4 DEF AppendCreationEntry, SaveCreationEntry, CommitCreation,
           CreationCallFails, CommitAnswerLost, ReleaseTenantLock, Goto, Answer, Leave
    <3> QED BY <1>2, <3>2, <3>3, <3>4 DEF CreationStep
  <2>2. args[d].payment \in Stored
    BY <2>1 DEF Carried, Ruled
  <2>3. \A p \in Stored : payment'[p] = payment[p]
    <3>1. CASE CommitCreation(r) \/ CommitAnswerLost(r)
      <4>1. pc[r] = "commit" /\ PersistCreation(r)
        BY <3>1 DEF CommitCreation, CommitAnswerLost
      <4> QED BY <4>1 DEF PersistCreation, MoneyInv, NotYetStored, Stored
    <3>2. CASE ~(CommitCreation(r) \/ CommitAnswerLost(r))
      BY <1>2, <3>2 DEF CreatePayment, RefuseMalformed, CreationStep, EnterCreation, database,
           AcquireTenantLock, ReleaseTenantLock, FindExistingPayment, GetAccount,
           RecheckExistingPayment, AddPayment, AppendCreationEntry, SaveCreationEntry,
           ReturnWinner, CreationCallFails
    <3> QED BY <3>1, <3>2
  <2> QED BY <1>2, <2>1, <2>2, <2>3 DEF RulingKept, Ruled
<1>3. ASSUME NEW r \in DecideRequests, Decide(r) \/ DecisionStep(r)
      PROVE  RulingKept(d) \/ ApproveStep(d) \/ ApprovePayment(d) \/ RejectPayment(d)
  <2>1. CASE SaveDecision(r) \/ SaveAnswerLost(r)
    <3>1. /\ PersistDecision(r) /\ pc[r] = "save" /\ args' = args /\ verdict' = verdict
          /\ pc'[r] = "finally" /\ \A q \in DecideRequests \ {r} : pc'[q] = pc[q]
      BY <2>1 DEF SaveDecision, SaveAnswerLost, ReadyToSave, Leave
    <3>2. d # r /\ Ruled(d) /\ Ruled(r)
      BY <3>1 DEF Ruled
    <3>3. args[d].payment # args[r].payment /\ args[d].payment \in Stored
      BY <3>2, OthersDecideElsewhere DEF CallerInv, Carried, Ruled
    <3>4. payment'[args[d].payment] = payment[args[d].payment]
      BY <3>1, <3>3, SavedPayment DEF Stored
    <3> QED BY <3>1, <3>2, <3>4 DEF RulingKept
  <2>2. CASE \/ Decide(r) \/ EnterDecision(r) \/ RefuseDecision(r) \/ AppendDecisionEntry(r)
             \/ SaveConflicts(r) \/ DecisionCallFails(r) \/ (ReleaseTenantLock(r) /\ UNCHANGED verdict)
    <3>1. payment' = payment
      BY <2>2 DEF database, Decide, EnterDecision, AcquireTenantLock, RefuseDecision,
           AppendDecisionEntry, SaveConflicts, DecisionCallFails, ReleaseTenantLock
    <3>2. d # r => pc'[d] = pc[d] /\ args'[d] = args[d] /\ verdict'[d] = verdict[d]
      BY <2>2 DEF Goto, Answer, Leave, Decide, EnterDecision, AcquireTenantLock,
           RefuseDecision, AppendDecisionEntry, SaveConflicts, ReadyToSave, DecisionCallFails,
           ReleaseTenantLock
    <3>3. Ruled(r)' => Ruled(r) /\ args'[r] = args[r]
                       /\ \E n : verdict' = [verdict EXCEPT ![r].prev = n]
      BY <2>2 DEF Ruled, Goto, Answer, Leave, Decide, EnterDecision, AcquireTenantLock,
           RefuseDecision, AppendDecisionEntry, SaveConflicts, ReadyToSave, DecisionCallFails,
           ReleaseTenantLock
    <3>4. CASE d = r
      <4>1. PICK n : verdict' = [verdict EXCEPT ![r].prev = n]
        BY <3>3, <3>4
      <4>2. /\ verdict'[r].action = verdict[r].action /\ verdict'[r].extra = verdict[r].extra
            /\ verdict'[r].closed = verdict[r].closed
        BY <4>1 DEF Verdict
      <4> QED BY <3>1, <3>3, <3>4, <4>2 DEF RulingKept
    <3>5. CASE d # r
      BY <3>1, <3>2, <3>5 DEF RulingKept, Ruled
    <3> QED BY <3>4, <3>5
  <2>3. CASE ApproveStep(r) \/ ApprovePayment(r) \/ RejectPayment(r)
    <3>1. /\ payment' = payment /\ args' = args
          /\ \A q \in DecideRequests \ {r} : pc'[q] = pc[q] /\ verdict'[q] = verdict[q]
      BY <2>3 DEF ApproveStep, ApprovePayment, RejectPayment, Goto, database
    <3>2. d # r => RulingKept(d)
      BY <3>1 DEF RulingKept, Ruled
    <3> QED BY <2>3, <3>2
  <2> QED BY <1>3, <2>1, <2>2, <2>3 DEF DecisionStep
<1>4. ASSUME NEW i \in Instances, Restart(i), UNCHANGED verdict
      PROVE  RulingKept(d)
  <2>1. \A q \in Requests : pc'[q] \in {pc[q], "done"}
    BY <1>4 DEF Restart
  <2>2. payment' = payment /\ args' = args
    BY <1>4 DEF Restart, database
  <2> QED BY <1>4, <2>1, <2>2 DEF RulingKept, Ruled
<1> QED BY <1>1, <1>2, <1>3, <1>4 DEF SystemNext

LEMMA OpenNext ==
  ASSUME OneProcess, ApprovalInv, OpenInv, [SystemNext]_systemVars
  PROVE  OpenInv'
<1>1. ASSUME NEW q \in CreateRequests PROVE StillOpen(draft'[q].steps)
  <2>1. draft' = draft
        \/ \E r \in CreateRequests : CreatePayment(r) \/ RefuseMalformed(r) \/ CreationStep(r)
    BY DEF SystemNext, systemVars
  <2>2. draft'[q].steps = draft[q].steps
        \/ \E r \in CreateRequests : draft'[q].steps = InitialApprovalSteps(r)
    BY <2>1, DraftStepsFrame DEF ApprovalInv
  <2> QED BY <2>2, InitialStepsOpen DEF OpenInv
<1>2. ASSUME NEW d \in DecideRequests, Ruled(d)' PROVE RuledOn(d)'
  BY <1>2, RulingsKept, KeptRuledOn, RulingIsOnOpenSteps DEF ApprovalInv, OpenInv, RulingKept
<1> QED BY <1>1, <1>2 DEF OpenInv

-----------------------------------------------------------------------------
(* The approvers of a payment after a save                                 *)

Approvers(steps) == {steps[i].decidedBy : i \in StepsWith(steps, "approved")}

\* Open steps at the end add no approver.
LEMMA OpenStepsApproveNothing ==
  ASSUME NEW s \in Seq(Step), NEW extra \in Seq(Step), StillOpen(extra)
  PROVE  Approvers(s \o extra) = Approvers(s)
<1> DEFINE both == s \o extra
<1>1. /\ both \in Seq(Step) /\ Len(both) = Len(s) + Len(extra)
      /\ Len(s) \in Nat /\ Len(extra) \in Nat
      /\ \A i \in 1..(Len(s) + Len(extra)) :
           both[i] = IF i <= Len(s) THEN s[i] ELSE extra[i - Len(s)]
  BY ConcatProperties
<1> HIDE DEF both
<1>2. ASSUME NEW i \in DOMAIN both, both[i].status = "approved"
      PROVE  i \in DOMAIN s /\ s[i] = both[i]
  <2>1. i \in 1..(Len(s) + Len(extra))
    BY <1>1
  <2>2. CASE i <= Len(s)
    BY <1>1, <2>1, <2>2
  <2>3. CASE ~(i <= Len(s))
    <3>1. both[i] = extra[i - Len(s)] /\ i - Len(s) \in 1..Len(extra)
      BY <1>1, <2>1, <2>3
    <3> QED BY <1>2, <3>1 DEF StillOpen
  <2> QED BY <2>2, <2>3
<1>3. ASSUME NEW i \in DOMAIN s PROVE i \in DOMAIN both /\ both[i] = s[i]
  BY <1>1
<1>4. StepsWith(both, "approved") = StepsWith(s, "approved")
  BY <1>2, <1>3 DEF StepsWith
<1>5. \A i \in StepsWith(s, "approved") : both[i] = s[i]
  BY <1>3 DEF StepsWith
<1> QED BY <1>4, <1>5 DEF Approvers, both

LEMMA SavedApprovers ==
  ASSUME TypeInv, NEW r \in DecideRequests, Ruled(r), CallerMay(r), RuledOn(r)
  PROVE  Approvers(SavedSteps(r)) =
           IF verdict[r].action = "REJECT_PAYMENT" THEN Approvers(StepsOf(r))
           ELSE Approvers(StepsOf(r)) \cup {args[r].user}
<1> USE DEF TypeInv, SystemTypeOK, DecisionTypeOK
<1> DEFINE decided == IF verdict[r].action = "REJECT_PAYMENT" THEN "rejected" ELSE "approved"
           After(i) ==
             IF i = args[r].step THEN DecidedStep(StepsOf(r)[i], decided, args[r].user, "manual")
             ELSE IF i \in verdict[r].closed
             THEN DecidedStep(StepsOf(r)[i], "rejected", Nobody, "payment_rejected")
             ELSE StepsOf(r)[i]
           body == [i \in DOMAIN StepsOf(r) |-> After(i)]
<1>1. args[r].user \in Users /\ args[r].payment \in Stored /\ verdict[r].extra \in Seq(Step)
  BY DEF InFlight, DecideArgs, Carried, Ruled, Verdict
<1>2. StepsOf(r) \in Seq(Step)
  BY <1>1, StoredIsPayment DEF StepsOf, PaymentOf, Payment
<1>3. \A i \in DOMAIN StepsOf(r) : After(i) \in Step
  <2> SUFFICES ASSUME NEW i \in DOMAIN StepsOf(r) PROVE After(i) \in Step
    OBVIOUS
  <2>1. StepsOf(r)[i] \in Step
    BY <1>2
  <2> QED BY <1>1, <2>1 DEF DecidedStep, Step
<1>4. SavedSteps(r) = body \o verdict[r].extra
  BY DEF SavedSteps
<1>5. /\ args[r].step \in DOMAIN StepsOf(r)
      /\ StepsOf(r)[args[r].step].status = "pending"
      /\ After(args[r].step).status = decided
      /\ After(args[r].step).decidedBy = args[r].user
  BY DEF CallerMay, RuledOn, TargetStep, DecidedStep
\* The other steps are left alone, or were open and are closed by a rejection.
<1>6. \A i \in DOMAIN StepsOf(r) \ {args[r].step} :
        \/ After(i) = StepsOf(r)[i]
        \/ StepsOf(r)[i].status = "pending" /\ After(i).status = "rejected"
  BY DEF RuledOn, StepsWith, DecidedStep
<1>7. DOMAIN StepsOf(r) = 1..Len(StepsOf(r)) /\ Len(StepsOf(r)) \in Nat
  BY <1>2
<1>8. \A i \in DOMAIN StepsOf(r) : body[i] = After(i)
  OBVIOUS
<1>9. DOMAIN body = DOMAIN StepsOf(r)
  OBVIOUS
<1> HIDE DEF After
<1>10. body \in Seq(Step)
  BY <1>3, <1>7
<1> HIDE DEF body
<1>11. Approvers(SavedSteps(r)) = Approvers(body)
  BY <1>1, <1>4, <1>10, OpenStepsApproveNothing DEF RuledOn
<1>12. CASE verdict[r].action = "REJECT_PAYMENT"
  <2>1. \A i \in DOMAIN StepsOf(r) :
          /\ body[i].status = "approved" <=> StepsOf(r)[i].status = "approved"
          /\ body[i].status = "approved" => body[i] = StepsOf(r)[i]
    BY <1>5, <1>6, <1>8, <1>12
  <2>2. StepsWith(body, "approved") = StepsWith(StepsOf(r), "approved")
        /\ \A i \in StepsWith(StepsOf(r), "approved") : body[i] = StepsOf(r)[i]
    BY <1>9, <2>1 DEF StepsWith
  <2>3. Approvers(body) = Approvers(StepsOf(r))
    BY <2>2 DEF Approvers
  <2> QED BY <1>11, <1>12, <2>3
<1>13. CASE verdict[r].action # "REJECT_PAYMENT"
  <2>1. \A i \in DOMAIN StepsOf(r) \ {args[r].step} :
          /\ body[i].status = "approved" <=> StepsOf(r)[i].status = "approved"
          /\ body[i].status = "approved" => body[i] = StepsOf(r)[i]
    BY <1>6, <1>8
  <2>2. body[args[r].step].status = "approved" /\ body[args[r].step].decidedBy = args[r].user
    BY <1>5, <1>8, <1>13
  <2>3. StepsWith(body, "approved") = StepsWith(StepsOf(r), "approved") \cup {args[r].step}
    BY <1>5, <1>9, <2>1, <2>2 DEF StepsWith
  <2>4. \A i \in StepsWith(StepsOf(r), "approved") : body[i] = StepsOf(r)[i]
    BY <1>5, <2>1 DEF StepsWith
  <2>5. Approvers(body) = {body[i].decidedBy : i \in StepsWith(StepsOf(r), "approved")}
                            \cup {body[args[r].step].decidedBy}
    BY <2>3 DEF Approvers
  <2>6. Approvers(StepsOf(r)) = {body[i].decidedBy : i \in StepsWith(StepsOf(r), "approved")}
    BY <2>4 DEF Approvers
  <2> QED BY <1>11, <1>13, <2>2, <2>5, <2>6
<1> QED BY <1>12, <1>13

-----------------------------------------------------------------------------
(* The ledger of the committed rows                                        *)

LedgerRows == [p \in PaymentIds |-> LedgerRow(p)]
Trail == {TrailEntry(e) : e \in audit}

LEMMA LedgerStarts == SystemInit => Ledger!LedgerInit
<1> SUFFICES ASSUME SystemInit PROVE Ledger!LedgerInit
  OBVIOUS
<1>1. \A a \in Accounts : balance[a] >= 0
  BY StoreAssumption DEF SystemInit, StoreInit
<1>2. \A p \in Stored : p \in LegacyPayments /\ payment[p] = Legacy[p]
  BY DEF SystemInit, StoreInit, Stored
<1>3. \A p \in PaymentIds : LedgerRow(p).status \in {"none", "pending_approval"}
  BY <1>2, SeedAssumption DEF LedgerRow, NoPayment
<1> QED BY <1>1, <1>3 DEF Ledger!LedgerInit

\* An entry behind the newest one of its tenant is one at the end of the tenant's trail.
LEMMA EntryIsRecorded ==
  ASSUME audit \subseteq AuditEntry, NEW e \in AuditEntry, audit' = audit \cup {e},
         Newest(e.tenant, e.prev), e.prev < e.id
  PROVE  Ledger!Record(e.action, e.tenant, e.payment)
<1> PICK x : x = TrailEntry(e)
  OBVIOUS
<1>1. x.id = e.id /\ x.tenant = e.tenant /\ x.action = e.action /\ x.payment = e.payment
  BY DEF TrailEntry
<1>2. Trail' = Trail \cup {x}
  BY DEF Trail, TrailEntry
<1>3. \A y \in Trail : y.tenant = e.tenant => y.id < x.id
  <2> SUFFICES ASSUME NEW f \in audit, f.tenant = e.tenant PROVE f.id < e.id
    BY <1>1 DEF Trail, TrailEntry
  <2>1. f.id <= e.prev
    BY DEF Newest
  <2> QED BY <2>1 DEF AuditEntry
<1>4. x \notin Trail
  BY <1>1, <1>3 DEF AuditEntry
<1> QED BY <1>1, <1>2, <1>3, <1>4 DEF Ledger!Record, Trail

\* A payment that is not written stays in its row of the ledger.
LEMMA RowStays ==
  ASSUME NEW q, payment'[q] = payment[q], q \in Stored' <=> q \in Stored
  PROVE  LedgerRow(q)' = LedgerRow(q)
<1>1. ApproversOf(q)' = ApproversOf(q)
  BY DEF ApproversOf, StepsWith
<1> QED BY <1>1 DEF LedgerRow

\* Of the ledger one row changes.
LEMMA OneRowChanges ==
  ASSUME NEW p \in PaymentIds, NEW x, LedgerRow(p)' = x,
         \A q \in PaymentIds \ {p} : LedgerRow(q)' = LedgerRow(q)
  PROVE  LedgerRows' = [LedgerRows EXCEPT ![p] = x] /\ LedgerRows'[p] = x
BY DEF LedgerRows

LEMMA NothingCommitted ==
  ASSUME UNCHANGED <<balance, payment, audit>>
  PROVE  UNCHANGED Ledger!ledgerVars
BY DEF Ledger!ledgerVars, LedgerRow, ApproversOf, StepsWith, TrailEntry, Stored

LedgerInv == ApprovalInv /\ ApprovedInv /\ KeyInv /\ ChainInv /\ OwnedInv /\ OpenInv

\* A refused IBAN is only recorded.
LEMMA IbanRecorded ==
  ASSUME LedgerInv, NEW r \in CreateRequests, args[r].iban # "valid",
         CommitCreation(r) \/ CommitAnswerLost(r)
  PROVE  Ledger!RecordInvalidIban
<1> PICK e : e = CreationEntry(r)
  OBVIOUS
<1>1. /\ pc[r] = "commit" /\ audit' = audit \cup {e} /\ payment' = payment /\ balance' = balance
  BY DEF CommitCreation, CommitAnswerLost, PersistCreation
<1>2. /\ e \in AuditEntry /\ Newest(e.tenant, e.prev) /\ e.prev < e.id
      /\ audit \subseteq AuditEntry
  BY <1>1, CreationEntryFits
     DEF LedgerInv, ApprovalInv, TypeInv, SystemTypeOK, CreationTypeOK, StoreTypeOK
<1>3. e.action = "VALIDATE_IBAN"
  BY DEF CreationEntry
<1>4. Ledger!Record("VALIDATE_IBAN", e.tenant, e.payment)
  BY <1>1, <1>2, <1>3, EntryIsRecorded
<1>5. TrailEntry(e) \in Trail' /\ TrailEntry(e).tenant = e.tenant
      /\ TrailEntry(e).payment = e.payment
  BY <1>1 DEF Trail, TrailEntry
<1>6. LedgerRows' = LedgerRows
  BY <1>1 DEF LedgerRows, LedgerRow, ApproversOf, StepsWith, Stored
<1> QED BY <1>1, <1>4, <1>5, <1>6 DEF Ledger!RecordInvalidIban, Trail, LedgerRows

\* The commit of a payment is its creation.
LEMMA CommitCreates ==
  ASSUME LedgerInv, NEW r \in CreateRequests, args[r].iban = "valid",
         CommitCreation(r) \/ CommitAnswerLost(r)
  PROVE  r \in PaymentIds /\ Ledger!Create(r)
<1> USE DEF LedgerInv, ApprovalInv, TypeInv, SystemTypeOK, CreationTypeOK, StoreTypeOK
<1> PICK e : e = CreationEntry(r)
  OBVIOUS
<1> DEFINE row == [creator |-> args[r].user, account |-> args[r].account,
                   amount |-> args[r].amount, key |-> args[r].key,
                   status |-> DraftPayment(r).status, approvers |-> {}]
<1>1. /\ pc[r] = "commit" /\ PersistCreation(r) /\ audit' = audit \cup {e}
      /\ payment' = [payment EXCEPT ![r] = DraftPayment(r)]
      /\ r \in PaymentIds /\ r \notin Stored
  BY DEF CommitCreation, CommitAnswerLost, PersistCreation, PaymentIds, MoneyInv, NotYetStored
<1>2. args[r] \in CreateArgs
  BY <1>1 DEF InFlight
<1>3. /\ payment'[r] = DraftPayment(r) /\ DraftPayment(r) # NoPayment
      /\ \A q \in PaymentIds \ {r} : payment'[q] = payment[q]
  <2>1. DraftPayment(r) # NoPayment
    BY <1>2, DraftPaymentIsPayment, PaymentIsNotMissing
  <2> QED BY <1>1, <2>1
<1>4. Stored' = Stored \cup {r}
  BY <1>1, <1>3 DEF Stored
<1>5. LedgerRow(r)' = row
  <2>1. DraftPayment(r).steps = draft[r].steps /\ StillOpen(draft[r].steps)
    BY DEF DraftPayment, OpenInv
  <2>2. ApproversOf(r)' = {}
    BY <1>3, <2>1 DEF ApproversOf, StepsWith, StillOpen
  <2> QED BY <1>3, <1>4, <2>2 DEF LedgerRow, DraftPayment
<1>6. \A q \in PaymentIds \ {r} : LedgerRow(q)' = LedgerRow(q)
  BY <1>3, <1>4, RowStays
<1>7. LedgerRows' = [LedgerRows EXCEPT ![r] = row] /\ LedgerRows'[r] = row
  BY <1>1, <1>5, <1>6, OneRowChanges
<1>8. LedgerRows[r].status = "none"
  BY <1>1 DEF LedgerRows, LedgerRow, NoPayment
<1>9. \A q \in PaymentIds : LedgerRows[q].status # "none" =>
        ~(LedgerRows[q].creator = row.creator /\ LedgerRows[q].key = row.key)
  <2> SUFFICES ASSUME NEW q \in PaymentIds, LedgerRows[q].status # "none"
               PROVE  ~(LedgerRows[q].creator = args[r].user /\ LedgerRows[q].key = args[r].key)
    OBVIOUS
  <2>1. q \in Stored /\ LedgerRows[q].creator = payment[q].creator
        /\ LedgerRows[q].key = payment[q].key
    BY DEF LedgerRows, LedgerRow, NoPayment
  <2>2. OpenTransaction(r)
    BY <1>1 DEF OpenTransaction
  <2> QED BY <2>1, <2>2 DEF KeyInv, KeysReserved, SameKey
<1>10. Ledger!Record("CREATE_PAYMENT", AccountTenant[row.account], r)
  <2>1. /\ e \in AuditEntry /\ Newest(e.tenant, e.prev) /\ e.prev < e.id
        /\ e.tenant = TenantOf(r)
    BY <1>1, CreationEntryFits
  <2>2. e.action = "CREATE_PAYMENT" /\ e.payment = r
    BY DEF CreationEntry
  <2>3. AccountTenant[row.account] = TenantOf(r)
    BY <1>1 DEF OwnedInv, OwnsAccount
  <2> QED BY <1>1, <2>1, <2>2, <2>3, EntryIsRecorded
<1>11. row.account \in Accounts /\ row.status # "none"
  BY <1>2 DEF CreateArgs, DraftPayment
<1>12. IF Ledger!NeedsApproval(row.amount)
       THEN row.status = "pending_approval" /\ UNCHANGED balance
       ELSE row.status = "completed" /\ Ledger!Debit(row.account, row.amount)
  <2>1. Ledger!NeedsApproval(row.amount) <=> ~Direct(r)
    BY DEF Ledger!NeedsApproval, Ledger!Double, Direct, RequiresApproval, RequiresDoubleApproval
  <2>2. CASE Direct(r)
    <3>1. balance' = [balance EXCEPT ![args[r].account] = @ - args[r].amount]
          /\ balance'[args[r].account] \in Nat
      BY <2>2, CommitDebits
    <3>2. args[r].account \in Accounts /\ args[r].amount \in Nat
      BY <1>2, StoreAssumption DEF CreateArgs
    <3>3. Ledger!Debit(row.account, row.amount)
      BY <3>1, <3>2 DEF Ledger!Debit
    <3> QED BY <2>1, <2>2, <3>3 DEF DraftPayment
  <2>3. CASE ~Direct(r)
    BY <1>1, <2>1, <2>3 DEF PersistCreation, DraftPayment
  <2> QED BY <2>2, <2>3
<1>13. row.approvers = {}
  OBVIOUS
<1> HIDE DEF row
<1>14. Ledger!Create(r)
  BY <1>7, <1>8, <1>9, <1>10, <1>11, <1>12, <1>13 DEF Ledger!Create, Ledger!Exists, LedgerRows
<1> QED BY <1>1, <1>14

\* The row of the ledger that payment x has with status s and approvers who.
RowOf(x, s, who) ==
  [creator |-> x.creator, account |-> x.account, amount |-> x.amount, key |-> x.key,
   status |-> s, approvers |-> who]

\* What a save does to the payment's row in the ledger.
LEMMA SavedRow ==
  ASSUME LedgerInv, NEW r \in DecideRequests, SaveDecision(r) \/ SaveAnswerLost(r),
         NEW p, p = args[r].payment,
         NEW who, who = Approvers(StepsOf(r)),
         NEW by, by = IF verdict[r].action = "REJECT_PAYMENT" THEN who ELSE who \cup {args[r].user}
  PROVE  /\ p \in PaymentIds /\ PaymentOf(r) = payment[p]
         /\ payment'[p].amount = payment[p].amount /\ payment'[p].status = SavedStatus(r)
         /\ by = Approvers(payment'[p].steps) /\ p \in Stored'
         /\ LedgerRows[p] = RowOf(payment[p], "pending_approval", who)
         /\ LedgerRows' = [LedgerRows EXCEPT ![p] = RowOf(payment[p], SavedStatus(r), by)]
<1> USE DEF LedgerInv, ApprovalInv
<1> PICK s : s = SavedStatus(r)
  OBVIOUS
<1> PICK new : new = RowOf(payment[p], s, by)
  OBVIOUS
<1>1. PersistDecision(r) /\ pc[r] = "save"
  BY DEF SaveDecision, SaveAnswerLost, ReadyToSave
<1>2. Ruled(r) /\ CallerMay(r) /\ AsRuled(r) /\ RuledOn(r)
  BY <1>1 DEF Ruled, CallerInv, ApprovedInv, OpenInv
<1>3. /\ p \in Stored /\ payment[p] \in Payment /\ Stored' = Stored /\ p \in PaymentIds
      /\ \A q \in PaymentIds \ {p} : payment'[q] = payment[q]
      /\ payment'[p].account = payment[p].account /\ payment'[p].amount = payment[p].amount
      /\ payment'[p].status = s
  BY <1>1, SavedPayment DEF Stored
<1>4. payment'[p].creator = payment[p].creator /\ payment'[p].key = payment[p].key
  BY <1>3, DecisionQuietForKeys DEF DecisionStep, QuietForKeys
<1>5. payment'[p].steps = SavedSteps(r)
  <2>1. payment' = [payment EXCEPT ![p] = [PaymentOf(r) EXCEPT !.steps = SavedSteps(r),
                                                               !.status = SavedStatus(r)]]
    BY <1>1, <1>3 DEF PersistDecision, PaymentOf, TypeInv, SystemTypeOK, DecisionTypeOK, StoreTypeOK
  <2>2. [PaymentOf(r) EXCEPT !.steps = SavedSteps(r), !.status = SavedStatus(r)].steps = SavedSteps(r)
    BY <1>3 DEF PaymentOf, Payment
  <2> QED BY <1>3, <2>1, <2>2 DEF TypeInv, SystemTypeOK, DecisionTypeOK, StoreTypeOK
<1>6. by = Approvers(SavedSteps(r))
  BY <1>2, SavedApprovers
<1>7. ApproversOf(p) = who /\ ApproversOf(p)' = by
  BY <1>5, <1>6 DEF ApproversOf, Approvers, StepsOf, PaymentOf
<1>8. LedgerRow(p) = RowOf(payment[p], "pending_approval", who)
  BY <1>2, <1>3, <1>7 DEF LedgerRow, RowOf, AsRuled, PaymentOf
<1>9. LedgerRow(p)' = new
  BY <1>3, <1>4, <1>7 DEF LedgerRow, RowOf
<1>10. LedgerRows' = [LedgerRows EXCEPT ![p] = new]
  BY <1>3, <1>9, RowStays, OneRowChanges
<1> QED BY <1>3, <1>5, <1>6, <1>8, <1>10 DEF PaymentOf, LedgerRows

\* The entry of a save is recorded.
LEMMA SaveRecorded ==
  ASSUME LedgerInv, NEW r \in DecideRequests, SaveDecision(r) \/ SaveAnswerLost(r)
  PROVE  Ledger!Record(verdict[r].action, AccountTenant[PaymentOf(r).account], args[r].payment)
<1> PICK e : e = DecisionEntry(r)
  OBVIOUS
<1>1. pc[r] = "save" /\ audit' = audit \cup {e}
  BY DEF SaveDecision, SaveAnswerLost, ReadyToSave, PersistDecision
<1>2. /\ e \in AuditEntry /\ Newest(e.tenant, e.prev) /\ e.prev < e.id
      /\ audit \subseteq AuditEntry
  BY <1>1, DecisionEntryFits
     DEF LedgerInv, ApprovalInv, TypeInv, SystemTypeOK, DecisionTypeOK, StoreTypeOK
<1>3. /\ e.action = verdict[r].action /\ e.payment = args[r].payment
      /\ e.tenant = AccountTenant[PaymentOf(r).account]
  BY DEF DecisionEntry, PaymentTenant
<1> QED BY <1>1, <1>2, <1>3, EntryIsRecorded

\* Nobody approves a double approval twice.
LEMMA SaverMayApprove ==
  ASSUME LedgerInv, NEW r \in DecideRequests, SaveDecision(r) \/ SaveAnswerLost(r),
         verdict[r].action # "REJECT_PAYMENT"
  PROVE  PaymentOf(r).amount > DoubleApprovalThreshold =>
           args[r].user \notin Approvers(StepsOf(r))
<1>1. RuledOn(r) /\ args[r].user \in Users
  BY DEF LedgerInv, ApprovalInv, OpenInv, Ruled, SaveDecision, SaveAnswerLost, ReadyToSave,
       TypeInv, SystemTypeOK, DecisionTypeOK, InFlight, DecideArgs
<1>2. args[r].user # Nobody
  BY <1>1, StoreAssumption DEF Nobody
<1> QED BY <1>1, <1>2 DEF RuledOn, DuplicateDecider, RequiresDoubleApproval, Deciders, Approvers

\* The save of a decision is the ledger's step of that name.
LEMMA SaveDecides ==
  ASSUME LedgerInv, LedgerInv', NEW r \in DecideRequests, SaveDecision(r) \/ SaveAnswerLost(r)
  PROVE  \E p \in PaymentIds : Ledger!Approve(p) \/ Ledger!Complete(p) \/ Ledger!Reject(p)
<1> PICK p : p = args[r].payment
  OBVIOUS
<1> PICK u : u = args[r].user
  OBVIOUS
<1> PICK who : who = Approvers(StepsOf(r))
  OBVIOUS
<1> PICK by : by = IF verdict[r].action = "REJECT_PAYMENT" THEN who ELSE who \cup {u}
  OBVIOUS
<1> PICK x : x = payment[p]
  OBVIOUS
<1> PICK old : old = RowOf(x, "pending_approval", who)
  OBVIOUS
<1> PICK new : new = RowOf(x, SavedStatus(r), by)
  OBVIOUS
<1> PICK rows : rows = LedgerRows
  OBVIOUS
<1>1. /\ p \in PaymentIds /\ PaymentOf(r) = x /\ p \in Stored'
      /\ payment'[p].amount = x.amount /\ payment'[p].status = SavedStatus(r)
      /\ by = Approvers(payment'[p].steps)
      /\ rows[p] = old /\ LedgerRows' = [rows EXCEPT ![p] = new]
  BY SavedRow
<1>2. Ledger!Record(verdict[r].action, AccountTenant[x.account], p)
  BY <1>1, SaveRecorded
<1>3. rows = [q \in PaymentIds |-> rows[q]]
  BY DEF LedgerRows
<1>4. LedgerRows'[p] = new
  BY <1>1, <1>3
<1>5. old \in [creator : {x.creator}, account : {x.account}, amount : {x.amount}, key : {x.key},
               status : {"pending_approval"}, approvers : {who}]
  BY DEF RowOf
<1>6. PersistDecision(r) /\ pc[r] = "save"
      /\ verdict[r].action \in {"APPROVE_PAYMENT_STEP", "APPROVE_PAYMENT", "REJECT_PAYMENT"}
  BY DEF LedgerInv, ApprovalInv, TypeInv, Carried, SaveDecision, SaveAnswerLost, ReadyToSave
<1>7. Ledger!Pending(p)
  BY <1>1, <1>5 DEF Ledger!Pending, Ledger!Exists, LedgerRows
<1>8. Ledger!Record(verdict[r].action, AccountTenant[LedgerRows[p].account], p)
  BY <1>1, <1>2, <1>5
<1>9. rows = LedgerRows
  OBVIOUS
<1>10. verdict[r].action # "REJECT_PAYMENT" => Ledger!MayApprove(u, p)
  BY <1>1, <1>5, SaverMayApprove DEF Ledger!MayApprove, Ledger!Double, LedgerRows
<1>11. CASE verdict[r].action = "APPROVE_PAYMENT_STEP"
  <2>0. SavedStatus(r) = "pending_approval"
    BY <1>6, <1>11 DEF SavedStatus, LedgerInv, ApprovedInv, AsRuled, Ruled
  <2>1. balance' = balance /\ SavedStatus(r) = "pending_approval"
    BY <1>6, <1>11, <2>0 DEF PersistDecision, Completes
  <2>2. new = [old EXCEPT !.approvers = who \cup {u}] /\ new.approvers = who \cup {u}
    BY <1>11, <2>1 DEF RowOf
  <2>3. LedgerRows' = [rows EXCEPT ![p].approvers = @ \cup {u}]
    BY <1>1, <1>3, <1>5, <2>2
  <2>4. Ledger!MayApprove(u, p)
    BY <1>11, <1>10
  <2>5. u \in LedgerRows'[p].approvers
    BY <1>4, <2>2
  <2>6. Ledger!Approve(p)
    BY <1>7, <1>8, <1>9, <1>11, <2>1, <2>3, <2>4, <2>5 DEF Ledger!Approve, LedgerRows
  <2> QED BY <1>1, <2>6
<1>12. CASE verdict[r].action = "REJECT_PAYMENT"
  <2>1. balance' = balance /\ SavedStatus(r) = "rejected"
    BY <1>6, <1>12 DEF PersistDecision, Completes, SavedStatus
  <2>2. new = [old EXCEPT !.status = "rejected"]
    BY <1>12, <2>1 DEF RowOf
  <2>3. LedgerRows' = [rows EXCEPT ![p].status = "rejected"]
    BY <1>1, <1>3, <2>2
  <2>4. Ledger!Reject(p)
    BY <1>7, <1>12, <1>8, <1>9, <2>1, <2>3 DEF Ledger!Reject, LedgerRows
  <2> QED BY <1>1, <2>4
<1>13. CASE verdict[r].action = "APPROVE_PAYMENT"
  <2>1. Completes(r) /\ SavedStatus(r) = "completed"
    BY <1>13 DEF Completes, SavedStatus
  <2>2. Ledger!Debit(x.account, x.amount)
    <3>1. /\ balance' = [balance EXCEPT ![x.account] = @ - x.amount]
          /\ balance'[x.account] \in Nat /\ x \in Payment
      BY <1>1, <2>1, SaveDebits DEF LedgerInv, ApprovalInv
    <3>2. x.account \in Accounts /\ x.amount \in Nat
      BY <3>1, StoreAssumption DEF Payment
    <3>3. balance \in [Accounts -> Int]
      BY DEF LedgerInv, ApprovalInv, TypeInv, SystemTypeOK, CreationTypeOK, StoreTypeOK
    <3> QED BY <3>1, <3>2, <3>3 DEF Ledger!Debit
  <2>3. Ledger!Double(x.amount) => Cardinality((who \cup {u}) \ {Nobody}) >= 2
    <3>1. EnoughApprovals(payment'[p])
      BY <1>1 DEF LedgerInv, ApprovedInv
    <3>2. by = who \cup {u}
      BY <1>13
    <3>3. Deciders(payment'[p].steps) = (who \cup {u}) \ {Nobody}
      BY <1>1, <3>2 DEF Deciders, Approvers
    <3> QED BY <1>1, <2>1, <3>1, <3>3 DEF EnoughApprovals, ApprovalsCounted, Ledger!Double,
              RequiresDoubleApproval, RequiresApproval, RequiredApprovalSteps
  <2>4. LedgerRows' = [rows EXCEPT ![p].approvers = @ \cup {u}, ![p].status = "completed"]
    <3> PICK g : g = [rows[p] EXCEPT !.approvers = by]
      OBVIOUS
    <3> PICK h : h = [rows EXCEPT ![p] = g]
      OBVIOUS
    <3>1. h[p] = g /\ h = [rows EXCEPT ![p].approvers = by] /\ h = [q \in PaymentIds |-> h[q]]
      BY <1>1, <1>3
    <3>2. new = [h[p] EXCEPT !.status = "completed"]
      <4> DEFINE Row == [creator : {x.creator}, account : {x.account}, amount : {x.amount},
                         key : {x.key}, status : {"pending_approval", "completed"},
                         approvers : {who, by}]
      <4>0. PICK y : y = [g EXCEPT !.status = "completed"]
        OBVIOUS
      <4>1. old \in Row
        BY <1>5
      <4>2. g \in Row /\ g.approvers = by
        BY <1>1, <4>1
      <4>3. y \in Row /\ y.approvers = by /\ y.status = "completed"
        BY ONLY <4>0, <4>2
      <4>4. y = [creator |-> x.creator, account |-> x.account, amount |-> x.amount,
                 key |-> x.key, status |-> "completed", approvers |-> by]
        BY ONLY <4>3
      <4>5. y = RowOf(x, "completed", by)
        BY ONLY <4>4 DEF RowOf
      <4> QED BY <2>1, <3>1, <4>0, <4>5
    <3>3. by = rows[p].approvers \cup {u}
      BY <1>1, <1>5, <1>13
    <3>4. LedgerRows' = [rows EXCEPT ![p].approvers = by, ![p].status = "completed"]
      <4>1. [rows EXCEPT ![p] = new] = [rows EXCEPT ![p].approvers = by, ![p].status = "completed"]
        BY <1>3, <3>1, <3>2
      <4> QED BY <1>1, <4>1
    <3> QED BY <3>3, <3>4
  <2>5. u \in LedgerRows'[p].approvers
    BY <1>4, <1>13 DEF RowOf
  <2>6. LedgerRows[p].account = x.account /\ LedgerRows[p].amount = x.amount
        /\ LedgerRows[p].approvers = who
    BY <1>1, <1>5, <1>9
  <2>7. Ledger!Debit(LedgerRows[p].account, LedgerRows[p].amount)
    BY <2>2, <2>6
  <2>8. Ledger!Double(LedgerRows[p].amount) =>
          Cardinality((LedgerRows[p].approvers \cup {u}) \ {Nobody}) >= 2
    BY <2>3, <2>6
  <2>9. /\ Ledger!MayApprove(u, p)
        /\ Ledger!Record("APPROVE_PAYMENT", AccountTenant[LedgerRows[p].account], p)
    BY <1>8, <1>10, <1>13
  <2>10. LedgerRows' = [LedgerRows EXCEPT ![p].approvers = @ \cup {u}, ![p].status = "completed"]
    BY <1>9, <2>4
  <2>11. \A S : Ledger!Cardinality(S) = Cardinality(S)
    BY Zenon DEF Ledger!Cardinality, Cardinality
  <2>12. Ledger!Complete(p)
    BY <1>7, <2>5, <2>7, <2>8, <2>9, <2>10, <2>11, ZenonT(60) DEF Ledger!Complete, LedgerRows
  <2> QED BY <1>1, <2>12
<1> QED BY <1>6, <1>11, <1>12, <1>13

LEMMA StepRefines ==
  ASSUME LedgerInv, LedgerInv', [SystemNext]_systemVars
  PROVE  [Ledger!LedgerNext]_(Ledger!ledgerVars)
<1> DEFINE Rows == <<balance, payment, audit>>
           Refined == [Ledger!LedgerNext]_(Ledger!ledgerVars)
<1>1. ASSUME UNCHANGED Rows PROVE Refined
  BY <1>1, NothingCommitted
<1>2. ASSUME NEW r \in CreateRequests,
             CreatePayment(r) \/ RefuseMalformed(r) \/ CreationStep(r)
      PROVE  UNCHANGED Rows \/ CommitCreation(r) \/ CommitAnswerLost(r)
  BY <1>2 DEF database, CreatePayment, RefuseMalformed, CreationStep, EnterCreation,
       AcquireTenantLock, ReleaseTenantLock, FindExistingPayment, GetAccount,
       RecheckExistingPayment, AddPayment, AppendCreationEntry, SaveCreationEntry,
       ReturnWinner, CreationCallFails
<1>3. ASSUME NEW r \in DecideRequests, Decide(r) \/ DecisionStep(r)
      PROVE  UNCHANGED Rows \/ SaveDecision(r) \/ SaveAnswerLost(r)
  BY <1>3 DEF database, Decide, DecisionStep, EnterDecision, AcquireTenantLock,
       ReleaseTenantLock, RefuseDecision, ApproveStep, ApprovePayment, RejectPayment,
       AppendDecisionEntry, SaveConflicts, DecisionCallFails
<1>4. ASSUME NEW i \in Instances, Restart(i) PROVE UNCHANGED Rows
  BY <1>4 DEF Restart, database
<1>5. CASE UNCHANGED systemVars
  BY <1>1, <1>5 DEF systemVars, storeVars, database
<1>6. ASSUME NEW r \in CreateRequests, CommitCreation(r) \/ CommitAnswerLost(r)
      PROVE  Ledger!LedgerNext
  <2>1. CASE args[r].iban = "valid"
    BY <1>6, <2>1, CommitCreates DEF Ledger!LedgerNext
  <2>2. CASE args[r].iban # "valid"
    BY <1>6, <2>2, IbanRecorded DEF Ledger!LedgerNext
  <2> QED BY <2>1, <2>2
<1>7. ASSUME NEW r \in DecideRequests, SaveDecision(r) \/ SaveAnswerLost(r)
      PROVE  Ledger!LedgerNext
  BY <1>7, SaveDecides DEF Ledger!LedgerNext
<1> HIDE DEF Rows
<1> QED BY <1>1, <1>2, <1>3, <1>4, <1>5, <1>6, <1>7 DEF SystemNext

\* On one process the handlers do to the committed rows what the ledger promises, however
\* requests interleave, fail, lose their answer or are cut off by a restart: a payment appears,
\* gets an approval, is completed with its debit or is rejected in one step that also adds its
\* entry to the trail (PaymentService, ApprovalService, AuditLogService).
THEOREM HandlersImplementLedger ==
  ASSUME OneProcess
  PROVE  SystemSpec => ImplementsLedger
<1>1. SystemInit => LedgerInv
  BY ApprovalInvInit, ApprovalInit, KeyInit, ChainInit, TrailInit, OpenInit DEF LedgerInv
<1>2. LedgerInv /\ [SystemNext]_systemVars => LedgerInv'
  BY ApprovalInvNext, KeyNext, ChainNext, OwnedNext, OpenNext, ApprovalNext
     DEF LedgerInv, ApprovalInv
<1>3. SystemInit => Ledger!LedgerInit
  BY LedgerStarts
<1>4. LedgerInv /\ LedgerInv' /\ [SystemNext]_systemVars => [Ledger!LedgerNext]_(Ledger!ledgerVars)
  BY StepRefines
<1> QED BY <1>1, <1>2, <1>3, <1>4, PTL DEF SystemSpec, ImplementsLedger, Ledger!LedgerSpec

-----------------------------------------------------------------------------
(* Which steps write rows                                                  *)

Commits(r) == CommitCreation(r) \/ CommitAnswerLost(r)
Saves(r)   == SaveDecision(r) \/ SaveAnswerLost(r)

Rows == <<balance, payment, booked, audit>>

\* Payments, transactions and entries are written by a commit and by a save only.
LEMMA RowSteps ==
  ASSUME [SystemNext]_systemVars
  PROVE  \/ UNCHANGED Rows
         \/ \E r \in CreateRequests : Commits(r) /\ UNCHANGED verdict
         \/ \E r \in DecideRequests : Saves(r) /\ UNCHANGED draft
<1>1. ASSUME NEW r \in CreateRequests,
             CreatePayment(r) \/ RefuseMalformed(r) \/ CreationStep(r)
      PROVE  UNCHANGED Rows \/ Commits(r)
  BY <1>1 DEF Rows, Commits, database, CreatePayment, RefuseMalformed, CreationStep, EnterCreation,
       AcquireTenantLock, ReleaseTenantLock, FindExistingPayment, GetAccount,
       RecheckExistingPayment, AddPayment, AppendCreationEntry, SaveCreationEntry,
       ReturnWinner, CreationCallFails
<1>2. ASSUME NEW r \in DecideRequests, Decide(r) \/ DecisionStep(r)
      PROVE  UNCHANGED Rows \/ Saves(r)
  BY <1>2 DEF Rows, Saves, database, Decide, DecisionStep, EnterDecision, AcquireTenantLock,
       ReleaseTenantLock, RefuseDecision, ApproveStep, ApprovePayment, RejectPayment,
       AppendDecisionEntry, SaveConflicts, DecisionCallFails
<1>3. ASSUME NEW i \in Instances, Restart(i) PROVE UNCHANGED Rows
  BY <1>3 DEF Rows, Restart, database
<1>4. CASE UNCHANGED systemVars
  BY <1>4 DEF Rows, systemVars, storeVars, database
<1> HIDE DEF Rows
<1> QED BY <1>1, <1>2, <1>3, <1>4 DEF SystemNext

\* What a commit writes.
LEMMA CommitWrites ==
  ASSUME TypeInv, NotYetStored, NEW r \in CreateRequests, Commits(r)
  PROVE  /\ pc[r] = "commit" /\ r \notin Stored /\ args[r] \in CreateArgs
         /\ \A p \in PaymentIds \ {r} : payment'[p] = payment[p]
         /\ args[r].iban = "valid" =>
              payment'[r] = DraftPayment(r) /\ Stored' = Stored \cup {r}
         /\ args[r].iban # "valid" => payment' = payment /\ Stored' = Stored
<1> USE DEF TypeInv, SystemTypeOK, CreationTypeOK, StoreTypeOK
<1>1. /\ pc[r] = "commit" /\ r \notin Stored /\ r \in PaymentIds
      /\ payment' = IF args[r].iban = "valid"
                    THEN [payment EXCEPT ![r] = DraftPayment(r)] ELSE payment
  BY DEF Commits, CommitCreation, CommitAnswerLost, PersistCreation, NotYetStored, PaymentIds
<1>2. args[r] \in CreateArgs
  BY <1>1 DEF InFlight
<1>3. CASE args[r].iban = "valid"
  <2>1. payment'[r] = DraftPayment(r) /\ \A p \in PaymentIds \ {r} : payment'[p] = payment[p]
    BY <1>1, <1>3
  <2>2. DraftPayment(r) # NoPayment
    BY <1>2, DraftPaymentIsPayment, PaymentIsNotMissing
  <2>3. Stored' = Stored \cup {r}
    BY <1>1, <2>1, <2>2 DEF Stored
  <2> QED BY <1>1, <1>2, <1>3, <2>1, <2>3
<1>4. CASE args[r].iban # "valid"
  <2>1. payment' = payment
    BY <1>1, <1>4
  <2>2. Stored' = Stored
    BY <2>1 DEF Stored
  <2> QED BY <1>1, <1>2, <1>4, <2>1, <2>2
<1> QED BY <1>3, <1>4

\* What a save writes.
LEMMA SaveWrites ==
  ASSUME TypeInv, NEW r \in DecideRequests, Saves(r)
  PROVE  /\ pc[r] = "save" /\ Ruled(r) /\ PersistDecision(r)
         /\ args[r].payment \in Stored /\ Stored' = Stored
         /\ PaymentOf(r) = payment[args[r].payment] /\ PaymentOf(r) \in Payment
         /\ payment'[args[r].payment] =
              [PaymentOf(r) EXCEPT !.steps = SavedSteps(r), !.status = SavedStatus(r)]
         /\ \A p \in PaymentIds \ {args[r].payment} : payment'[p] = payment[p]
<1> USE DEF TypeInv, SystemTypeOK, DecisionTypeOK, StoreTypeOK
<1>1. pc[r] = "save" /\ Ruled(r) /\ PersistDecision(r)
  BY DEF Saves, SaveDecision, SaveAnswerLost, ReadyToSave, Ruled
<1>2. /\ args[r].payment \in Stored /\ Stored' = Stored
      /\ payment[args[r].payment] \in Payment
      /\ \A p \in PaymentIds \ {args[r].payment} : payment'[p] = payment[p]
  BY <1>1, SavedPayment
<1>3. payment' = [payment EXCEPT ![args[r].payment] =
                    [PaymentOf(r) EXCEPT !.steps = SavedSteps(r), !.status = SavedStatus(r)]]
  BY <1>1, <1>2 DEF PersistDecision, PaymentOf, Stored
<1>4. args[r].payment \in PaymentIds
  BY <1>2 DEF Stored
<1> QED BY <1>1, <1>2, <1>3, <1>4 DEF PaymentOf

\* Of a stored payment only the steps and the status are ever written again.
PaymentsStay ==
  \A p \in Stored :
    /\ p \in Stored'
    /\ payment'[p].creator = payment[p].creator /\ payment'[p].key = payment[p].key
    /\ payment'[p].account = payment[p].account /\ payment'[p].amount = payment[p].amount

LEMMA StoredPaymentsStay ==
  ASSUME TypeInv, NotYetStored, [SystemNext]_systemVars
  PROVE  PaymentsStay
<1>1. CASE UNCHANGED Rows
  BY <1>1 DEF Rows, PaymentsStay, Stored
<1>2. ASSUME NEW r \in CreateRequests, Commits(r) PROVE PaymentsStay
  <2>1. \A p \in Stored : p \in Stored' /\ payment'[p] = payment[p]
    BY <1>2, CommitWrites DEF Stored
  <2> QED BY <2>1 DEF PaymentsStay
<1>3. ASSUME NEW r \in DecideRequests, Saves(r) PROVE PaymentsStay
  <2>1. PICK p : p = args[r].payment
    OBVIOUS
  <2>2. /\ p \in Stored /\ Stored' = Stored
        /\ payment[p] \in Payment
        /\ payment'[p] = [payment[p] EXCEPT !.steps = SavedSteps(r), !.status = SavedStatus(r)]
        /\ \A q \in Stored \ {p} : payment'[q] = payment[q]
    BY <1>3, <2>1, SaveWrites DEF Stored
  <2>3. /\ payment'[p].creator = payment[p].creator /\ payment'[p].key = payment[p].key
        /\ payment'[p].account = payment[p].account /\ payment'[p].amount = payment[p].amount
    BY <2>2 DEF Payment
  <2> QED BY <2>2, <2>3 DEF PaymentsStay
<1> QED BY <1>1, <1>2, <1>3, RowSteps

-----------------------------------------------------------------------------
(* The answers of creations                                                *)

Answered(r) == pc[r] \in {"finally", "done"}

\* What the client of r may conclude from code c.
TrueAnswer(r, c) ==
  /\ c = "created" => r \in Stored
  /\ c \in {"created", "existing"} => \E p \in ExistingPayments(r) : HasSamePaymentData(p, r)
  /\ c = "idempotency_conflict" => \E p \in ExistingPayments(r) : ~HasSamePaymentData(p, r)
  /\ c \in Refusals \cup {"existing"} => r \notin Stored

LEMMA AnswersAsCodes ==
  AnswersTruthful <=> \A r \in CreateRequests : Answered(r) => TrueAnswer(r, reply[r])
BY DEF AnswersTruthful, Answered, TrueAnswer

\* What the repository finds for the key is what the code makes of it.
LEMMA ExistingAnswerIsTrue ==
  ASSUME NEW r, r \notin Stored, ExistingPayments(r) # {}
  PROVE  TrueAnswer(r, ExistingAnswer(r))
<1>1. CASE \E p \in ExistingPayments(r) : HasSamePaymentData(p, r)
  BY <1>1 DEF TrueAnswer, ExistingAnswer
<1>2. CASE ~\E p \in ExistingPayments(r) : HasSamePaymentData(p, r)
  BY <1>2 DEF TrueAnswer, ExistingAnswer, Refusals
<1> QED BY <1>1, <1>2

\* An answer stays true while the payments stay, unless the request itself stores one.
LEMMA AnswerStaysTrue ==
  ASSUME PaymentsStay, NEW r, NEW c, args'[r] = args[r], r \in Stored' => r \in Stored,
         TrueAnswer(r, c)
  PROVE  TrueAnswer(r, c)'
<1>1. ASSUME NEW p \in ExistingPayments(r)
      PROVE  /\ p \in ExistingPayments(r)'
             /\ HasSamePaymentData(p, r)' <=> HasSamePaymentData(p, r)
  BY DEF ExistingPayments, HasSamePaymentData, PaymentsStay
<1>2. r \in Stored => r \in Stored'
  BY DEF PaymentsStay
<1> QED BY <1>1, <1>2 DEF TrueAnswer

\* A step of a creation answers its own request only, and truthfully.
LEMMA CreationAnswersTruly ==
  ASSUME TypeInv, NotYetStored, PaymentsStay, NEW r \in CreateRequests,
         CreatePayment(r) \/ RefuseMalformed(r) \/ CreationStep(r),
         Answered(r)', ~Answered(r)
  PROVE  TrueAnswer(r, reply[r])'
<1> USE DEF TypeInv, SystemTypeOK, CreationTypeOK, StoreTypeOK, Requests
<1>1. r \notin Stored
  BY DEF NotYetStored, Answered
<1>2. CASE \/ CreatePayment(r) \/ RefuseMalformed(r) \/ GetAccount(r) \/ AddPayment(r)
           \/ CreationCallFails(r)
  <2>1. payment' = payment /\ Stored' = Stored
    BY <1>2 DEF CreatePayment, RefuseMalformed, GetAccount, AddPayment, CreationCallFails,
                database, Stored
  <2>2. reply'[r] \in {"forbidden", "bad_request", "not_found", "insufficient_funds",
                       "account_changed", "error"}
    BY <1>2 DEF CreatePayment, RefuseMalformed, GetAccount, AddPayment, CreationCallFails,
                Answered, Goto, Answer, Leave
  <2> QED BY <1>1, <2>1, <2>2 DEF TrueAnswer
<1>3. CASE FindExistingPayment(r) \/ RecheckExistingPayment(r) \/ ReturnWinner(r)
  <2>1. args' = args /\ Stored' = Stored
    BY <1>3 DEF FindExistingPayment, RecheckExistingPayment, ReturnWinner, database, Stored
  <2>2. \/ reply'[r] = "error"
        \/ reply'[r] = ExistingAnswer(r) /\ ExistingPayments(r) # {}
    BY <1>3 DEF FindExistingPayment, RecheckExistingPayment, ReturnWinner, Answered, Goto,
                Answer, Leave
  <2>3. CASE reply'[r] = "error"
    BY <2>3 DEF TrueAnswer, Refusals
  <2>4. CASE reply'[r] = ExistingAnswer(r) /\ ExistingPayments(r) # {}
    <3> PICK c : c = ExistingAnswer(r)
      OBVIOUS
    <3>1. TrueAnswer(r, c) /\ reply'[r] = c
      BY <1>1, <2>4, ExistingAnswerIsTrue
    <3>2. TrueAnswer(r, c)'
      BY <2>1, <3>1, AnswerStaysTrue
    <3> QED BY <3>1, <3>2 DEF TrueAnswer
  <2> QED BY <2>2, <2>3, <2>4
<1>4. CASE Commits(r)
  <2>1. /\ args' = args
        /\ reply'[r] \in {IF args[r].iban = "valid" THEN "created" ELSE "bad_request", "error"}
    BY <1>4 DEF Commits, CommitCreation, CommitAnswerLost, Leave
  <2>2. CASE args[r].iban = "valid"
    <3>1. payment'[r] = DraftPayment(r) /\ r \in Stored'
      BY <1>4, <2>2, CommitWrites
    <3>2. r \in ExistingPayments(r)' /\ HasSamePaymentData(r, r)'
      BY <2>1, <3>1 DEF DraftPayment, ExistingPayments, HasSamePaymentData
    <3> QED BY <2>1, <2>2, <3>1, <3>2 DEF TrueAnswer, Refusals
  <2>3. CASE args[r].iban # "valid"
    BY <1>1, <1>4, <2>1, <2>3, CommitWrites DEF TrueAnswer, Refusals
  <2> QED BY <2>2, <2>3
<1>5. ~(EnterCreation(r) \/ AppendCreationEntry(r) \/ SaveCreationEntry(r) \/ ReleaseTenantLock(r))
  BY DEF EnterCreation, AppendCreationEntry, SaveCreationEntry, ReleaseTenantLock,
         AcquireTenantLock, Answered, Goto
<1> QED BY <1>2, <1>3, <1>4, <1>5 DEF CreationStep, Commits

\* Nobody else moves a creation or answers it; a restart loses the answers of those in flight.
LEMMA OtherRequests ==
  ASSUME TypeInv, [SystemNext]_systemVars, NEW q \in CreateRequests,
         ~(CreatePayment(q) \/ RefuseMalformed(q) \/ CreationStep(q))
  PROVE  /\ args'[q] = args[q] /\ draft'[q] = draft[q]
         /\ \/ pc'[q] = pc[q] /\ reply'[q] = reply[q]
            \/ pc'[q] = "done" /\ reply'[q] = "lost"
<1> USE DEF TypeInv, SystemTypeOK, CreationTypeOK, DecisionTypeOK, StoreTypeOK, Requests
<1> DEFINE Same == pc'[q] = pc[q] /\ args'[q] = args[q] /\ reply'[q] = reply[q]
<1>1. CASE UNCHANGED systemVars
  BY <1>1 DEF systemVars, storeVars
<1>2. ASSUME NEW r \in CreateRequests, r # q,
             CreatePayment(r) \/ RefuseMalformed(r) \/ CreationStep(r)
      PROVE  Same /\ draft'[q] = draft[q]
  BY <1>2 DEF Goto, Answer, Leave, CreatePayment, RefuseMalformed, CreationStep, EnterCreation,
       AcquireTenantLock, ReleaseTenantLock, FindExistingPayment, GetAccount,
       RecheckExistingPayment, AddPayment, AppendCreationEntry, SaveCreationEntry,
       CommitCreation, ReturnWinner, CreationCallFails, CommitAnswerLost
<1>3. ASSUME NEW r \in DecideRequests, Decide(r) \/ DecisionStep(r)
      PROVE  Same
  <2>1. r # q
    BY StoreAssumption
  <2> QED BY <1>3, <2>1 DEF Goto, Answer, Leave, Decide, DecisionStep, EnterDecision,
       AcquireTenantLock, ReleaseTenantLock, RefuseDecision, ApproveStep, ApprovePayment,
       RejectPayment, AppendDecisionEntry, SaveDecision, SaveConflicts, ReadyToSave,
       DecisionCallFails, SaveAnswerLost
<1>4. ASSUME NEW i \in Instances, Restart(i)
      PROVE  /\ args' = args
             /\ \/ pc'[q] = pc[q] /\ reply'[q] = reply[q]
                \/ pc'[q] = "done" /\ reply'[q] = "lost"
  BY <1>4 DEF Restart
<1> HIDE DEF TypeInv
<1> QED BY <1>1, <1>2, <1>3, <1>4 DEF SystemNext

LEMMA AnswersNext ==
  ASSUME TypeInv, NotYetStored, AnswersTruthful, [SystemNext]_systemVars
  PROVE  AnswersTruthful'
<1>1. PaymentsStay
  BY StoredPaymentsStay
<1>2. ASSUME NEW q \in CreateRequests, Answered(q)'
      PROVE  TrueAnswer(q, reply[q])'
  <2>1. CASE /\ CreatePayment(q) \/ RefuseMalformed(q) \/ CreationStep(q)
             /\ ~Answered(q)
    BY <1>1, <1>2, <2>1, CreationAnswersTruly
  <2>2. CASE /\ CreatePayment(q) \/ RefuseMalformed(q) \/ CreationStep(q)
             /\ Answered(q)
    <3>1. ReleaseTenantLock(q)
      BY <2>2 DEF Answered, CreatePayment, RefuseMalformed, CreationStep, EnterCreation,
           AcquireTenantLock, FindExistingPayment, GetAccount, RecheckExistingPayment,
           AddPayment, AppendCreationEntry, SaveCreationEntry, CommitCreation, ReturnWinner,
           CreationCallFails, CommitAnswerLost
    <3>2. args' = args /\ reply' = reply /\ Stored' = Stored
      BY <3>1 DEF ReleaseTenantLock, database, Stored
    <3> PICK c : c = reply[q]
      OBVIOUS
    <3>3. TrueAnswer(q, c)
      BY <2>2, AnswersAsCodes
    <3>4. TrueAnswer(q, c)'
      BY <1>1, <3>2, <3>3, AnswerStaysTrue
    <3> QED BY <3>2, <3>4 DEF TrueAnswer
  <2>3. CASE ~(CreatePayment(q) \/ RefuseMalformed(q) \/ CreationStep(q))
    <3>1. /\ args'[q] = args[q]
          /\ \/ reply'[q] = reply[q] /\ Answered(q)
             \/ reply'[q] = "lost"
      BY <1>2, <2>3, OtherRequests DEF Answered
    <3>2. CASE reply'[q] = "lost"
      BY <3>2 DEF TrueAnswer, Refusals
    <3>3. CASE reply'[q] = reply[q] /\ Answered(q)
      <4> PICK c : c = reply[q]
        OBVIOUS
      <4>1. TrueAnswer(q, c) /\ reply'[q] = c
        BY <3>3, AnswersAsCodes
      <4>2. q \in Stored' => q \in Stored
        <5>1. Stored' = Stored \/ \E r \in CreateRequests : Commits(r) /\ Stored' \subseteq Stored \cup {r}
          BY RowSteps, CommitWrites, SaveWrites DEF Rows, Stored
        <5>2. ~Commits(q)
          BY <2>3 DEF Commits, CreationStep
        <5> QED BY <5>1, <5>2
      <4>3. TrueAnswer(q, c)'
        BY <1>1, <3>1, <4>1, <4>2, AnswerStaysTrue
      <4> QED BY <4>1, <4>3 DEF TrueAnswer
    <3> QED BY <3>1, <3>2, <3>3
  <2> QED BY <2>1, <2>2, <2>3
<1>3. AnswersTruthful' <=> \A r \in CreateRequests : Answered(r)' => TrueAnswer(r, reply[r])'
  BY DEF AnswersTruthful, Answered, TrueAnswer
<1> QED BY <1>2, <1>3

\* The answer to a creation is true of what is stored when it is sent and ever after: 201 of
\* the payment that has the key and the data of the request, 409 of a key that is in use for
\* other data, and a refusal of a payment that was not stored, for any number of retries,
\* processes and decisions at once (CreatePaymentAsync, PaymentsController.CreatePayment).
THEOREM AnswersAreTrue == SystemSpec => []AnswersTruthful
<1> DEFINE IInv == TypeInv /\ MoneyInv /\ AnswersTruthful
<1>1. SystemInit => IInv
  <2>1. SystemInit => AnswersTruthful
    BY DEF SystemInit, StoreInit, AnswersTruthful, Requests
  <2> QED BY <2>1, TypeInit, MoneyInit
<1>2. IInv /\ [SystemNext]_systemVars => IInv'
  BY TypeNext, MoneyNext, AnswersNext DEF MoneyInv
<1> QED BY <1>1, <1>2, PTL DEF SystemSpec

-----------------------------------------------------------------------------
(* The steps of a payment after a save                                     *)

\* The steps that were there keep their places: the decided one gets the decision, those a
\* rejection closes are closed, and what is added comes behind them.
LEMMA StepsAfterSave ==
  ASSUME TypeInv, NEW r \in DecideRequests, Ruled(r)
  PROVE  LET s == StepsOf(r)
             x == verdict[r].extra
             v == SavedSteps(r)
             decided == IF verdict[r].action = "REJECT_PAYMENT" THEN "rejected" ELSE "approved"
         IN  /\ s \in Seq(Step) /\ x \in Seq(Step)
             /\ DOMAIN s = 1..Len(s) /\ Len(s) \in Nat
             /\ DOMAIN x = 1..Len(x) /\ Len(x) \in Nat
             /\ DOMAIN v = 1..(Len(s) + Len(x))
             /\ \A i \in DOMAIN s :
                  v[i] = IF i = args[r].step
                         THEN DecidedStep(s[i], decided, args[r].user, "manual")
                         ELSE IF i \in verdict[r].closed
                         THEN DecidedStep(s[i], "rejected", Nobody, "payment_rejected")
                         ELSE s[i]
             /\ \A i \in DOMAIN x : v[Len(s) + i] = x[i]
<1> USE DEF TypeInv, SystemTypeOK, DecisionTypeOK
<1> DEFINE s == StepsOf(r)
           x == verdict[r].extra
           decided == IF verdict[r].action = "REJECT_PAYMENT" THEN "rejected" ELSE "approved"
           After(i) ==
             IF i = args[r].step THEN DecidedStep(s[i], decided, args[r].user, "manual")
             ELSE IF i \in verdict[r].closed
             THEN DecidedStep(s[i], "rejected", Nobody, "payment_rejected")
             ELSE s[i]
           body == [i \in DOMAIN s |-> After(i)]
           AnyStep == {After(i) : i \in DOMAIN s} \cup Step
<1>1. args[r].payment \in Stored /\ x \in Seq(Step)
  BY DEF Carried, Ruled, Verdict
<1>2. s \in Seq(Step)
  BY <1>1, StoredIsPayment DEF StepsOf, PaymentOf, Payment
<1>3. /\ DOMAIN s = 1..Len(s) /\ Len(s) \in Nat
      /\ DOMAIN x = 1..Len(x) /\ Len(x) \in Nat
  BY <1>1, <1>2
<1>4. SavedSteps(r) = body \o x
  BY DEF SavedSteps
<1>5. \A i \in DOMAIN s : body[i] = After(i)
  OBVIOUS
<1>6. body \in Seq(AnyStep) /\ Len(body) = Len(s) /\ x \in Seq(AnyStep)
  <2>1. \A i \in DOMAIN s : After(i) \in AnyStep
    OBVIOUS
  <2>2. Step \subseteq AnyStep
    OBVIOUS
  <2> HIDE DEF AnyStep, After, s
  <2> QED BY <1>1, <1>3, <2>1, <2>2
<1> HIDE DEF body, AnyStep
<1>7. /\ DOMAIN (body \o x) = 1..(Len(s) + Len(x))
      /\ \A i \in 1..Len(s) : (body \o x)[i] = body[i]
      /\ \A i \in 1..Len(x) : (body \o x)[Len(s) + i] = x[i]
  <2> HIDE DEF s, x, After
  <2>1. /\ (body \o x) \in Seq(AnyStep) /\ Len(body \o x) = Len(s) + Len(x)
        /\ \A i \in 1..(Len(s) + Len(x)) :
             (body \o x)[i] = IF i <= Len(s) THEN body[i] ELSE x[i - Len(s)]
    <3>1. /\ (body \o x) \in Seq(AnyStep) /\ Len(body \o x) = Len(body) + Len(x)
          /\ \A i \in 1..(Len(body) + Len(x)) :
               (body \o x)[i] = IF i <= Len(body) THEN body[i] ELSE x[i - Len(body)]
      BY <1>6, ConcatProperties
    <3> QED BY <1>6, <3>1
  <2>2. DOMAIN (body \o x) = 1..(Len(s) + Len(x))
    BY <2>1
  <2>3. \A i \in 1..Len(s) : i \in 1..(Len(s) + Len(x)) /\ i <= Len(s)
    BY <1>3
  <2>4. \A i \in 1..Len(x) :
          /\ Len(s) + i \in 1..(Len(s) + Len(x)) /\ ~(Len(s) + i <= Len(s))
          /\ (Len(s) + i) - Len(s) = i
    BY <1>3
  <2> QED BY <2>1, <2>2, <2>3, <2>4
<1>8. /\ DOMAIN SavedSteps(r) = 1..(Len(s) + Len(x))
      /\ \A i \in DOMAIN s : SavedSteps(r)[i] = After(i)
      /\ \A i \in DOMAIN x : SavedSteps(r)[Len(s) + i] = x[i]
  BY <1>3, <1>4, <1>5, <1>7
<1> HIDE DEF s, x
<1> QED BY <1>1, <1>2, <1>3, <1>8 DEF s, x

\* The row of the payment after a save, field by field.
LEMMA SavedFields ==
  ASSUME TypeInv, NEW r \in DecideRequests, Saves(r)
  PROVE  /\ payment'[args[r].payment].steps = SavedSteps(r)
         /\ payment'[args[r].payment].status = SavedStatus(r)
         /\ payment'[args[r].payment].amount = PaymentOf(r).amount
<1>1. /\ PaymentOf(r) \in Payment
      /\ payment'[args[r].payment] =
           [PaymentOf(r) EXCEPT !.steps = SavedSteps(r), !.status = SavedStatus(r)]
  BY SaveWrites
<1> QED BY <1>1 DEF Payment

\* A step that was decided is never written again.
DecidedStepsStay ==
  \A p \in Stored : \A i \in DOMAIN payment[p].steps :
    payment[p].steps[i].status # "pending" =>
      i \in DOMAIN payment'[p].steps /\ payment'[p].steps[i] = payment[p].steps[i]

LEMMA DecisionsStay ==
  ASSUME TypeInv, NotYetStored, OpenInv, [SystemNext]_systemVars
  PROVE  DecidedStepsStay
<1>1. CASE UNCHANGED Rows
  BY <1>1 DEF Rows, DecidedStepsStay
<1>2. ASSUME NEW r \in CreateRequests, Commits(r) PROVE DecidedStepsStay
  <2>1. \A p \in Stored : payment'[p] = payment[p]
    BY <1>2, CommitWrites DEF Stored
  <2> QED BY <2>1 DEF DecidedStepsStay
<1>3. ASSUME NEW r \in DecideRequests, Saves(r) PROVE DecidedStepsStay
  <2>1. PICK p : p = args[r].payment
    OBVIOUS
  <2>2. PICK s : s = StepsOf(r)
    OBVIOUS
  <2>3. /\ Ruled(r) /\ p \in Stored /\ payment[p].steps = s
        /\ \A q \in Stored \ {p} : payment'[q] = payment[q]
    BY <1>3, <2>1, <2>2, SaveWrites DEF Stored, StepsOf
  <2>4. payment'[p].steps = SavedSteps(r)
    BY <1>3, <2>1, SavedFields
  <2>5. \A i \in DOMAIN s : s[i].status # "pending" =>
          i # args[r].step /\ i \notin verdict[r].closed
    BY <2>2, <2>3 DEF OpenInv, RuledOn, TargetStep, StepsWith
  <2>6. /\ DOMAIN s = 1..Len(s) /\ Len(s) \in Nat /\ Len(verdict[r].extra) \in Nat
        /\ DOMAIN SavedSteps(r) = 1..(Len(s) + Len(verdict[r].extra))
        /\ \A i \in DOMAIN s : i # args[r].step /\ i \notin verdict[r].closed =>
             SavedSteps(r)[i] = s[i]
    BY <2>2, <2>3, StepsAfterSave
  <2>7. \A i \in DOMAIN s : i \in DOMAIN SavedSteps(r)
    BY <2>6
  <2>8. \A i \in DOMAIN s : s[i].status # "pending" =>
          i \in DOMAIN SavedSteps(r) /\ SavedSteps(r)[i] = s[i]
    BY <2>5, <2>6, <2>7
  <2> QED BY <2>3, <2>4, <2>8 DEF DecidedStepsStay
<1> QED BY <1>1, <1>2, <1>3, RowSteps

-----------------------------------------------------------------------------
(* The word of the request                                                 *)

\* What was ruled is what the request asks for: a rejection closes whatever else is open,
\* and an approval that is not the last leaves or adds a step that is.
RuledAs(r) ==
  /\ verdict[r].action = "REJECT_PAYMENT" =>
       /\ args[r].action = "reject" /\ verdict[r].extra = <<>>
       /\ verdict[r].closed = StepsWith(StepsOf(r), "pending") \ {args[r].step}
  /\ verdict[r].action # "REJECT_PAYMENT" => args[r].action = "approve"
  /\ verdict[r].action = "APPROVE_PAYMENT_STEP" =>
       StepsWith(StepsAfterApproval(r), "pending") # {} \/ verdict[r].extra # <<>>

WordInv == \A r \in DecideRequests : Ruled(r) => RuledAs(r)

LEMMA KeptRuledAs ==
  ASSUME NEW r, RulingKept(r), RuledAs(r)
  PROVE  RuledAs(r)'
<1>1. /\ StepsOf(r)' = StepsOf(r) /\ args'[r] = args[r]
      /\ verdict'[r].action = verdict[r].action /\ verdict'[r].extra = verdict[r].extra
      /\ verdict'[r].closed = verdict[r].closed
  BY DEF RulingKept, PaymentOf, StepsOf
<1>2. StepsAfterApproval(r)' = StepsAfterApproval(r)
  BY <1>1 DEF StepsAfterApproval
<1> QED BY <1>1, <1>2 DEF RuledAs

LEMMA RulingIsAsAsked ==
  ASSUME TypeInv, CallerInv, NEW r \in DecideRequests,
         ApproveStep(r) \/ ApprovePayment(r) \/ RejectPayment(r)
  PROVE  RuledAs(r)'
<1> USE DEF TypeInv, SystemTypeOK, DecisionTypeOK, StoreTypeOK, Requests
<1>1. payment' = payment /\ args' = args /\ pc[r] = "load"
  BY DEF ApproveStep, ApprovePayment, RejectPayment, database
<1>2. verdict[r] \in Verdict /\ verdict[r].extra = <<>> /\ verdict[r].closed = {}
  BY <1>1 DEF CallerInv, Unruled
<1>3. StepsOf(r)' = StepsOf(r) /\ StepsAfterApproval(r)' = StepsAfterApproval(r)
  BY <1>1 DEF PaymentOf, StepsOf, StepsAfterApproval
<1>4. CASE ApproveStep(r)
  <2> DEFINE e == IF MissingApproval(r) THEN <<MissingApprovalStep(r)>> ELSE <<>>
  <2>1. verdict' = [verdict EXCEPT ![r].action = "APPROVE_PAYMENT_STEP", ![r].extra = e]
    BY <1>4 DEF ApproveStep
  <2>2. MissingApproval(r) => e # <<>>
    OBVIOUS
  <2> HIDE DEF e
  <2>3. verdict' = [verdict EXCEPT ![r] = [verdict[r] EXCEPT !.action = "APPROVE_PAYMENT_STEP",
                                                             !.extra = e]]
    BY <2>1
  <2>4. verdict'[r].extra = e /\ verdict'[r].action = "APPROVE_PAYMENT_STEP"
    BY <1>2, <2>3 DEF Verdict
  <2>5. StepsWith(StepsAfterApproval(r), "pending") # {} \/ e # <<>>
    BY <1>4, <2>2 DEF ApproveStep, LastApproval
  <2>6. args[r].action = "approve"
    BY <1>4 DEF ApproveStep
  <2> QED BY <1>1, <1>3, <2>4, <2>5, <2>6 DEF RuledAs
<1>5. CASE ApprovePayment(r)
  <2> DEFINE v == version[PaymentOf(r).account]
             f == balance[PaymentOf(r).account]
  <2>1. verdict' = [verdict EXCEPT ![r].action = "APPROVE_PAYMENT",
                                   ![r].version = v, ![r].funds = f]
    BY <1>5 DEF ApprovePayment
  <2> HIDE DEF v, f
  <2>2. verdict' = [verdict EXCEPT ![r] = [verdict[r] EXCEPT !.action = "APPROVE_PAYMENT",
                                                             !.version = v, !.funds = f]]
    BY <2>1
  <2>3. verdict'[r].action = "APPROVE_PAYMENT"
    BY <1>2, <2>2 DEF Verdict
  <2>4. args[r].action = "approve"
    BY <1>5 DEF ApprovePayment
  <2> QED BY <1>1, <2>3, <2>4 DEF RuledAs
<1>6. CASE RejectPayment(r)
  <2> DEFINE c == StepsWith(StepsOf(r), "pending") \ {args[r].step}
  <2>1. verdict' = [verdict EXCEPT ![r].action = "REJECT_PAYMENT", ![r].closed = c]
    BY <1>6 DEF RejectPayment
  <2>2. c = StepsWith(StepsOf(r), "pending") \ {args[r].step}
    OBVIOUS
  <2> HIDE DEF c
  <2>3. verdict' = [verdict EXCEPT ![r] = [verdict[r] EXCEPT !.action = "REJECT_PAYMENT",
                                                             !.closed = c]]
    BY <2>1
  <2>4. /\ verdict'[r].extra = <<>> /\ verdict'[r].closed = c
        /\ verdict'[r].action = "REJECT_PAYMENT"
    BY <1>2, <2>3 DEF Verdict
  <2>5. args[r].action = "reject"
    BY <1>6 DEF RejectPayment
  <2> QED BY <1>1, <1>3, <2>2, <2>4, <2>5 DEF RuledAs
<1> QED BY <1>4, <1>5, <1>6

LEMMA WordNext ==
  ASSUME OneProcess, ApprovalInv, WordInv, [SystemNext]_systemVars
  PROVE  WordInv'
<1> SUFFICES ASSUME NEW d \in DecideRequests, Ruled(d)' PROVE RuledAs(d)'
  BY DEF WordInv
<1> QED BY RulingsKept, KeptRuledAs, RulingIsAsAsked DEF ApprovalInv, WordInv, RulingKept

-----------------------------------------------------------------------------
(* The answers of decisions                                                *)

\* r's step was decided as r asked.
DecidedFor(r) ==
  /\ Answered(r) /\ args[r].payment \in Stored /\ args[r].step \in DOMAIN StepsOf(r)
  /\ TargetStep(r).decidedBy = args[r].user /\ TargetStep(r).source = "manual"
  /\ TargetStep(r).status = IF args[r].action = "approve" THEN "approved" ELSE "rejected"

ToldInv == \A r \in DecideRequests : reply[r] = "decided" => DecidedFor(r)

LEMMA ToldGivesProperty ==
  ASSUME ToldInv
  PROVE  DecisionAnswersTruthful
BY DEF ToldInv, DecidedFor, DecisionAnswersTruthful

\* A request is told so by its save, and an answer that was given stays.
LEMMA ToldBySave ==
  ASSUME TypeInv, [SystemNext]_systemVars, NEW q \in DecideRequests, reply'[q] = "decided"
  PROVE  \/ SaveDecision(q)
         \/ reply[q] = "decided" /\ (Answered(q) => Answered(q)' /\ args'[q] = args[q])
<1> USE DEF TypeInv, SystemTypeOK, CreationTypeOK, DecisionTypeOK, StoreTypeOK, Requests
<1> DEFINE Same == pc'[q] = pc[q] /\ args'[q] = args[q] /\ reply'[q] = reply[q]
<1>1. CASE UNCHANGED systemVars
  BY <1>1 DEF systemVars, storeVars, Answered
<1>2. ASSUME NEW r \in CreateRequests,
             CreatePayment(r) \/ RefuseMalformed(r) \/ CreationStep(r)
      PROVE  Same
  <2>1. r # q
    BY StoreAssumption
  <2> QED BY <1>2, <2>1 DEF Goto, Answer, Leave, CreatePayment, RefuseMalformed, CreationStep,
       EnterCreation, AcquireTenantLock, ReleaseTenantLock, FindExistingPayment, GetAccount,
       RecheckExistingPayment, AddPayment, AppendCreationEntry, SaveCreationEntry,
       CommitCreation, ReturnWinner, CreationCallFails, CommitAnswerLost
<1>3. ASSUME NEW r \in DecideRequests, r # q, Decide(r) \/ DecisionStep(r)
      PROVE  Same
  BY <1>3 DEF Goto, Answer, Leave, Decide, DecisionStep, EnterDecision,
       AcquireTenantLock, ReleaseTenantLock, RefuseDecision, ApproveStep, ApprovePayment,
       RejectPayment, AppendDecisionEntry, SaveDecision, SaveConflicts, ReadyToSave,
       DecisionCallFails, SaveAnswerLost
<1>4. CASE Decide(q) \/ DecisionStep(q)
  <2>1. CASE Decide(q) \/ RefuseDecision(q) \/ SaveConflicts(q) \/ DecisionCallFails(q)
             \/ SaveAnswerLost(q)
    <3>1. RefusalOf(q) # "decided"
      BY DEF RefusalOf
    <3>2. ~(RefuseDecision(q) \/ SaveConflicts(q) \/ DecisionCallFails(q) \/ SaveAnswerLost(q))
      BY <3>1 DEF RefuseDecision, SaveConflicts, DecisionCallFails, SaveAnswerLost, Leave
    <3>3. Decide(q) => reply'[q] = reply[q] /\ ~Answered(q)
      BY DEF Decide, Answer, Goto, Answered
    <3> QED BY <2>1, <3>2, <3>3
  <2>2. CASE EnterDecision(q) \/ ApproveStep(q) \/ ApprovePayment(q) \/ RejectPayment(q)
             \/ AppendDecisionEntry(q) \/ ReleaseTenantLock(q)
    BY <2>2 DEF EnterDecision, AcquireTenantLock, ApproveStep, ApprovePayment, RejectPayment,
         AppendDecisionEntry, ReleaseTenantLock, Goto, Answered
  <2> QED BY <1>4, <2>1, <2>2 DEF DecisionStep
<1>5. ASSUME NEW i \in Instances, Restart(i) PROVE Same
  BY <1>5 DEF Restart
<1> HIDE DEF TypeInv
<1> QED BY <1>1, <1>2, <1>3, <1>4, <1>5 DEF SystemNext, Answered

LEMMA ToldNext ==
  ASSUME TypeInv, MoneyInv, CallerInv, OpenInv, WordInv, ToldInv, [SystemNext]_systemVars
  PROVE  ToldInv'
<1> SUFFICES ASSUME NEW r \in DecideRequests, reply'[r] = "decided" PROVE DecidedFor(r)'
  BY DEF ToldInv
<1>1. PaymentsStay /\ DecidedStepsStay
  BY StoredPaymentsStay, DecisionsStay DEF MoneyInv
<1>2. CASE SaveDecision(r)
  <2>1. /\ args' = args /\ Answered(r)' /\ Saves(r) /\ Ruled(r)
        /\ args[r].payment \in Stored' /\ args[r].step \in DOMAIN StepsOf(r)
    <3>1. /\ args' = args /\ pc'[r] = "finally" /\ Saves(r)
      BY <1>2 DEF SaveDecision, Leave, Saves, ReadyToSave, TypeInv, SystemTypeOK, CreationTypeOK,
                  StoreTypeOK, Requests
    <3> QED BY <3>1, SaveWrites DEF Answered, CallerInv, CallerMay
  <2>2. PICK s, i, u, decided :
          /\ s = StepsOf(r) /\ i = args[r].step /\ u = args[r].user
          /\ decided = IF verdict[r].action = "REJECT_PAYMENT" THEN "rejected" ELSE "approved"
    OBVIOUS
  <2>3. StepsOf(r)' = SavedSteps(r)
    BY <2>1, SavedFields DEF StepsOf, PaymentOf
  <2>4. i \in DOMAIN SavedSteps(r) /\ SavedSteps(r)[i] = DecidedStep(s[i], decided, u, "manual")
    <3>1. /\ DOMAIN s = 1..Len(s) /\ Len(s) \in Nat /\ Len(verdict[r].extra) \in Nat
          /\ DOMAIN SavedSteps(r) = 1..(Len(s) + Len(verdict[r].extra))
          /\ SavedSteps(r)[i] = DecidedStep(s[i], decided, u, "manual")
      BY <2>1, <2>2, StepsAfterSave
    <3>2. i \in DOMAIN s
      BY <2>1, <2>2
    <3> QED BY <3>1, <3>2
  <2>5. decided = IF args[r].action = "approve" THEN "approved" ELSE "rejected"
    BY <2>1, <2>2 DEF WordInv, RuledAs
  <2>6. TargetStep(r)' = DecidedStep(s[i], decided, u, "manual")
    BY <2>1, <2>2, <2>3, <2>4 DEF TargetStep
  <2>7. /\ TargetStep(r)'.decidedBy = u /\ TargetStep(r)'.source = "manual"
        /\ TargetStep(r)'.status = decided
    BY <2>6 DEF DecidedStep
  <2> QED BY <2>1, <2>2, <2>3, <2>4, <2>5, <2>7 DEF DecidedFor
<1>3. CASE reply[r] = "decided" /\ (Answered(r) => Answered(r)' /\ args'[r] = args[r])
  <2>1. DecidedFor(r) /\ Answered(r)' /\ args'[r] = args[r]
    BY <1>3 DEF ToldInv, DecidedFor
  <2>2. PICK p, i : p = args[r].payment /\ i = args[r].step
    OBVIOUS
  <2>3. /\ p \in Stored /\ i \in DOMAIN payment[p].steps
        /\ payment[p].steps[i].status # "pending" /\ TargetStep(r) = payment[p].steps[i]
    BY <2>1, <2>2 DEF DecidedFor, TargetStep, StepsOf, PaymentOf
  <2>4. p \in Stored' /\ i \in DOMAIN payment'[p].steps /\ payment'[p].steps[i] = payment[p].steps[i]
    BY <1>1, <2>3 DEF PaymentsStay, DecidedStepsStay
  <2>5. TargetStep(r)' = TargetStep(r) /\ i \in DOMAIN StepsOf(r)'
    BY <2>1, <2>2, <2>3, <2>4 DEF TargetStep, StepsOf, PaymentOf
  <2> QED BY <2>1, <2>2, <2>4, <2>5 DEF DecidedFor
<1> QED BY <1>2, <1>3, ToldBySave

\* On one process a caller who is told that the step was decided finds it decided that way and
\* in the caller's own name, from the answer on: whatever is approved, rejected or closed with
\* its payment afterwards, and whoever may still decide it (DecideAsync, RejectAsync).
THEOREM DecisionAnswersAreTrue ==
  ASSUME OneProcess
  PROVE  SystemSpec => []DecisionAnswersTruthful
<1> DEFINE IInv == ApprovalInv /\ OpenInv /\ WordInv /\ ToldInv
<1>1. SystemInit => IInv
  <2>1. SystemInit => WordInv /\ ToldInv
    BY DEF SystemInit, StoreInit, WordInv, ToldInv, Ruled, Requests
  <2> QED BY <2>1, ApprovalInvInit, OpenInit
<1>2. IInv /\ [SystemNext]_systemVars => IInv'
  BY ApprovalInvNext, OpenNext, WordNext, ToldNext DEF ApprovalInv
<1>3. IInv => DecisionAnswersTruthful
  BY ToldGivesProperty
<1> QED BY <1>1, <1>2, <1>3, PTL DEF SystemSpec

-----------------------------------------------------------------------------
(* The steps a payment starts with                                         *)

\* A creation request has a payment in memory that waits for approval.
Waits(q) ==
  /\ pc[q] \in {"lock", "recheck", "insert", "append", "log", "commit"}
  /\ args[q].iban = "valid" /\ ~Direct(q)

Early(q) == pc[q] \in {"idle", "find", "account"}

\* A payment that waits for approval has steps, one that is completed at once has none.
DraftSteps(q) ==
  /\ Early(q) \/ Tracks(q) => draft[q].steps = <<>>
  /\ Waits(q) => draft[q].steps # <<>>

DraftStepsInv == \A q \in CreateRequests : DraftSteps(q)

LEMMA InitialStepsExist ==
  ASSUME NEW r
  PROVE  InitialApprovalSteps(r) # <<>>
BY DEF InitialApprovalSteps

\* Only GetAccount gives a request its steps and makes it go on to the lock with them.
LEMMA OtherStepsKeepDraft ==
  ASSUME TypeInv, NEW r \in CreateRequests, ~GetAccount(r),
         CreatePayment(r) \/ RefuseMalformed(r) \/ CreationStep(r)
  PROVE  /\ draft'[r].steps = draft[r].steps
         /\ Early(r)' => Early(r)
         /\ Tracks(r)' => Tracks(r)
         /\ Waits(r)' => Waits(r)
<1> USE DEF TypeInv, SystemTypeOK, CreationTypeOK, StoreTypeOK, Requests
<1>1. \/ draft' = draft
      \/ \E n : draft' = [draft EXCEPT ![r].prev = n]
      \/ \E n : draft' = [draft EXCEPT ![r].entry = n]
  BY DEF CreatePayment, RefuseMalformed, CreationStep, EnterCreation,
       FindExistingPayment, RecheckExistingPayment, AddPayment,
       AppendCreationEntry, SaveCreationEntry, CommitCreation, ReturnWinner,
       CreationCallFails, CommitAnswerLost
<1>2. draft'[r].steps = draft[r].steps
  BY <1>1 DEF Draft
<1>3. \/ args' = args
      \/ pc'[r] \in {"done", "find"}
      \/ pc'[r] = "lock" /\ args'[r].iban # "valid"
  BY DEF CreatePayment, RefuseMalformed, CreationStep, EnterCreation, AcquireTenantLock,
       FindExistingPayment, RecheckExistingPayment, AddPayment, Goto, Answer, Leave,
       AppendCreationEntry, SaveCreationEntry, CommitCreation, ReturnWinner,
       CreationCallFails, CommitAnswerLost, ReleaseTenantLock
<1>4. /\ pc'[r] \in {"idle", "find", "account"} => pc[r] \in {"idle", "find", "account"}
      /\ args' = args /\ pc'[r] \in {"lock", "recheck", "insert", "append", "log", "commit"} =>
           pc[r] \in {"lock", "recheck", "insert", "append", "log", "commit"}
           \/ pc[r] = "idle"
  BY DEF CreatePayment, RefuseMalformed, CreationStep, EnterCreation, AcquireTenantLock,
       FindExistingPayment, RecheckExistingPayment, AddPayment, Goto, Answer, Leave,
       AppendCreationEntry, SaveCreationEntry, CommitCreation, ReturnWinner,
       CreationCallFails, CommitAnswerLost, ReleaseTenantLock
<1>5. pc[r] = "idle" => pc'[r] # "lock" \/ args'[r].iban # "valid"
  BY DEF CreatePayment, RefuseMalformed, CreationStep, EnterCreation, AcquireTenantLock,
       FindExistingPayment, RecheckExistingPayment, AddPayment, Goto, Answer, Leave,
       AppendCreationEntry, SaveCreationEntry, CommitCreation, ReturnWinner,
       CreationCallFails, CommitAnswerLost, ReleaseTenantLock
<1>6. pc[r] = "idle" => pc'[r] \in {"done", "find", "lock"}
  BY DEF CreatePayment, RefuseMalformed, CreationStep, EnterCreation, AcquireTenantLock,
       FindExistingPayment, RecheckExistingPayment, AddPayment, Goto, Answer, Leave,
       AppendCreationEntry, SaveCreationEntry, CommitCreation, ReturnWinner,
       CreationCallFails, CommitAnswerLost, ReleaseTenantLock
<1> HIDE DEF TypeInv
<1> QED BY <1>2, <1>3, <1>4, <1>5, <1>6 DEF Early, Tracks, Waits, Direct

LEMMA AccountGivesSteps ==
  ASSUME TypeInv, NEW r \in CreateRequests, GetAccount(r), DraftSteps(r)
  PROVE  DraftSteps(r)'
<1> USE DEF TypeInv, SystemTypeOK, CreationTypeOK, StoreTypeOK, Requests
<1>1. args' = args /\ draft[r].steps = <<>> /\ draft[r] \in Draft
  BY DEF GetAccount, DraftSteps, Early
<1>2. (Direct(r)' <=> Direct(r)) /\ pc'[r] \in {"done", "lock"}
  BY <1>1 DEF Direct, GetAccount, Answer, Goto
<1>3. CASE pc'[r] = "done"
  BY <1>3 DEF DraftSteps, Early, Tracks, Waits
<1>4. CASE pc'[r] = "lock" /\ Direct(r)
  <2> DEFINE v == version[args[r].account]
             f == balance[args[r].account]
  <2>1. draft' = [draft EXCEPT ![r].version = v, ![r].funds = f]
    BY <1>4 DEF GetAccount, Answer
  <2> HIDE DEF v, f
  <2>2. draft' = [draft EXCEPT ![r] = [draft[r] EXCEPT !.version = v, !.funds = f]]
    BY <2>1
  <2>3. draft'[r].steps = <<>>
    BY <1>1, <2>2 DEF Draft
  <2> QED BY <1>2, <1>4, <2>3 DEF DraftSteps, Waits
<1>5. CASE pc'[r] = "lock" /\ ~Direct(r)
  <2>1. draft' = [draft EXCEPT ![r].steps = InitialApprovalSteps(r)]
    BY <1>5 DEF GetAccount, Answer
  <2>2. draft'[r].steps = InitialApprovalSteps(r)
    BY <1>1, <2>1 DEF Draft
  <2> QED BY <1>2, <1>5, <2>2, InitialStepsExist DEF DraftSteps, Early, Tracks
<1> QED BY <1>2, <1>3, <1>4, <1>5

LEMMA DraftStepsNext ==
  ASSUME TypeInv, DraftStepsInv, [SystemNext]_systemVars
  PROVE  DraftStepsInv'
<1> SUFFICES ASSUME NEW q \in CreateRequests PROVE DraftSteps(q)'
  BY DEF DraftStepsInv
<1>1. DraftSteps(q)
  BY DEF DraftStepsInv
<1>2. CASE CreatePayment(q) \/ RefuseMalformed(q) \/ CreationStep(q)
  BY <1>1, <1>2, OtherStepsKeepDraft, AccountGivesSteps DEF DraftSteps
<1>3. CASE ~(CreatePayment(q) \/ RefuseMalformed(q) \/ CreationStep(q))
  <2>1. /\ args'[q] = args[q] /\ draft'[q] = draft[q]
        /\ pc'[q] = pc[q] \/ pc'[q] = "done"
    BY <1>3, OtherRequests
  <2> QED BY <1>1, <2>1 DEF DraftSteps, Early, Tracks, Waits, Direct
<1> QED BY <1>2, <1>3

LEMMA DraftStepsInit == SystemInit => DraftStepsInv
BY DEF SystemInit, StoreInit, DraftStepsInv, DraftSteps, Tracks, Waits, EmptyDraft, Requests

-----------------------------------------------------------------------------
(* A pending payment has an open step                                      *)

OpenRow(x) ==
  RequiresApproval(x.amount) =>
    (x.status = "pending_approval" <=> StepsWith(x.steps, "pending") # {})

\* The payments that were stored before wait for somebody.
LegacyOpen == \A p \in LegacyPayments : OpenRow(Legacy[p])

LEMMA OpenRowsAsProperty == OpenStepsWhilePending <=> \A p \in Stored : OpenRow(payment[p])
BY DEF OpenStepsWhilePending, OpenRow

LEMMA NewPaymentIsOpen ==
  ASSUME TypeInv, OpenInv, DraftStepsInv, NEW r \in CreateRequests, pc[r] = "commit",
         args[r].iban = "valid"
  PROVE  OpenRow(DraftPayment(r))
<1>1. /\ DraftPayment(r).amount = args[r].amount /\ DraftPayment(r).steps = draft[r].steps
      /\ DraftPayment(r).status = IF Direct(r) THEN "completed" ELSE "pending_approval"
  BY DEF DraftPayment
<1>2. Direct(r) <=> ~RequiresApproval(args[r].amount)
  BY DEF Direct
<1>3. ~Direct(r) => StepsWith(draft[r].steps, "pending") # {}
  <2> SUFFICES ASSUME ~Direct(r) PROVE StepsWith(draft[r].steps, "pending") # {}
    OBVIOUS
  <2>1. draft[r].steps # <<>> /\ draft[r].steps \in Seq(Step)
    BY DEF DraftStepsInv, DraftSteps, Waits, TypeInv, SystemTypeOK, CreationTypeOK, Draft
  <2>2. 1 \in DOMAIN draft[r].steps
    BY <2>1
  <2>3. draft[r].steps[1].status = "pending"
    BY <2>2 DEF OpenInv, StillOpen
  <2> QED BY <2>2, <2>3 DEF StepsWith
<1> QED BY <1>1, <1>2, <1>3 DEF OpenRow

LEMMA SavedPaymentIsOpen ==
  ASSUME TypeInv, CallerInv, ApprovedInv, OpenInv, WordInv, NEW r \in DecideRequests, Ruled(r)
  PROVE  SavedStatus(r) = "pending_approval" <=> StepsWith(SavedSteps(r), "pending") # {}
<1>1. /\ CallerMay(r) /\ AsRuled(r) /\ RuledOn(r) /\ RuledAs(r)
      /\ verdict[r].action \in {"APPROVE_PAYMENT_STEP", "APPROVE_PAYMENT", "REJECT_PAYMENT"}
  BY DEF CallerInv, ApprovedInv, OpenInv, WordInv, TypeInv, Carried, Ruled
<1> PICK s, x, v, t : s = StepsOf(r) /\ x = verdict[r].extra /\ v = SavedSteps(r) /\ t = args[r].step
  OBVIOUS
<1> PICK decided : decided = IF verdict[r].action = "REJECT_PAYMENT" THEN "rejected" ELSE "approved"
  OBVIOUS
<1>2. /\ s \in Seq(Step) /\ x \in Seq(Step)
      /\ DOMAIN s = 1..Len(s) /\ Len(s) \in Nat
      /\ DOMAIN x = 1..Len(x) /\ Len(x) \in Nat
      /\ DOMAIN v = 1..(Len(s) + Len(x))
      /\ \A i \in DOMAIN s :
           v[i] = IF i = t THEN DecidedStep(s[i], decided, args[r].user, "manual")
                  ELSE IF i \in verdict[r].closed
                  THEN DecidedStep(s[i], "rejected", Nobody, "payment_rejected")
                  ELSE s[i]
      /\ \A i \in DOMAIN x : v[Len(s) + i] = x[i]
  BY StepsAfterSave
<1>3. t \in DOMAIN s
  BY <1>1 DEF CallerMay
<1>4. CASE verdict[r].action = "APPROVE_PAYMENT"
  <2>1. SavedStatus(r) = "completed"
    BY <1>4 DEF SavedStatus
  <2>2. StepsWith(v, "pending") = {}
    BY <1>1, <1>4, CompletingSave DEF AsRuled, Completes, LastApproval
  <2> QED BY <2>1, <2>2
<1>5. CASE verdict[r].action = "APPROVE_PAYMENT_STEP"
  <2>1. SavedStatus(r) = "pending_approval" /\ verdict[r].closed = {}
    BY <1>1, <1>5 DEF SavedStatus, AsRuled, RuledOn
  <2>2. CASE x # <<>>
    <3>1. 1 \in DOMAIN x /\ Len(s) + 1 \in DOMAIN v
      BY <1>2, <2>2
    <3>2. v[Len(s) + 1].status = "pending"
      <4>1. x[1].status = "pending"
        BY <1>1, <3>1 DEF RuledOn, StillOpen
      <4>2. v[Len(s) + 1] = x[1]
        BY <1>2, <3>1
      <4> QED BY <4>1, <4>2
    <3> QED BY <2>1, <3>1, <3>2 DEF StepsWith
  <2>3. CASE x = <<>>
    <3>1. StepsWith(StepsAfterApproval(r), "pending") # {}
      BY <1>1, <1>5, <2>3 DEF RuledAs
    <3>2. PICK i \in DOMAIN StepsAfterApproval(r) : StepsAfterApproval(r)[i].status = "pending"
      BY <3>1 DEF StepsWith
    <3>3. i \in DOMAIN s /\ i # t /\ s[i].status = "pending"
      <4>1. StepsAfterApproval(r) = [s EXCEPT ![t] = DecidedStep(s[t], "approved", args[r].user, "manual")]
        BY DEF StepsAfterApproval
      <4>2. DecidedStep(s[t], "approved", args[r].user, "manual").status # "pending"
        BY DEF DecidedStep
      <4> QED BY <1>2, <1>3, <3>2, <4>1, <4>2
    <3>4. v[i] = s[i] /\ i \in DOMAIN v
      BY <1>2, <2>1, <3>3
    <3> QED BY <2>1, <3>3, <3>4 DEF StepsWith
  <2> QED BY <2>2, <2>3
<1>6. CASE verdict[r].action = "REJECT_PAYMENT"
  <2>1. /\ SavedStatus(r) = "rejected" /\ x = <<>> /\ decided = "rejected"
        /\ verdict[r].closed = StepsWith(s, "pending") \ {t}
    BY <1>1, <1>6 DEF SavedStatus, RuledAs
  <2>2. ASSUME NEW i \in DOMAIN v PROVE v[i].status # "pending"
    <3>1. i \in DOMAIN s
      BY <1>2, <2>1
    <3>2. CASE i = t \/ i \in verdict[r].closed
      BY <1>2, <2>1, <3>1, <3>2 DEF DecidedStep
    <3>3. CASE i # t /\ i \notin verdict[r].closed
      BY <1>2, <2>1, <3>1, <3>3 DEF StepsWith
    <3> QED BY <3>2, <3>3
  <2> QED BY <2>1, <2>2 DEF StepsWith
<1> QED BY <1>1, <1>4, <1>5, <1>6

LEMMA OpenRowsNext ==
  ASSUME TypeInv, NotYetStored, CallerInv, ApprovedInv, OpenInv, WordInv, DraftStepsInv,
         OpenStepsWhilePending, [SystemNext]_systemVars
  PROVE  OpenStepsWhilePending'
<1>1. \A p \in Stored : OpenRow(payment[p])
  BY OpenRowsAsProperty
<1>2. ASSUME NEW p \in Stored' PROVE OpenRow(payment'[p])
  <2>1. CASE UNCHANGED Rows
    <3>1. p \in Stored /\ payment'[p] = payment[p]
      BY <2>1 DEF Rows, Stored
    <3> QED BY <1>1, <3>1
  <2>2. ASSUME NEW r \in CreateRequests, Commits(r) PROVE OpenRow(payment'[p])
    <3>1. CASE p = r /\ args[r].iban = "valid"
      BY <2>2, <3>1, CommitWrites, NewPaymentIsOpen
    <3>2. CASE ~(p = r /\ args[r].iban = "valid")
      <4>1. p \in Stored /\ payment'[p] = payment[p]
        BY <2>2, <3>2, CommitWrites DEF Stored
      <4> QED BY <1>1, <4>1
    <3> QED BY <3>1, <3>2
  <2>3. ASSUME NEW r \in DecideRequests, Saves(r) PROVE OpenRow(payment'[p])
    <3>1. CASE p = args[r].payment
      <4>1. Ruled(r) /\ payment'[p].steps = SavedSteps(r) /\ payment'[p].status = SavedStatus(r)
        BY <2>3, <3>1, SaveWrites, SavedFields
      <4> QED BY <4>1, SavedPaymentIsOpen DEF OpenRow
    <3>2. CASE p # args[r].payment
      <4>1. p \in Stored /\ payment'[p] = payment[p]
        BY <2>3, <3>2, SaveWrites DEF Stored
      <4> QED BY <1>1, <4>1
    <3> QED BY <3>1, <3>2
  <2> QED BY <2>1, <2>2, <2>3, RowSteps
<1>3. OpenStepsWhilePending' <=> \A p \in Stored' : OpenRow(payment'[p])
  BY DEF OpenStepsWhilePending, OpenRow
<1> QED BY <1>2, <1>3

LEMMA OpenRowsInit ==
  ASSUME SystemInit, LegacyOpen
  PROVE  OpenStepsWhilePending
<1>1. \A p \in Stored : p \in LegacyPayments /\ payment[p] = Legacy[p]
  BY DEF SystemInit, StoreInit, Stored, PaymentIds
<1> QED BY <1>1, OpenRowsAsProperty DEF LegacyOpen

\* On one process a payment that needs approval has an open step exactly as long as it is
\* pending: it never disappears from the inbox before it is decided, and nobody is left with a
\* step of a payment that was completed or rejected (AddMissingApprovalStepAsync, RejectAsync).
THEOREM PendingHasOpenStep ==
  ASSUME OneProcess, LegacyOpen
  PROVE  SystemSpec => []OpenStepsWhilePending
<1> DEFINE IInv == /\ ApprovalInv /\ ApprovedInv /\ OpenInv /\ WordInv /\ DraftStepsInv
                   /\ OpenStepsWhilePending
<1>1. SystemInit => IInv
  <2>1. SystemInit => WordInv
    BY DEF SystemInit, StoreInit, WordInv, Ruled, Requests
  <2> QED BY <2>1, ApprovalInvInit, ApprovalInit, OpenInit, DraftStepsInit, OpenRowsInit
<1>2. IInv /\ [SystemNext]_systemVars => IInv'
  BY ApprovalInvNext, ApprovalNext, OpenNext, WordNext, DraftStepsNext, OpenRowsNext
     DEF ApprovalInv, MoneyInv
<1> QED BY <1>1, <1>2, PTL DEF SystemSpec

-----------------------------------------------------------------------------
(* The entries of the decisions                                            *)

DecisionActions == {"APPROVE_PAYMENT_STEP", "APPROVE_PAYMENT", "REJECT_PAYMENT"}

ByHand(steps) == {i \in DOMAIN steps : steps[i].source = "manual"}

\* A step that is open was not decided by hand.
Untouched(steps) == \A i \in DOMAIN steps : steps[i].status = "pending" => steps[i].source # "manual"

\* The trail and the rows of payment p tell the same story.
Audited(p) ==
  /\ Cardinality(EntriesFor(p, DecisionActions)) = Cardinality(ByHand(payment[p].steps))
  /\ Cardinality(EntriesFor(p, {"APPROVE_PAYMENT"}))
       = IF payment[p].steps # <<>> THEN booked[p] ELSE 0
  /\ Cardinality(EntriesFor(p, {"REJECT_PAYMENT"}))
       = IF payment[p].status = "rejected" THEN 1 ELSE 0

EntriesInv ==
  /\ IsFiniteSet(audit)
  /\ \A e \in audit : e.action \in DecisionActions => e.payment \in Stored
  /\ \A p \in PaymentIds : p \notin Stored => booked[p] = 0
  /\ \A p \in Stored : Untouched(payment[p].steps) /\ Audited(p)

\* Nobody has decided a step of the payments that were stored before, and no entry says so.
LegacyByHand == \A p \in LegacyPayments : ByHand(Legacy[p].steps) = {}

LEMMA EntriesGiveProperty ==
  ASSUME EntriesInv
  PROVE  DecisionsAudited
BY DEF EntriesInv, Audited, DecisionsAudited, ByHand, DecisionActions

LEMMA EntriesInit ==
  ASSUME SystemInit, LegacyByHand
  PROVE  EntriesInv
<1>1. /\ audit = SeedAudit /\ booked = [p \in PaymentIds |-> 0]
      /\ payment = [p \in PaymentIds |-> IF p \in LegacyPayments THEN Legacy[p] ELSE NoPayment]
  BY DEF SystemInit, StoreInit
<1>2. IsFiniteSet(audit) /\ \A e \in audit : e.action = "CREATE_PAYMENT"
  BY <1>1, SeedAssumption
<1>3. \A p \in Stored : p \in LegacyPayments /\ p \in PaymentIds /\ payment[p] = Legacy[p]
  BY <1>1 DEF Stored
<1>4. ASSUME NEW p \in Stored PROVE Untouched(payment[p].steps) /\ Audited(p)
  <2>1. ByHand(payment[p].steps) = {} /\ payment[p].status = "pending_approval" /\ booked[p] = 0
    BY <1>1, <1>3, SeedAssumption DEF LegacyByHand
  <2>2. EntriesFor(p, DecisionActions) = {} /\ EntriesFor(p, {"APPROVE_PAYMENT"}) = {}
        /\ EntriesFor(p, {"REJECT_PAYMENT"}) = {}
    BY <1>2 DEF EntriesFor, DecisionActions
  <2>3. Cardinality({}) = 0
    BY FS_EmptySet
  <2>4. Untouched(payment[p].steps)
    BY <2>1 DEF Untouched, ByHand
  <2> QED BY <2>1, <2>2, <2>3, <2>4 DEF Audited
<1>5. \A p \in PaymentIds : booked[p] = 0
  BY <1>1
<1> QED BY <1>2, <1>4, <1>5 DEF EntriesInv, DecisionActions

\* An entry that is new is counted once.
LEMMA OneMoreEntry ==
  ASSUME IsFiniteSet(audit), NEW e, e \notin audit, audit' = audit \cup {e}, NEW p, NEW A
  PROVE  /\ IsFiniteSet(audit')
         /\ Cardinality(EntriesFor(p, A)) \in Nat
         /\ Cardinality(EntriesFor(p, A)') =
              Cardinality(EntriesFor(p, A)) + IF e.payment = p /\ e.action \in A THEN 1 ELSE 0
<1>1. IsFiniteSet(audit')
  BY FS_AddElement
<1>2. IsFiniteSet(EntriesFor(p, A)) /\ Cardinality(EntriesFor(p, A)) \in Nat
  <2>1. EntriesFor(p, A) \subseteq audit
    BY DEF EntriesFor
  <2> QED BY <2>1, FS_Subset, FS_CardinalityType
<1>3. CASE e.payment = p /\ e.action \in A
  <2>1. EntriesFor(p, A)' = EntriesFor(p, A) \cup {e} /\ e \notin EntriesFor(p, A)
    BY <1>3 DEF EntriesFor
  <2>2. Cardinality(EntriesFor(p, A) \cup {e}) = Cardinality(EntriesFor(p, A)) + 1
    BY <1>2, <2>1, FS_AddElement
  <2> QED BY <1>1, <1>2, <1>3, <2>1, <2>2
<1>4. CASE ~(e.payment = p /\ e.action \in A)
  <2>1. EntriesFor(p, A)' = EntriesFor(p, A)
    BY <1>4 DEF EntriesFor
  <2> QED BY <1>1, <1>2, <1>4, <2>1
<1> QED BY <1>3, <1>4

\* A payment with its rows and entries as before.
LEMMA SameStory ==
  ASSUME NEW p, payment'[p] = payment[p], booked'[p] = booked[p],
         \A A : EntriesFor(p, A)' = EntriesFor(p, A), Untouched(payment[p].steps), Audited(p)
  PROVE  Untouched(payment'[p].steps) /\ Audited(p)'
BY DEF Audited, Untouched

LEMMA CommitKeepsEntries ==
  ASSUME TypeInv, NotYetStored, CallerInv, DraftStepsInv, EntriesInv,
         NEW r \in CreateRequests, Commits(r)
  PROVE  EntriesInv'
<1> PICK e : e = CreationEntry(r)
  OBVIOUS
<1>1. audit' = audit \cup {e} /\ pc[r] = "commit" /\ r \notin Stored
      /\ r \in PaymentIds /\ booked[r] = 0
      /\ \A p \in PaymentIds \ {r} : payment'[p] = payment[p]
  BY CommitWrites DEF Commits, CommitCreation, CommitAnswerLost, PersistCreation, EntriesInv,
     PaymentIds
<1>2. e.action \notin DecisionActions
  BY <1>1 DEF CreationEntry, DecisionActions
<1>3. \A p, A : A \subseteq DecisionActions => EntriesFor(p, A)' = EntriesFor(p, A)
  BY <1>1, <1>2 DEF EntriesFor
<1>4. IsFiniteSet(audit')
  BY <1>1, FS_AddElement DEF EntriesInv
<1>5. CASE args[r].iban # "valid"
  <2>1. payment' = payment /\ Stored' = Stored /\ booked' = booked
    BY <1>5, CommitWrites DEF Commits, CommitCreation, CommitAnswerLost, PersistCreation
  <2>2. \A p \in Stored : Untouched(payment'[p].steps) /\ Audited(p)'
    BY <1>3, <2>1 DEF EntriesInv, Audited, DecisionActions
  <2> QED BY <1>1, <1>2, <1>4, <2>1, <2>2 DEF EntriesInv
<1>6. CASE args[r].iban = "valid"
  <2>1. payment'[r] = DraftPayment(r) /\ Stored' = Stored \cup {r}
    BY <1>6, CommitWrites
  <2>2. /\ \A p \in PaymentIds \ {r} : booked'[p] = booked[p]
        /\ ~Direct(r) => booked'[r] = 0
    BY <1>1, <1>6 DEF Commits, CommitCreation, CommitAnswerLost, PersistCreation, CompletePayment,
       TypeInv, SystemTypeOK, CreationTypeOK, StoreTypeOK
  <2>3. ASSUME NEW p \in Stored PROVE Untouched(payment'[p].steps) /\ Audited(p)'
    <3>1. payment'[p] = payment[p] /\ booked'[p] = booked[p]
      BY <1>1, <2>2 DEF Stored
    <3> QED BY <1>3, <3>1 DEF EntriesInv, Audited, Untouched, DecisionActions
  <2>4. /\ payment'[r].steps = draft[r].steps /\ payment'[r].status # "rejected"
        /\ Direct(r) => draft[r].steps = <<>>
    BY <1>1, <1>6, <2>1 DEF DraftPayment, DraftStepsInv, DraftSteps, Tracks
  <2>5. ByHand(payment'[r].steps) = {} /\ Untouched(payment'[r].steps)
    BY <2>4 DEF ByHand, Untouched, CallerInv, Undecided
  <2>6. \A A : A \subseteq DecisionActions => EntriesFor(r, A)' = {}
    BY <1>1, <1>3 DEF EntriesFor, EntriesInv
  <2>7. Audited(r)'
    <3>1. Cardinality({}) = 0
      BY FS_EmptySet
    <3>2. /\ EntriesFor(r, DecisionActions)' = {} /\ EntriesFor(r, {"APPROVE_PAYMENT"})' = {}
          /\ EntriesFor(r, {"REJECT_PAYMENT"})' = {}
      BY <2>6 DEF DecisionActions
    <3> QED BY <2>2, <2>4, <2>5, <3>1, <3>2 DEF Audited
  <2>8. \A p \in PaymentIds : p \notin Stored' => booked'[p] = 0
    BY <2>1, <2>2 DEF EntriesInv
  <2> QED BY <1>1, <1>2, <1>4, <2>1, <2>3, <2>5, <2>7, <2>8 DEF EntriesInv
<1> QED BY <1>5, <1>6

\* A save adds the decided step to those decided by hand, and to no other.
LEMMA OneMoreByHand ==
  ASSUME TypeInv, CallerInv, OpenInv, NEW r \in DecideRequests, Ruled(r), Untouched(StepsOf(r))
  PROVE  /\ Cardinality(ByHand(StepsOf(r))) \in Nat
         /\ Cardinality(ByHand(SavedSteps(r))) = Cardinality(ByHand(StepsOf(r))) + 1
         /\ Untouched(SavedSteps(r)) /\ SavedSteps(r) # <<>> /\ StepsOf(r) # <<>>
<1>1. CallerMay(r) /\ RuledOn(r) /\ Undecided(verdict[r].extra)
  BY DEF CallerInv, OpenInv
<1> PICK s, x, v, t : s = StepsOf(r) /\ x = verdict[r].extra /\ v = SavedSteps(r) /\ t = args[r].step
  OBVIOUS
<1> PICK decided : decided = IF verdict[r].action = "REJECT_PAYMENT" THEN "rejected" ELSE "approved"
  OBVIOUS
<1>2. /\ DOMAIN s = 1..Len(s) /\ Len(s) \in Nat
      /\ DOMAIN x = 1..Len(x) /\ Len(x) \in Nat
      /\ DOMAIN v = 1..(Len(s) + Len(x))
      /\ \A i \in DOMAIN s :
           v[i] = IF i = t THEN DecidedStep(s[i], decided, args[r].user, "manual")
                  ELSE IF i \in verdict[r].closed
                  THEN DecidedStep(s[i], "rejected", Nobody, "payment_rejected")
                  ELSE s[i]
      /\ \A i \in DOMAIN x : v[Len(s) + i] = x[i]
  BY StepsAfterSave
<1>3. t \in DOMAIN s /\ s[t].status = "pending" /\ s[t].source # "manual"
  BY <1>1 DEF CallerMay, RuledOn, TargetStep, Untouched
<1>4. \A i \in verdict[r].closed : i \in DOMAIN s /\ s[i].source # "manual"
  BY <1>1 DEF RuledOn, StepsWith, Untouched
<1>5. ASSUME NEW i \in DOMAIN v
      PROVE  /\ v[i].source = "manual" <=> i = t \/ (i \in DOMAIN s /\ s[i].source = "manual")
             /\ v[i].status = "pending" => v[i].source # "manual"
  <2>1. CASE i = t
    <3>1. v[i] = DecidedStep(s[i], decided, args[r].user, "manual")
      BY <1>2, <1>3, <2>1
    <3> QED BY <2>1, <3>1 DEF DecidedStep
  <2>2. CASE i \in DOMAIN s /\ i # t /\ i \in verdict[r].closed
    <3>1. v[i] = DecidedStep(s[i], "rejected", Nobody, "payment_rejected")
      BY <1>2, <2>2
    <3> QED BY <1>4, <2>2, <3>1 DEF DecidedStep
  <2>3. CASE i \in DOMAIN s /\ i # t /\ i \notin verdict[r].closed
    <3>1. v[i] = s[i]
      BY <1>2, <2>3
    <3> QED BY <2>3, <3>1 DEF Untouched
  <2>4. CASE i \notin DOMAIN s
    <3>1. PICK j \in DOMAIN x : i = Len(s) + j
      <4>1. i - Len(s) \in DOMAIN x /\ i = Len(s) + (i - Len(s))
        BY <1>2, <2>4
      <4> QED BY <4>1
    <3>2. v[i] = x[j] /\ x[j].source = "none"
      BY <1>1, <1>2, <3>1 DEF Undecided
    <3> QED BY <1>3, <2>4, <3>2
  <2> QED BY <2>1, <2>2, <2>3, <2>4
<1>6. DOMAIN s \subseteq DOMAIN v
  BY <1>2
<1>7. ByHand(v) = ByHand(s) \cup {t} /\ t \notin ByHand(s)
  BY <1>3, <1>5, <1>6 DEF ByHand
<1>8. IsFiniteSet(ByHand(s))
  <2>1. IsFiniteSet(1..Len(s)) /\ ByHand(s) \subseteq 1..Len(s)
    BY <1>2, FS_Interval DEF ByHand
  <2> QED BY <2>1, FS_Subset
<1>9. /\ Cardinality(ByHand(s)) \in Nat
      /\ Cardinality(ByHand(s) \cup {t}) = Cardinality(ByHand(s)) + 1
  BY <1>7, <1>8, FS_AddElement, FS_CardinalityType
<1>10. Untouched(v) /\ v # <<>> /\ s # <<>>
  BY <1>3, <1>5, <1>6 DEF Untouched
<1> QED BY <1>7, <1>9, <1>10

LEMMA SaveKeepsEntries ==
  ASSUME TypeInv, CallerInv, ApprovedInv, ChainInv, OpenInv, EntriesInv,
         NEW r \in DecideRequests, Saves(r)
  PROVE  EntriesInv'
<1> PICK e : e = DecisionEntry(r)
  OBVIOUS
<1> PICK p : p = args[r].payment
  OBVIOUS
<1>1. /\ pc[r] = "save" /\ Ruled(r) /\ p \in Stored /\ Stored' = Stored /\ p \in PaymentIds
      /\ PaymentOf(r) = payment[p] /\ StepsOf(r) = payment[p].steps
      /\ \A q \in Stored \ {p} : payment'[q] = payment[q]
      /\ payment'[p].steps = SavedSteps(r) /\ payment'[p].status = SavedStatus(r)
  BY SaveWrites, SavedFields DEF Stored, StepsOf
<1>2. /\ audit' = audit \cup {e} /\ e.payment = p /\ e.action = verdict[r].action
      /\ e.id = nextEntry
      /\ \A q \in PaymentIds \ {p} : booked'[q] = booked[q]
      /\ booked'[p] = IF Completes(r) THEN booked[p] + 1 ELSE booked[p]
  <2>1. PersistDecision(r) /\ booked \in [PaymentIds -> Nat]
    BY SaveWrites DEF TypeInv, SystemTypeOK, DecisionTypeOK, StoreTypeOK
  <2> QED BY <1>1, <2>1 DEF PersistDecision, DecisionEntry, CompletePayment
<1>3. e \notin audit /\ verdict[r].action \in DecisionActions
  <2>1. \A f \in audit : f.id < nextEntry /\ f.id \in Nat /\ nextEntry \in Nat
    BY DEF ChainInv, TypeInv, SystemTypeOK, DecisionTypeOK, StoreTypeOK, AuditEntry
  <2>2. e \notin audit
    BY <1>2, <2>1
  <2> QED BY <1>1, <2>2 DEF TypeInv, Carried, DecisionActions
<1>4. /\ IsFiniteSet(audit')
      /\ \A A : Cardinality(EntriesFor(p, A)) \in Nat
      /\ \A A : Cardinality(EntriesFor(p, A)') =
                  Cardinality(EntriesFor(p, A)) + IF verdict[r].action \in A THEN 1 ELSE 0
  <2>1. IsFiniteSet(audit) /\ audit' = audit \cup {e}
    BY <1>2 DEF EntriesInv
  <2>2. IsFiniteSet(audit')
    BY ONLY <2>1, FS_AddElement
  <2>3. ASSUME NEW A
        PROVE  /\ Cardinality(EntriesFor(p, A)) \in Nat
               /\ Cardinality(EntriesFor(p, A)') =
                    Cardinality(EntriesFor(p, A)) + IF verdict[r].action \in A THEN 1 ELSE 0
    <3>1. /\ Cardinality(EntriesFor(p, A)) \in Nat
          /\ Cardinality(EntriesFor(p, A)') =
               Cardinality(EntriesFor(p, A)) + IF e.payment = p /\ e.action \in A THEN 1 ELSE 0
      BY <2>1, <1>3, OneMoreEntry
    <3> QED BY <1>2, <3>1
  <2> QED BY <2>2, <2>3
<1>5. \A A : \A q \in PaymentIds \ {p} : EntriesFor(q, A)' = EntriesFor(q, A)
  BY <1>2 DEF EntriesFor
<1>6. /\ Cardinality(ByHand(payment[p].steps)) \in Nat
      /\ Cardinality(ByHand(payment'[p].steps)) = Cardinality(ByHand(payment[p].steps)) + 1
      /\ Untouched(payment'[p].steps) /\ payment'[p].steps # <<>> /\ payment[p].steps # <<>>
  BY <1>1, OneMoreByHand DEF EntriesInv
<1>7. /\ payment[p].status = "pending_approval"
      /\ payment'[p].status = "rejected" <=> verdict[r].action = "REJECT_PAYMENT"
  BY <1>1 DEF ApprovedInv, AsRuled, SavedStatus
<1>8. Audited(p)'
  <2>1. Audited(p) /\ booked[p] \in Nat
    BY <1>1 DEF EntriesInv, TypeInv, SystemTypeOK, DecisionTypeOK, StoreTypeOK
  <2>2. Cardinality(EntriesFor(p, DecisionActions)') = Cardinality(ByHand(payment'[p].steps))
    BY <1>3, <1>4, <1>6, <2>1 DEF Audited
  <2>3. Cardinality(EntriesFor(p, {"APPROVE_PAYMENT"})') = booked'[p]
    <3>1. Cardinality(EntriesFor(p, {"APPROVE_PAYMENT"})) = booked[p]
      BY <1>6, <2>1 DEF Audited
    <3>2. Cardinality(EntriesFor(p, {"APPROVE_PAYMENT"})') =
            booked[p] + IF verdict[r].action \in {"APPROVE_PAYMENT"} THEN 1 ELSE 0
      BY <1>4, <3>1
    <3> QED BY <1>2, <2>1, <3>2 DEF Completes
  <2>4. Cardinality(EntriesFor(p, {"REJECT_PAYMENT"})') =
          IF payment'[p].status = "rejected" THEN 1 ELSE 0
    <3>1. Cardinality(EntriesFor(p, {"REJECT_PAYMENT"})) = 0
      BY <1>7, <2>1 DEF Audited
    <3>2. Cardinality(EntriesFor(p, {"REJECT_PAYMENT"})') =
            0 + IF verdict[r].action \in {"REJECT_PAYMENT"} THEN 1 ELSE 0
      BY <1>4, <3>1
    <3> QED BY <1>7, <3>2
  <2> QED BY <1>6, <2>2, <2>3, <2>4 DEF Audited
<1>9. ASSUME NEW q \in Stored, q # p PROVE Untouched(payment'[q].steps) /\ Audited(q)'
  <2>1. q \in PaymentIds /\ payment'[q] = payment[q] /\ booked'[q] = booked[q]
    BY <1>1, <1>2, <1>9 DEF Stored
  <2>2. Untouched(payment[q].steps) /\ Audited(q)
    BY DEF EntriesInv
  <2> QED BY <1>5, <1>9, <2>1, <2>2, SameStory
<1>10. \A q \in PaymentIds : q \notin Stored' => booked'[q] = 0
  BY <1>1, <1>2 DEF EntriesInv
<1>11. \A f \in audit' : f.action \in DecisionActions => f.payment \in Stored'
  BY <1>1, <1>2 DEF EntriesInv
<1> QED BY <1>1, <1>4, <1>6, <1>8, <1>9, <1>10, <1>11 DEF EntriesInv

LEMMA EntriesNext ==
  ASSUME TypeInv, NotYetStored, CallerInv, ApprovedInv, ChainInv, OpenInv, DraftStepsInv,
         EntriesInv, [SystemNext]_systemVars
  PROVE  EntriesInv'
<1>1. CASE UNCHANGED Rows
  BY <1>1 DEF Rows, EntriesInv, Audited, EntriesFor, Stored
<1> QED BY <1>1, RowSteps, CommitKeepsEntries, SaveKeepsEntries

\* On one process the audit trail and the rows tell the same story: an entry for every step
\* that was decided by hand, one APPROVE_PAYMENT exactly where an attested payment moved its
\* money and one REJECT_PAYMENT exactly where it was rejected, whichever saves fail, lose
\* their answer or are cut off by a restart (DecideAsync, AuditLogService).
THEOREM DecisionsHaveEntries ==
  ASSUME OneProcess, LegacyByHand
  PROVE  SystemSpec => []DecisionsAudited
<1> DEFINE IInv == /\ ApprovalInv /\ ApprovedInv /\ ChainInv /\ OpenInv /\ DraftStepsInv
                   /\ EntriesInv
<1>1. SystemInit => IInv
  BY ApprovalInvInit, ApprovalInit, ChainInit, OpenInit, DraftStepsInit, EntriesInit
<1>2. IInv /\ [SystemNext]_systemVars => IInv'
  BY ApprovalInvNext, ApprovalNext, ChainNext, OpenNext, DraftStepsNext, EntriesNext
     DEF ApprovalInv, MoneyInv
<1>3. IInv => DecisionsAudited
  BY EntriesGiveProperty
<1> QED BY <1>1, <1>2, <1>3, PTL DEF SystemSpec

-----------------------------------------------------------------------------
(* The books                                                               *)

CompletedFrom(a) == {p \in Completed : payment[p].account = a}

BooksInv == IsFiniteSet(Completed) /\ BooksBalance

LEMMA AmountIsSum ==
  ASSUME NEW a
  PROVE  AmountOfCompleted(a) = Sum(payment, CompletedFrom(a))
BY DEF AmountOfCompleted, Sum, CompletedFrom, MapThenSumSet, MapThenFoldSet

LEMMA AmountIsSumNext ==
  ASSUME NEW a
  PROVE  AmountOfCompleted(a)' = Sum(payment', CompletedFrom(a)')
BY DEF AmountOfCompleted, Sum, CompletedFrom, MapThenSumSet, MapThenFoldSet

LEMMA BooksInit == SystemInit => BooksInv
<1> SUFFICES ASSUME SystemInit PROVE BooksInv
  OBVIOUS
<1>1. Completed = {} /\ booked = [p \in PaymentIds |-> 0] /\ balance = OpeningBalance
  BY SeedAssumption, StoreAssumption
     DEF SystemInit, StoreInit, Completed, Stored, NoPayment
<1>2. ASSUME NEW a \in Accounts
      PROVE  AmountOfCompleted(a) = 0 /\ OpeningBalance[a] \in Nat
  <2>1. CompletedFrom(a) = {}
    BY <1>1 DEF CompletedFrom
  <2>2. Sum(payment, {}) = 0
    BY FS_EmptySet, SumOfRest
  <2> QED BY <2>1, <2>2, AmountIsSum, StoreAssumption
<1>3. IsFiniteSet(Completed)
  BY <1>1, FS_EmptySet
<1> QED BY <1>1, <1>2, <1>3 DEF BooksInv, BooksBalance

\* What completed payments are: rows with an account and an amount.
LEMMA CompletedRows ==
  ASSUME TypeInv, NEW p \in Completed
  PROVE  p \in PaymentIds /\ payment[p].account \in Accounts /\ payment[p].amount \in Nat
BY StoreAssumption
   DEF Completed, Stored, Payment, NoPayment, TypeInv, SystemTypeOK, CreationTypeOK, StoreTypeOK

\* The completed payments are as they were.
SameCompleted ==
  \A p \in Completed : /\ payment'[p].account = payment[p].account
                       /\ payment'[p].amount = payment[p].amount

LEMMA NothingCompletes ==
  ASSUME BooksInv, SameCompleted, Completed' = Completed, UNCHANGED <<balance, booked>>
  PROVE  BooksInv'
<1>1. ASSUME NEW a \in Accounts PROVE AmountOfCompleted(a)' = AmountOfCompleted(a)
  <2> PICK row, new, S : row = payment /\ new = payment' /\ S = CompletedFrom(a)
    OBVIOUS
  <2>1. CompletedFrom(a)' = S
    BY DEF CompletedFrom, SameCompleted
  <2>2. IsFiniteSet(S)
    BY FS_Subset DEF BooksInv, CompletedFrom
  <2>3. \A p \in S : new[p].amount = row[p].amount
    BY DEF SameCompleted, CompletedFrom
  <2>4. Sum(new, S) = Sum(row, S)
    BY <2>2, <2>3, SameAmounts
  <2>5. AmountOfCompleted(a) = Sum(row, S)
    BY AmountIsSum
  <2>6. AmountOfCompleted(a)' = Sum(new, S)
    BY <2>1, AmountIsSumNext
  <2> QED BY <2>4, <2>5, <2>6
<1> QED BY <1>1 DEF BooksInv, BooksBalance

LEMMA OneCompletes ==
  ASSUME TypeInv, TypeInv', BooksInv, SameCompleted,
         NEW q \in PaymentIds, q \notin Completed, Completed' = Completed \cup {q},
         balance' = [balance EXCEPT ![payment'[q].account] = @ - payment'[q].amount],
         booked' = [booked EXCEPT ![q] = @ + 1]
  PROVE  BooksInv'
<1>1. IsFiniteSet(Completed')
  BY FS_AddElement DEF BooksInv
<1>2. \A p \in PaymentIds : booked'[p] = IF p \in Completed' THEN 1 ELSE 0
  BY DEF BooksInv, BooksBalance, TypeInv, SystemTypeOK, CreationTypeOK, StoreTypeOK
<1>3. ASSUME NEW a \in Accounts
      PROVE  balance'[a] = OpeningBalance[a] - AmountOfCompleted(a)'
  <2> PICK row, new, S : row = payment /\ new = payment' /\ S = CompletedFrom(a)
    OBVIOUS
  <2>1. IsFiniteSet(S) /\ q \notin S
    BY FS_Subset DEF BooksInv, CompletedFrom
  <2>2. \A p \in S : new[p].amount = row[p].amount /\ row[p].amount \in Nat
    BY CompletedRows DEF SameCompleted, CompletedFrom
  <2>3. Sum(new, S) = Sum(row, S) /\ Sum(new, S) \in Int
    BY <2>1, <2>2, SameAmounts, SumIsInteger DEF HaveAmounts
  <2>4. balance[a] = OpeningBalance[a] - Sum(row, S)
    BY AmountIsSum DEF BooksInv, BooksBalance
  <2>5. new[q].account \in Accounts /\ new[q].amount \in Nat
    <3>1. q \in Completed'
      OBVIOUS
    <3> QED BY <3>1, StoreAssumption
        DEF Completed, Stored, Payment, NoPayment, TypeInv, SystemTypeOK, CreationTypeOK, StoreTypeOK
  <2>6. OpeningBalance[a] \in Nat /\ balance \in [Accounts -> Int]
    BY StoreAssumption DEF TypeInv, SystemTypeOK, CreationTypeOK, StoreTypeOK
  <2>7. AmountOfCompleted(a)' = Sum(new, CompletedFrom(a)')
    BY AmountIsSumNext
  <2>8. CASE new[q].account = a
    <3>1. CompletedFrom(a)' = S \cup {q}
      BY <2>8 DEF CompletedFrom, SameCompleted
    <3>2. Sum(new, S \cup {q}) = Sum(new, S) + new[q].amount
      BY <2>1, <2>2, <2>5, SumWith DEF HaveAmounts
    <3>3. balance'[a] = balance[a] - new[q].amount
      BY <2>6, <2>8
    <3> QED BY <2>3, <2>4, <2>5, <2>6, <2>7, <3>1, <3>2, <3>3
  <2>9. CASE new[q].account # a
    <3>1. CompletedFrom(a)' = S
      BY <2>9 DEF CompletedFrom, SameCompleted
    <3>2. balance'[a] = balance[a]
      BY <2>6, <2>9
    <3> QED BY <2>3, <2>4, <2>7, <3>1, <3>2
  <2> QED BY <2>8, <2>9
<1> QED BY <1>1, <1>2, <1>3 DEF BooksInv, BooksBalance

LEMMA CommitKeepsBooks ==
  ASSUME TypeInv, TypeInv', MoneyInv, BooksInv, NEW r \in CreateRequests, Commits(r)
  PROVE  BooksInv'
<1>1. /\ r \notin Stored /\ r \in PaymentIds /\ PersistCreation(r)
      /\ \A p \in PaymentIds \ {r} : payment'[p] = payment[p]
      /\ args[r].iban = "valid" =>
           payment'[r] = DraftPayment(r) /\ Stored' = Stored \cup {r}
      /\ args[r].iban # "valid" => payment' = payment /\ Stored' = Stored
  BY CommitWrites DEF Commits, CommitCreation, CommitAnswerLost, MoneyInv, PaymentIds
<1>2. SameCompleted
  BY <1>1 DEF SameCompleted, Completed, Stored
<1>3. CASE args[r].iban = "valid" /\ Direct(r)
  <2>1. balance' = [balance EXCEPT ![args[r].account] = @ - args[r].amount]
    BY <1>3, CommitDebits DEF Commits
  <2>2. /\ payment'[r].account = args[r].account /\ payment'[r].amount = args[r].amount
        /\ payment'[r].status = "completed"
    BY <1>1, <1>3 DEF DraftPayment
  <2>3. booked' = [booked EXCEPT ![r] = @ + 1]
    BY <1>1, <1>3 DEF PersistCreation, CompletePayment
  <2>4. r \notin Completed /\ Completed' = Completed \cup {r}
    BY <1>1, <1>3, <2>2 DEF Completed, Stored
  <2> QED BY <1>1, <1>2, <2>1, <2>2, <2>3, <2>4, OneCompletes
<1>4. CASE ~(args[r].iban = "valid" /\ Direct(r))
  <2>1. UNCHANGED <<balance, booked>>
    BY <1>1, <1>4 DEF PersistCreation
  <2>2. args[r].iban = "valid" => payment'[r].status # "completed"
    BY <1>1, <1>4 DEF DraftPayment
  <2>3. Completed' = Completed
    BY <1>1, <2>2 DEF Completed, Stored
  <2> QED BY <1>2, <2>1, <2>3, NothingCompletes
<1> QED BY <1>3, <1>4

LEMMA SaveKeepsBooks ==
  ASSUME TypeInv, TypeInv', MoneyInv, ApprovedInv, BooksInv, NEW r \in DecideRequests, Saves(r)
  PROVE  BooksInv'
<1> PICK p : p = args[r].payment
  OBVIOUS
<1>1. /\ Ruled(r) /\ PersistDecision(r) /\ p \in Stored /\ Stored' = Stored /\ p \in PaymentIds
      /\ PaymentOf(r) = payment[p] /\ payment[p] \in Payment
      /\ payment'[p] = [payment[p] EXCEPT !.steps = SavedSteps(r), !.status = SavedStatus(r)]
      /\ \A q \in Stored \ {p} : payment'[q] = payment[q]
  BY SaveWrites DEF Stored
<1>2. /\ payment'[p].account = payment[p].account /\ payment'[p].amount = payment[p].amount
      /\ payment'[p].status = SavedStatus(r)
  BY <1>1 DEF Payment
<1>3. payment[p].status = "pending_approval"
  BY <1>1 DEF ApprovedInv, AsRuled
<1>4. p \notin Completed /\ SameCompleted
  BY <1>1, <1>3 DEF Completed, SameCompleted
<1>5. CASE Completes(r)
  <2>1. balance' = [balance EXCEPT ![payment[p].account] = @ - payment[p].amount]
    BY <1>1, <1>5, SaveDebits DEF Saves
  <2>2. booked' = [booked EXCEPT ![p] = @ + 1]
    BY <1>1, <1>5 DEF PersistDecision, CompletePayment
  <2>3. \A q \in Stored : payment'[q].status = "completed" <=>
                           payment[q].status = "completed" \/ q = p
    BY <1>1, <1>2, <1>5 DEF SavedStatus, Completes
  <2>4. Completed' = Completed \cup {p}
    BY <1>1, <2>3 DEF Completed
  <2> QED BY <1>1, <1>2, <1>4, <2>1, <2>2, <2>4, OneCompletes
<1>6. CASE ~Completes(r)
  <2>1. UNCHANGED <<balance, booked>>
    BY <1>1, <1>6 DEF PersistDecision
  <2>2. payment'[p].status # "completed"
    BY <1>1, <1>2, <1>3, <1>6 DEF SavedStatus, Completes
  <2>3. \A q \in Stored : payment'[q].status = "completed" <=> payment[q].status = "completed"
    BY <1>1, <1>3, <2>2
  <2>4. Completed' = Completed
    BY <1>1, <2>3 DEF Completed
  <2> QED BY <1>4, <2>1, <2>4, NothingCompletes
<1> QED BY <1>5, <1>6

LEMMA BooksNext ==
  ASSUME TypeInv, TypeInv', MoneyInv, ApprovedInv, BooksInv, [SystemNext]_systemVars
  PROVE  BooksInv'
<1>1. CASE UNCHANGED Rows
  <2>1. Completed' = Completed /\ SameCompleted /\ UNCHANGED <<balance, booked>>
    BY <1>1 DEF Rows, Completed, Stored, SameCompleted
  <2> QED BY <2>1, NothingCompletes
<1> QED BY <1>1, RowSteps, CommitKeepsBooks, SaveKeepsBooks DEF MoneyInv

\* On one process the books balance: what an account holds is what it held at the start less
\* the amounts of its completed payments, and each of these has one transaction and no other
\* payment has any, for any number of payments and decisions (CompletePayment, DecideAsync).
THEOREM BooksAlwaysBalance ==
  ASSUME OneProcess
  PROVE  SystemSpec => []BooksBalance
<1> DEFINE IInv == ApprovalInv /\ ApprovedInv /\ BooksInv
<1>1. SystemInit => IInv
  BY ApprovalInvInit, ApprovalInit, BooksInit
<1>2. IInv /\ [SystemNext]_systemVars => IInv'
  BY ApprovalInvNext, ApprovalNext, BooksNext DEF ApprovalInv
<1>3. IInv => BooksBalance
  BY DEF BooksInv
<1> QED BY <1>1, <1>2, <1>3, PTL DEF SystemSpec
=============================================================================
