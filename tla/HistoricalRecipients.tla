------------------------- MODULE HistoricalRecipients -------------------------
(***************************************************************************)
(* getHistoricalRecipients: the IBANs of recent payments that somebody     *)
(* approved.  The overview names the recent payments; three loops take the *)
(* completed ones from a shared index and ask for the details of each, and *)
(* the page may abort it all at any time.                                  *)
(***************************************************************************)
EXTENDS Integers, FiniteSets, Sequences

CONSTANTS
  Id, Iban,        \* payments and normalised IBANs
  RecentLists,     \* the lists the overview may hold: sequences of [id, status]
  Details,         \* what a payment's details may say
  Loop,            \* DETAIL_CONCURRENCY loops
  Limit            \* RECENT_PAYMENT_LIMIT

NoIban == "no iban"

Status   == {"completed", "pending_approval", "rejected"}
StepKind == {"approved by hand", "approved by the system", "not approved"}

ASSUME HistoryAssumption ==
  /\ NoIban \notin Iban /\ Limit \in Nat /\ IsFiniteSet(Loop) /\ Loop # {}
  /\ Details \subseteq [status : Status, timeline : SUBSET StepKind, toIban : Iban \cup {NoIban}]
  /\ RecentLists \subseteq Seq([id : Id, status : Status])

VARIABLES
  recent, details,   \* what the server has: the recent payments, and each one's details
  stage,             \* "overview" | "details" | "returned" | "thrown"
  taken,             \* the indices below nextIndex
  loop,              \* each loop: not started, the index it waits for, done or thrown
  ibans, incomplete, aborted

vars == <<recent, details, stage, taken, loop, ibans, incomplete, aborted>>

NotStarted == 0
Done  == -1
Threw == -2

-----------------------------------------------------------------------------
\* The payment's IBAN, if every step was approved and one of them by hand at a known time.
getApprovedRecipientIban(d) ==
  IF /\ d.status = "completed" /\ d.timeline # {}
     /\ "not approved" \notin d.timeline
     /\ "approved by hand" \in d.timeline
  THEN d.toIban ELSE NoIban

\* The completed ones among the first payments, each once.
Candidates(list) ==
  {i \in DOMAIN list :
     /\ i <= Limit /\ list[i].status = "completed"
     /\ ~\E j \in 1..(i - 1) : list[j].status = "completed" /\ list[j].id = list[i].id}

Untaken == Candidates(recent) \ taken
IsNext(i) == i \in Untaken /\ \A j \in Untaken : i <= j

-----------------------------------------------------------------------------
\* As many of the candidates as there are loops.
First(c) == {i \in c : Cardinality({j \in c : j < i}) < Cardinality(Loop)}

\* Promise.all starts the loops in one turn: each takes an index, or is done at once.
OverviewArrives ==
  /\ stage = "overview" /\ ~aborted
  /\ LET first == First(Candidates(recent)) IN
       /\ taken' = first
       /\ loop' \in [Loop -> first \cup {Done}]
       /\ \A i \in first : \E l \in Loop : loop'[l] = i
       /\ \A k, l \in Loop : loop'[k] = loop'[l] => k = l \/ loop'[k] = Done
       /\ stage' = IF first = {} THEN "returned" ELSE "details"
  /\ UNCHANGED <<recent, details, ibans, incomplete, aborted>>

OverviewFails ==
  /\ stage = "overview" /\ stage' = "thrown"
  /\ UNCHANGED <<recent, details, taken, loop, ibans, incomplete, aborted>>

\* Mutant: the index is taken after the answer, so that two loops ask for the same payment.
TakeNextLate(l) ==
  \/ \E i \in DOMAIN recent : IsNext(i) /\ loop' = [loop EXCEPT ![l] = i] /\ UNCHANGED taken
  \/ Untaken = {} /\ loop' = [loop EXCEPT ![l] = Done] /\ UNCHANGED taken

\* The head of the loop: the next index, or the end of it.
TakeNext(l) ==
  \/ \E i \in DOMAIN recent :
       IsNext(i) /\ loop' = [loop EXCEPT ![l] = i] /\ taken' = taken \cup {i}
  \/ Untaken = {} /\ loop' = [loop EXCEPT ![l] = Done] /\ UNCHANGED taken

\* Promise.all returns when all of the loops are done.
AllDone == \A k \in Loop : loop'[k] = Done
Proceed == stage' = IF stage = "details" /\ AllDone THEN "returned" ELSE stage

\* The details arrive and the loop goes on to its next await, all in one turn.
DetailsArrive(l) ==
  /\ loop[l] > 0 /\ ~aborted
  /\ ibans' = ibans \cup ({getApprovedRecipientIban(details[recent[loop[l]].id])} \ {NoIban})
  /\ TakeNext(l) /\ Proceed
  /\ UNCHANGED <<recent, details, incomplete, aborted>>

\* Refused, unreadable, incomplete or no answer: the others are still checked.
DetailsFail(l) ==
  /\ loop[l] > 0 /\ ~aborted
  /\ incomplete' = TRUE
  /\ TakeNext(l) /\ Proceed
  /\ UNCHANGED <<recent, details, ibans, aborted>>

\* Mutant: an abort ends the loop like the end of the list.
AbortIgnored(l) ==
  /\ aborted /\ loop[l] > 0
  /\ loop' = [loop EXCEPT ![l] = Done] /\ Proceed
  /\ UNCHANGED <<recent, details, taken, ibans, incomplete, aborted>>

\* After an abort every await ends in a throw, and the first one rejects Promise.all.
AbortNoticed(l) ==
  /\ aborted /\ loop[l] > 0
  /\ loop' = [loop EXCEPT ![l] = Threw] /\ stage' = "thrown"
  /\ UNCHANGED <<recent, details, taken, ibans, incomplete, aborted>>

Abort ==
  /\ ~aborted /\ aborted' = TRUE
  /\ UNCHANGED <<recent, details, stage, taken, loop, ibans, incomplete>>

-----------------------------------------------------------------------------
Init ==
  /\ recent \in RecentLists /\ details \in [Id -> Details]
  /\ \A i \in DOMAIN recent :                \* a completed payment stays completed
       recent[i].status # "pending_approval" => details[recent[i].id].status = recent[i].status
  /\ stage = "overview" /\ taken = {} /\ loop = [l \in Loop |-> NotStarted]
  /\ ibans = {} /\ incomplete = FALSE /\ aborted = FALSE

Work == \/ OverviewArrives \/ OverviewFails
        \/ \E l \in Loop : DetailsArrive(l) \/ DetailsFail(l) \/ AbortNoticed(l)

Next == Work \/ Abort

Spec == Init /\ [][Next]_vars

\* The browser ends every fetch, and an aborted one at once.
FairSpec == Spec /\ WF_vars(Work)

-----------------------------------------------------------------------------
\* The page's request keeps its types.
HistoryTypeOK ==
  /\ recent \in RecentLists /\ details \in [Id -> Details]
  /\ stage \in {"overview", "details", "returned", "thrown"}
  /\ taken \subseteq Candidates(recent)
  /\ loop \in [Loop -> taken \cup {NotStarted, Done, Threw}]
  /\ ibans \subseteq Iban /\ incomplete \in BOOLEAN /\ aborted \in BOOLEAN

\* The IBANs of those recent completed payments whose every step was approved, one by hand.
ApprovedIbans ==
  {b \in Iban : \E i \in DOMAIN recent :
     LET d == details[recent[i].id] IN
       /\ i <= Limit /\ recent[i].status = "completed"
       /\ d.toIban = b /\ d.status = "completed"
       /\ "approved by hand" \in d.timeline /\ "not approved" \notin d.timeline}

\* The result says "incomplete" or has each of these IBANs, in whatever order the details came.
ResultIsComplete ==
  stage = "returned" => /\ ibans \subseteq ApprovedIbans
                        /\ ~incomplete => ibans = ApprovedIbans

\* No two loops ask for the same payment, and none is asked for twice.
NoPaymentTwice ==
  \A l \in Loop : loop[l] > 0 =>
    /\ loop[l] \in taken
    /\ \A i \in taken \ {loop[l]} : recent[i].id # recent[loop[l]].id
    /\ \A k \in Loop \ {l} : loop[k] # loop[l]

\* The loops share the list without losing a payment or taking one twice, so that what is
\* returned is what the details said (nextIndex and Promise.all of getHistoricalRecipients).
HistoryInv == HistoryTypeOK /\ NoPaymentTwice /\ ResultIsComplete

\* The page sees a request that keeps HistoryRequest's promise.
Request == INSTANCE HistoryRequest WITH
  approved   <- ApprovedIbans,
  outcome    <- IF stage \in {"overview", "details"} THEN "waiting" ELSE stage,
  result     <- IF stage = "returned" THEN ibans ELSE {},
  incomplete <- stage = "returned" /\ incomplete
HistoryPromise == Request!Spec
=============================================================================
