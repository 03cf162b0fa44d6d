------------------------- MODULE MCApprovalDecision -------------------------
(***************************************************************************)
(* Instances of ApprovalDecision.  The tenant has the seeded users 1       *)
(* (initiator), 2 (attestant) and 3 (admin) and a second attestant, 5;     *)
(* user 4 is an admin elsewhere.  Amounts above 6 need one approval and    *)
(* above 8 two; the account of 12 covers only one of the payments.         *)
(***************************************************************************)
EXTENDS ApprovalDecision, TLC

CONSTANTS a1, a2, t1, t2, k1, i1, i2, d1, d2, d3, legacy, single, double, unknown

MCUserTenant == 1 :> t1 @@ 2 :> t1 @@ 3 :> t1 @@ 4 :> t2 @@ 5 :> t1
MCUserRole == 1 :> "initiator" @@ 2 :> "attestant" @@ 3 :> "admin" @@ 4 :> "admin"
                @@ 5 :> "attestant"
MCAccountTenant == a1 :> t1 @@ a2 :> t2
MCOpeningBalance == a1 :> 12 @@ a2 :> 6
MCAmounts == {7, 9}

Pending(amount, steps) ==
  [creator |-> 1, account |-> a1, amount |-> amount, key |-> NoKey,
   status |-> "pending_approval", steps |-> steps]

\* An approval whose decision maker was not recorded.
UnknownApproval ==
  [attestant |-> 2, status |-> "approved", decidedBy |-> Nobody, source |-> "none"]

\* "legacy" has one step too few for its amount (BUG-006), "single" needs one approval,
\* "double" has both its steps, "unknown" was approved once by somebody who is not recorded.
MCLegacy ==
  legacy :> Pending(9, <<PendingStep(2)>>)
    @@ single :> Pending(7, <<PendingStep(2)>>)
    @@ double :> Pending(9, <<PendingStep(2), PendingStep(3)>>)
    @@ unknown :> Pending(9, <<UnknownApproval, PendingStep(5)>>)

SeedEntry(i, p) == [id |-> i, prev |-> i - 1, tenant |-> t1, user |-> 1,
                    action |-> "CREATE_PAYMENT", payment |-> p]
MCSeedAudit == {SeedEntry(1, legacy), SeedEntry(2, single), SeedEntry(3, double),
                SeedEntry(4, unknown)}

Decisions(inst, users, ps, steps, actions) ==
  [inst : {inst}, user : users, payment : ps, step : steps, action : actions]

\* Decisions of all kinds: payments that race for the account, the steps they have and get,
\* a caller of another tenant, an initiator, a malformed request.  Those of the single
\* payment reach a second process: only the row version keeps the two from the same money.
AllDecisionPayloads ==
  Decisions(i1, {2, 3}, {legacy}, 1..2, {"approve"})
    \cup Decisions(i1, {3}, {double}, 1..2, {"approve", "reject"})
    \cup Decisions(i1, {2}, {double}, {1}, {"approve"})
    \cup Decisions(i1, {5}, {unknown}, {2}, {"approve"})
    \cup Decisions(i1, {3}, {unknown}, {3}, {"approve"})
    \cup Decisions(i2, {2}, {single}, {1}, {"approve", "reject"})
    \cup Decisions(i2, {1, 4}, {single}, {1}, {"approve"})
    \cup Decisions(i1, {3}, {legacy}, {1}, {"malformed"})

\* The seeded tenant alone (one initiator, one attestant, one admin), with one payment
\* that has a step too few.
SeededUserTenant == 1 :> t1 @@ 2 :> t1 @@ 3 :> t1
SeededUserRole == 1 :> "initiator" @@ 2 :> "attestant" @@ 3 :> "admin"
SeededLegacy == legacy :> Pending(9, <<PendingStep(2)>>)
SeededAudit == {SeedEntry(1, legacy)}
SeededPayloads == Decisions(i1, {2, 3}, {legacy}, 1..2, {"approve"})

Symmetry == Permutations({d1, d2, d3})
=============================================================================
