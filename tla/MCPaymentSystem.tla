--------------------------- MODULE MCPaymentSystem ---------------------------
(***************************************************************************)
(* An instance of PaymentSystem: an initiator or an admin creates direct,  *)
(* single and double payments from an account of 12, and an attestant and  *)
(* an admin decide whatever steps these get, all at once on one process.   *)
(***************************************************************************)
EXTENDS PaymentSystem, TLC

CONSTANTS a1, t1, k1, k2, i1, i2, p1, p2, d1, d2

MCUserTenant == 1 :> t1 @@ 2 :> t1 @@ 3 :> t1
MCUserRole == 1 :> "initiator" @@ 2 :> "attestant" @@ 3 :> "admin"
MCAccountTenant == a1 :> t1
MCOpeningBalance == a1 :> 12
NoLegacy == << >>

Payload(u, n, k) ==
  [inst |-> i1, user |-> u, account |-> a1, amount |-> n, key |-> k, iban |-> "valid"]

\* A direct payment and a double one: the account covers one of them.
DirectAndDoublePayloads == {Payload(1, 6, k1), Payload(1, 9, k2)}

Decision(u, p, i, what) ==
  [inst |-> i1, user |-> u, payment |-> p, step |-> i, action |-> what]

\* The attestant and the admin on their own steps, the admin on the other's and rejecting.
MCDecisionPayloads ==
  UNION {{Decision(2, p, 1, "approve"), Decision(3, p, 2, "approve"),
          Decision(3, p, 1, "approve"), Decision(3, p, 1, "reject")} : p \in {p1, p2}}

\* Two processes that create and approve.
OnProcess(i, payload) == [payload EXCEPT !.inst = i]
TwoProcessCreatePayloads ==
  {OnProcess(i1, Payload(1, 6, k1)), OnProcess(i2, Payload(1, 6, k1)),
   OnProcess(i2, Payload(3, 7, k1))}
TwoProcessDecisionPayloads ==
  {OnProcess(i, Decision(2, p, 1, "approve")) : i \in {i1, i2}, p \in {p1, p2}}

Symmetry == Permutations({p1, p2}) \cup Permutations({d1, d2})
=============================================================================
