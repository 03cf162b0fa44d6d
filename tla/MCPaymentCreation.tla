-------------------------- MODULE MCPaymentCreation --------------------------
(***************************************************************************)
(* Instances of PaymentCreation: users 1 (initiator) and 3 (admin) of the  *)
(* seeded tenant create payments of 6 from an account of 10 at once.       *)
(* Amounts above 6 need approval, above 8 double approval.                 *)
(***************************************************************************)
EXTENDS PaymentCreation, TLC

CONSTANTS a1, a2, t1, t2, k1, k2, i1, i2, p1, p2, p3

MCUserTenant == 1 :> t1 @@ 2 :> t1 @@ 3 :> t1 @@ 4 :> t2
MCUserRole == 1 :> "initiator" @@ 2 :> "attestant" @@ 3 :> "admin" @@ 4 :> "admin"
MCAccountTenant == a1 :> t1 @@ a2 :> t2
MCOpeningBalance == a1 :> 10 @@ a2 :> 6
MCAmounts == {6, 7, 9}

NoLegacy == << >>

Payload(i, u, a, n, k) ==
  [inst |-> i, user |-> u, account |-> a, amount |-> n, key |-> k, iban |-> "valid"]

\* Requests of one process: retries, a key reused for other data, amounts that need no,
\* one and two attestants, another tenant's account, an attestant, an invalid IBAN.
OneProcessPayloads ==
  {Payload(i1, 1, a1, 6, k1), Payload(i1, 1, a1, 6, k2), Payload(i1, 1, a1, 9, k1),
   Payload(i1, 3, a1, 7, k1), Payload(i1, 1, a2, 6, k1), Payload(i1, 2, a1, 6, k1),
   Payload(i1, 4, a2, 6, k1),
   [Payload(i1, 1, a1, 6, k1) EXCEPT !.iban = "invalid"]}

\* The same, with retries and a reused key that a second process receives.
MCPayloads ==
  OneProcessPayloads
    \cup {Payload(i2, 1, a1, 6, k1), Payload(i2, 1, a1, 9, k1), Payload(i2, 3, a1, 6, k1)}

Symmetry == Permutations({p1, p2, p3})
=============================================================================
