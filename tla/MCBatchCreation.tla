--------------------------- MODULE MCBatchCreation ---------------------------
(***************************************************************************)
(* An instance of BatchCreation: two batches and two single payments on    *)
(* accounts of 10 and 6; amounts above 6 need approval.                    *)
(***************************************************************************)
EXTENDS BatchCreation, TLC

CONSTANTS a1, a2, foreign, b1, b2, s1, s2

MCOpeningBalance == a1 :> 10 @@ a2 :> 6 @@ foreign :> 10

Pay(a, n) == [account |-> a, amount |-> n, correct |-> TRUE]

\* Two and three debits of one account, of which the account covers two; two accounts; a
\* row between them that needs approval; a row of another tenant; an incorrect one.
MCFiles ==
  {<<Pay(a1, 4), Pay(a1, 4)>>, <<Pay(a1, 4), Pay(a1, 4), Pay(a1, 4)>>,
   <<Pay(a2, 4), Pay(a1, 9), Pay(a1, 6)>>,
   <<Pay(foreign, 4), Pay(a1, 4)>>, <<[Pay(a1, 4) EXCEPT !.correct = FALSE], Pay(a2, 6)>>}

Symmetry == Permutations({b1, b2}) \cup Permutations({s1, s2})
=============================================================================
