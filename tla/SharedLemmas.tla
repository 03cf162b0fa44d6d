---------------------------- MODULE SharedLemmas ----------------------------
(***************************************************************************)
(* What the proofs of several components need.  The sum of the amounts of  *)
(* a finite set of payments, as MapThenSumSet computes it: it exists, is   *)
(* an integer, and grows by the amount of each payment that is added, in   *)
(* whatever order the payments are taken.  The items of a list at some of  *)
(* its places.  The pages of a list and the numbers that lead to them.     *)
(***************************************************************************)
EXTENDS PageNumbers, FiniteSets, FiniteSetsExt, FiniteSetTheorems, SequenceTheorems, FunctionTheorems, WellFoundedInduction, TLAPS

-----------------------------------------------------------------------------
(* Sums                                                                    *)

\* The amounts of the payments of S, which are rows of a table.
Sum(row, S) == MapThenSumSet(LAMBDA p : row[p].amount, S)

\* The payment that is taken first, and the rest.
FirstOf(S) == CHOOSE p \in S : TRUE
RestOf(S)  == S \ {FirstOf(S)}

\* h is the sum of every subset of S.
IsSum(row, S, h) ==
  h = [s \in SUBSET S |-> IF s = {} THEN 0 ELSE row[FirstOf(s)].amount + h[RestOf(s)]]

\* Among some subsets of a finite set there is one with no smaller one.
LEMMA SmallestSubset ==
  ASSUME NEW S, IsFiniteSet(S), NEW T, T \subseteq SUBSET S, T # {}
  PROVE  \E x \in T : \A y \in T : y \subseteq x => y = x
<1>1. T \subseteq FiniteSubsetsOf(S)
  <2>1. \A x \in T : x \in SUBSET S /\ IsFiniteSet(x)
    BY FS_Subset
  <2> QED BY <2>1 DEF FiniteSubsetsOf
<1>2. PICK x \in T : \A y \in T : <<y, x>> \notin StrictSubsetOrdering(S)
  <2>1. IsWellFoundedOn(StrictSubsetOrdering(S), FiniteSubsetsOf(S))
    BY FS_StrictSubsetOrderingWellFounded
  <2> QED BY <1>1, <2>1, WFMin
<1>3. ASSUME NEW y \in T, y \subseteq x, y # x PROVE FALSE
  <2>1. <<y, x>> \in StrictSubsetOrdering(S)
    BY <1>3 DEF StrictSubsetOrdering
  <2> QED BY <1>2, <2>1
<1> QED BY <1>3

LEMMA FirstIsIn ==
  ASSUME NEW S, S # {}
  PROVE  FirstOf(S) \in S /\ RestOf(S) \subseteq S /\ RestOf(S) # S
BY DEF FirstOf, RestOf

\* What the sum of subsets is does not depend on the set they are subsets of.
LEMMA SumsAgree ==
  ASSUME NEW row, NEW S, NEW T, NEW h, NEW k, IsSum(row, S, h), IsSum(row, T, k),
         NEW s, IsFiniteSet(s), s \subseteq S, s \subseteq T
  PROVE  h[s] = k[s]
<1> SUFFICES ASSUME h[s] # k[s] PROVE FALSE
  OBVIOUS
<1> DEFINE Bad == {x \in SUBSET s : h[x] # k[x]}
<1>1. PICK x \in Bad : \A y \in Bad : y \subseteq x => y = x
  <2>1. Bad \subseteq SUBSET s /\ s \in Bad
    OBVIOUS
  <2> HIDE DEF Bad
  <2> QED BY <2>1, SmallestSubset
<1>2. x \in SUBSET S /\ x \in SUBSET T
  OBVIOUS
<1>3. CASE x = {}
  <2>1. h[x] = 0 /\ k[x] = 0
    BY <1>2, <1>3 DEF IsSum
  <2> QED BY <2>1
<1>4. CASE x # {}
  <2>1. h[x] = row[FirstOf(x)].amount + h[RestOf(x)] /\ k[x] = row[FirstOf(x)].amount + k[RestOf(x)]
    BY <1>2, <1>4 DEF IsSum
  <2>2. RestOf(x) \in SUBSET s /\ RestOf(x) # x /\ RestOf(x) \subseteq x
    BY <1>4, FirstIsIn
  <2>3. h[RestOf(x)] = k[RestOf(x)]
    BY <1>1, <2>2
  <2> QED BY <2>1, <2>3
<1> QED BY <1>3, <1>4

\* Every finite set has a function that sums its subsets.
LEMMA SumExists ==
  ASSUME NEW row, NEW S, IsFiniteSet(S)
  PROVE  \E h : IsSum(row, S, h)
<1> SUFFICES ASSUME ~\E h : IsSum(row, S, h) PROVE FALSE
  OBVIOUS
<1> DEFINE Bad == {x \in SUBSET S : ~\E h : IsSum(row, x, h)}
<1>1. PICK x \in Bad : \A y \in Bad : y \subseteq x => y = x
  <2>1. Bad \subseteq SUBSET S /\ S \in Bad
    OBVIOUS
  <2> HIDE DEF Bad
  <2> QED BY <2>1, SmallestSubset
<1> DEFINE H(y) == CHOOSE h : IsSum(row, y, h)
           g == [y \in SUBSET x |->
                   IF y = {} THEN 0 ELSE row[FirstOf(y)].amount + H(RestOf(y))[RestOf(y)]]
<1>2. ASSUME NEW y, y \subseteq x, y # x PROVE IsSum(row, y, H(y))
  BY <1>1, <1>2
<1>3. ASSUME NEW y, y \subseteq x, y # x PROVE H(y)[y] = g[y]
  <2> DEFINE h == H(y)
  <2>1. IsSum(row, y, h)
    BY <1>2, <1>3
  <2>2. CASE y = {}
    <3> HIDE DEF h
    <3> QED BY <2>1, <2>2 DEF IsSum
  <2>3. CASE y # {}
    <3>1. RestOf(y) \subseteq y /\ RestOf(y) # y /\ RestOf(y) \subseteq x /\ RestOf(y) # x
      BY <1>3, <2>3, FirstIsIn
    <3>2. IsSum(row, RestOf(y), H(RestOf(y)))
      BY <1>2, <3>1
    <3>3. IsFiniteSet(RestOf(y))
      BY <3>1, FS_Subset
    <3> DEFINE k == H(RestOf(y))
    <3> HIDE DEF h, k
    <3>4. h[RestOf(y)] = k[RestOf(y)]
      BY <2>1, <3>1, <3>2, <3>3, SumsAgree DEF k
    <3>5. h[y] = row[FirstOf(y)].amount + h[RestOf(y)]
      BY <2>1, <2>3 DEF IsSum
    <3>6. g[y] = row[FirstOf(y)].amount + k[RestOf(y)]
      BY <1>3, <2>3 DEF k
    <3> QED BY <3>4, <3>5, <3>6 DEF h
  <2> QED BY <2>2, <2>3
<1>4. IsSum(row, x, g)
  <2>1. ASSUME NEW y \in SUBSET x, y # {} PROVE H(RestOf(y))[RestOf(y)] = g[RestOf(y)]
    <3>1. RestOf(y) \subseteq x /\ RestOf(y) # x
      BY <2>1, FirstIsIn
    <3> QED BY <1>3, <3>1
  <2>2. \A y \in SUBSET x : (IF y = {} THEN 0 ELSE row[FirstOf(y)].amount + H(RestOf(y))[RestOf(y)])
                          = (IF y = {} THEN 0 ELSE row[FirstOf(y)].amount + g[RestOf(y)])
    <3> HIDE DEF g, H
    <3> QED BY <2>1
  <2>3. g = [y \in SUBSET x |-> IF y = {} THEN 0 ELSE row[FirstOf(y)].amount + H(RestOf(y))[RestOf(y)]]
    OBVIOUS
  <2> HIDE DEF g, H
  <2> QED BY <2>2, <2>3 DEF IsSum
<1> QED BY <1>1, <1>4

\* Sum is that function.
LEMMA SumOfSubset ==
  ASSUME NEW row, NEW S, IsFiniteSet(S), NEW h, IsSum(row, S, h), NEW s, s \subseteq S
  PROVE  Sum(row, s) = h[s]
<1>1. IsFiniteSet(s)
  BY FS_Subset
<1>2. \E k : IsSum(row, s, k)
  BY <1>1, SumExists
<1> DEFINE k == CHOOSE k : IsSum(row, s, k)
<1>3. IsSum(row, s, k)
  BY <1>2
<1>4. Sum(row, s) = k[s]
  BY DEF Sum, MapThenSumSet, MapThenFoldSet, IsSum, FirstOf, RestOf
<1> HIDE DEF k
<1> QED BY <1>1, <1>3, <1>4, SumsAgree

\* The first payment's amount and those of the rest.
LEMMA SumOfRest ==
  ASSUME NEW row, NEW S, IsFiniteSet(S)
  PROVE  /\ S = {} => Sum(row, S) = 0
         /\ S # {} => Sum(row, S) = row[FirstOf(S)].amount + Sum(row, RestOf(S))
<1>1. PICK h : IsSum(row, S, h)
  BY SumExists
<1>2. Sum(row, S) = h[S]
  BY <1>1, SumOfSubset
<1>3. S # {} => Sum(row, RestOf(S)) = h[RestOf(S)]
  BY <1>1, SumOfSubset, FirstIsIn
<1>4. h[S] = IF S = {} THEN 0 ELSE row[FirstOf(S)].amount + h[RestOf(S)]
  BY <1>1 DEF IsSum
<1> QED BY <1>2, <1>3, <1>4

\* The payments of S have amounts.
HaveAmounts(row, S) == \A p \in S : row[p].amount \in Int

LEMMA SumIsInteger ==
  ASSUME NEW row, NEW S, IsFiniteSet(S), HaveAmounts(row, S)
  PROVE  Sum(row, S) \in Int
<1> SUFFICES ASSUME Sum(row, S) \notin Int PROVE FALSE
  OBVIOUS
<1> DEFINE Bad == {x \in SUBSET S : Sum(row, x) \notin Int}
<1>1. PICK x \in Bad : \A y \in Bad : y \subseteq x => y = x
  <2>1. Bad \subseteq SUBSET S /\ S \in Bad
    OBVIOUS
  <2> HIDE DEF Bad
  <2> QED BY <2>1, SmallestSubset
<1>2. IsFiniteSet(x)
  BY FS_Subset
<1>3. x # {}
  <2>1. x = {} => Sum(row, x) = 0
    BY <1>2, SumOfRest
  <2>2. Sum(row, x) \notin Int
    OBVIOUS
  <2> QED BY <2>1, <2>2
<1>4. FirstOf(x) \in S /\ RestOf(x) \in SUBSET S /\ RestOf(x) # x /\ RestOf(x) \subseteq x
  BY <1>3, FirstIsIn
<1>5. Sum(row, RestOf(x)) \in Int
  BY <1>1, <1>4
<1>6. Sum(row, x) = row[FirstOf(x)].amount + Sum(row, RestOf(x))
  BY <1>2, <1>3, SumOfRest
<1> QED BY <1>4, <1>5, <1>6 DEF HaveAmounts

\* The amounts are summed in any order: each payment may be taken last.
LEMMA SumWithout ==
  ASSUME NEW row, NEW S, IsFiniteSet(S), HaveAmounts(row, S), NEW p \in S
  PROVE  Sum(row, S) = Sum(row, S \ {p}) + row[p].amount
<1> DEFINE Good(x) == \A q \in x : Sum(row, x) = Sum(row, x \ {q}) + row[q].amount
<1> SUFFICES ASSUME ~Good(S) PROVE FALSE
  OBVIOUS
<1> DEFINE Bad == {x \in SUBSET S : ~Good(x)}
<1>1. PICK x \in Bad : \A y \in Bad : y \subseteq x => y = x
  <2>1. Bad \subseteq SUBSET S /\ S \in Bad
    OBVIOUS
  <2> HIDE DEF Bad
  <2> QED BY <2>1, SmallestSubset
<1>2. PICK q \in x : Sum(row, x) # Sum(row, x \ {q}) + row[q].amount
  OBVIOUS
<1> PICK f : f = FirstOf(x)
  OBVIOUS
<1>3. f \in x /\ RestOf(x) = x \ {f}
  BY FirstIsIn DEF RestOf
<1>4. \A y \in SUBSET x : IsFiniteSet(y) /\ Sum(row, y) \in Int
  BY FS_Subset, SumIsInteger DEF HaveAmounts
<1> PICK a, b : a = row[f].amount /\ b = row[q].amount
  OBVIOUS
<1> PICK u, v, w, z : /\ u = Sum(row, x) /\ v = Sum(row, x \ {f}) /\ w = Sum(row, x \ {q})
                     /\ z = Sum(row, (x \ {f}) \ {q})
  OBVIOUS
<1>5. a \in Int /\ b \in Int /\ u \in Int /\ v \in Int /\ w \in Int /\ z \in Int
  BY <1>3, <1>4 DEF HaveAmounts
<1>6. u = a + v
  BY <1>3, <1>4, SumOfRest
<1>7. u # w + b
  BY <1>2
<1>8. f # q
  <2>1. f = q => a = b /\ v = w
    OBVIOUS
  <2> QED BY ONLY <1>5, <1>6, <1>7, <2>1
<1>9. Good(x \ {f}) /\ Good(x \ {q})
  BY <1>1, <1>2, <1>3
<1>10. v = z + b
  BY <1>2, <1>8, <1>9
<1>11. w = z + a
  <2>1. (x \ {q}) \ {f} = (x \ {f}) \ {q}
    OBVIOUS
  <2>2. w = Sum(row, (x \ {q}) \ {f}) + a
    BY <1>3, <1>8, <1>9
  <2> QED BY <2>1, <2>2
<1> HIDE DEF Good, Bad
<1> QED BY <1>5, <1>6, <1>7, <1>10, <1>11

\* Payments that keep their amounts keep their sum.
LEMMA SameAmounts ==
  ASSUME NEW row, NEW new, NEW S, IsFiniteSet(S), \A p \in S : new[p].amount = row[p].amount
  PROVE  Sum(new, S) = Sum(row, S)
<1> SUFFICES ASSUME Sum(new, S) # Sum(row, S) PROVE FALSE
  OBVIOUS
<1> DEFINE Bad == {x \in SUBSET S : Sum(new, x) # Sum(row, x)}
<1>1. PICK x \in Bad : \A y \in Bad : y \subseteq x => y = x
  <2>1. Bad \subseteq SUBSET S /\ S \in Bad
    OBVIOUS
  <2> HIDE DEF Bad
  <2> QED BY <2>1, SmallestSubset
<1>2. IsFiniteSet(x)
  BY FS_Subset
<1>3. x # {}
  BY <1>2, SumOfRest
<1>4. FirstOf(x) \in S /\ RestOf(x) \in SUBSET S /\ RestOf(x) # x /\ RestOf(x) \subseteq x
  BY <1>3, FirstIsIn
<1>5. Sum(new, RestOf(x)) = Sum(row, RestOf(x))
  BY <1>1, <1>4
<1> QED BY <1>2, <1>3, <1>4, <1>5, SumOfRest

\* One more payment adds its amount to the sum.
LEMMA SumWith ==
  ASSUME NEW row, NEW S, IsFiniteSet(S), NEW p, p \notin S, HaveAmounts(row, S \cup {p})
  PROVE  Sum(row, S \cup {p}) = Sum(row, S) + row[p].amount
<1>1. IsFiniteSet(S \cup {p}) /\ (S \cup {p}) \ {p} = S
  BY FS_AddElement
<1> QED BY <1>1, SumWithout

\* Amounts that are not negative have a sum that is not negative.
LEMMA SumIsNatural ==
  ASSUME NEW row, NEW S, IsFiniteSet(S), \A p \in S : row[p].amount \in Nat
  PROVE  Sum(row, S) \in Nat
<1> SUFFICES ASSUME Sum(row, S) \notin Nat PROVE FALSE
  OBVIOUS
<1> DEFINE Bad == {x \in SUBSET S : Sum(row, x) \notin Nat}
<1>1. PICK x \in Bad : \A y \in Bad : y \subseteq x => y = x
  <2>1. Bad \subseteq SUBSET S /\ S \in Bad
    OBVIOUS
  <2> HIDE DEF Bad
  <2> QED BY <2>1, SmallestSubset
<1>2. IsFiniteSet(x)
  BY FS_Subset
<1>3. x # {}
  <2>1. Sum(row, x) # 0
    OBVIOUS
  <2> QED BY <1>2, <2>1, SumOfRest
<1>4. FirstOf(x) \in S /\ RestOf(x) \in SUBSET S /\ RestOf(x) # x /\ RestOf(x) \subseteq x
  BY <1>3, FirstIsIn
<1>5. Sum(row, RestOf(x)) \in Nat
  BY <1>1, <1>4
<1>6. Sum(row, x) = row[FirstOf(x)].amount + Sum(row, RestOf(x))
  BY <1>2, <1>3, SumOfRest
<1> QED BY <1>4, <1>5, <1>6

\* The payments of a batch that are named by the rows D.
Named(b, D) == {<<b, i>> : i \in D}

\* Payments that are added for the rows of a file add the sum of these rows.
LEMMA SumWithRows ==
  ASSUME NEW row, NEW T, IsFiniteSet(T), HaveAmounts(row, T),
         NEW file, NEW D, IsFiniteSet(D), HaveAmounts(file, D), NEW b,
         \A i \in D : <<b, i>> \notin T /\ row[<<b, i>>].amount = file[i].amount
  PROVE  /\ IsFiniteSet(T \cup Named(b, D))
         /\ Sum(row, T \cup Named(b, D)) = Sum(row, T) + Sum(file, D)
<1> DEFINE With(x) == T \cup Named(b, x)
           Good(x) == IsFiniteSet(With(x)) /\ Sum(row, With(x)) = Sum(row, T) + Sum(file, x)
<1> SUFFICES ASSUME ~Good(D) PROVE FALSE
  OBVIOUS
<1> DEFINE Bad == {x \in SUBSET D : ~Good(x)}
<1>1. PICK x \in Bad : \A y \in Bad : y \subseteq x => y = x
  <2>1. Bad \subseteq SUBSET D /\ D \in Bad
    OBVIOUS
  <2> HIDE DEF Bad
  <2> QED BY <2>1, SmallestSubset
<1>2. x \subseteq D /\ IsFiniteSet(x) /\ Sum(row, T) \in Int
  BY FS_Subset, SumIsInteger
<1>3. CASE x = {}
  <2>1. With(x) = T /\ Sum(file, x) = 0
    BY <1>2, <1>3, SumOfRest DEF Named
  <2>2. Sum(row, With(x)) = Sum(row, T) + Sum(file, x)
    <3> HIDE DEF With
    <3> QED BY <1>2, <2>1
  <2>3. ~Good(x)
    OBVIOUS
  <2> HIDE DEF With
  <2> QED BY <2>1, <2>2, <2>3
<1>4. CASE x # {}
  <2> PICK i, y : i = FirstOf(x) /\ y = RestOf(x)
    OBVIOUS
  <2>1. i \in x /\ y \subseteq x /\ y # x /\ x = y \cup {i} /\ i \notin y
    BY <1>4, FirstIsIn DEF RestOf
  <2>2. Good(y)
    BY <1>1, <1>2, <2>1
  <2>3. With(x) = With(y) \cup {<<b, i>>} /\ <<b, i>> \notin With(y)
    BY <1>2, <2>1 DEF Named
  <2>4. HaveAmounts(row, With(x)) /\ row[<<b, i>>].amount = file[i].amount
    BY <1>2, <2>1 DEF HaveAmounts, Named
  <2>5. Sum(row, With(x)) = Sum(row, With(y)) + file[i].amount
    <3> HIDE DEF With
    <3> QED BY <2>2, <2>3, <2>4, SumWith
  <2>6. Sum(file, x) = file[i].amount + Sum(file, y) /\ Sum(file, y) \in Int /\ file[i].amount \in Int
    <3>1. HaveAmounts(file, y) /\ IsFiniteSet(y)
      BY <1>2, <2>1, FS_Subset DEF HaveAmounts
    <3> QED BY <1>2, <1>4, <2>1, <3>1, SumOfRest, SumIsInteger DEF HaveAmounts
  <2>7. IsFiniteSet(With(x))
    <3> HIDE DEF With
    <3> QED BY <2>2, <2>3, FS_AddElement
  <2>8. Sum(row, With(x)) = Sum(row, T) + Sum(file, x)
    <3> HIDE DEF With
    <3> QED BY <1>2, <2>2, <2>5, <2>6
  <2> QED BY <2>7, <2>8
<1> QED BY <1>3, <1>4
-----------------------------------------------------------------------------
(* Natural numbers                                                         *)

\* Every set of natural numbers that is not empty has a least member: the shortest of
\* the intervals that end in its members.
LEMMA Least ==
  ASSUME NEW S \in SUBSET Nat, S # {}
  PROVE  \E m \in S : \A n \in S : m <= n
<1> DEFINE Below(n) == 1..n
           T == {Below(n) : n \in S}
<1>1. T \subseteq FiniteSubsetsOf(Nat) /\ T # {}
  <2>1. \A n \in S : Below(n) \in SUBSET Nat /\ IsFiniteSet(Below(n))
    BY FS_Interval
  <2> QED BY <2>1 DEF FiniteSubsetsOf
<1>2. PICK A \in T : \A B \in T : <<B, A>> \notin StrictSubsetOrdering(Nat)
  <2>1. IsWellFoundedOn(StrictSubsetOrdering(Nat), FiniteSubsetsOf(Nat))
    BY FS_StrictSubsetOrderingWellFounded
  <2> HIDE DEF T
  <2> QED BY <1>1, <2>1, WFMin
<1>3. PICK m \in S : A = Below(m)
  OBVIOUS
<1>4. ASSUME NEW n \in S, n < m PROVE FALSE
  <2>1. Below(n) \subseteq Below(m) /\ m \in Below(m) /\ m \notin Below(n)
    BY <1>4
  <2>2. <<Below(n), Below(m)>> \in StrictSubsetOrdering(Nat)
    BY <2>1 DEF StrictSubsetOrdering
  <2> QED BY <2>2, <1>2, <1>3
<1> QED BY <1>4

-----------------------------------------------------------------------------
(* The items of a list at some of its places                               *)

\* What an order puts before an element.
Below(S, R, x) == {y \in S : <<y, x>> \in R}

Orders(R, S) ==
  /\ \A x \in S : <<x, x>> \notin R
  /\ \A x, y, z \in S : <<x, y>> \in R /\ <<y, z>> \in R => <<x, z>> \in R
  /\ \A x, y \in S : x = y \/ <<x, y>> \in R \/ <<y, x>> \in R

\* In a finite set that is ordered, what is before an element is less than all of it, and more than
\* what is before an earlier one.
LEMMA OrderedRanks ==
  ASSUME NEW S, NEW R, IsFiniteSet(S), Orders(R, S)
  PROVE  /\ Cardinality(S) \in Nat
         /\ \A x \in S : Cardinality(Below(S, R, x)) \in 0..(Cardinality(S) - 1)
         /\ \A x, y \in S : <<x, y>> \in R => Cardinality(Below(S, R, x)) < Cardinality(Below(S, R, y))
         /\ \A x, y \in S : Cardinality(Below(S, R, x)) = Cardinality(Below(S, R, y)) => x = y
<1>1. Cardinality(S) \in Nat
  BY FS_CardinalityType
<1>2. ASSUME NEW x \in S PROVE IsFiniteSet(Below(S, R, x)) /\ Cardinality(Below(S, R, x)) \in Nat
  <2>1. Below(S, R, x) \subseteq S
    BY DEF Below
  <2> QED BY <2>1, FS_Subset, FS_CardinalityType
<1>3. ASSUME NEW x \in S, NEW A \in SUBSET S, Below(S, R, x) \subseteq A, x \in A
      PROVE  Cardinality(Below(S, R, x)) < Cardinality(A)
  <2>1. IsFiniteSet(A) /\ Cardinality(A) \in Nat
    BY FS_Subset, FS_CardinalityType
  <2>2. x \notin Below(S, R, x)
    BY DEF Below, Orders
  <2> DEFINE B == Below(S, R, x)
  <2>3. B \in SUBSET A /\ B # A /\ Cardinality(B) \in Nat
    BY <1>2, <1>3, <2>2
  <2> HIDE DEF B
  <2>4. Cardinality(B) <= Cardinality(A) /\ Cardinality(A) # Cardinality(B)
    BY <2>1, <2>3, FS_Subset
  <2>5. Cardinality(B) < Cardinality(A)
    BY <2>1, <2>3, <2>4
  <2> QED BY <2>5 DEF B
<1>4. ASSUME NEW x \in S PROVE Cardinality(Below(S, R, x)) \in 0..(Cardinality(S) - 1)
  <2>1. Below(S, R, x) \subseteq S
    BY DEF Below
  <2>2. Cardinality(Below(S, R, x)) < Cardinality(S)
    BY <1>3, <2>1
  <2> QED BY <1>1, <1>2, <2>2
<1>5. ASSUME NEW x \in S, NEW y \in S, <<x, y>> \in R
      PROVE  Cardinality(Below(S, R, x)) < Cardinality(Below(S, R, y))
  <2>1. Below(S, R, x) \subseteq Below(S, R, y) /\ x \in Below(S, R, y) /\ Below(S, R, y) \in SUBSET S
    BY <1>5 DEF Below, Orders
  <2> QED BY <1>3, <2>1
<1>6. ASSUME NEW x \in S, NEW y \in S, Cardinality(Below(S, R, x)) = Cardinality(Below(S, R, y)) PROVE x = y
  <2>1. \A m, n \in Nat : m = n => ~(m < n) /\ ~(n < m)
    OBVIOUS
  <2> QED BY <1>2, <1>5, <1>6, <2>1 DEF Orders
<1> QED BY <1>1, <1>4, <1>5, <1>6

\* Every number below the size counts what is before one element.
LEMMA EveryRank ==
  ASSUME NEW S, NEW R, IsFiniteSet(S), Orders(R, S), NEW k \in 1..Cardinality(S)
  PROVE  \E x \in S : Cardinality(Below(S, R, x)) = k - 1
<1> DEFINE rank == [x \in S |-> Cardinality(Below(S, R, x))]
           T == 0..(Cardinality(S) - 1)
<1>1. Cardinality(S) \in Nat /\ rank \in [S -> T]
  BY OrderedRanks
<1>2. rank \in Injection(S, T)
  <2>1. ASSUME NEW x \in S, NEW y \in S, rank[x] = rank[y] PROVE x = y
    BY <2>1, OrderedRanks
  <2> HIDE DEF rank, T
  <2> QED BY <1>1, <2>1, Fun_IsInj
<1>3. IsFiniteSet(T) /\ Cardinality(T) = Cardinality(S)
  <2> DEFINE c == Cardinality(S)
  <2>1. c \in Nat /\ T = 0..(c - 1)
    BY <1>1
  <2> HIDE DEF c, T
  <2>2. IsFiniteSet(0..(c - 1)) /\ Cardinality(0..(c - 1)) = IF 0 > c - 1 THEN 0 ELSE (c - 1) - 0 + 1
    BY <2>1, FS_Interval
  <2>3. Cardinality(0..(c - 1)) = c
    BY <2>1, <2>2
  <2> QED BY <2>1, <2>2, <2>3 DEF c
<1>4. rank \in Surjection(S, T)
  <2> HIDE DEF rank, T
  <2> QED BY <1>2, <1>3, FS_Injection
<1>5. k - 1 \in T
  BY <1>1
<1>6. PICK x \in S : rank[x] = k - 1
  <2> HIDE DEF rank, T
  <2> QED BY <1>4, <1>5, Fun_SurjectionProperties
<1> QED BY <1>6

\* The places before one of them.
Earlier(places, i) == {j \in places : j < i}

\* Some places of a list are ordered as numbers are.
LEMMA PlacesOrdered ==
  ASSUME NEW n \in Nat, NEW S \in SUBSET (1..n)
  PROVE  /\ IsFiniteSet(S) /\ Cardinality(S) \in Nat
         /\ \A i \in S : Cardinality(Earlier(S, i)) \in 0..(Cardinality(S) - 1)
         /\ \A i, m \in S : Cardinality(Earlier(S, i)) = Cardinality(Earlier(S, m)) => i = m
         /\ \A k \in 1..Cardinality(S) : \E i \in S : Cardinality(Earlier(S, i)) = k - 1
<1> DEFINE R == {p \in S \X S : p[1] < p[2]}
<1>1. IsFiniteSet(S)
  <2>1. IsFiniteSet(1..n)
    BY FS_Interval
  <2> QED BY <2>1, FS_Subset
<1>2. \A i, j \in S : <<i, j>> \in R <=> i < j
  OBVIOUS
<1>3. \A i \in S : i \in Int
  OBVIOUS
<1>4. \A i \in S : Below(S, R, i) = Earlier(S, i)
  <2> HIDE DEF R
  <2> QED BY <1>2 DEF Below, Earlier
<1> HIDE DEF R
<1>5. Orders(R, S)
  BY <1>2, <1>3 DEF Orders
<1>6. /\ Cardinality(S) \in Nat
      /\ \A x \in S : Cardinality(Below(S, R, x)) \in 0..(Cardinality(S) - 1)
      /\ \A x, y \in S : Cardinality(Below(S, R, x)) = Cardinality(Below(S, R, y)) => x = y
      /\ \A k \in 1..Cardinality(S) : \E x \in S : Cardinality(Below(S, R, x)) = k - 1
  <2>1. Cardinality(S) \in Nat
    BY <1>1, <1>5, OrderedRanks
  <2>2. \A x \in S : Cardinality(Below(S, R, x)) \in 0..(Cardinality(S) - 1)
    BY <1>1, <1>5, OrderedRanks
  <2>3. \A x, y \in S : Cardinality(Below(S, R, x)) = Cardinality(Below(S, R, y)) => x = y
    BY <1>1, <1>5, OrderedRanks
  <2>4. ASSUME NEW k \in 1..Cardinality(S) PROVE \E x \in S : Cardinality(Below(S, R, x)) = k - 1
    BY <1>1, <1>5, EveryRank
  <2> QED BY <2>1, <2>2, <2>3, <2>4
<1> QED BY <1>1, <1>4, <1>6

\* The k-th of the items is that of one of the places.
LEMMA ItemsAtAre ==
  ASSUME NEW T, NEW list \in Seq(T), NEW places \in SUBSET DOMAIN list
  PROVE  /\ IsFiniteSet(places) /\ Cardinality(places) \in Nat /\ Cardinality(places) <= Len(list)
         /\ ItemsAt(list, places) \in Seq(T) /\ Len(ItemsAt(list, places)) = Cardinality(places)
         /\ \A k \in 1..Cardinality(places) : \E i \in places :
              ItemsAt(list, places)[k] = list[i] /\ Cardinality(Earlier(places, i)) = k - 1
<1> DEFINE n == Cardinality(places)
           place(k) == CHOOSE i \in places : Cardinality(Earlier(places, i)) = k - 1
<1>1. Len(list) \in Nat /\ DOMAIN list = 1..Len(list)
  OBVIOUS
<1>2. IsFiniteSet(places) /\ n \in Nat /\ n <= Len(list)
  <2>1. IsFiniteSet(1..Len(list)) /\ Cardinality(1..Len(list)) = Len(list)
    <3> DEFINE c == Len(list)
    <3>1. c \in Nat
      BY <1>1
    <3> HIDE DEF c
    <3>2. IsFiniteSet(1..c) /\ Cardinality(1..c) = IF 1 > c THEN 0 ELSE c - 1 + 1
      BY <3>1, FS_Interval
    <3>3. Cardinality(1..c) = c
      BY <3>1, <3>2
    <3> QED BY <3>2, <3>3 DEF c
  <2> QED BY <1>1, <2>1, FS_Subset, FS_CardinalityType
<1>3. ASSUME NEW k \in 1..n
      PROVE  place(k) \in places /\ Cardinality(Earlier(places, place(k))) = k - 1
  <2>1. \E i \in places : Cardinality(Earlier(places, i)) = k - 1
    BY <1>1, PlacesOrdered
  <2> QED BY <2>1
<1>4. ItemsAt(list, places) = [k \in 1..n |-> list[place(k)]]
  <2>1. places \in SUBSET Nat
    BY <1>1
  <2> QED BY <2>1 DEF ItemsAt, Earlier
<1> HIDE DEF place, n
<1>5. \A k \in 1..n : list[place(k)] \in T
  <2> SUFFICES ASSUME NEW k \in 1..n PROVE list[place(k)] \in T
    OBVIOUS
  <2>1. place(k) \in DOMAIN list
    BY <1>3
  <2> QED BY <2>1
<1>6. [k \in 1..n |-> list[place(k)]] \in Seq(T) /\ Len([k \in 1..n |-> list[place(k)]]) = n
  BY <1>2, <1>5
<1> QED BY <1>2, <1>3, <1>4, <1>6 DEF n

\* An item is where the count of the places before its own says.
LEMMA ItemAtRank ==
  ASSUME NEW T, NEW list \in Seq(T), NEW places \in SUBSET DOMAIN list, NEW i \in places
  PROVE  /\ Cardinality(Earlier(places, i)) \in 0..(Cardinality(places) - 1)
         /\ ItemsAt(list, places)[Cardinality(Earlier(places, i)) + 1] = list[i]
<1> DEFINE rank(x) == Cardinality(Earlier(places, x))
           k == rank(i) + 1
<1>1. Len(list) \in Nat /\ places \in SUBSET (1..Len(list))
  OBVIOUS
<1>2. rank(i) \in 0..(Cardinality(places) - 1) /\ Cardinality(places) \in Nat
  BY <1>1, PlacesOrdered
<1>3. k \in 1..Cardinality(places) /\ k - 1 = rank(i)
  <2> HIDE DEF rank
  <2> QED BY <1>2
<1>4. PICK m \in places : ItemsAt(list, places)[k] = list[m] /\ rank(m) = k - 1
  <2>1. \A x \in 1..Cardinality(places) : \E y \in places : ItemsAt(list, places)[x] = list[y] /\ rank(y) = x - 1
    <3>1. \A x \in 1..Cardinality(places) : \E y \in places :
            ItemsAt(list, places)[x] = list[y] /\ Cardinality(Earlier(places, y)) = x - 1
      BY ItemsAtAre
    <3> QED BY <3>1
  <2> HIDE DEF k, rank
  <2> QED BY <1>3, <2>1
<1>5. rank(i) = rank(m)
  <2> HIDE DEF k, rank
  <2> QED BY <1>3, <1>4
<1>6. i = m
  <2> DEFINE n == Len(list)
  <2>1. n \in Nat /\ places \in SUBSET (1..n)
    BY <1>1
  <2>2. Cardinality(Earlier(places, i)) = Cardinality(Earlier(places, m))
    BY <1>5
  <2> HIDE DEF n, rank
  <2> QED BY <2>1, <2>2, PlacesOrdered
<1> QED BY <1>2, <1>4, <1>6

\* All the items are the list.
LEMMA ItemsAtAll ==
  ASSUME NEW T, NEW list \in Seq(T)
  PROVE  ItemsAt(list, DOMAIN list) = list
<1> DEFINE S == DOMAIN list
           n == Len(list)
           all == ItemsAt(list, S)
           before(i) == {j \in S : j < i}
<1>1. n \in Nat /\ S = 1..n
  OBVIOUS
<1> HIDE DEF n
<1>2. Cardinality(S) = n
  <2>1. Cardinality(1..n) = IF 1 > n THEN 0 ELSE n - 1 + 1
    BY <1>1, FS_Interval
  <2>2. Cardinality(1..n) = n
    BY <1>1, <2>1
  <2> QED BY <1>1, <2>2
<1>3. all \in Seq(T) /\ Len(all) = n
  BY <1>2, ItemsAtAre
<1>4. ASSUME NEW i \in 1..n PROVE all[i] = list[i]
  <2>1. before(i) = 1..(i - 1)
    BY <1>1
  <2>2. Cardinality(1..(i - 1)) = i - 1
    <3> DEFINE c == i - 1
    <3>1. c \in Nat
      BY <1>1
    <3> HIDE DEF c
    <3>2. Cardinality(1..c) = IF 1 > c THEN 0 ELSE c - 1 + 1
      BY <3>1, FS_Interval
    <3>3. Cardinality(1..c) = c
      BY <3>1, <3>2
    <3> QED BY <3>3 DEF c
  <2>3. i \in S /\ i \in Int
    BY <1>1
  <2>4. all[Cardinality(before(i)) + 1] = list[i]
    BY <2>3, ItemAtRank DEF Earlier
  <2>5. (i - 1) + 1 = i
    BY <2>3
  <2>6. Cardinality(before(i)) = i - 1
    BY <2>1, <2>2
  <2> HIDE DEF all, before
  <2> QED BY <2>4, <2>5, <2>6
<1> HIDE DEF all
<1>5. list \in Seq(T) /\ Len(list) = n
  BY DEF n
<1>6. all = list
  BY <1>3, <1>4, <1>5, SeqEqual
<1> QED BY <1>6 DEF all, S

\* Without the first of the places what is left are the items after the first.
LEMMA ItemsAtRest ==
  ASSUME NEW T, NEW list \in Seq(T), NEW places \in SUBSET DOMAIN list,
         NEW m \in places, \A i \in places : m <= i
  PROVE  /\ Cardinality(places \ {m}) = Cardinality(places) - 1
         /\ ItemsAt(list, places)[1] = list[m]
         /\ ItemsAt(list, places \ {m}) = SubSeq(ItemsAt(list, places), 2, Cardinality(places))
<1> DEFINE S == places \ {m}
           n == Cardinality(places)
           all == ItemsAt(list, places)
           rest == ItemsAt(list, S)
           before(i) == {j \in places : j < i}
           after(i) == {j \in S : j < i}
<1>0. Len(list) \in Nat /\ places \in SUBSET (1..Len(list)) /\ places \in SUBSET Nat /\ S \in SUBSET DOMAIN list
  OBVIOUS
<1>1. /\ IsFiniteSet(places) /\ n \in Nat /\ all \in Seq(T) /\ Len(all) = n
      /\ rest \in Seq(T) /\ Len(rest) = Cardinality(S)
  BY <1>0, ItemsAtAre
<1>2. Cardinality(S) = n - 1
  BY <1>1, FS_RemoveElement
<1>3. n >= 1
  BY <1>1, FS_EmptySet, FS_RemoveElement, <1>2, ItemsAtAre, <1>0
<1>4. all[1] = list[m]
  <2>1. before(m) = {}
    BY <1>0
  <2>2. Cardinality({}) = 0
    BY FS_EmptySet
  <2>3. all[Cardinality(before(m)) + 1] = list[m]
    BY ItemAtRank DEF Earlier
  <2>4. Cardinality(before(m)) + 1 = 1
    <3> HIDE DEF before
    <3> QED BY <2>1, <2>2
  <2> HIDE DEF all, before
  <2> QED BY <2>3, <2>4
<1>5. ASSUME NEW k \in 1..(n - 1) PROVE rest[k] = all[k + 1]
  <2>1. PICK i \in S : rest[k] = list[i] /\ Cardinality(after(i)) = k - 1
    <3>1. \A x \in 1..Cardinality(S) : \E y \in S : rest[x] = list[y] /\ Cardinality(after(y)) = x - 1
      <4> HIDE DEF S
      <4>1. \A x \in 1..Cardinality(S) : \E y \in S :
              ItemsAt(list, S)[x] = list[y] /\ Cardinality(Earlier(S, y)) = x - 1
        BY <1>0, ItemsAtAre
      <4> QED BY <4>1 DEF Earlier
    <3> HIDE DEF S, rest, after
    <3> QED BY <1>2, <1>5, <3>1
  <2>2. before(i) = after(i) \cup {m} /\ m \notin after(i)
    BY <1>0, <2>1
  <2>3. IsFiniteSet(after(i))
    <3>1. after(i) \in SUBSET places
      OBVIOUS
    <3> QED BY <1>1, <3>1, FS_Subset
  <2>4. Cardinality(before(i)) = Cardinality(after(i)) + 1
    <3> HIDE DEF before, after
    <3> QED BY <2>2, <2>3, FS_AddElement
  <2>5. all[Cardinality(before(i)) + 1] = list[i]
    BY ItemAtRank DEF Earlier
  <2> HIDE DEF all, before, after, rest
  <2>6. Cardinality(before(i)) + 1 = k + 1
    BY <2>1, <2>4
  <2> QED BY <2>1, <2>5, <2>6
<1> HIDE DEF all, rest, n, S
<1>6. rest = SubSeq(all, 2, n)
  <2> DEFINE tail == SubSeq(all, 2, n)
  <2>1. tail \in Seq(T) /\ Len(tail) = n - 1 /\ \A k \in 1..(n - 1) : tail[k] = all[k + 1]
    BY <1>1, <1>3
  <2> HIDE DEF tail
  <2>2. Len(rest) = n - 1
    BY <1>1, <1>2
  <2>3. \A k \in 1..Len(rest) : rest[k] = tail[k]
    BY <1>5, <2>1, <2>2
  <2>4. rest = tail
    BY <1>1, <2>1, <2>2, <2>3, SeqEqual
  <2> QED BY <2>4 DEF tail
<1> QED BY <1>2, <1>4, <1>6 DEF all, rest, n, S

\* One place more is counted if it is one of them.
LEMMA CountStep ==
  ASSUME NEW n \in Nat, NEW S \in SUBSET (1..n), NEW i \in Nat
  PROVE  /\ IsFiniteSet(S) /\ Cardinality(S) \in Nat
         /\ Cardinality(Earlier(S, i)) \in 0..Cardinality(S)
         /\ Cardinality(Earlier(S, i + 1)) = Cardinality(Earlier(S, i)) + (IF i \in S THEN 1 ELSE 0)
         /\ i <= 1 => Cardinality(Earlier(S, i)) = 0
         /\ i > n => Cardinality(Earlier(S, i)) = Cardinality(S)
<1>1. IsFiniteSet(S) /\ Cardinality(S) \in Nat
  BY PlacesOrdered
<1>0. \A j \in S : j \in Int /\ 1 <= j /\ j <= n
  OBVIOUS
<1>2. Earlier(S, i) \subseteq S
  BY DEF Earlier
<1>3. /\ IsFiniteSet(Earlier(S, i)) /\ Cardinality(Earlier(S, i)) \in Nat
      /\ Cardinality(Earlier(S, i)) <= Cardinality(S)
  BY <1>1, <1>2, FS_Subset, FS_CardinalityType
<1>4. Cardinality(Earlier(S, i + 1)) = Cardinality(Earlier(S, i)) + (IF i \in S THEN 1 ELSE 0)
  <2>1. \A j \in S : j < i + 1 <=> j < i \/ j = i
    BY <1>0
  <2>2. CASE i \in S
    <3>1. Earlier(S, i + 1) = Earlier(S, i) \cup {i}
      BY <2>1, <2>2 DEF Earlier
    <3>2. i \notin Earlier(S, i)
      BY DEF Earlier
    <3> QED BY <1>3, <2>2, <3>1, <3>2, FS_AddElement
  <2>3. CASE i \notin S
    <3>1. \A j \in S : j < i + 1 <=> j < i
      BY <2>1, <2>3
    <3>2. Earlier(S, i + 1) = Earlier(S, i)
      BY <3>1 DEF Earlier
    <3> QED BY <1>3, <2>3, <3>2
  <2> QED BY <2>2, <2>3
<1>5. ASSUME i <= 1 PROVE Cardinality(Earlier(S, i)) = 0
  <2>1. \A j \in S : ~(j < i)
    BY <1>0, <1>5
  <2>2. Earlier(S, i) = {}
    BY <2>1 DEF Earlier
  <2> QED BY <2>2, FS_EmptySet
<1>6. ASSUME i > n PROVE Earlier(S, i) = S
  <2>1. \A j \in S : j < i
    BY <1>0, <1>6
  <2> QED BY <2>1 DEF Earlier
<1> QED BY <1>1, <1>3, <1>4, <1>5, <1>6

\* More places are before a later one.
LEMMA CountGrows ==
  ASSUME NEW n \in Nat, NEW S \in SUBSET (1..n), NEW i \in Nat, NEW m \in Nat, i <= m
  PROVE  Cardinality(Earlier(S, i)) <= Cardinality(Earlier(S, m))
<1>0. \A j \in S : j \in Int
  OBVIOUS
<1>1. Earlier(S, i) \subseteq Earlier(S, m) /\ Earlier(S, m) \subseteq S
  <2>1. \A j \in S : j < i => j < m
    BY <1>0
  <2> QED BY <2>1 DEF Earlier
<1>2. IsFiniteSet(S)
  BY CountStep
<1>3. IsFiniteSet(Earlier(S, m))
  BY <1>1, <1>2, FS_Subset
<1> QED BY <1>1, <1>3, FS_Subset

\* An item is appended for a place behind all others.
LEMMA ItemsAtMore ==
  ASSUME NEW T, NEW list \in Seq(T), NEW places \in SUBSET DOMAIN list, NEW m \in DOMAIN list, \A i \in places : i < m
  PROVE  ItemsAt(list, places \cup {m}) = Append(ItemsAt(list, places), list[m])
<1> DEFINE more == places \cup {m}
           n == Cardinality(places)
           old == ItemsAt(list, places)
           new == ItemsAt(list, more)
<1>1. /\ IsFiniteSet(places) /\ n \in Nat /\ old \in Seq(T) /\ Len(old) = n
      /\ \A k \in 1..n : \E i \in places : old[k] = list[i] /\ Cardinality(Earlier(places, i)) = k - 1
  BY ItemsAtAre
<1>2. m \in Int /\ \A i \in places : i \in Int
  OBVIOUS
<1>3. m \notin places /\ Cardinality(more) = n + 1
  <2>1. m \notin places
    BY <1>2
  <2> QED BY <1>1, <2>1, FS_AddElement
<1>4. more \in SUBSET DOMAIN list
  OBVIOUS
<1>5. Earlier(more, m) = places
  BY <1>2 DEF Earlier
<1>6. ASSUME NEW i \in places PROVE Earlier(more, i) = Earlier(places, i)
  <2>1. ~(m < i)
    BY <1>2, <1>6
  <2> QED BY <2>1 DEF Earlier
<1> HIDE DEF more
<1>7. new \in Seq(T) /\ Len(new) = n + 1
  BY <1>3, <1>4, ItemsAtAre
<1>8. \A i \in more : new[Cardinality(Earlier(more, i)) + 1] = list[i]
  BY <1>4, ItemAtRank
<1>9. new[n + 1] = list[m]
  BY <1>5, <1>8 DEF more
<1>10. ASSUME NEW k \in 1..n PROVE new[k] = old[k]
  <2>1. PICK i \in places : old[k] = list[i] /\ Cardinality(Earlier(places, i)) = k - 1
    BY <1>1, <1>10
  <2>2. Earlier(more, i) = Earlier(places, i) /\ i \in more
    BY <1>6 DEF more
  <2>3. new[(k - 1) + 1] = list[i]
    BY <1>8, <2>1, <2>2
  <2>4. (k - 1) + 1 = k
    OBVIOUS
  <2> QED BY <2>1, <2>3, <2>4
<1> DEFINE plus == Append(old, list[m])
<1>11. /\ plus \in Seq(T) /\ Len(plus) = n + 1 /\ plus[n + 1] = list[m]
       /\ \A k \in 1..n : plus[k] = old[k]
  <2>1. list[m] \in T
    OBVIOUS
  <2> HIDE DEF old, n
  <2> QED BY <1>1, <2>1
<1> HIDE DEF old, new, plus, n
<1>12. \A k \in 1..(n + 1) : new[k] = plus[k]
  BY <1>1, <1>9, <1>10, <1>11
<1>13. new = plus
  BY <1>1, <1>7, <1>11, <1>12, SeqEqual
<1> QED BY <1>13 DEF old, new, plus, more

\* The places of no items are none.
LEMMA NoItems ==
  ASSUME NEW T, NEW list \in Seq(T), NEW places \in SUBSET DOMAIN list
  PROVE  ItemsAt(list, places) = << >> <=> places = {}
<1>1. IsFiniteSet(places) /\ ItemsAt(list, places) \in Seq(T) /\ Len(ItemsAt(list, places)) = Cardinality(places)
  BY ItemsAtAre
<1>2. ItemsAt(list, places) = << >> <=> Len(ItemsAt(list, places)) = 0
  BY <1>1
<1>3. Cardinality(places) = 0 <=> places = {}
  BY <1>1, FS_EmptySet
<1> QED BY <1>1, <1>2, <1>3

-----------------------------------------------------------------------------
(* The pages of a list                                                     *)

\* Fewer pages hold no more items.
LEMMA ProductGrows ==
  ASSUME NEW a \in Int, NEW b \in Int, NEW size \in Nat, a <= b
  PROVE  a * size \in Int /\ b * size \in Int /\ a * size <= b * size
OBVIOUS

\* All pages but the last are full, and the last is not empty.
LEMMA CeilingIs ==
  ASSUME NEW total \in Nat, NEW size \in Nat \ {0}
  PROVE  /\ Ceiling(total, size) \in Nat
         /\ Ceiling(total, size) = 0 <=> total = 0
         /\ total <= Ceiling(total, size) * size
         /\ (Ceiling(total, size) - 1) * size < total \/ total = 0
<1> DEFINE c == Ceiling(total, size)
           r == (total + size - 1) % size
<1>1. c \in Int /\ r \in 0..(size - 1) /\ total + size - 1 = size * c + r
  BY DEF Ceiling
<1> HIDE DEF c, r
<1>2. c * size \in Int /\ (c - 1) * size = c * size - size /\ size * c = c * size
  BY <1>1
<1>3. total <= c * size /\ (c - 1) * size < total + (IF total = 0 THEN 1 ELSE 0)
  BY <1>1, <1>2
<1>4. c >= 0
  <2> SUFFICES ASSUME c <= -1 PROVE FALSE
    BY <1>1
  <2>1. c * size <= (-1) * size
    BY <1>1, ProductGrows
  <2> QED BY <1>1, <1>2, <2>1
<1>5. c = 0 => total = 0
  BY <1>2, <1>3
<1>6. ASSUME total = 0 PROVE c = 0
  <2> SUFFICES ASSUME c >= 1 PROVE FALSE
    BY <1>1, <1>4
  <2>1. 1 * size <= c * size
    BY <1>1, ProductGrows
  <2> QED BY <1>1, <1>2, <1>6, <2>1
<1> QED BY <1>1, <1>3, <1>4, <1>5, <1>6 DEF c

\* Where a page begins and ends.
LEMMA PageOf ==
  ASSUME NEW total \in Nat, NEW size \in Nat \ {0}, NEW n \in Nat \ {0}
  PROVE  LET p == getPaymentPagination(total, size, n)
         IN  /\ p.totalPages = Ceiling(total, size) /\ p.totalPages \in Nat
             /\ p.pages = pageSlots(p.totalPages, p.currentPage)
             /\ total = 0 => p.totalPages = 0 /\ p.currentPage = 0 /\ p.startIndex = 0 /\ p.endIndex = 0
             /\ total > 0 =>
                  /\ p.totalPages >= 1 /\ p.currentPage \in 1..p.totalPages
                  /\ p.currentPage = Smaller(n, p.totalPages)
                  /\ p.startIndex = (p.currentPage - 1) * size /\ p.startIndex \in Nat
                  /\ p.endIndex = Smaller(p.startIndex + size, total)
                  /\ p.startIndex < p.endIndex /\ p.endIndex <= total
                  /\ p.currentPage = p.totalPages => p.endIndex = total
                  /\ p.currentPage < p.totalPages => p.endIndex = p.currentPage * size
<1> DEFINE c == Ceiling(total, size)
           cur == IF c = 0 THEN 0 ELSE Smaller(n, c)
           start == IF cur = 0 THEN 0 ELSE (cur - 1) * size
           end == Smaller(start + size, total)
<1>1. getPaymentPagination(total, size, n) =
        [currentPage |-> cur, totalPages |-> c, startIndex |-> start, endIndex |-> end, pages |-> pageSlots(c, cur)]
  BY DEF getPaymentPagination
<1>2. /\ c \in Nat /\ (c = 0 <=> total = 0) /\ total <= c * size
      /\ (c - 1) * size < total \/ total = 0
  BY CeilingIs
<1>3. total = 0 => cur = 0 /\ start = 0 /\ end = 0
  BY <1>2 DEF Smaller
<1>4. ASSUME total > 0
      PROVE  /\ c >= 1 /\ cur \in 1..c /\ cur = Smaller(n, c) /\ start = (cur - 1) * size /\ start \in Nat
             /\ start < end /\ end <= total
             /\ cur = c => end = total
             /\ cur < c => end = cur * size
  <2>1. c >= 1 /\ cur \in 1..c /\ cur = Smaller(n, c) /\ start = (cur - 1) * size
    <3> HIDE DEF c
    <3> QED BY <1>2, <1>4 DEF Smaller
  <2> HIDE DEF c, cur, start
  <2>2. /\ (cur - 1) * size \in Int /\ cur * size \in Int /\ c * size \in Int /\ (c - 1) * size \in Int
        /\ cur * size = (cur - 1) * size + size /\ c * size = (c - 1) * size + size
    BY <1>2, <2>1
  <2>3. 0 * size <= (cur - 1) * size /\ (cur - 1) * size <= (c - 1) * size
    BY <1>2, <2>1, ProductGrows
  <2>4. start \in Nat /\ start < total
    BY <1>2, <1>4, <2>1, <2>2, <2>3
  <2>5. start < end /\ end <= total
    BY <2>4 DEF Smaller
  <2>6. ASSUME cur = c PROVE end = total
    <3>1. start + size = c * size
      BY <2>1, <2>2, <2>6
    <3> QED BY <1>2, <2>2, <2>4, <3>1 DEF Smaller
  <2>7. ASSUME cur < c PROVE end = cur * size
    <3>1. cur * size <= (c - 1) * size
      BY <1>2, <2>1, <2>7, ProductGrows
    <3>2. start + size = cur * size /\ cur * size < total
      BY <1>2, <1>4, <2>1, <2>2, <3>1
    <3> QED BY <2>2, <3>2 DEF Smaller
  <2> QED BY <2>1, <2>4, <2>5, <2>6, <2>7
<1> HIDE DEF c, cur, start, end
<1>5. LET p == getPaymentPagination(total, size, n)
      IN  /\ p.totalPages = c /\ p.currentPage = cur /\ p.startIndex = start /\ p.endIndex = end
          /\ p.pages = pageSlots(c, cur)
  BY <1>1
<1> QED BY <1>2, <1>3, <1>4, <1>5 DEF c, end

-----------------------------------------------------------------------------
(* The page numbers                                                        *)

\* Up to seven pages have their number each.
LEMMA FewSlots ==
  ASSUME NEW total \in 0..7, NEW current \in 0..total
  PROVE  SlotsComplete(pageSlots(total, current), total, current)
<1>1. pageSlots(total, current) = [i \in 1..total |-> i]
  <2>1. pageSlots(total, current) = UpTo(1, total)
    BY DEF pageSlots
  <2>2. Larger(0, total - 1 + 1) = total /\ \A i \in 1..total : 1 + i - 1 = i
    BY DEF Larger
  <2> QED BY <2>1, <2>2 DEF UpTo
<1> DEFINE slots == [i \in 1..total |-> i]
<1>2. slots \in Seq(Nat) /\ Len(slots) = total /\ DOMAIN slots = 1..total /\ \A i \in 1..total : slots[i] = i
  OBVIOUS
<1> HIDE DEF slots
<1>3. ToSet(slots) \ {Ellipsis} = 1..total
  BY <1>2 DEF ToSet, Ellipsis
<1>4. SlotsComplete(slots, total, current)
  BY <1>2, <1>3 DEF SlotsComplete, Ellipsis
<1> QED BY <1>1, <1>4 DEF slots

\* What two sequences are when they are joined.
LEMMA JoinIs ==
  ASSUME NEW x \in Seq(Int), NEW y \in Seq(Int), NEW z \in Seq(Int), Len(z) = Len(x) + Len(y),
         \A i \in 1..Len(x) : z[i] = x[i], \A i \in 1..Len(y) : z[Len(x) + i] = y[i]
  PROVE  x \o y = z
<1>1. /\ x \o y \in Seq(Int) /\ Len(x \o y) = Len(x) + Len(y)
      /\ \A i \in 1..(Len(x) + Len(y)) : (x \o y)[i] = IF i <= Len(x) THEN x[i] ELSE y[i - Len(x)]
  BY ConcatProperties
<1> DEFINE w == x \o y
<1> HIDE DEF w
<1>2. ASSUME NEW i \in 1..Len(z) PROVE w[i] = z[i]
  <2>1. CASE i <= Len(x)
    BY <1>1, <2>1 DEF w
  <2>2. CASE ~(i <= Len(x))
    <3>1. i - Len(x) \in 1..Len(y) /\ Len(x) + (i - Len(x)) = i
      BY <2>2
    <3> QED BY <1>1, <2>2, <3>1 DEF w
  <2> QED BY <2>1, <2>2
<1>3. w = z
  BY <1>1, <1>2, SeqEqual DEF w
<1> QED BY <1>3 DEF w

\* How the parts of the slots are joined.
LEMMA Joined ==
  ASSUME NEW t, \A i \in 1..7 : t[i] \in Int
  PROVE  /\ <<t[1]>> \o << >> \o <<t[2], t[3], t[4]>> \o <<t[5]>> \o <<t[6]>>
              = <<t[1], t[2], t[3], t[4], t[5], t[6]>>
         /\ <<t[1]>> \o <<t[2]>> \o <<t[3], t[4], t[5]>> \o << >> \o <<t[6]>>
              = <<t[1], t[2], t[3], t[4], t[5], t[6]>>
         /\ <<t[1]>> \o <<t[2]>> \o <<t[3], t[4], t[5]>> \o <<t[6]>> \o <<t[7]>>
              = <<t[1], t[2], t[3], t[4], t[5], t[6], t[7]>>
<1> DEFINE a == t[1]
           b == t[2]
           c == t[3]
           d == t[4]
           e == t[5]
           f == t[6]
           g == t[7]
<1>0. {a, b, c, d, e, f, g} \subseteq Int
  OBVIOUS
<1> HIDE DEF a, b, c, d, e, f, g
<1>1. <<a>> \o << >> = <<a>>
  <2> DEFINE x == <<a>>
             y == << >>
             z == <<a>>
  <2>1. x \in Seq(Int) /\ y \in Seq(Int) /\ z \in Seq(Int) /\ Len(z) = Len(x) + Len(y)
    BY <1>0
  <2>2. \A i \in 1..Len(x) : z[i] = x[i]
    OBVIOUS
  <2>3. \A i \in 1..Len(y) : z[Len(x) + i] = y[i]
    OBVIOUS
  <2> HIDE DEF x, y, z
  <2>4. x \o y = z
    BY <2>1, <2>2, <2>3, JoinIs
  <2> QED BY <2>4 DEF x, y, z
<1>2. <<a>> \o <<b>> = <<a, b>>
  <2> DEFINE x == <<a>>
             y == <<b>>
             z == <<a, b>>
  <2>1. x \in Seq(Int) /\ y \in Seq(Int) /\ z \in Seq(Int) /\ Len(z) = Len(x) + Len(y)
    BY <1>0
  <2>2. \A i \in 1..Len(x) : z[i] = x[i]
    OBVIOUS
  <2>3. \A i \in 1..Len(y) : z[Len(x) + i] = y[i]
    OBVIOUS
  <2> HIDE DEF x, y, z
  <2>4. x \o y = z
    BY <2>1, <2>2, <2>3, JoinIs
  <2> QED BY <2>4 DEF x, y, z
<1>3. <<a>> \o <<b, c, d>> = <<a, b, c, d>>
  <2> DEFINE x == <<a>>
             y == <<b, c, d>>
             z == <<a, b, c, d>>
  <2>1. x \in Seq(Int) /\ y \in Seq(Int) /\ z \in Seq(Int) /\ Len(z) = Len(x) + Len(y)
    BY <1>0
  <2>2. \A i \in 1..Len(x) : z[i] = x[i]
    OBVIOUS
  <2>3. \A i \in 1..Len(y) : z[Len(x) + i] = y[i]
    OBVIOUS
  <2> HIDE DEF x, y, z
  <2>4. x \o y = z
    BY <2>1, <2>2, <2>3, JoinIs
  <2> QED BY <2>4 DEF x, y, z
<1>4. <<a, b>> \o <<c, d, e>> = <<a, b, c, d, e>>
  <2> DEFINE x == <<a, b>>
             y == <<c, d, e>>
             z == <<a, b, c, d, e>>
  <2>1. x \in Seq(Int) /\ y \in Seq(Int) /\ z \in Seq(Int) /\ Len(z) = Len(x) + Len(y)
    BY <1>0
  <2>2. \A i \in 1..Len(x) : z[i] = x[i]
    OBVIOUS
  <2>3. \A i \in 1..Len(y) : z[Len(x) + i] = y[i]
    OBVIOUS
  <2> HIDE DEF x, y, z
  <2>4. x \o y = z
    BY <2>1, <2>2, <2>3, JoinIs
  <2> QED BY <2>4 DEF x, y, z
<1>5. <<a, b, c, d>> \o <<e>> = <<a, b, c, d, e>>
  <2> DEFINE x == <<a, b, c, d>>
             y == <<e>>
             z == <<a, b, c, d, e>>
  <2>1. x \in Seq(Int) /\ y \in Seq(Int) /\ z \in Seq(Int) /\ Len(z) = Len(x) + Len(y)
    BY <1>0
  <2>2. \A i \in 1..Len(x) : z[i] = x[i]
    OBVIOUS
  <2>3. \A i \in 1..Len(y) : z[Len(x) + i] = y[i]
    OBVIOUS
  <2> HIDE DEF x, y, z
  <2>4. x \o y = z
    BY <2>1, <2>2, <2>3, JoinIs
  <2> QED BY <2>4 DEF x, y, z
<1>6. <<a, b, c, d, e>> \o << >> = <<a, b, c, d, e>>
  <2> DEFINE x == <<a, b, c, d, e>>
             y == << >>
             z == <<a, b, c, d, e>>
  <2>1. x \in Seq(Int) /\ y \in Seq(Int) /\ z \in Seq(Int) /\ Len(z) = Len(x) + Len(y)
    BY <1>0
  <2>2. \A i \in 1..Len(x) : z[i] = x[i]
    OBVIOUS
  <2>3. \A i \in 1..Len(y) : z[Len(x) + i] = y[i]
    OBVIOUS
  <2> HIDE DEF x, y, z
  <2>4. x \o y = z
    BY <2>1, <2>2, <2>3, JoinIs
  <2> QED BY <2>4 DEF x, y, z
<1>7. <<a, b, c, d, e>> \o <<f>> = <<a, b, c, d, e, f>>
  <2> DEFINE x == <<a, b, c, d, e>>
             y == <<f>>
             z == <<a, b, c, d, e, f>>
  <2>1. x \in Seq(Int) /\ y \in Seq(Int) /\ z \in Seq(Int) /\ Len(z) = Len(x) + Len(y)
    BY <1>0
  <2>2. \A i \in 1..Len(x) : z[i] = x[i]
    OBVIOUS
  <2>3. \A i \in 1..Len(y) : z[Len(x) + i] = y[i]
    OBVIOUS
  <2> HIDE DEF x, y, z
  <2>4. x \o y = z
    BY <2>1, <2>2, <2>3, JoinIs
  <2> QED BY <2>4 DEF x, y, z
<1>8. <<a, b, c, d, e, f>> \o <<g>> = <<a, b, c, d, e, f, g>>
  <2> DEFINE x == <<a, b, c, d, e, f>>
             y == <<g>>
             z == <<a, b, c, d, e, f, g>>
  <2>1. x \in Seq(Int) /\ y \in Seq(Int) /\ z \in Seq(Int) /\ Len(z) = Len(x) + Len(y)
    BY <1>0
  <2>2. \A i \in 1..Len(x) : z[i] = x[i]
    OBVIOUS
  <2>3. \A i \in 1..Len(y) : z[Len(x) + i] = y[i]
    OBVIOUS
  <2> HIDE DEF x, y, z
  <2>4. x \o y = z
    BY <2>1, <2>2, <2>3, JoinIs
  <2> QED BY <2>4 DEF x, y, z
<1>9. /\ <<a>> \o << >> \o <<b, c, d>> \o <<e>> \o <<f>> = <<a, b, c, d, e, f>>
      /\ <<a>> \o <<b>> \o <<c, d, e>> \o << >> \o <<f>> = <<a, b, c, d, e, f>>
      /\ <<a>> \o <<b>> \o <<c, d, e>> \o <<f>> \o <<g>> = <<a, b, c, d, e, f, g>>
  BY <1>1, <1>2, <1>3, <1>4, <1>5, <1>6, <1>7, <1>8
<1> QED BY <1>9 DEF a, b, c, d, e, f, g

\* Of more pages the first, the last and those around the current.
LEMMA ManySlots ==
  ASSUME NEW total \in Nat, total > 7, NEW current \in 1..total
  PROVE  pageSlots(total, current) =
           IF current <= 3 THEN <<1, 2, 3, 4, Ellipsis, total>>
           ELSE IF current >= total - 2 THEN <<1, Ellipsis, total - 3, total - 2, total - 1, total>>
           ELSE <<1, Ellipsis, current - 1, current, current + 1, Ellipsis, total>>
<1> DEFINE first == Larger(2, Smaller(current - 1, total - 3))
           last  == Smaller(total - 1, Larger(current + 1, 4))
<1>1. pageSlots(total, current) =
        <<1>> \o (IF first > 2 THEN <<Ellipsis>> ELSE << >>) \o UpTo(first, last)
              \o (IF last < total - 1 THEN <<Ellipsis>> ELSE << >>) \o <<total>>
  BY DEF pageSlots
<1>2. /\ current <= 3 => first = 2 /\ last = 4
      /\ current >= total - 2 => first = total - 3 /\ last = total - 1
      /\ current > 3 /\ current < total - 2 => first = current - 1 /\ last = current + 1
  BY DEF Larger, Smaller
<1>3. ASSUME NEW a \in Int PROVE UpTo(a, a + 2) = <<a, a + 1, a + 2>>
  BY DEF UpTo, Larger
<1> HIDE DEF first, last
<1>4. CASE current <= 3
  <2>1. first = 2 /\ last = 4 /\ ~(first > 2) /\ last < total - 1
    BY <1>2, <1>4
  <2>2. UpTo(first, last) = <<2, 3, 4>>
    <3>1. UpTo(2, 2 + 2) = <<2, 2 + 1, 2 + 2>>
      BY <1>3
    <3> QED BY <2>1, <3>1
  <2>3. pageSlots(total, current) = <<1>> \o << >> \o <<2, 3, 4>> \o <<Ellipsis>> \o <<total>>
    BY <1>1, <2>1, <2>2
  <2>4. <<1>> \o << >> \o <<2, 3, 4>> \o <<Ellipsis>> \o <<total>> = <<1, 2, 3, 4, Ellipsis, total>>
    <3> DEFINE t == <<1, 2, 3, 4, Ellipsis, total, 0>>
    <3>1. t[1] = 1 /\ t[2] = 2 /\ t[3] = 3 /\ t[4] = 4 /\ t[5] = Ellipsis /\ t[6] = total /\ t[7] = 0
      OBVIOUS
    <3> HIDE DEF t
    <3>2. \A i \in 1..7 : t[i] \in Int
      BY <3>1 DEF Ellipsis
    <3>3. <<t[1]>> \o << >> \o <<t[2], t[3], t[4]>> \o <<t[5]>> \o <<t[6]>> = <<t[1], t[2], t[3], t[4], t[5], t[6]>>
      BY <3>2, Joined
    <3> QED BY <3>1, <3>3
  <2> QED BY <1>4, <2>3, <2>4
<1>5. CASE current >= total - 2
  <2>1. first = total - 3 /\ last = (total - 3) + 2 /\ first > 2 /\ ~(last < total - 1) /\ ~(current <= 3)
    BY <1>2, <1>5
  <2>2. UpTo(first, last) = <<total - 3, total - 2, total - 1>>
    <3>1. UpTo(total - 3, (total - 3) + 2) = <<total - 3, (total - 3) + 1, (total - 3) + 2>>
      BY <1>3
    <3>2. (total - 3) + 1 = total - 2 /\ (total - 3) + 2 = total - 1
      OBVIOUS
    <3> QED BY <2>1, <3>1, <3>2
  <2>3. pageSlots(total, current) = <<1>> \o <<Ellipsis>> \o <<total - 3, total - 2, total - 1>> \o << >> \o <<total>>
    BY <1>1, <2>1, <2>2
  <2>4. <<1>> \o <<Ellipsis>> \o <<total - 3, total - 2, total - 1>> \o << >> \o <<total>>
          = <<1, Ellipsis, total - 3, total - 2, total - 1, total>>
    <3> DEFINE t == <<1, Ellipsis, total - 3, total - 2, total - 1, total, 0>>
    <3>1. t[1] = 1 /\ t[2] = Ellipsis /\ t[3] = total - 3 /\ t[4] = total - 2 /\ t[5] = total - 1 /\ t[6] = total /\ t[7] = 0
      OBVIOUS
    <3> HIDE DEF t
    <3>2. \A i \in 1..7 : t[i] \in Int
      BY <3>1 DEF Ellipsis
    <3>3. <<t[1]>> \o <<t[2]>> \o <<t[3], t[4], t[5]>> \o << >> \o <<t[6]>> = <<t[1], t[2], t[3], t[4], t[5], t[6]>>
      BY <3>2, Joined
    <3> QED BY <3>1, <3>3
  <2> QED BY <1>5, <2>1, <2>3, <2>4
<1>6. CASE current > 3 /\ current < total - 2
  <2>1. first = current - 1 /\ last = (current - 1) + 2 /\ first > 2 /\ last < total - 1
        /\ ~(current <= 3) /\ ~(current >= total - 2)
    BY <1>2, <1>6
  <2>2. UpTo(first, last) = <<current - 1, current, current + 1>>
    <3>1. UpTo(current - 1, (current - 1) + 2) = <<current - 1, (current - 1) + 1, (current - 1) + 2>>
      BY <1>3
    <3>2. (current - 1) + 1 = current /\ (current - 1) + 2 = current + 1
      OBVIOUS
    <3> QED BY <2>1, <3>1, <3>2
  <2>3. pageSlots(total, current)
          = <<1>> \o <<Ellipsis>> \o <<current - 1, current, current + 1>> \o <<Ellipsis>> \o <<total>>
    BY <1>1, <2>1, <2>2
  <2>4. <<1>> \o <<Ellipsis>> \o <<current - 1, current, current + 1>> \o <<Ellipsis>> \o <<total>>
          = <<1, Ellipsis, current - 1, current, current + 1, Ellipsis, total>>
    <3> DEFINE t == <<1, Ellipsis, current - 1, current, current + 1, Ellipsis, total>>
    <3>1. t[1] = 1 /\ t[2] = Ellipsis /\ t[3] = current - 1 /\ t[4] = current /\ t[5] = current + 1 /\ t[6] = Ellipsis /\ t[7] = total
      OBVIOUS
    <3> HIDE DEF t
    <3>2. \A i \in 1..7 : t[i] \in Int
      BY <3>1 DEF Ellipsis
    <3>3. <<t[1]>> \o <<t[2]>> \o <<t[3], t[4], t[5]>> \o <<t[6]>> \o <<t[7]>> = <<t[1], t[2], t[3], t[4], t[5], t[6], t[7]>>
      BY <3>2, Joined
    <3> QED BY <3>1, <3>3
  <2> QED BY <2>1, <2>3, <2>4
<1> QED BY <1>4, <1>5, <1>6

LEMMA SlotsAreComplete ==
  ASSUME NEW total \in Nat, NEW current \in 0..total, total > 0 => current > 0
  PROVE  SlotsComplete(pageSlots(total, current), total, current)
<1>1. CASE total <= 7
  BY <1>1, FewSlots
<1>2. CASE total > 7 /\ current <= 3
  <2> DEFINE slots == <<1, 2, 3, 4, 0, total>>
  <2>1. /\ pageSlots(total, current) = slots /\ Len(slots) = 6 /\ DOMAIN slots = 1..6
        /\ slots[1] = 1 /\ slots[2] = 2 /\ slots[3] = 3 /\ slots[4] = 4 /\ slots[5] = 0 /\ slots[6] = total
    BY <1>2, ManySlots DEF Ellipsis
  <2> HIDE DEF slots
  <2>2. ToSet(slots) = {1, 2, 3, 4, 0, total}
    BY <2>1 DEF ToSet
  <2>3. SlotsComplete(slots, total, current)
    BY <1>2, <2>1, <2>2 DEF SlotsComplete, Ellipsis
  <2> QED BY <2>1, <2>3
<1>3. CASE total > 7 /\ current >= total - 2
  <2> DEFINE slots == <<1, 0, total - 3, total - 2, total - 1, total>>
  <2>1. /\ pageSlots(total, current) = slots /\ Len(slots) = 6 /\ DOMAIN slots = 1..6
        /\ slots[1] = 1 /\ slots[2] = 0 /\ slots[3] = total - 3 /\ slots[4] = total - 2
        /\ slots[5] = total - 1 /\ slots[6] = total
    BY <1>3, ManySlots DEF Ellipsis
  <2> HIDE DEF slots
  <2>2. ToSet(slots) = {1, 0, total - 3, total - 2, total - 1, total}
    BY <2>1 DEF ToSet
  <2>3. SlotsComplete(slots, total, current)
    BY <1>3, <2>1, <2>2 DEF SlotsComplete, Ellipsis
  <2> QED BY <2>1, <2>3
<1>4. CASE total > 7 /\ current > 3 /\ current < total - 2
  <2> DEFINE slots == <<1, 0, current - 1, current, current + 1, 0, total>>
  <2>1. /\ pageSlots(total, current) = slots /\ Len(slots) = 7 /\ DOMAIN slots = 1..7
        /\ slots[1] = 1 /\ slots[2] = 0 /\ slots[3] = current - 1 /\ slots[4] = current
        /\ slots[5] = current + 1 /\ slots[6] = 0 /\ slots[7] = total
    BY <1>4, ManySlots DEF Ellipsis
  <2> HIDE DEF slots
  <2>2. ToSet(slots) = {1, 0, current - 1, current, current + 1, total}
    BY <2>1 DEF ToSet
  <2>3. SlotsComplete(slots, total, current)
    BY <1>4, <2>1, <2>2 DEF SlotsComplete, Ellipsis
  <2> QED BY <2>1, <2>3
<1> QED BY <1>1, <1>2, <1>3, <1>4

\* A slot that is not an ellipsis is a page.
LEMMA SlotsArePages ==
  ASSUME NEW total \in Nat, NEW current \in 0..total, total > 0 => current > 0
  PROVE  ToSet(pageSlots(total, current)) \ {Ellipsis} \subseteq 1..total
BY SlotsAreComplete DEF SlotsComplete

=============================================================================
