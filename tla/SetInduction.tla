---------------------------- MODULE SetInduction ----------------------------
(***************************************************************************)
(* Induction over the naturals stated with sets instead of predicates: the *)
(* proofs about the functions that walk a list (_purge_job_start_req, the  *)
(* suspensions of a job in mysql_hourly_rollup) rest on it.                *)
(***************************************************************************)
EXTENDS Integers, SeqOps, WellFoundedInduction, TLAPS

\* Every nonempty set of naturals has a least member.
LEMMA NatMin ==
  ASSUME NEW T, T \subseteq Nat, T # {}
  PROVE  \E x \in T : \A y \in T : x <= y
<1> DEFINE R == OpToRel(<, Nat)
<1>1. IsWellFoundedOn(R, Nat)
  BY NatLessThanWellFounded
<1>2. \E x \in T : \A y \in T : ~ (<<y, x>> \in R)
  <2> HIDE DEF R
  <2> QED BY <1>1, WFMin
<1>3. \A x, y \in Nat : x < y => <<x, y>> \in R
  BY DEF OpToRel
<1> QED
  <2> HIDE DEF R
  <2>1. PICK x \in T : \A y \in T : ~ (<<y, x>> \in R)
    BY <1>2
  <2>2. \A y \in T : ~(y < x)
    BY <2>1, <1>3
  <2> QED BY <2>2

\* A set of naturals with 0 that is closed under successor is all of them.
LEMMA NatBySets ==
  ASSUME NEW T, T \subseteq Nat, 0 \in T, \A n \in Nat : n \in T => n+1 \in T
  PROVE  T = Nat
<1>1. SUFFICES ASSUME Nat \ T # {} PROVE FALSE
  OBVIOUS
<1>2. PICK x \in Nat \ T : \A y \in Nat \ T : x <= y
  <2>1. Nat \ T \subseteq Nat  OBVIOUS
  <2> QED BY <1>1, <2>1, NatMin
<1>3. x # 0 /\ x - 1 \in Nat /\ x - 1 \in T
  BY <1>2
<1> QED BY <1>2, <1>3

-----------------------------------------------------------------------------
(* Running totals: the recursive functions f[k \in 0..n] == IF k = 0 THEN 0 *)
(* ELSE f[k-1] + w[k] in which the models write a loop that adds up rows.  *)

IsSum(f, w, n) == f = [k \in 0..n |-> IF k = 0 THEN 0 ELSE f[k-1] + w[k]]

LEMMA SumSteps ==
  ASSUME NEW n \in Nat, NEW w, NEW f, IsSum(f, w, n)
  PROVE  f[0] = 0 /\ \A k \in 1..n : f[k] = f[k-1] + w[k]
<1>1. ASSUME NEW i \in 0..n PROVE f[i] = IF i = 0 THEN 0 ELSE f[i-1] + w[i]
  BY DEF IsSum
<1>2. f[0] = 0
  BY <1>1
<1>3. ASSUME NEW k \in 1..n PROVE f[k] = f[k-1] + w[k]
  <2>1. k \in 0..n /\ k # 0
    OBVIOUS
  <2> QED BY <1>1, <2>1
<1> QED BY <1>2, <1>3

LEMMA SumExists ==
  ASSUME NEW n \in Nat, NEW w
  PROVE  \E f : IsSum(f, w, n)
<1> DEFINE T == {m \in Nat : \E g : IsSum(g, w, m)}
<1>1. 0 \in T
  <2>1. IsSum([k \in 0..0 |-> 0], w, 0)
    BY DEF IsSum
  <2> QED BY <2>1
<1>2. ASSUME NEW m \in Nat, m \in T PROVE m + 1 \in T
  <2>1. PICK g : IsSum(g, w, m)
    BY <1>2
  <2> DEFINE h == [i \in 0..(m+1) |-> IF i <= m THEN g[i] ELSE g[m] + w[m+1]]
  <2>2. g[0] = 0 /\ \A k \in 1..m : g[k] = g[k-1] + w[k]
    BY <2>1, SumSteps
  <2>3. \A i \in 0..(m+1) : h[i] = IF i = 0 THEN 0 ELSE h[i-1] + w[i]
    <3> SUFFICES ASSUME NEW i \in 0..(m+1) PROVE h[i] = IF i = 0 THEN 0 ELSE h[i-1] + w[i]
      OBVIOUS
    <3>1. CASE i = 0
      BY <2>2, <3>1
    <3>2. CASE i \in 1..m
      BY <2>2, <3>2
    <3>3. CASE i = m + 1
      BY <3>3
    <3> QED BY <3>1, <3>2, <3>3
  <2>4. IsSum(h, w, m+1)
    BY <2>3 DEF IsSum
  <2> QED BY <2>4
<1>3. T \subseteq Nat
  OBVIOUS
<1> HIDE DEF T
<1>4. T = Nat
  BY <1>1, <1>2, <1>3, NatBySets
<1> QED BY <1>4 DEF T

\* Totals of the same weights are the same.
LEMMA SumUnique ==
  ASSUME NEW n \in Nat, NEW v, NEW w, NEW f, NEW g, NEW m \in Nat, n <= m,
         IsSum(f, v, n), IsSum(g, w, m), \A k \in 1..n : v[k] = w[k]
  PROVE  \A k \in 0..n : f[k] = g[k]
<1>1. /\ f[0] = 0 /\ \A k \in 1..n : f[k] = f[k-1] + v[k]
      /\ g[0] = 0 /\ \A k \in 1..m : g[k] = g[k-1] + w[k]
  BY SumSteps
<1> DEFINE T == {i \in Nat : i <= n => f[i] = g[i]}
<1>2. 0 \in T
  BY <1>1
<1>3. ASSUME NEW i \in Nat, i \in T PROVE i + 1 \in T
  BY <1>1, <1>3
<1>4. T \subseteq Nat
  OBVIOUS
<1> HIDE DEF T
<1>5. T = Nat
  BY <1>2, <1>3, <1>4, NatBySets
<1> QED BY <1>5 DEF T

\* The total of natural numbers is one.
LEMMA SumNat ==
  ASSUME NEW n \in Nat, NEW w, \A k \in 1..n : w[k] \in Nat, NEW f, IsSum(f, w, n)
  PROVE  \A k \in 0..n : f[k] \in Nat
<1>1. f[0] = 0 /\ \A k \in 1..n : f[k] = f[k-1] + w[k]
  BY SumSteps
<1> DEFINE T == {i \in Nat : i <= n => f[i] \in Nat}
<1>2. 0 \in T
  BY <1>1
<1>3. ASSUME NEW i \in Nat, i \in T PROVE i + 1 \in T
  BY <1>1, <1>3
<1>4. T \subseteq Nat
  OBVIOUS
<1> HIDE DEF T
<1>5. T = Nat
  BY <1>2, <1>3, <1>4, NatBySets
<1> QED BY <1>5 DEF T

LEMMA TotalSum ==
  ASSUME NEW n \in Nat, NEW w
  PROVE  \E f : IsSum(f, w, n) /\ Total(w, n) = f[n]
<1> DEFINE f == CHOOSE g : g = [k \in 0..n |-> IF k = 0 THEN 0 ELSE g[k-1] + w[k]]
<1>1. \E g : g = [k \in 0..n |-> IF k = 0 THEN 0 ELSE g[k-1] + w[k]]
  BY SumExists DEF IsSum
<1>2. IsSum(f, w, n)
  BY <1>1 DEF IsSum
<1>3. Total(w, n) = f[n]
  BY DEF Total
<1> HIDE DEF f
<1> QED BY <1>2, <1>3

LEMMA TotalSame ==
  ASSUME NEW n \in Nat, NEW v, NEW w, \A k \in 1..n : v[k] = w[k]
  PROVE  Total(v, n) = Total(w, n)
<1>1. PICK f : IsSum(f, v, n) /\ Total(v, n) = f[n]
  BY TotalSum
<1>2. PICK g : IsSum(g, w, n) /\ Total(w, n) = g[n]
  BY TotalSum
<1>3. f[n] = g[n]
  BY <1>1, <1>2, SumUnique
<1> QED BY <1>1, <1>2, <1>3

LEMMA TotalStep ==
  ASSUME NEW n \in Nat, NEW w
  PROVE  Total(w, 0) = 0 /\ Total(w, n + 1) = Total(w, n) + w[n + 1]
<1>1. PICK e : IsSum(e, w, 0) /\ Total(w, 0) = e[0]
  BY TotalSum
<1>2. PICK f : IsSum(f, w, n) /\ Total(w, n) = f[n]
  BY TotalSum
<1>3. PICK g : IsSum(g, w, n + 1) /\ Total(w, n + 1) = g[n + 1]
  BY TotalSum
<1>4. e[0] = 0
  BY <1>1, SumSteps
<1>5. g[n + 1] = g[n] + w[n + 1]
  BY <1>3, SumSteps
<1>6. f[n] = g[n]
  BY <1>2, <1>3, SumUnique
<1> QED BY <1>1, <1>2, <1>3, <1>4, <1>5, <1>6

LEMMA TotalNat ==
  ASSUME NEW n \in Nat, NEW w, \A k \in 1..n : w[k] \in Nat
  PROVE  Total(w, n) \in Nat
<1>1. PICK f : IsSum(f, w, n) /\ Total(w, n) = f[n]
  BY TotalSum
<1> QED BY <1>1, SumNat

\* One more row, or more for the last one.
LEMMA TotalLast ==
  ASSUME NEW n \in Nat, NEW v, NEW w, \A k \in 1..n : v[k] = w[k]
  PROVE  Total(w, n + 1) = Total(v, n) + w[n + 1]
BY TotalSame, TotalStep
=============================================================================
