----------------------------- MODULE Induction -----------------------------
(***************************************************************************)
(* Induction over the naturals, stated for a set in place of an operator,  *)
(* so that it can be cited by name: what holds of 0 and of the successor   *)
(* of whatever it holds of holds of every natural. The proofs use it to    *)
(* show that a recursive function of the models exists, that is, obeys its *)
(* definition.                                                             *)
(***************************************************************************)
EXTENDS Integers, WellFoundedInduction, TLAPS

\* A set of naturals that is not empty has a least element.
LEMMA LeastElement ==
  ASSUME NEW S \in SUBSET Nat, S # {}
  PROVE  \E n \in S : \A m \in S : n <= m
<1>1. \E n \in S : \A m \in S : <<m, n>> \notin OpToRel(<, Nat)
  BY NatLessThanWellFounded, WFMin, Zenon
<1>2. \A m, n \in Nat : <<m, n>> \notin OpToRel(<, Nat) => n <= m
  BY DEF OpToRel
<1> QED BY <1>1, <1>2, Zenon

\* A set that holds 0 and the successor of every element is Nat.
LEMMA Induction ==
  ASSUME NEW S \in SUBSET Nat, 0 \in S, \A n \in S : n + 1 \in S
  PROVE  S = Nat
<1> SUFFICES ASSUME Nat \ S # {} PROVE FALSE
  OBVIOUS
<1>1. PICK n \in Nat \ S : \A m \in Nat \ S : n <= m
  BY LeastElement
<1>2. n = 0 \/ n - 1 \in Nat
  BY <1>1
<1> QED BY <1>1, <1>2

\* The same up to a bound, from a set's least and its largest element on.
LEMMA BoundedInduction ==
  ASSUME NEW lo \in Nat, NEW hi \in Nat, NEW S,
         lo \in S, \A n \in lo..(hi - 1) : n \in S => n + 1 \in S
  PROVE  lo..hi \subseteq S
<1> DEFINE T == {k \in Nat : lo + k <= hi => lo + k \in S}
<1>1. T \in SUBSET Nat /\ 0 \in T
  OBVIOUS
<1>2. ASSUME NEW k \in T PROVE k + 1 \in T
  <2> SUFFICES ASSUME lo + (k + 1) <= hi PROVE lo + (k + 1) \in S
    OBVIOUS
  <2>1. lo + k \in lo..(hi - 1) /\ lo + k \in S
    OBVIOUS
  <2>2. (lo + k) + 1 \in S
    BY <2>1
  <2> QED BY <2>2
<1>3. T = Nat
  <2> HIDE DEF T
  <2> QED BY <1>1, <1>2, Induction
<1>4. ASSUME NEW n \in lo..hi PROVE n \in S
  <2>1. n - lo \in Nat /\ n = lo + (n - lo)
    OBVIOUS
  <2>2. n - lo \in T
    BY <1>3, <2>1
  <2> QED BY <2>1, <2>2
<1> QED BY <1>4

\* f is base at 0, and at each k what G makes of k and of f at k - 1.
Follows(f, V, base, G, n) ==
  /\ f \in [0..n -> V]
  /\ f[0] = base
  /\ \A k \in 1..n : f[k] = G[<<k, f[k - 1]>>]

\* Such a function exists on every interval.
LEMMA Recursion ==
  ASSUME NEW V, NEW base \in V, NEW G \in [Nat \X V -> V], NEW n \in Nat
  PROVE  \E f : Follows(f, V, base, G, n)
<1> DEFINE Is(f, k) == f[k] = G[<<k, f[k - 1]>>]
           S == {m \in Nat : \E f \in [0..m -> V] : f[0] = base /\ \A k \in 1..m : Is(f, k)}
<1>1. 0 \in S
  <2> DEFINE f == [k \in 0..0 |-> base]
  <2>1. f \in [0..0 -> V] /\ f[0] = base /\ \A k \in 1..0 : Is(f, k)
    OBVIOUS
  <2> QED BY <2>1
<1>2. ASSUME NEW m \in S PROVE m + 1 \in S
  <2>1. m \in Nat
    OBVIOUS
  <2>2. PICK f \in [0..m -> V] : f[0] = base /\ \A k \in 1..m : Is(f, k)
    OBVIOUS
  <2> DEFINE g == [k \in 0..(m + 1) |-> IF k = m + 1 THEN G[<<m + 1, f[m]>>] ELSE f[k]]
  <2>3. f[m] \in V /\ G[<<m + 1, f[m]>>] \in V
    <3>1. m \in 0..m
      BY <2>1
    <3>2. f[m] \in V
      BY <2>2, <3>1
    <3> QED BY <2>1, <3>2
  <2>4. g \in [0..(m + 1) -> V]
    BY <2>1, <2>2, <2>3
  <2>5. g[0] = base
    BY <2>1, <2>2
  <2>6. ASSUME NEW k \in 1..(m + 1) PROVE Is(g, k)
    <3>1. CASE k = m + 1
      <4>1. g[k] = G[<<m + 1, f[m]>>] /\ g[k - 1] = f[m]
        BY <2>1, <3>1
      <4> HIDE DEF g
      <4> QED BY <3>1, <4>1
    <3>2. CASE k # m + 1
      <4>1. k \in 1..m /\ g[k] = f[k] /\ g[k - 1] = f[k - 1]
        BY <2>1, <3>2
      <4> HIDE DEF g
      <4> QED BY <2>2, <4>1
    <3> QED BY <3>1, <3>2
  <2> HIDE DEF g
  <2>7. \E h \in [0..(m + 1) -> V] : h[0] = base /\ \A k \in 1..(m + 1) : Is(h, k)
    BY <2>4, <2>5, <2>6
  <2> HIDE DEF Is
  <2> QED BY <2>1, <2>7
<1>3. S = Nat
  <2>1. S \in SUBSET Nat
    OBVIOUS
  <2> HIDE DEF S
  <2> QED BY <1>1, <1>2, <2>1, Induction
<1>4. PICK f \in [0..n -> V] : f[0] = base /\ \A k \in 1..n : Is(f, k)
  BY <1>3
<1> QED BY <1>4 DEF Follows
=============================================================================
