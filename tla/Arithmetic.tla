----------------------------- MODULE Arithmetic -----------------------------
(***************************************************************************)
(* Facts about naturals the proofs of several components rest on.  The     *)
(* induction theorems of the library take an operator, which the provers   *)
(* cannot instantiate; these take a set.                                   *)
(***************************************************************************)
EXTENDS Integers, WellFoundedInduction, TLAPS

\* A non-empty set of naturals has a least element.
LEMMA LeastNatural ==
  ASSUME NEW S \in SUBSET Nat, S # {}
  PROVE  \E m \in S : \A n \in S : m <= n
<1> DEFINE R == OpToRel(<, Nat)
<1>1. IsWellFoundedOn(R, Nat)
  BY NatLessThanWellFounded
<1>2. PICK m \in S : \A n \in S : ~(<<n, m>> \in R)
  <2> HIDE DEF R
  <2> QED BY <1>1, WFMin
<1>3. \A n \in S : ~(n < m)
  BY <1>2 DEF OpToRel
<1> QED BY <1>3, SMT

\* A set of naturals with 0 in it, closed under successor up to m, has every
\* number up to m.
LEMMA NatSetInduction ==
  ASSUME NEW m \in Nat, NEW S,
         0 \in S, \A n \in 0..(m - 1) : n \in S => n + 1 \in S
  PROVE  \A n \in 0..m : n \in S
<1> DEFINE T == {n \in 0..m : n \notin S}
<1>1. SUFFICES ASSUME T # {} PROVE FALSE
  OBVIOUS
<1>2. T \in SUBSET Nat
  OBVIOUS
<1>3. PICK n \in T : \A k \in T : n <= k
  <2> HIDE DEF T
  <2> QED BY <1>1, <1>2, LeastNatural
<1>4. n \in 0..m /\ n # 0 /\ n \notin S
  BY <1>3
<1>5. n - 1 \in 0..(m - 1) /\ n - 1 \in 0..m /\ n - 1 < n /\ (n - 1) + 1 = n
  BY <1>4
<1>6. n - 1 \in S
  <2>1. n - 1 \notin T
    BY <1>3, <1>5
  <2> QED BY <2>1, <1>5
<1> QED BY <1>4, <1>5, <1>6

\* Powers of two are positive and in order, by what doubling does.
LEMMA PowersGrow ==
  ASSUME NEW N \in Nat, 2^0 = 1, \A n \in 0..(N - 1) : 2^(n + 1) = 2 * 2^n
  PROVE  \A n \in 0..N : /\ 2^n \in Nat \ {0}
                         /\ \A m \in 0..n : 2^m <= 2^n
<1> DEFINE S == {n \in 0..N : /\ 2^n \in Nat \ {0}
                              /\ \A m \in 0..n : 2^m <= 2^n}
<1>1. 0 \in S
  <2>1. 2^0 \in Nat \ {0} /\ 2^0 <= 2^0
    OBVIOUS
  <2>2. 0 \in 0..N /\ 0..0 = {0}
    OBVIOUS
  <2> QED BY <2>1, <2>2
<1>2. ASSUME NEW n \in 0..(N - 1), n \in S PROVE n + 1 \in S
  <2>1. /\ 2^n \in Nat \ {0} /\ 2^(n + 1) = 2 * 2^n /\ n + 1 \in 0..N
        /\ \A m \in 0..n : 2^m <= 2^n /\ 2^m \in Int
    <3>1. \A m \in 0..n : 2^m \in Int
      OBVIOUS
    <3> QED BY <1>2, <3>1
  <2>2. ASSUME NEW m \in 0..(n + 1) PROVE 2^m <= 2^(n + 1)
    <3>1. CASE m = n + 1
      BY <2>1, <3>1
    <3>2. CASE m # n + 1
      <4>1. m \in 0..n
        BY <3>2
      <4> QED BY <2>1, <4>1
    <3> QED BY <3>1, <3>2
  <2> QED BY <2>1, <2>2
<1> HIDE DEF S
<1>3. \A n \in 0..N : n \in S
  BY <1>1, <1>2, NatSetInduction
<1> QED BY <1>3 DEF S

=============================================================================
