-------------------------- MODULE BoundedInduction --------------------------
(***************************************************************************)
(* Induction up to a bound, and functions that are defined by it, for the  *)
(* recursive functions of the models: Above of Ext2Vnops, Pointers and     *)
(* ext2_indirtrunc() of Ext2File.  The library states induction with an    *)
(* operator as its parameter; here it is stated of a set, and rests on the *)
(* least element that a set of natural numbers has.                        *)
(***************************************************************************)
EXTENDS Integers, WellFoundedInduction, TLAPS

\* A set of natural numbers has a least element.
LEMMA LeastNat ==
  ASSUME NEW T, T \subseteq Nat, T # {}
  PROVE  \E x \in T : \A y \in T : x <= y
<1>1. PICK x \in T : \A y \in T : ~ (<<y, x>> \in OpToRel(<, Nat))
  BY NatLessThanWellFounded, WFMin
<1>2. \A y \in T : ~(y < x)
  BY <1>1 DEF OpToRel
<1>3. QED BY <1>2

\* Induction up to n.
LEMMA InductTo ==
  ASSUME NEW n \in Nat, NEW S, 0 \in S, \A k \in 1..n : k - 1 \in S => k \in S
  PROVE  0..n \subseteq S
<1> DEFINE T == (0..n) \ S
<1>1. ASSUME T # {} PROVE FALSE
  <2>0. T \subseteq Nat
    OBVIOUS
  <2>1. PICK x \in T : \A y \in T : x <= y
    <3> HIDE DEF T
    <3>1. QED BY <1>1, <2>0, LeastNat
  <2>2. x \in 1..n /\ x \notin S
    <3>1. x \in 0..n /\ x \notin S /\ x # 0
      OBVIOUS
    <3>2. QED BY <3>1
  <2>3. x - 1 \in 0..n /\ x - 1 \notin T
    BY <2>1, <2>2
  <2>4. QED BY <2>2, <2>3
<1>2. QED BY <1>1

\* What a function that is applied over and over again yields: u[k] after k times.
Iterate(u, X, F, a, n) ==
  u \in [0..n -> X] /\ u[0] = a /\ \A k \in 1..n : u[k] = F[u[k - 1]]
LEMMA Iterates ==
  ASSUME NEW X, NEW a \in X, NEW F \in [X -> X], NEW n \in Nat
  PROVE  \E u : Iterate(u, X, F, a, n)
<1> DEFINE Is(u, m) == u \in [0..m -> X] /\ u[0] = a /\ \A k \in 1..m : u[k] = F[u[k - 1]]
           S == {m \in Nat : \E u : Is(u, m)}
<1>1. 0 \in S
  <2> DEFINE u == [k \in 0..0 |-> a]
  <2>1. Is(u, 0)
    OBVIOUS
  <2>2. QED BY <2>1
<1>2. ASSUME NEW m \in 1..n, m - 1 \in S PROVE m \in S
  <2>1. PICK u : Is(u, m - 1)
    BY <1>2
  <2> DEFINE v == [k \in 0..m |-> IF k = m THEN F[u[m - 1]] ELSE u[k]]
  <2>2. v \in [0..m -> X] /\ v[0] = a
    BY <2>1
  <2>3. ASSUME NEW k \in 1..m PROVE v[k] = F[v[k - 1]]
    <3>1. CASE k = m
      BY <3>1
    <3>2. CASE k # m
      <4>1. k \in 1..(m - 1) /\ k \in 0..m /\ k - 1 \in 0..m /\ k - 1 # m
        BY <3>2
      <4>2. v[k] = u[k] /\ v[k - 1] = u[k - 1]
        BY <3>2, <4>1
      <4>3. QED BY <2>1, <4>1, <4>2
    <3>3. QED BY <3>1, <3>2
  <2>4. m \in Nat
    OBVIOUS
  <2>5. Is(v, m)
    BY <2>2, <2>3
  <2> HIDE DEF Is, v
  <2>6. QED BY <2>4, <2>5
<1>3. 0..n \subseteq S
  <2> HIDE DEF S
  <2>1. QED BY <1>1, <1>2, InductTo
<1>4. QED BY <1>3 DEF Iterate

\* What follows when each step has a function of its own.
Steps(u, X, F, a, n) ==
  u \in [0..n -> X] /\ u[0] = a /\ \A k \in 1..n : u[k] = F[k][u[k - 1]]
LEMMA StepsExist ==
  ASSUME NEW X, NEW a \in X, NEW n \in Nat, NEW F \in [1..n -> [X -> X]]
  PROVE  \E u : Steps(u, X, F, a, n)
<1> DEFINE Is(u, m) == u \in [0..m -> X] /\ u[0] = a /\ \A k \in 1..m : u[k] = F[k][u[k - 1]]
           S == {m \in Nat : \E u : Is(u, m)}
<1>1. 0 \in S
  <2> DEFINE u == [k \in 0..0 |-> a]
  <2>1. Is(u, 0)
    OBVIOUS
  <2>2. QED BY <2>1
<1>2. ASSUME NEW m \in 1..n, m - 1 \in S PROVE m \in S
  <2>1. PICK u : Is(u, m - 1)
    BY <1>2
  <2> DEFINE v == [k \in 0..m |-> IF k = m THEN F[m][u[m - 1]] ELSE u[k]]
  <2>2. v \in [0..m -> X] /\ v[0] = a
    <3>1. F[m] \in [X -> X] /\ u[m - 1] \in X
      BY <2>1
    <3>2. F[m][u[m - 1]] \in X
      BY <3>1
    <3>3. QED BY <2>1, <3>2
  <2>3. ASSUME NEW k \in 1..m PROVE v[k] = F[k][v[k - 1]]
    <3>1. CASE k = m
      BY <3>1
    <3>2. CASE k # m
      <4>1. k \in 1..(m - 1) /\ k \in 0..m /\ k - 1 \in 0..m /\ k - 1 # m
        BY <3>2
      <4>2. v[k] = u[k] /\ v[k - 1] = u[k - 1]
        BY <3>2, <4>1
      <4>3. QED BY <2>1, <4>1, <4>2
    <3>3. QED BY <3>1, <3>2
  <2>4. m \in Nat
    OBVIOUS
  <2>5. Is(v, m)
    BY <2>2, <2>3
  <2> HIDE DEF Is, v
  <2>6. QED BY <2>4, <2>5
<1>3. 0..n \subseteq S
  <2> HIDE DEF S
  <2>1. QED BY <1>1, <1>2, InductTo
<1>4. QED BY <1>3 DEF Steps

\* A set of natural numbers with a bound has a greatest element.
LEMMA GreatestNat ==
  ASSUME NEW n \in Nat, NEW T, T \subseteq 0..n, T # {}
  PROVE  \E x \in T : \A y \in T : x >= y
<1> DEFINE D == {n - x : x \in T}
<1>0. \A x \in T : x \in Int /\ x <= n /\ n - x \in Nat
  <2> TAKE x \in T
  <2>1. x \in 0..n
    OBVIOUS
  <2>2. QED BY <2>1
<1>1. D \subseteq Nat /\ D # {}
  BY <1>0
<1>2. PICK d \in D : \A e \in D : d <= e
  BY <1>1, LeastNat
<1>3. PICK x \in T : d = n - x
  OBVIOUS
<1>4. \A y \in T : n - x <= n - y
  BY <1>2, <1>3
<1>5. \A y \in T : x \in Int /\ y \in Int
  BY <1>0
<1>6. \A y \in T : x >= y
  BY <1>4, <1>5
<1>7. QED BY <1>6

=============================================================================
