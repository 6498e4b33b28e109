------------------------------ MODULE Counting ------------------------------
(***************************************************************************)
(* What the proofs about texts need of numbers: a set of them has a least  *)
(* and, if bounded, a greatest element, and holds them all if it is closed *)
(* under successors.                                                       *)
(***************************************************************************)
EXTENDS FiniteSetTheorems, NaturalsInduction, FiniteSetsExt, TLAPS

LEMMA LeastElement ==
    ASSUME NEW S \in SUBSET Nat, S # {}
    PROVE  \E m \in S : \A x \in S : m <= x
<1> DEFINE R == {p \in Nat \X Nat : p[1] < p[2]}
<1>1. IsWellFoundedOn(R, Nat)
  BY NatLessThanWellFounded DEF OpToRel
<1> HIDE DEF R
<1>2. PICK m \in S : \A y \in S : ~(<<y, m>> \in R)
  BY <1>1, WFMin
<1>3. \A y \in S : ~(y < m)
  BY <1>2 DEF R
<1> QED BY <1>3

\* A set of naturals that holds 0 and every successor holds them all.
LEMMA AllNaturals ==
    ASSUME NEW A, 0 \in A, \A n \in Nat : n \in A => n + 1 \in A
    PROVE  Nat \subseteq A
<1> SUFFICES ASSUME Nat \ A # {} PROVE FALSE
  OBVIOUS
<1>1. PICK m \in Nat \ A : \A x \in Nat \ A : m <= x
  BY LeastElement
<1>2. m # 0 /\ m - 1 \in Nat
  BY <1>1
<1>3. m - 1 \in A
  BY <1>1, <1>2
<1> QED BY <1>1, <1>2, <1>3

LEMMA GreatestElement ==
    ASSUME NEW n \in Nat, NEW S \in SUBSET (0..n), S # {}
    PROVE  Max(S) \in S /\ \A x \in S : x <= Max(S)
<1> DEFINE D == {n - x : x \in S}
<1>1. PICK d \in D : \A y \in D : d <= y
  <2>1. \A x \in S : n - x \in Nat
    OBVIOUS
  <2>2. D \subseteq Nat /\ D # {}
    BY <2>1
  <2> QED BY <2>2, LeastElement
<1>2. PICK m \in S : d = n - m
  OBVIOUS
<1>3. \A x \in S : x <= m
  BY <1>1, <1>2
<1>4. \E x \in S : \A y \in S : x >= y
  BY <1>3
<1>5. Max(S) \in S /\ \A y \in S : Max(S) >= y
  BY <1>4 DEF Max
<1> QED BY <1>5

\* Moving a set of numbers keeps its size.
LEMMA MovedSet ==
    ASSUME NEW S, S \subseteq Int, IsFiniteSet(S), NEW d \in Int, NEW M,
           \A x \in S : x + d \in M, \A y \in M : \E x \in S : y = x + d
    PROVE  IsFiniteSet(M) /\ Cardinality(M) = Cardinality(S)
<1> DEFINE f == [x \in S |-> x + d]
<1>1. f \in [S -> M] /\ \A y \in M : \E x \in S : f[x] = y
  OBVIOUS
<1>2. \A x, y \in S : f[x] = f[y] => x = y
  OBVIOUS
<1>3. f \in Bijection(S, M)
  BY <1>1, <1>2 DEF Bijection, Injection, Surjection, IsInjective
<1>4. ExistsBijection(S, M)
  BY <1>3 DEF ExistsBijection
<1> QED BY <1>4, FS_Bijection

-----------------------------------------------------------------------------
(* A function defined by recursion on its argument exists.                  *)

\* The first n + 1 values of the function.
Begun(n, S, s0, step) ==
    {g \in [0..n -> S] : g[0] = s0 /\ \A i \in 1..n : g[i] = step[<<i, g[i - 1]>>]}

LEMMA Begins ==
    ASSUME NEW S, NEW s0 \in S, NEW step \in [Nat \X S -> S], NEW n \in Nat
    PROVE  Begun(n, S, s0, step) # {}
<1> DEFINE A == {m \in Nat : Begun(m, S, s0, step) # {}}
<1>1. 0 \in A
  <2>1. [i \in 0..0 |-> s0] \in Begun(0, S, s0, step)
    BY DEF Begun
  <2> QED BY <2>1
<1>2. ASSUME NEW m \in Nat, m \in A PROVE m + 1 \in A
  <2>1. PICK g \in [0..m -> S] : g[0] = s0 /\ \A i \in 1..m : g[i] = step[<<i, g[i - 1]>>]
    BY <1>2 DEF Begun
  <2> DEFINE h == [i \in 0..m + 1 |-> IF i <= m THEN g[i] ELSE step[<<m + 1, g[m]>>]]
  <2>2. g[m] \in S /\ step[<<m + 1, g[m]>>] \in S
    <3>1. m \in 0..m /\ m + 1 \in Nat
      OBVIOUS
    <3> QED BY <2>1, <3>1
  <2>3. h \in [0..m + 1 -> S] /\ h[0] = s0
    BY <2>1, <2>2
  <2>4. ASSUME NEW i \in 1..m + 1 PROVE h[i] = step[<<i, h[i - 1]>>]
    <3>1. i - 1 \in 0..m /\ h[i - 1] = g[i - 1] /\ i \in 0..m + 1
      OBVIOUS
    <3>2. CASE i <= m
      BY <2>1, <3>1, <3>2
    <3>3. CASE i = m + 1
      <4>1. i - 1 = m /\ ~(i <= m)
        BY <3>3
      <4> QED BY <3>1, <3>3, <4>1
    <3> QED BY <3>2, <3>3
  <2> HIDE DEF h
  <2>5. h \in Begun(m + 1, S, s0, step)
    BY <2>3, <2>4 DEF Begun
  <2> QED BY <2>5
<1> HIDE DEF A
<1>3. Nat \subseteq A
  BY <1>1, <1>2, AllNaturals
<1> QED BY <1>3 DEF A

LEMMA BegunAgree ==
    ASSUME NEW S, NEW s0 \in S, NEW step \in [Nat \X S -> S],
           NEW n \in Nat, NEW g \in Begun(n, S, s0, step),
           NEW m \in Nat, NEW h \in Begun(m, S, s0, step)
    PROVE  \A i \in Nat : i <= n /\ i <= m => g[i] = h[i]
<1> DEFINE A == {i \in Nat : i <= n /\ i <= m => g[i] = h[i]}
<1>1. 0 \in A
  BY DEF Begun
<1>2. ASSUME NEW i \in Nat, i \in A PROVE i + 1 \in A
  <2> SUFFICES ASSUME i + 1 <= n, i + 1 <= m PROVE g[i + 1] = h[i + 1]
    OBVIOUS
  <2>1. g[i] = h[i] /\ i + 1 \in 1..n /\ i + 1 \in 1..m /\ (i + 1) - 1 = i
    BY <1>2
  <2> QED BY <2>1 DEF Begun
<1> HIDE DEF A
<1>3. Nat \subseteq A
  BY <1>1, <1>2, AllNaturals
<1> QED BY <1>3 DEF A

Follows(g, s0, step) ==
    g[0] = s0 /\ \A n \in Nat \ {0} : g[n] = step[<<n, g[n - 1]>>]

LEMMA Recursion ==
    ASSUME NEW S, NEW s0 \in S, NEW step \in [Nat \X S -> S]
    PROVE  \E g \in [Nat -> S] : Follows(g, s0, step)
<1> DEFINE b(n) == CHOOSE h \in Begun(n, S, s0, step) : TRUE
           g == [n \in Nat |-> b(n)[n]]
<1>1. \A n \in Nat : b(n) \in Begun(n, S, s0, step)
  BY Begins
<1> HIDE DEF b
<1>2. ASSUME NEW n \in Nat PROVE g[n] \in S
  <2>1. b(n) \in [0..n -> S] /\ n \in 0..n
    BY <1>1 DEF Begun
  <2> QED BY <2>1
<1>3. g[0] = s0
  BY <1>1 DEF Begun
<1>4. ASSUME NEW n \in Nat \ {0} PROVE g[n] = step[<<n, g[n - 1]>>]
  <2>1. n - 1 \in Nat /\ n \in 1..n /\ n - 1 <= n
    OBVIOUS
  <2>2. b(n)[n] = step[<<n, b(n)[n - 1]>>]
    BY <1>1, <2>1 DEF Begun
  <2>3. b(n)[n - 1] = b(n - 1)[n - 1]
    BY <1>1, <2>1, BegunAgree
  <2> QED BY <2>1, <2>2, <2>3
<1>5. g \in [Nat -> S]
  BY <1>2
<1> HIDE DEF g
<1>6. Follows(g, s0, step)
  BY <1>3, <1>4 DEF Follows
<1> QED BY <1>5, <1>6

=============================================================================
