------------------------------- MODULE Recursion -------------------------------
(***************************************************************************)
(* Induction and recursion in a form that needs no operator as parameter:  *)
(* what would be a predicate is a set, what would be the body of a         *)
(* definition is a function.                                               *)
(***************************************************************************)
EXTENDS Integers, WellFoundedInduction, TLAPS

\* Every set of natural numbers that is not empty has a least element.
LEMMA Least ==
    ASSUME NEW T \in SUBSET Nat, T # {}
    PROVE  \E n \in T : \A k \in T : n <= k
<1> DEFINE R == {p \in Nat \X Nat : p[1] < p[2]}
<1>1. IsWellFoundedOn(R, Nat)
      BY NatLessThanWellFounded DEF OpToRel
<1>0. \A x, y \in Nat : x < y => <<x, y>> \in R
      OBVIOUS
<1> HIDE DEF R
<1>2. PICK n \in T : \A k \in T : ~ (<<k, n>> \in R)
      BY <1>1, WFMin
<1>3. \A k \in T : ~ (k < n)
      BY <1>0, <1>2
<1> QED BY <1>3

\* A set that holds n if it holds all smaller numbers holds every number.
LEMMA Induction ==
    ASSUME NEW T,
           \A n \in Nat : (\A k \in Nat : k < n => k \in T) => n \in T
    PROVE  Nat \subseteq T
<1>1. SUFFICES ASSUME Nat \ T # {} PROVE FALSE
      OBVIOUS
<1>2. PICK n \in Nat \ T : \A k \in Nat \ T : n <= k
      BY <1>1, Least
<1> QED BY <1>2

\* Step by step.
LEMMA StepInduction ==
    ASSUME NEW T, 0 \in T, \A n \in Nat : n \in T => n + 1 \in T
    PROVE  Nat \subseteq T
<1>1. SUFFICES ASSUME Nat \ T # {} PROVE FALSE
      OBVIOUS
<1>2. PICK n \in Nat \ T : \A k \in Nat \ T : n <= k
      BY <1>1, Least
<1>3. n - 1 \in Nat /\ n - 1 \in T
      BY <1>2
<1> QED BY <1>2, <1>3

-------------------------------------------------------------------------------

\* g obeys the equation F wherever the measure m is less than n.
Obeys(S, V, m, F, n, g) ==
    g \in [S -> V] /\ \A x \in S : m[x] < n => g[x] = F[x][g]

\* F makes a value of what smaller arguments have.
Recursive(S, V, m, F) ==
    /\ V # {}
    /\ m \in [S -> Nat]
    /\ \A x \in S, g \in [S -> V] : F[x][g] \in V
    /\ \A x \in S, g, h \in [S -> V] :
          (\A y \in S : m[y] < m[x] => g[y] = h[y]) => F[x][g] = F[x][h]

LEMMA ObeysForAWhile ==
    ASSUME NEW S, NEW V, NEW m, NEW F, Recursive(S, V, m, F)
    PROVE  \A n \in Nat : \E g : Obeys(S, V, m, F, n, g)
<1> DEFINE T == {n \in Nat : \E g : Obeys(S, V, m, F, n, g)}
<1>1. 0 \in T
  <2>1. PICK v \in V : TRUE
        BY DEF Recursive
  <2>2. Obeys(S, V, m, F, 0, [x \in S |-> v])
        BY <2>1 DEF Obeys, Recursive
  <2> QED BY <2>2
<1>2. ASSUME NEW n \in Nat, n \in T PROVE n + 1 \in T
  <2>1. PICK g : Obeys(S, V, m, F, n, g)
        BY <1>2
  <2> DEFINE h == [x \in S |-> IF m[x] < n THEN g[x] ELSE F[x][g]]
  <2>2. h \in [S -> V] /\ g \in [S -> V]
        BY <2>1 DEF Obeys, Recursive
  <2>3. ASSUME NEW x \in S, m[x] < n + 1 PROVE h[x] = F[x][h]
    <3>1. \A y \in S : m[y] < m[x] => g[y] = h[y]
          BY <2>3, n \in Nat DEF Recursive
    <3>2. F[x][g] = F[x][h]
          BY <2>2, <3>1 DEF Recursive
    <3> QED BY <2>1, <3>2 DEF Obeys
  <2>4. Obeys(S, V, m, F, n + 1, h)
        BY <2>2, <2>3 DEF Obeys
  <2> QED BY <2>4
<1> HIDE DEF T
<1>3. Nat \subseteq T
      BY <1>1, <1>2, StepInduction
<1> QED BY <1>3 DEF T

LEMMA ObeysOnlyOne ==
    ASSUME NEW S, NEW V, NEW m, NEW F, Recursive(S, V, m, F),
           NEW n \in Nat, NEW k \in Nat, NEW g, NEW h, n <= k,
           Obeys(S, V, m, F, n, g), Obeys(S, V, m, F, k, h)
    PROVE  \A x \in S : m[x] < n => g[x] = h[x]
<1> DEFINE T == {i \in Nat : \A x \in S : m[x] = i /\ i < n => g[x] = h[x]}
<1>1. ASSUME NEW i \in Nat, \A j \in Nat : j < i => j \in T PROVE i \in T
  <2>1. SUFFICES ASSUME NEW x \in S, m[x] = i, i < n PROVE g[x] = h[x]
        OBVIOUS
  <2>2. \A y \in S : m[y] < m[x] => g[y] = h[y]
        BY <1>1, <2>1 DEF Recursive
  <2>3. F[x][g] = F[x][h]
        BY <2>2 DEF Recursive, Obeys
  <2> QED BY <2>1, <2>3 DEF Obeys
<1> HIDE DEF T
<1>2. Nat \subseteq T
      BY <1>1, Induction
<1> QED BY <1>2 DEF T, Recursive

\* A recursive definition defines something, if it is from smaller to greater.
LEMMA RecursionDefines ==
    ASSUME NEW S, NEW V, NEW m, NEW F, Recursive(S, V, m, F)
    PROVE  \E g \in [S -> V] : \A x \in S : g[x] = F[x][g]
<1> DEFINE G(n) == CHOOSE g : Obeys(S, V, m, F, n, g)
           R    == [x \in S |-> G(m[x] + 1)[x]]
<1>1. \A n \in Nat : Obeys(S, V, m, F, n, G(n))
      BY ObeysForAWhile
<1> HIDE DEF G
<1>2. ASSUME NEW x \in S
      PROVE  m[x] \in Nat /\ Obeys(S, V, m, F, m[x] + 1, G(m[x] + 1))
      BY <1>1 DEF Recursive
<1>3. R \in [S -> V]
      BY <1>2 DEF Obeys
<1>4. ASSUME NEW x \in S PROVE R[x] = F[x][R]
  <2>1. ASSUME NEW y \in S, m[y] < m[x] PROVE G(m[x] + 1)[y] = R[y]
        BY <1>2, <2>1, ObeysOnlyOne
  <2>2. F[x][G(m[x] + 1)] = F[x][R]
        BY <1>2, <1>3, <2>1 DEF Recursive, Obeys
  <2> QED BY <1>2, <2>2 DEF Obeys
<1> QED BY <1>3, <1>4
===============================================================================
