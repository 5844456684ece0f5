---------------------- MODULE EffectiveOwnership_proofs ----------------------
(***************************************************************************)
(* Theorems about EffectiveOwnership, for any finite set of entities and   *)
(* any unit of shares.                                                     *)
(*                                                                         *)
(* The links have no circle and no entity is owned beyond the whole        *)
(* (ChainsInv): what the check of create_ownership sees is closed under    *)
(* links, so a link it allows leads nowhere back.  Where there is no circle*)
(* the visited set of the search cuts nothing off, and what the search     *)
(* finds below an entity is a function of the entity and of the number of  *)
(* steps that are left (FoundOnward).  Moving one link at a time from after*)
(* an entity to before it (LinkMoves) turns the search from the roots into *)
(* the sum over the chains to the target; what is as long as the number of *)
(* entities is no chain (ReachedLast).  The bounds follow from summing over*)
(* the owners of an entity (ChainThroughParents).                          *)
(*                                                                         *)
(* The recursive functions are shown to exist by iterating their steps     *)
(* (Recursion), and sums of finite sets to be what sums are (SumSplit to   *)
(* SumSwap).                                                               *)
(***************************************************************************)
EXTENDS EffectiveOwnership, FiniteSetTheorems, WellFoundedInduction, TLAPS

-----------------------------------------------------------------------------
(***************************************************************************)
(* Induction over the natural numbers and over the subsets of a finite set,*)
(* where the induction hypothesis is membership in a set; and functions    *)
(* defined by recursion, whose steps are a function too.                   *)
(***************************************************************************)
LEMMA Least ==
  ASSUME NEW T \in SUBSET Nat, T # {}
  PROVE  \E m \in T : \A n \in T : m <= n
<1>1. IsWellFoundedOn(OpToRel(<, Nat), Nat)
  BY NatLessThanWellFounded
<1>2. PICK m \in T : \A n \in T : ~(<<n, m>> \in OpToRel(<, Nat))
  BY <1>1, WFMin
<1>3. \A n \in T : ~(n < m)
  BY <1>2 DEF OpToRel
<1> QED
  BY <1>3

LEMMA Induct ==
  ASSUME NEW Q, 0 \in Q, \A n \in Nat : n \in Q => n + 1 \in Q
  PROVE  \A n \in Nat : n \in Q
<1> DEFINE T == {n \in Nat : n \notin Q}
<1> SUFFICES ASSUME T # {} PROVE FALSE
  OBVIOUS
<1>1. PICK m \in T : \A n \in T : m <= n
  BY Least
<1>2. m \in Nat /\ m \notin Q
  OBVIOUS
<1>3. m - 1 \in Nat /\ (m - 1) + 1 = m
  BY <1>2
<1>4. m - 1 \notin Q
  BY <1>2, <1>3
<1>5. m - 1 \in T
  BY <1>3, <1>4
<1> HIDE DEF T
<1> QED
  BY <1>1, <1>2, <1>5

LEMMA InductSets ==
  ASSUME NEW S, IsFiniteSet(S), NEW Q, {} \in Q,
         \A s \in SUBSET S : \A x \in S : s \in Q /\ x \notin s => s \cup {x} \in Q
  PROVE  \A s \in SUBSET S : s \in Q
<1> DEFINE N == {n \in Nat : \A s \in SUBSET S : Cardinality(s) = n => s \in Q}
<1>1. 0 \in N
  BY FS_Subset, FS_EmptySet
<1>2. \A n \in Nat : n \in N => n + 1 \in N
  <2> SUFFICES ASSUME NEW n \in Nat, n \in N, NEW s \in SUBSET S, Cardinality(s) = n + 1
               PROVE  s \in Q
    OBVIOUS
  <2>1. IsFiniteSet(s)
    BY FS_Subset
  <2>2. PICK x : x \in s
    BY <2>1, FS_EmptySet
  <2>3. Cardinality(s \ {x}) = n
    <3>1. Cardinality(s \ {x}) = Cardinality(s) - 1
      BY <2>1, <2>2, FS_RemoveElement
    <3> QED
      BY <3>1
  <2>4. s \ {x} \in Q
    BY <2>3
  <2>5. (s \ {x}) \cup {x} = s /\ x \in S /\ x \notin s \ {x} /\ s \ {x} \in SUBSET S
    BY <2>2
  <2>6. (s \ {x}) \cup {x} \in Q
    BY <2>4, <2>5
  <2> QED
    BY <2>5, <2>6
<1> HIDE DEF N
<1>3. \A n \in Nat : n \in N
  BY <1>1, <1>2, Induct
<1> QED
  BY <1>3, FS_Subset, FS_CardinalityType DEF N

LEMMA Recursion ==
  ASSUME NEW R, NEW b \in R, NEW step \in [R -> R]
  PROVE  \E f \in [Nat -> R] : f[0] = b /\ \A n \in Nat : f[n + 1] = step[f[n]]
<1> DEFINE Fits(f, n) == /\ f \in [0..n -> R] /\ f[0] = b
                         /\ \A k \in 0..n : k < n => f[k + 1] = step[f[k]]
           Some == {n \in Nat : \E f : Fits(f, n)}
           h(n) == CHOOSE f : Fits(f, n)
           F == [n \in Nat |-> h(n)[n]]
<1>1. 0 \in Some
  <2>1. Fits([k \in 0..0 |-> b], 0)
    OBVIOUS
  <2> QED
    BY <2>1
<1>2. \A n \in Nat : n \in Some => n + 1 \in Some
  <2> SUFFICES ASSUME NEW n \in Nat, NEW f, Fits(f, n) PROVE \E g : Fits(g, n + 1)
    OBVIOUS
  <2> DEFINE g == [k \in 0..(n + 1) |-> IF k = n + 1 THEN step[f[n]] ELSE f[k]]
  <2>1. \A k \in 0..n : f[k] \in R /\ g[k] = f[k]
    OBVIOUS
  <2>2. g[n + 1] = step[f[n]] /\ step[f[n]] \in R
    BY <2>1
  <2>3. g \in [0..(n + 1) -> R]
    BY <2>1, <2>2
  <2>4. \A k \in 0..(n + 1) : k < n + 1 => g[k + 1] = step[g[k]]
    <3> SUFFICES ASSUME NEW k \in 0..(n + 1), k < n + 1 PROVE g[k + 1] = step[g[k]]
      OBVIOUS
    <3>1. k \in 0..n
      OBVIOUS
    <3>2. CASE k = n
      BY <2>1, <2>2, <3>1, <3>2
    <3>3. CASE k # n
      <4>1. k < n /\ k + 1 \in 0..n
        BY <3>1, <3>3
      <4>2. f[k + 1] = step[f[k]]
        BY <3>1, <4>1
      <4> HIDE DEF g
      <4> QED
        BY <2>1, <3>1, <4>1, <4>2
    <3> QED
      BY <3>2, <3>3
  <2>5. g[0] = b
    BY <2>1
  <2>6. Fits(g, n + 1)
    BY <2>3, <2>4, <2>5
  <2> QED
    BY <2>6
<1>3. \A n \in Nat : Fits(h(n), n)
  <2>1. \A n \in Nat : n \in Some
    <3> HIDE DEF Some
    <3> QED
      BY <1>1, <1>2, Induct
  <2> HIDE DEF Fits
  <2> QED
    BY <2>1
\* What fits up to a number fits up to a smaller one.
<1>4. \A n \in Nat : h(n + 1)[n] = h(n)[n]
  <2> SUFFICES ASSUME NEW n \in Nat PROVE h(n + 1)[n] = h(n)[n]
    OBVIOUS
  <2> DEFINE p == h(n + 1)
             q == h(n)
             Same == {k \in Nat : k <= n => p[k] = q[k]}
  <2>1. Fits(p, n + 1) /\ Fits(q, n)
    <3> HIDE DEF Fits, h
    <3> QED
      BY <1>3
  <2> HIDE DEF h, p, q
  <2>2. 0 \in Same
    BY <2>1
  <2>3. \A k \in Nat : k \in Same => k + 1 \in Same
    <3> SUFFICES ASSUME NEW k \in Nat, k \in Same, k + 1 <= n PROVE p[k + 1] = q[k + 1]
      OBVIOUS
    <3>1. k \in 0..n /\ k < n /\ k \in 0..(n + 1) /\ k < n + 1 /\ p[k] = q[k]
      OBVIOUS
    <3> QED
      BY <2>1, <3>1
  <2>4. n \in Same
    <3> HIDE DEF Same
    <3> QED
      BY <2>2, <2>3, Induct
  <2>5. p[n] = q[n]
    BY <2>4
  <2> QED
    BY <2>5 DEF p, q
<1>5. F \in [Nat -> R]
  <2> SUFFICES ASSUME NEW n \in Nat PROVE h(n)[n] \in R
    OBVIOUS
  <2> HIDE DEF h
  <2> QED
    BY <1>3
<1>6. F[0] = b
  <2> HIDE DEF h
  <2> QED
    BY <1>3
<1>7. \A n \in Nat : F[n + 1] = step[F[n]]
  <2> SUFFICES ASSUME NEW n \in Nat PROVE F[n + 1] = step[F[n]]
    OBVIOUS
  <2> HIDE DEF h
  <2>1. Fits(h(n + 1), n + 1)
    BY <1>3
  <2>2. n \in 0..(n + 1) /\ n < n + 1
    OBVIOUS
  <2>3. h(n + 1)[n + 1] = step[h(n + 1)[n]]
    BY <2>1, <2>2
  <2> QED
    BY <1>4, <2>3
<1> HIDE DEF F
<1> QED
  BY <1>5, <1>6, <1>7

-----------------------------------------------------------------------------
(***************************************************************************)
(* Sums.  SumFunctionOnSet takes the operands in an order it chooses; they *)
(* may be taken in any.                                                    *)
(***************************************************************************)
One(s) == CHOOSE x \in s : TRUE
Rest(s) == s \ {One(s)}
Naturals(f, A) == \A x \in A : f[x] \in Nat

Adds(g, f, S) ==
  g = [s \in SUBSET S |-> IF s = {} THEN 0 ELSE f[One(s)] + g[Rest(s)]]

LEMMA Pick ==
  ASSUME NEW S, IsFiniteSet(S), NEW s \in SUBSET S, s # {}
  PROVE  /\ One(s) \in s /\ One(s) \in S /\ Rest(s) \in SUBSET S
         /\ Cardinality(s) \in Nat /\ Cardinality(Rest(s)) = Cardinality(s) - 1
<1>1. One(s) \in s
  BY DEF One
<1>2. IsFiniteSet(s)
  BY FS_Subset
<1>3. Cardinality(s) \in Nat /\ Cardinality(Rest(s)) = Cardinality(s) - 1
  BY <1>1, <1>2, FS_RemoveElement, FS_CardinalityType DEF Rest
<1> QED
  BY <1>1, <1>3 DEF Rest

LEMMA Some ==
  ASSUME NEW S, IsFiniteSet(S), NEW s \in SUBSET S, NEW n \in Nat, Cardinality(s) = n + 1
  PROVE  s # {}
<1>1. Cardinality({}) = 0
  BY FS_EmptySet
<1> QED
  BY <1>1

\* The recursion of the sum is well founded: what adds sets of up to n operands
\* adds one of n + 1, until n is the number of all.
LEMMA AddsExists ==
  ASSUME NEW S, IsFiniteSet(S), NEW f, Naturals(f, S)
  PROVE  \E g \in [SUBSET S -> Nat] : Adds(g, f, S)
<1> DEFINE R == [SUBSET S -> Nat]
           More(g) == [s \in SUBSET S |-> IF s = {} THEN 0 ELSE f[One(s)] + g[Rest(s)]]
           step == [g \in R |-> More(g)]
           zero == [s \in SUBSET S |-> 0]
<1>1. \A g \in R : More(g) \in R
  <2> SUFFICES ASSUME NEW g \in R, NEW s \in SUBSET S, s # {}
               PROVE  f[One(s)] + g[Rest(s)] \in Nat
    OBVIOUS
  <2> QED
    BY Pick DEF Naturals
<1>2. zero \in R /\ step \in [R -> R]
  BY <1>1
<1> HIDE DEF R, More, zero
<1>3. PICK a \in [Nat -> R] : a[0] = zero /\ \A n \in Nat : a[n + 1] = step[a[n]]
  <2> HIDE DEF step
  <2> QED
    BY <1>2, Recursion
<1>4. \A n \in Nat : a[n] \in R /\ a[n + 1] = More(a[n])
  BY <1>3
<1> DEFINE Still == {n \in Nat : \A s \in SUBSET S :
                       Cardinality(s) <= n => a[n + 1][s] = a[n + 2][s]}
<1>5. \A n \in Nat, s \in SUBSET S :
        a[n + 1][s] = IF s = {} THEN 0 ELSE f[One(s)] + a[n][Rest(s)]
  BY <1>4 DEF More
<1>6. 0 \in Still
  <2> SUFFICES ASSUME NEW s \in SUBSET S, Cardinality(s) <= 0 PROVE a[0 + 1][s] = a[0 + 2][s]
    OBVIOUS
  <2>1. s = {}
    BY FS_Subset, FS_EmptySet, FS_CardinalityType
  <2>2. a[0 + 1][s] = 0 /\ a[1 + 1][s] = 0
    BY <1>5, <2>1
  <2> QED
    BY <2>2
<1>7. \A n \in Nat : n \in Still => n + 1 \in Still
  <2> SUFFICES ASSUME NEW n \in Nat, n \in Still,
                      NEW s \in SUBSET S, Cardinality(s) <= n + 1
               PROVE  a[(n + 1) + 1][s] = a[(n + 1) + 2][s]
    OBVIOUS
  <2>1. (n + 1) + 2 = ((n + 1) + 1) + 1 /\ (n + 1) + 1 \in Nat /\ n + 2 = (n + 1) + 1
    OBVIOUS
  <2>2. CASE s = {}
    <3>1. \A m \in Nat : a[m + 1][s] = 0
      BY <1>5, <2>2
    <3> QED
      BY <2>1, <3>1
  <2>3. CASE s # {}
    <3>1. Rest(s) \in SUBSET S /\ Cardinality(Rest(s)) = Cardinality(s) - 1
          /\ Cardinality(s) \in Nat
      BY <2>3, Pick
    <3>3. Cardinality(Rest(s)) <= n
      BY <3>1
    <3>4. a[n + 1][Rest(s)] = a[(n + 1) + 1][Rest(s)]
      BY <2>1, <3>1, <3>3
    <3>5. /\ a[(n + 1) + 1][s] = f[One(s)] + a[n + 1][Rest(s)]
          /\ a[((n + 1) + 1) + 1][s] = f[One(s)] + a[(n + 1) + 1][Rest(s)]
      BY <1>5, <2>1, <2>3
    <3> QED
      BY <2>1, <3>4, <3>5
  <2> QED
    BY <2>2, <2>3
<1>8. PICK n \in Nat : n = Cardinality(S)
  BY FS_CardinalityType
<1>9. n \in Still
  <2> HIDE DEF Still
  <2> QED
    BY <1>6, <1>7, Induct
<1>10. \A s \in SUBSET S : a[n + 1][s] = a[(n + 1) + 1][s]
  <2>1. n + 2 = (n + 1) + 1
    OBVIOUS
  <2> QED
    BY <1>8, <1>9, <2>1, FS_Subset
<1>11. a[n + 1] \in R /\ a[(n + 1) + 1] \in R
  BY <1>4
<1>12. a[n + 1] = a[(n + 1) + 1]
  BY <1>10, <1>11 DEF R
<1>13. a[n + 1] = More(a[n + 1])
  BY <1>4, <1>12
<1> QED
  BY <1>11, <1>13 DEF R, More, Adds

\* What adds in the order it chooses adds in every order.
LEMMA AnyOrder ==
  ASSUME NEW S, IsFiniteSet(S), NEW f, Naturals(f, S),
         NEW g \in [SUBSET S -> Nat], Adds(g, f, S), NEW A \in SUBSET S, NEW z \in A
  PROVE  g[A] = f[z] + g[A \ {z}]
<1> DEFINE Good == {n \in Nat : \A s \in SUBSET S : Cardinality(s) = n =>
                      \A x \in s : g[s] = f[x] + g[s \ {x}]}
<1>1. 0 \in Good
  BY FS_Subset, FS_EmptySet
<1>2. \A n \in Nat : n \in Good => n + 1 \in Good
  <2> SUFFICES ASSUME NEW n \in Nat, n \in Good PROVE n + 1 \in Good
    OBVIOUS
  <2> SUFFICES ASSUME NEW s \in SUBSET S, Cardinality(s) = n + 1, NEW x \in s
               PROVE  g[s] = f[x] + g[s \ {x}]
    OBVIOUS
  <2> DEFINE y == One(s)
  <2>1. y \in s /\ y \in S /\ x \in S /\ Rest(s) = s \ {y} /\ s \ {y} \in SUBSET S
    BY DEF One, Rest
  <2>2. g[s] = f[y] + g[s \ {y}]
    BY <2>1 DEF Adds
  <2> HIDE DEF y
  <2>3. CASE x = y
    BY <2>2, <2>3
  <2>4. CASE x # y
    <3>1. IsFiniteSet(s)
      BY FS_Subset
    <3>2. Cardinality(s \ {x}) = Cardinality(s) - 1 /\ Cardinality(s \ {y}) = Cardinality(s) - 1
      BY <2>1, <3>1, FS_RemoveElement
    <3>3. Cardinality(s \ {x}) = n /\ Cardinality(s \ {y}) = n
      BY <3>2
    <3>4. /\ g[s \ {y}] = f[x] + g[(s \ {y}) \ {x}]
          /\ g[s \ {x}] = f[y] + g[(s \ {x}) \ {y}]
      <4>1. x \in s \ {y} /\ y \in s \ {x} /\ s \ {x} \in SUBSET S
        BY <2>1, <2>4
      <4> QED
        BY <2>1, <3>3, <4>1
    <3>5. (s \ {y}) \ {x} = (s \ {x}) \ {y} /\ (s \ {x}) \ {y} \in SUBSET S
      OBVIOUS
    <3>6. PICK k \in Nat : k = g[(s \ {x}) \ {y}]
      BY <3>5
    <3>7. f[x] \in Nat /\ f[y] \in Nat
      BY <2>1 DEF Naturals
    <3>8. g[s \ {y}] = f[x] + k /\ g[s \ {x}] = f[y] + k
      BY <3>4, <3>5, <3>6
    <3>9. f[y] + (f[x] + k) = f[x] + (f[y] + k)
      BY <3>7
    <3> QED
      BY <2>2, <3>8, <3>9
  <2> QED
    BY <2>3, <2>4
<1> HIDE DEF Good
<1>3. \A n \in Nat : n \in Good
  BY <1>1, <1>2, Induct
<1>4. Cardinality(A) \in Nat
  BY FS_Subset, FS_CardinalityType
<1> QED
  BY <1>3, <1>4 DEF Good

LEMMA SumIs ==
  ASSUME NEW f, NEW S
  PROVE  SumFunctionOnSet(f, S) = (CHOOSE g : Adds(g, f, S))[S]
BY DEF SumFunctionOnSet, FoldFunctionOnSet, MapThenFoldSet, Adds, One, Rest

LEMMA SumEmpty ==
  ASSUME NEW f
  PROVE  SumFunctionOnSet(f, {}) = 0
<1>1. Naturals(f, {}) /\ IsFiniteSet({})
  BY FS_EmptySet DEF Naturals
<1>2. \E g : Adds(g, f, {})
  BY <1>1, AddsExists
<1>3. PICK g : Adds(g, f, {}) /\ SumFunctionOnSet(f, {}) = g[{}]
  BY <1>2, SumIs
<1> QED
  BY <1>3 DEF Adds

\* The sum over a subset is what the function that adds on the whole says of it.
LEMMA SumWithin ==
  ASSUME NEW S, IsFiniteSet(S), NEW f, Naturals(f, S),
         NEW g \in [SUBSET S -> Nat], Adds(g, f, S), NEW A \in SUBSET S
  PROVE  SumFunctionOnSet(f, A) = g[A]
<1>1. IsFiniteSet(A) /\ Naturals(f, A)
  BY FS_Subset DEF Naturals
<1>2. \E h : Adds(h, f, A)
  BY <1>1, AddsExists
<1>3. PICK h : Adds(h, f, A) /\ SumFunctionOnSet(f, A) = h[A]
  BY <1>2, SumIs
<1> DEFINE Q == {n \in Nat : \A s \in SUBSET A : Cardinality(s) = n => h[s] = g[s]}
<1>4. \A s \in SUBSET A : s \in SUBSET S
  OBVIOUS
<1>5. 0 \in Q
  <2> SUFFICES ASSUME NEW s \in SUBSET A, Cardinality(s) = 0 PROVE h[s] = g[s]
    OBVIOUS
  <2>1. s = {}
    BY <1>1, FS_Subset, FS_EmptySet
  <2> QED
    BY <1>3, <2>1 DEF Adds
<1>6. \A n \in Nat : n \in Q => n + 1 \in Q
  <2> SUFFICES ASSUME NEW n \in Nat, n \in Q, NEW s \in SUBSET A, Cardinality(s) = n + 1
               PROVE  h[s] = g[s]
    OBVIOUS
  <2>1. s \in SUBSET S
    OBVIOUS
  <2>2. s # {}
    BY <1>1, Some
  <2>3. Rest(s) \in SUBSET A /\ Cardinality(Rest(s)) = n
    BY <1>1, <2>2, Pick
  <2>5. h[Rest(s)] = g[Rest(s)]
    BY <2>3
  <2>6. h[s] = f[One(s)] + h[Rest(s)]
    BY <1>3, <2>2 DEF Adds
  <2>7. g[s] = f[One(s)] + g[Rest(s)]
    BY <2>1, <2>2 DEF Adds
  <2> QED
    BY <2>5, <2>6, <2>7
<1> HIDE DEF Q
<1>7. \A n \in Nat : n \in Q
  BY <1>5, <1>6, Induct
<1>8. Cardinality(A) \in Nat
  BY <1>1, FS_CardinalityType
<1>9. h[A] = g[A]
  BY <1>7, <1>8 DEF Q
<1> QED
  BY <1>3, <1>9

LEMMA SumSplit ==
  ASSUME NEW S, IsFiniteSet(S), NEW f, Naturals(f, S)
  PROVE  /\ SumFunctionOnSet(f, S) \in Nat
         /\ \A x \in S : /\ SumFunctionOnSet(f, S) = f[x] + SumFunctionOnSet(f, S \ {x})
                         /\ SumFunctionOnSet(f, S \ {x}) \in Nat
<1>1. PICK g \in [SUBSET S -> Nat] : Adds(g, f, S)
  BY AddsExists
<1>2. \A A \in SUBSET S : SumFunctionOnSet(f, A) = g[A]
  BY <1>1, SumWithin
<1>3. \A x \in S : g[S] = f[x] + g[S \ {x}]
  BY <1>1, AnyOrder
<1> QED
  BY <1>2, <1>3

LEMMA SumMore ==
  ASSUME NEW S, IsFiniteSet(S), NEW f, Naturals(f, S), NEW s \in SUBSET S, NEW x \in S,
         x \notin s
  PROVE  /\ SumFunctionOnSet(f, s \cup {x}) = f[x] + SumFunctionOnSet(f, s)
         /\ SumFunctionOnSet(f, s) \in Nat /\ f[x] \in Nat
         /\ SumFunctionOnSet(f, s \cup {x}) \in Nat
<1>1. IsFiniteSet(s \cup {x}) /\ Naturals(f, s \cup {x}) /\ (s \cup {x}) \ {x} = s
  BY FS_Subset DEF Naturals
<1> QED
  BY <1>1, SumSplit DEF Naturals

-----------------------------------------------------------------------------
\* What sums keep: equality and order of the operands, addition and multiplication.
LEMMA SumSame ==
  ASSUME NEW S, IsFiniteSet(S), NEW f, NEW h, Naturals(f, S), \A x \in S : f[x] = h[x]
  PROVE  SumFunctionOnSet(f, S) = SumFunctionOnSet(h, S)
<1> DEFINE Q == {s \in SUBSET S : SumFunctionOnSet(f, s) = SumFunctionOnSet(h, s)}
<1>1. {} \in Q
  BY SumEmpty
<1>2. \A s \in SUBSET S : \A x \in S : s \in Q /\ x \notin s => s \cup {x} \in Q
  <2> SUFFICES ASSUME NEW s \in SUBSET S, NEW x \in S, x \notin s,
                      SumFunctionOnSet(f, s) = SumFunctionOnSet(h, s)
               PROVE  SumFunctionOnSet(f, s \cup {x}) = SumFunctionOnSet(h, s \cup {x})
    OBVIOUS
  <2>1. Naturals(h, S)
    BY DEF Naturals
  <2>2. SumFunctionOnSet(f, s \cup {x}) = f[x] + SumFunctionOnSet(f, s)
    BY SumMore
  <2>3. SumFunctionOnSet(h, s \cup {x}) = h[x] + SumFunctionOnSet(h, s)
    BY <2>1, SumMore
  <2> QED
    BY <2>2, <2>3
<1> HIDE DEF Q
<1>3. S \in Q
  BY <1>1, <1>2, InductSets
<1> QED
  BY <1>3 DEF Q

LEMMA SumLeq ==
  ASSUME NEW S, IsFiniteSet(S), NEW f, NEW h, Naturals(f, S), Naturals(h, S),
         \A x \in S : f[x] <= h[x]
  PROVE  SumFunctionOnSet(f, S) <= SumFunctionOnSet(h, S)
<1> DEFINE Q == {s \in SUBSET S : SumFunctionOnSet(f, s) <= SumFunctionOnSet(h, s)}
<1>1. {} \in Q
  BY SumEmpty
<1>2. \A s \in SUBSET S : \A x \in S : s \in Q /\ x \notin s => s \cup {x} \in Q
  <2> SUFFICES ASSUME NEW s \in SUBSET S, NEW x \in S, x \notin s,
                      SumFunctionOnSet(f, s) <= SumFunctionOnSet(h, s)
               PROVE  SumFunctionOnSet(f, s \cup {x}) <= SumFunctionOnSet(h, s \cup {x})
    OBVIOUS
  <2>1. SumFunctionOnSet(f, s \cup {x}) = f[x] + SumFunctionOnSet(f, s)
        /\ f[x] \in Nat /\ SumFunctionOnSet(f, s) \in Nat
    BY SumMore
  <2>2. SumFunctionOnSet(h, s \cup {x}) = h[x] + SumFunctionOnSet(h, s)
        /\ h[x] \in Nat /\ SumFunctionOnSet(h, s) \in Nat
    BY SumMore
  <2>3. f[x] <= h[x]
    OBVIOUS
  <2> QED
    BY <2>1, <2>2, <2>3
<1> HIDE DEF Q
<1>3. S \in Q
  BY <1>1, <1>2, InductSets
<1> QED
  BY <1>3 DEF Q

LEMMA SumPlus ==
  ASSUME NEW S, IsFiniteSet(S), NEW f, NEW h, NEW k, Naturals(f, S), Naturals(h, S),
         \A x \in S : k[x] = f[x] + h[x]
  PROVE  SumFunctionOnSet(k, S) = SumFunctionOnSet(f, S) + SumFunctionOnSet(h, S)
<1> DEFINE Q == {s \in SUBSET S : SumFunctionOnSet(k, s)
                                  = SumFunctionOnSet(f, s) + SumFunctionOnSet(h, s)}
<1>1. {} \in Q
  BY SumEmpty
<1>2. \A s \in SUBSET S : \A x \in S : s \in Q /\ x \notin s => s \cup {x} \in Q
  <2> SUFFICES ASSUME NEW s \in SUBSET S, NEW x \in S, x \notin s,
                      SumFunctionOnSet(k, s) = SumFunctionOnSet(f, s) + SumFunctionOnSet(h, s)
               PROVE  SumFunctionOnSet(k, s \cup {x})
                      = SumFunctionOnSet(f, s \cup {x}) + SumFunctionOnSet(h, s \cup {x})
    OBVIOUS
  <2> HIDE DEF Q
  <2>1. Naturals(k, S)
    BY DEF Naturals
  <2>2. SumFunctionOnSet(f, s \cup {x}) = f[x] + SumFunctionOnSet(f, s)
        /\ f[x] \in Nat /\ SumFunctionOnSet(f, s) \in Nat
    <3>1. Naturals(f, S) /\ IsFiniteSet(S) /\ s \in SUBSET S /\ x \in S /\ x \notin s
      OBVIOUS
    <3> QED
      BY ONLY <3>1, SumMore
  <2>3. SumFunctionOnSet(h, s \cup {x}) = h[x] + SumFunctionOnSet(h, s)
        /\ h[x] \in Nat /\ SumFunctionOnSet(h, s) \in Nat
    BY SumMore
  <2>4. SumFunctionOnSet(k, s \cup {x}) = k[x] + SumFunctionOnSet(k, s)
    BY <2>1, SumMore
  <2>5. k[x] = f[x] + h[x]
    OBVIOUS
  <2> QED
    BY <2>2, <2>3, <2>4, <2>5
<1> HIDE DEF Q
<1>3. S \in Q
  BY <1>1, <1>2, InductSets
<1> QED
  BY <1>3 DEF Q

LEMMA Distributes == \A a, b, c \in Nat : a * (b + c) = a * b + a * c
OBVIOUS

LEMMA SumTimes ==
  ASSUME NEW S, IsFiniteSet(S), NEW f, NEW k, NEW a \in Nat, Naturals(f, S),
         \A x \in S : k[x] = a * f[x]
  PROVE  SumFunctionOnSet(k, S) = a * SumFunctionOnSet(f, S)
<1> DEFINE Q == {s \in SUBSET S : SumFunctionOnSet(k, s) = a * SumFunctionOnSet(f, s)}
<1>1. {} \in Q
  BY SumEmpty
<1>2. \A s \in SUBSET S : \A x \in S : s \in Q /\ x \notin s => s \cup {x} \in Q
  <2> SUFFICES ASSUME NEW s \in SUBSET S, NEW x \in S, x \notin s, s \in Q
               PROVE  s \cup {x} \in Q
    OBVIOUS
  <2>1. Naturals(k, S)
    BY DEF Naturals
  <2>2. SumFunctionOnSet(f, s \cup {x}) = f[x] + SumFunctionOnSet(f, s)
        /\ f[x] \in Nat /\ SumFunctionOnSet(f, s) \in Nat
    BY SumMore
  <2>3. SumFunctionOnSet(k, s \cup {x}) = k[x] + SumFunctionOnSet(k, s)
    BY <2>1, SumMore
  <2>4. a * (f[x] + SumFunctionOnSet(f, s)) = a * f[x] + a * SumFunctionOnSet(f, s)
    BY <2>2, Distributes
  <2>5. k[x] = a * f[x]
    OBVIOUS
  <2> QED
    BY <2>2, <2>3, <2>4, <2>5
<1> HIDE DEF Q
<1>3. S \in Q
  BY <1>1, <1>2, InductSets
<1> QED
  BY <1>3 DEF Q

\* Operands that are 0 may be left out.
LEMMA SumRest ==
  ASSUME NEW A, NEW S, IsFiniteSet(A), IsFiniteSet(S), NEW f, Naturals(f, A),
         \A x \in S : f[x] = 0 /\ x \notin A
  PROVE  SumFunctionOnSet(f, A \cup S) = SumFunctionOnSet(f, A)
<1> DEFINE Q == {s \in SUBSET S : SumFunctionOnSet(f, A \cup s) = SumFunctionOnSet(f, A)}
<1>1. {} \in Q
  BY A \cup {} = A
<1>2. \A s \in SUBSET S : \A x \in S : s \in Q /\ x \notin s => s \cup {x} \in Q
  <2> SUFFICES ASSUME NEW s \in SUBSET S, NEW x \in S, x \notin s, s \in Q
               PROVE  SumFunctionOnSet(f, A \cup (s \cup {x})) = SumFunctionOnSet(f, A)
    OBVIOUS
  <2> DEFINE B == A \cup s
             C == A \cup (s \cup {x})
  <2>1. x \in C /\ C \ {x} = B
    OBVIOUS
  <2>2. IsFiniteSet(C) /\ Naturals(f, C)
    <3>1. IsFiniteSet(s \cup {x})
      BY FS_Subset
    <3>2. IsFiniteSet(C)
      BY <3>1, FS_Union
    <3> QED
      BY <3>2 DEF Naturals
  <2>3. SumFunctionOnSet(f, B) = SumFunctionOnSet(f, A) /\ f[x] = 0
    OBVIOUS
  <2> HIDE DEF B, C, Q
  <2>4. SumFunctionOnSet(f, C) = f[x] + SumFunctionOnSet(f, C \ {x})
        /\ SumFunctionOnSet(f, C \ {x}) \in Nat
    BY <2>1, <2>2, SumSplit
  <2>5. SumFunctionOnSet(f, C \ {x}) = SumFunctionOnSet(f, B)
    BY ONLY <2>1
  <2> DEFINE u == SumFunctionOnSet(f, C \ {x})
             v == SumFunctionOnSet(f, A)
  <2>6. SumFunctionOnSet(f, C) = 0 + u /\ u \in Nat /\ u = v
    BY <2>3, <2>4, <2>5
  <2> HIDE DEF u, v
  <2>7. SumFunctionOnSet(f, C) = v
    BY <2>6
  <2> QED
    BY <2>7 DEF v, C
<1> HIDE DEF Q
<1>3. \A s \in SUBSET S : s \in Q
  <2>1. IsFiniteSet(S)
    OBVIOUS
  <2> QED
    BY ONLY <1>1, <1>2, <2>1, InductSets
<1>4. S \in Q
  BY <1>3
<1> QED
  BY <1>4 DEF Q

LEMMA SumOutside ==
  ASSUME NEW S, IsFiniteSet(S), NEW f, Naturals(f, S), NEW A \in SUBSET S,
         \A x \in S \ A : f[x] = 0
  PROVE  SumFunctionOnSet(f, A) = SumFunctionOnSet(f, S)
<1> DEFINE D == S \ A
<1>1. A \cup D = S
  OBVIOUS
<1>2. IsFiniteSet(A) /\ IsFiniteSet(D) /\ Naturals(f, A)
  BY FS_Subset DEF Naturals
<1>3. \A x \in D : f[x] = 0 /\ x \notin A
  OBVIOUS
<1> HIDE DEF D
<1>4. SumFunctionOnSet(f, A \cup D) = SumFunctionOnSet(f, A)
  BY <1>2, <1>3, SumRest
<1> QED
  BY ONLY <1>1, <1>4

\* One operand grows: the sum grows by as much.
LEMMA SumGrows ==
  ASSUME NEW S, IsFiniteSet(S), NEW f, NEW h, Naturals(f, S), NEW x \in S, NEW k \in Nat,
         h[x] = f[x] + k, \A y \in S \ {x} : h[y] = f[y]
  PROVE  SumFunctionOnSet(h, S) = SumFunctionOnSet(f, S) + k
<1>1. Naturals(h, S)
  BY DEF Naturals
<1>2. IsFiniteSet(S \ {x}) /\ Naturals(f, S \ {x})
  BY FS_Subset DEF Naturals
<1>3. SumFunctionOnSet(f, S \ {x}) = SumFunctionOnSet(h, S \ {x})
  BY <1>2, SumSame
<1>4. /\ SumFunctionOnSet(f, S) = f[x] + SumFunctionOnSet(f, S \ {x})
      /\ SumFunctionOnSet(f, S \ {x}) \in Nat
  BY SumSplit
<1>5. SumFunctionOnSet(h, S) = h[x] + SumFunctionOnSet(h, S \ {x})
  BY <1>1, SumSplit
<1>6. f[x] \in Nat
  BY DEF Naturals
<1> QED
  BY <1>3, <1>4, <1>5, <1>6

\* The order of summation is exchanged: rows[x] sums m[x][y] over the columns, and
\* columns[y] over the rows.
LEMMA SumSwap ==
  ASSUME NEW S, IsFiniteSet(S), NEW T, IsFiniteSet(T), NEW m \in [S -> [T -> Nat]]
  PROVE  SumFunctionOnSet([x \in S |-> SumFunctionOnSet(m[x], T)], S)
         = SumFunctionOnSet([y \in T |-> SumFunctionOnSet([x \in S |-> m[x][y]], S)], T)
<1> DEFINE col(y) == [x \in S |-> m[x][y]]
           rows == [x \in S |-> SumFunctionOnSet(m[x], T)]
           cols(s) == [y \in T |-> SumFunctionOnSet(col(y), s)]
           Q == {s \in SUBSET S : SumFunctionOnSet(rows, s) = SumFunctionOnSet(cols(s), T)}
<1>1. \A y \in T : Naturals(col(y), S)
  BY DEF Naturals
<1>2. \A x \in S : Naturals(m[x], T)
  BY DEF Naturals
<1>3. Naturals(rows, S)
  BY <1>2, SumSplit DEF Naturals
<1>4. \A s \in SUBSET S : Naturals(cols(s), T)
  <2> SUFFICES ASSUME NEW s \in SUBSET S, NEW y \in T PROVE SumFunctionOnSet(col(y), s) \in Nat
    BY DEF Naturals
  <2>1. IsFiniteSet(s) /\ Naturals(col(y), s)
    BY <1>1, FS_Subset DEF Naturals
  <2> HIDE DEF col
  <2> QED
    BY <2>1, SumSplit
<1>5. {} \in Q
  <2> DEFINE zero == [y \in T |-> 0]
  <2>1. \A y \in T : cols({})[y] = 0 * zero[y]
    <3> HIDE DEF col
    <3> QED
      BY SumEmpty
  <2>2. Naturals(zero, T)
    BY DEF Naturals
  <2> HIDE DEF cols, zero
  <2>3. SumFunctionOnSet(cols({}), T) = 0 * SumFunctionOnSet(zero, T)
    BY <2>1, <2>2, SumTimes
  <2>4. SumFunctionOnSet(zero, T) \in Nat
    BY <2>2, SumSplit
  <2>5. SumFunctionOnSet(cols({}), T) = 0
    BY <2>3, <2>4
  <2> HIDE DEF rows
  <2> QED
    BY <2>5, SumEmpty
<1>6. \A s \in SUBSET S : \A x \in S : s \in Q /\ x \notin s => s \cup {x} \in Q
  <2> SUFFICES ASSUME NEW s \in SUBSET S, NEW x \in S, x \notin s, s \in Q
               PROVE  s \cup {x} \in Q
    OBVIOUS
  <2>1. \A y \in T : cols(s \cup {x})[y] = m[x][y] + cols(s)[y]
    <3> SUFFICES ASSUME NEW y \in T PROVE cols(s \cup {x})[y] = m[x][y] + cols(s)[y]
      OBVIOUS
    <3>1. col(y)[x] = m[x][y]
      OBVIOUS
    <3> HIDE DEF col
    <3>2. SumFunctionOnSet(col(y), s \cup {x}) = col(y)[x] + SumFunctionOnSet(col(y), s)
      BY <1>1, SumMore
    <3> QED
      BY <3>1, <3>2
  <2>2. rows[x] = SumFunctionOnSet(m[x], T)
    OBVIOUS
  <2>3. SumFunctionOnSet(rows, s) = SumFunctionOnSet(cols(s), T)
    OBVIOUS
  <2> HIDE DEF cols, rows
  <2>4. SumFunctionOnSet(cols(s \cup {x}), T)
        = SumFunctionOnSet(m[x], T) + SumFunctionOnSet(cols(s), T)
    BY <1>2, <1>4, <2>1, SumPlus
  <2>5. SumFunctionOnSet(rows, s \cup {x}) = rows[x] + SumFunctionOnSet(rows, s)
    BY <1>3, SumMore
  <2>6. SumFunctionOnSet(rows, s \cup {x}) = SumFunctionOnSet(cols(s \cup {x}), T)
    BY <2>2, <2>3, <2>4, <2>5
  <2> QED
    BY <2>6
<1> HIDE DEF Q
<1>7. S \in Q
  BY <1>5, <1>6, InductSets
<1> QED
  BY <1>7 DEF Q

-----------------------------------------------------------------------------
(***************************************************************************)
(* The recursive functions of the module are what they say.                *)
(***************************************************************************)
LEMMA Iterates ==
  ASSUME NEW R, NEW b \in R, NEW step \in [R -> R]
  PROVE  \E f \in [Nat -> R] : \A n \in Nat : f[n] = IF n = 0 THEN b ELSE step[f[n - 1]]
<1>1. PICK f \in [Nat -> R] : f[0] = b /\ \A n \in Nat : f[n + 1] = step[f[n]]
  BY Recursion
<1>2. \A n \in Nat : f[n] = IF n = 0 THEN b ELSE step[f[n - 1]]
  <2> SUFFICES ASSUME NEW n \in Nat, n # 0 PROVE f[n] = step[f[n - 1]]
    BY <1>1
  <2>1. n - 1 \in Nat /\ (n - 1) + 1 = n
    OBVIOUS
  <2> QED
    BY <1>1, <2>1
<1> QED
  BY <1>2

LEMMA PowerIs ==
  ASSUME Whole \in Nat
  PROVE  Power \in [Nat -> Nat] /\ Power[0] = 1 /\ \A n \in Nat : Power[n + 1] = Whole * Power[n]
<1> DEFINE step == [x \in Nat |-> Whole * x]
           Is(f) == f = [n \in Nat |-> IF n = 0 THEN 1 ELSE Whole * f[n - 1]]
<1> DEFINE R == Nat
           one == 1
<1>1. one \in R /\ step \in [R -> R]
  OBVIOUS
<1>2. PICK f \in [Nat -> R] : \A n \in Nat : f[n] = IF n = 0 THEN one ELSE step[f[n - 1]]
  <2> HIDE DEF R, one, step
  <2> QED
    BY <1>1, Iterates
<1>3. Is(f)
  <2>1. \A n \in Nat : f[n] = IF n = 0 THEN 1 ELSE Whole * f[n - 1]
    <3> SUFFICES ASSUME NEW n \in Nat, n # 0 PROVE f[n] = Whole * f[n - 1]
      BY <1>2
    <3>1. f[n - 1] \in Nat
      OBVIOUS
    <3> QED
      BY <1>2, <3>1
  <2> QED
    BY <2>1
<1>4. Power = CHOOSE f_1 : Is(f_1)
  BY DEF Power
<1> HIDE DEF Is
<1>5. Is(Power)
  BY <1>3, <1>4
<1>6. Power = [n \in Nat |-> IF n = 0 THEN 1 ELSE Whole * Power[n - 1]]
  BY <1>5 DEF Is
<1>7. Power[0] = 1 /\ \A n \in Nat : Power[n + 1] = Whole * Power[n]
  <2>1. \A n \in Nat : n + 1 \in Nat /\ n + 1 # 0 /\ (n + 1) - 1 = n
    OBVIOUS
  <2> QED
    BY <1>6, <2>1
<1> DEFINE Q == {n \in Nat : Power[n] \in Nat}
<1>8. \A n \in Nat : n \in Q
  <2>1. 0 \in Q /\ \A n \in Nat : n \in Q => n + 1 \in Q
    BY <1>7
  <2> HIDE DEF Q
  <2> QED
    BY <2>1, Induct
<1> QED
  BY <1>6, <1>7, <1>8

\* What an entity owns after n + 1 steps is what those it holds own after n.
LEMMA WithinIs ==
  /\ Within \in [Nat -> [Entities -> SUBSET Entities]]
  /\ \A e \in Entities : Within[0][e] = {e}
  /\ \A n \in Nat, e \in Entities :
       Within[n + 1][e] = {e} \cup UNION {Within[n][c] : c \in HeldBy(e)}
<1> DEFINE R == [Entities -> SUBSET Entities]
           base == [e \in Entities |-> {e}]
           step == [w \in R |-> [e \in Entities |-> {e} \cup UNION {w[c] : c \in HeldBy(e)}]]
           Row(f, n) == [e \in Entities |-> IF n = 0 THEN {e}
                           ELSE {e} \cup UNION {f[n - 1][c] : c \in HeldBy(e)}]
           Is(f) == f = [n \in Nat |-> Row(f, n)]
<1>1. base \in R /\ step \in [R -> R]
  <2>1. \A e \in Entities : HeldBy(e) \subseteq Entities
    BY DEF HeldBy
  <2> QED
    BY <2>1
<1>2. PICK f \in [Nat -> R] : \A n \in Nat : f[n] = IF n = 0 THEN base ELSE step[f[n - 1]]
  <2> HIDE DEF R, base, step
  <2> QED
    BY <1>1, Iterates
<1>3. Is(f)
  <2>1. \A n \in Nat : f[n] = Row(f, n)
    <3> SUFFICES ASSUME NEW n \in Nat PROVE f[n] = Row(f, n)
      OBVIOUS
    <3>1. CASE n = 0
      BY <1>2, <3>1
    <3>2. CASE n # 0
      <4>1. n - 1 \in Nat
        BY <3>2
      <4>2. f[n - 1] \in R /\ f[n] = step[f[n - 1]]
        BY <1>2, <3>2, <4>1
      <4> QED
        BY <3>2, <4>2
    <3> QED
      BY <3>1, <3>2
  <2> HIDE DEF Row, R
  <2> QED
    BY <2>1
<1>4. Within = CHOOSE g : Is(g)
  BY DEF Within
<1> HIDE DEF Is
<1>5. Is(Within)
  BY <1>3, <1>4
<1>6. \A n \in Nat : Within[n] = Row(Within, n)
  <2> HIDE DEF Row
  <2> QED
    BY <1>5 DEF Is
<1>7. \A e \in Entities : Within[0][e] = {e}
  BY <1>6
<1>8. \A n \in Nat, e \in Entities :
        Within[n + 1][e] = {e} \cup UNION {Within[n][c] : c \in HeldBy(e)}
  <2> SUFFICES ASSUME NEW n \in Nat, NEW e \in Entities
               PROVE  Within[n + 1][e] = {e} \cup UNION {Within[n][c] : c \in HeldBy(e)}
    OBVIOUS
  <2>1. n + 1 \in Nat /\ n + 1 # 0 /\ (n + 1) - 1 = n
    OBVIOUS
  <2>2. Within[n + 1] = Row(Within, n + 1)
    BY <1>6, <2>1
  <2> QED
    BY <2>1, <2>2
<1> DEFINE Q == {n \in Nat : Within[n] \in R}
<1>9. \A n \in Nat : n \in Q
  <2>1. 0 \in Q
    <3>1. Within[0] = [e \in Entities |-> {e}]
      BY <1>6
    <3> QED
      BY <3>1
  <2>2. \A n \in Nat : n \in Q => n + 1 \in Q
    <3> SUFFICES ASSUME NEW n \in Nat, Within[n] \in R PROVE Within[n + 1] \in R
      OBVIOUS
    <3>1. n + 1 \in Nat /\ Within[n + 1] = Row(Within, n + 1)
      BY <1>6
    <3>2. \A e \in Entities : Within[n + 1][e] \in SUBSET Entities
      <4> SUFFICES ASSUME NEW e \in Entities PROVE Within[n + 1][e] \in SUBSET Entities
        OBVIOUS
      <4>1. \A c \in HeldBy(e) : Within[n][c] \in SUBSET Entities
        BY DEF HeldBy
      <4> QED
        BY <1>8, <4>1
    <3>3. Within[n + 1] = [e \in Entities |-> Within[n + 1][e]]
      BY <3>1
    <3> QED
      BY <3>2, <3>3
  <2> HIDE DEF Q
  <2> QED
    BY <2>1, <2>2, Induct
<1>10. Within = [n \in Nat |-> Within[n]]
  <2>1. Within = [n \in Nat |-> Row(Within, n)]
    BY <1>5 DEF Is
  <2> HIDE DEF Row
  <2> QED
    BY <1>6, <2>1
<1> QED
  BY <1>7, <1>8, <1>9, <1>10

LEMMA Percents ==
  ASSUME ConstantsOK, TypeOK
  PROVE  \A p, c : /\ Percent(p, c) \in Nat /\ Percent(p, c) <= Whole
                   /\ ~Linked(p, c) => Percent(p, c) = 0
BY DEF ConstantsOK, TypeOK, Percent, Linked, NoLink

LEMMA SumOver ==
  ASSUME NEW S, NEW f, DOMAIN f = S
  PROVE  SumFunction(f) = SumFunctionOnSet(f, S)
BY DEF SumFunction

\* What reaches an entity in n + 1 steps reaches its parents in n.
Passed(w, e) == [p \in Entities |-> Percent(p, e) * w[p]]

LEMMA PassedNaturals ==
  ASSUME ConstantsOK, TypeOK, NEW w, Naturals(w, Entities), NEW e
  PROVE  Naturals(Passed(w, e), Entities)
<1> SUFFICES ASSUME NEW p \in Entities PROVE Percent(p, e) * w[p] \in Nat
  BY DEF Naturals, Passed
<1>1. Percent(p, e) \in Nat /\ w[p] \in Nat
  BY Percents DEF Naturals
<1> QED
  BY <1>1

LEMMA ReachedIs ==
  ASSUME ConstantsOK, TypeOK
  PROVE  /\ Reached \in [Nat -> [Entities -> Nat]]
         /\ \A e \in Entities : Reached[0][e] = IF e \in RootsOnly THEN 1 ELSE 0
         /\ \A n \in Nat, e \in Entities :
              Reached[n + 1][e] = SumFunctionOnSet(Passed(Reached[n], e), Entities)
<1> DEFINE R == [Entities -> Nat]
           base == [e \in Entities |-> IF e \in RootsOnly THEN 1 ELSE 0]
           Next_(w) == [e \in Entities |-> SumFunction(Passed(w, e))]
           step == [w \in R |-> Next_(w)]
           Row(f, n) == [e \in Entities |-> IF n = 0 THEN IF e \in RootsOnly THEN 1 ELSE 0
                           ELSE SumFunction([p \in Entities |-> Percent(p, e) * f[n - 1][p]])]
           Is(f) == f = [n \in Nat |-> Row(f, n)]
<1>1. \A w, e : SumFunction(Passed(w, e)) = SumFunctionOnSet(Passed(w, e), Entities)
  BY SumOver DEF Passed
<1>2. base \in R /\ \A w \in R : Next_(w) \in R
  <2> SUFFICES ASSUME NEW w \in R, NEW e \in Entities PROVE SumFunction(Passed(w, e)) \in Nat
    OBVIOUS
  <2>1. Naturals(w, Entities)
    BY DEF Naturals
  <2> QED
    BY <1>1, <2>1, PassedNaturals, SumSplit DEF ConstantsOK
<1>3. step \in [R -> R]
  <2> HIDE DEF Next_, R
  <2> QED
    BY <1>2
<1>4. PICK f \in [Nat -> R] : \A n \in Nat : f[n] = IF n = 0 THEN base ELSE step[f[n - 1]]
  <2> HIDE DEF R, base, step
  <2> QED
    BY <1>2, <1>3, Iterates
<1>5. \A n \in Nat : f[n] = Row(f, n)
  <2> SUFFICES ASSUME NEW n \in Nat PROVE f[n] = Row(f, n)
    OBVIOUS
  <2>1. CASE n = 0
    BY <1>4, <2>1
  <2>2. CASE n # 0
    <3>1. n - 1 \in Nat
      BY <2>2
    <3>2. f[n - 1] \in R /\ f[n] = step[f[n - 1]]
      BY <1>4, <2>2, <3>1
    <3>3. step[f[n - 1]] = Next_(f[n - 1])
      <4> HIDE DEF Next_, R
      <4> QED
        BY <3>2
    <3> QED
      BY <2>2, <3>2, <3>3 DEF Passed
  <2> QED
    BY <2>1, <2>2
<1>6. Is(f)
  <2> HIDE DEF Row, R
  <2> QED
    BY <1>5
<1>7. Reached = CHOOSE g : Is(g)
  BY DEF Reached
<1> HIDE DEF Is
<1>8. Is(Reached)
  BY <1>6, <1>7
<1>9. Reached = [n \in Nat |-> Row(Reached, n)]
  BY <1>8 DEF Is
<1>10. \A n \in Nat : Reached[n] = Row(Reached, n)
  <2> HIDE DEF Row
  <2> QED
    BY <1>9
<1>11. Reached[0] = base
  BY <1>10
<1>12. \A n \in Nat : Reached[n + 1] = Next_(Reached[n])
  <2> SUFFICES ASSUME NEW n \in Nat PROVE Reached[n + 1] = Next_(Reached[n])
    OBVIOUS
  <2>1. n + 1 \in Nat /\ n + 1 # 0 /\ (n + 1) - 1 = n
    OBVIOUS
  <2>2. Reached[n + 1] = Row(Reached, n + 1)
    BY <1>10, <2>1
  <2> QED
    BY <2>1, <2>2 DEF Passed
<1> DEFINE Q == {n \in Nat : Reached[n] \in R}
<1>13. \A n \in Nat : n \in Q
  <2> HIDE DEF R, base, Next_
  <2>1. 0 \in Q /\ \A n \in Nat : n \in Q => n + 1 \in Q
    BY <1>2, <1>11, <1>12
  <2> HIDE DEF Q
  <2> QED
    BY <2>1, Induct
<1>14. Reached = [n \in Nat |-> Reached[n]]
  <2> HIDE DEF Row
  <2> QED
    BY <1>9, <1>10
<1>15. Reached \in [Nat -> R]
  <2> HIDE DEF R
  <2> QED
    BY <1>13, <1>14
<1>16. \A n \in Nat, e \in Entities :
         Reached[n + 1][e] = SumFunctionOnSet(Passed(Reached[n], e), Entities)
  BY <1>1, <1>12
<1> QED
  BY <1>11, <1>15, <1>16

\* What the search collects below an entity, given what it collects below those it
\* holds, once the entity is visited too.
Held(w, e) == [c \in HeldBy(e) |-> Percent(e, c) * w[c]]
Cell(t, w, v, e) ==
  IF e \in v THEN 0
  ELSE (IF e = t THEN Power[Depth - Cardinality(v)] ELSE 0) + SumFunction(Held(w, e))

LEMMA CellNatural ==
  ASSUME ConstantsOK, TypeOK, NEW t, NEW w \in [Entities -> Nat],
         NEW v \in SUBSET Entities, NEW e \in Entities
  PROVE  Cell(t, w, v, e) \in Nat
<1>1. Power[Depth - Cardinality(v)] \in Nat
  <2>1. Depth \in Nat /\ Cardinality(v) \in Nat /\ Cardinality(v) <= Depth
    BY FS_Subset, FS_CardinalityType DEF ConstantsOK, Depth
  <2>2. Depth - Cardinality(v) \in Nat
    BY <2>1
  <2> QED
    BY <2>2, PowerIs DEF ConstantsOK
<1>2. Naturals(Held(w, e), HeldBy(e))
  <2> SUFFICES ASSUME NEW c \in HeldBy(e) PROVE Percent(e, c) * w[c] \in Nat
    BY DEF Naturals, Held
  <2>1. Percent(e, c) \in Nat /\ w[c] \in Nat
    BY Percents DEF HeldBy
  <2> QED
    BY <2>1
<1>3. IsFiniteSet(HeldBy(e))
  BY FS_Subset DEF ConstantsOK, HeldBy
<1>4. SumFunction(Held(w, e)) = SumFunctionOnSet(Held(w, e), HeldBy(e))
  BY SumOver DEF Held
<1>5. SumFunction(Held(w, e)) \in Nat
  BY <1>2, <1>3, <1>4, SumSplit
<1> QED
  BY <1>1, <1>5 DEF Cell

\* The search visits an entity more at every step, and stops when it has visited all.
LEMMA FoundIs ==
  ASSUME ConstantsOK, TypeOK, NEW t
  PROVE  /\ Found(t) \in [SUBSET Entities -> [Entities -> Nat]]
         /\ \A v \in SUBSET Entities, e \in Entities :
              Found(t)[v][e] = Cell(t, Found(t)[v \cup {e}], v, e)
<1> DEFINE V == SUBSET Entities
           W == [Entities -> Nat]
           R == [V -> W]
           Row(g, v) == [e \in Entities |-> Cell(t, g[v \cup {e}], v, e)]
           More(g) == [v \in V |-> Row(g, v)]
           step == [g \in R |-> More(g)]
           none == [e \in Entities |-> 0]
           zero == [v \in V |-> none]
           Is(g) == g = More(g)
<1>1. \A g \in R : More(g) \in R
  <2> SUFFICES ASSUME NEW g \in R, NEW v \in V, NEW e \in Entities
               PROVE  Cell(t, g[v \cup {e}], v, e) \in Nat
    OBVIOUS
  <2>1. v \cup {e} \in V
    OBVIOUS
  <2>2. g[v \cup {e}] \in W
    <3> HIDE DEF V, W
    <3> QED
      BY <2>1
  <2> QED
    BY <2>2, CellNatural
<1>2. zero \in R
  OBVIOUS
<1>3. step \in [R -> R]
  <2> HIDE DEF R, More
  <2> QED
    BY <1>1
<1>4. PICK a \in [Nat -> R] : a[0] = zero /\ \A n \in Nat : a[n + 1] = step[a[n]]
  <2> HIDE DEF R, step, zero
  <2> QED
    BY <1>2, <1>3, Recursion
<1>5. \A n \in Nat : a[n] \in R /\ a[n + 1] = More(a[n])
  <2> HIDE DEF R, More
  <2> QED
    BY <1>4
<1> DEFINE Still == {n \in Nat : \A v \in V : Depth <= Cardinality(v) + n => a[n + 1][v] = a[n][v]}
<1>6. Depth \in Nat /\ \A v \in V : Cardinality(v) \in Nat
  BY FS_Subset, FS_CardinalityType DEF ConstantsOK, Depth
<1>7. \A n \in Nat, v \in V : a[n + 1][v] = Row(a[n], v)
  <2> HIDE DEF V, Row, R
  <2> QED
    BY <1>5
<1>8. 0 \in Still
  <2> SUFFICES ASSUME NEW v \in V, Depth <= Cardinality(v) + 0 PROVE a[0 + 1][v] = a[0][v]
    OBVIOUS
  <2>1. v = Entities
    <3>1. Depth <= Cardinality(v)
      BY <1>6
    <3> QED
      BY <3>1, FS_Subset, FS_CardinalityType DEF ConstantsOK, Depth
  <2>2. Row(a[0], v) = none
    BY <2>1 DEF Cell
  <2>3. a[0][v] = none
    BY <1>4
  <2> HIDE DEF Row, none
  <2>4. \A n \in Nat : n = 0 => a[n + 1][v] = Row(a[n], v)
    BY <1>7
  <2> QED
    BY <2>2, <2>3, <2>4
<1>9. \A n \in Nat : n \in Still => n + 1 \in Still
  <2> SUFFICES ASSUME NEW n \in Nat, n \in Still PROVE n + 1 \in Still
    OBVIOUS
  <2> SUFFICES ASSUME NEW v \in V, Depth <= Cardinality(v) + (n + 1)
               PROVE  a[(n + 1) + 1][v] = a[n + 1][v]
    OBVIOUS
  <2>1. \A e \in Entities : Cell(t, a[n + 1][v \cup {e}], v, e) = Cell(t, a[n][v \cup {e}], v, e)
    <3> SUFFICES ASSUME NEW e \in Entities, e \notin v
                 PROVE  a[n + 1][v \cup {e}] = a[n][v \cup {e}]
      BY DEF Cell
    <3>1. IsFiniteSet(v)
      BY FS_Subset DEF ConstantsOK
    <3>2. Cardinality(v \cup {e}) = Cardinality(v) + 1
      BY <3>1, FS_AddElement
    <3>3. Depth <= Cardinality(v \cup {e}) + n /\ v \cup {e} \in V
      BY <1>6, <3>2
    <3> QED
      BY <3>3
  <2>2. a[n + 1][v] = Row(a[n], v) /\ a[(n + 1) + 1][v] = Row(a[n + 1], v)
    <3> HIDE DEF V, Row
    <3> QED
      BY <1>7
  <2>3. Row(a[n], v) = Row(a[n + 1], v)
    BY <2>1
  <2> HIDE DEF Row
  <2> QED
    BY <2>2, <2>3
<1>10. Depth \in Still
  <2> HIDE DEF Still
  <2> QED
    BY <1>6, <1>8, <1>9, Induct
<1>11. Is(a[Depth])
  <2>1. \A v \in V : a[Depth][v] = Row(a[Depth], v)
    <3> SUFFICES ASSUME NEW v \in V PROVE a[Depth][v] = Row(a[Depth], v)
      OBVIOUS
    <3>1. Depth <= Cardinality(v) + Depth
      BY <1>6
    <3>2. a[Depth + 1][v] = a[Depth][v]
      BY <1>10, <3>1
    <3> HIDE DEF Row, V
    <3> QED
      BY <1>6, <1>7, <3>2
  <2> HIDE DEF Row, V, W
  <2> QED
    BY <1>5, <1>6, <2>1
<1>12. Found(t) = CHOOSE g : Is(g)
  BY DEF Found, Cell, Held
<1> HIDE DEF Is
<1>13. Is(Found(t))
  BY <1>11, <1>12
<1>14. Found(t) = [v \in V |-> Row(Found(t), v)]
  BY <1>13 DEF Is
<1>15. \A v \in V : Found(t)[v] = Row(Found(t), v)
  <2> HIDE DEF Row, V
  <2> QED
    BY <1>14
\* The values are numbers below an entity that is visited last, and so on upwards.
<1> DEFINE Q == {n \in Nat : \A v \in V : Depth <= Cardinality(v) + n => Found(t)[v] \in W}
<1>16. 0 \in Q
  <2> SUFFICES ASSUME NEW v \in V, Depth <= Cardinality(v) + 0 PROVE Found(t)[v] \in W
    OBVIOUS
  <2>1. v = Entities
    <3>1. Depth <= Cardinality(v)
      BY <1>6
    <3> QED
      BY <3>1, FS_Subset, FS_CardinalityType DEF ConstantsOK, Depth
  <2>2. Row(Found(t), v) = none
    BY <2>1 DEF Cell
  <2>3. none \in W
    OBVIOUS
  <2> HIDE DEF Row, none
  <2> QED
    BY <1>15, <2>2, <2>3
<1>17. \A n \in Nat : n \in Q => n + 1 \in Q
  <2> SUFFICES ASSUME NEW n \in Nat, n \in Q PROVE n + 1 \in Q
    OBVIOUS
  <2> SUFFICES ASSUME NEW v \in V, Depth <= Cardinality(v) + (n + 1) PROVE Found(t)[v] \in W
    OBVIOUS
  <2>1. \A e \in Entities : Cell(t, Found(t)[v \cup {e}], v, e) \in Nat
    <3> SUFFICES ASSUME NEW e \in Entities, e \notin v
                 PROVE  Cell(t, Found(t)[v \cup {e}], v, e) \in Nat
      BY DEF Cell
    <3>1. IsFiniteSet(v)
      BY FS_Subset DEF ConstantsOK
    <3>2. Cardinality(v \cup {e}) = Cardinality(v) + 1
      BY <3>1, FS_AddElement
    <3>3. Depth <= Cardinality(v \cup {e}) + n /\ v \cup {e} \in V
      BY <1>6, <3>2
    <3>4. Found(t)[v \cup {e}] \in W
      BY <3>3
    <3> QED
      BY <3>4, CellNatural
  <2>2. Row(Found(t), v) \in W
    BY <2>1
  <2> HIDE DEF Row, V, W
  <2> QED
    BY <1>15, <2>2
<1>18. Depth \in Q
  <2> HIDE DEF Q
  <2> QED
    BY <1>6, <1>16, <1>17, Induct
<1>19. \A v \in V : Found(t)[v] \in W
  BY <1>6, <1>18
<1>20. Found(t) = [v \in V |-> Found(t)[v]]
  <2> HIDE DEF Row, V
  <2> QED
    BY <1>14, <1>15
<1>21. Found(t) \in [V -> W]
  <2> HIDE DEF V, W
  <2> QED
    BY <1>19, <1>20
<1> QED
  BY <1>15, <1>21

-----------------------------------------------------------------------------
(***************************************************************************)
(* The graph.  What is below an entity is in every set that contains the   *)
(* entity and whatever its members hold.  The check of create_ownership    *)
(* sees all of it, so that no chain ever comes back to where it began.     *)
(***************************************************************************)
Closed(S) == \A e \in S : HeldBy(e) \subseteq S
Below(e) == {x \in Entities : \A S \in SUBSET Entities : e \in S /\ Closed(S) => x \in S}
Acyclic == \A e, c \in Entities : Linked(e, c) => e \notin Below(c)

LEMMA BelowClosed ==
  ASSUME NEW e \in Entities
  PROVE  /\ e \in Below(e) /\ Closed(Below(e)) /\ Below(e) \in SUBSET Entities
         /\ \A c \in Entities : c \in Below(e) => Below(c) \subseteq Below(e)
<1>1. e \in Below(e) /\ Below(e) \in SUBSET Entities
  BY DEF Below
<1>2. Closed(Below(e))
  <2> SUFFICES ASSUME NEW x \in Below(e), NEW c \in HeldBy(x) PROVE c \in Below(e)
    BY DEF Closed
  <2>1. c \in Entities
    BY DEF HeldBy
  <2>2. \A S \in SUBSET Entities : e \in S /\ Closed(S) => c \in S
    BY DEF Below, Closed
  <2> QED
    BY <2>1, <2>2 DEF Below
<1>3. \A c \in Entities : c \in Below(e) => Below(c) \subseteq Below(e)
  BY <1>1, <1>2 DEF Below
<1> QED
  BY <1>1, <1>2, <1>3

LEMMA WithinGrows ==
  ASSUME NEW n \in Nat, NEW e \in Entities
  PROVE  Within[n][e] \subseteq Within[n + 1][e]
<1> DEFINE Q == {m \in Nat : \A d \in Entities : Within[m][d] \subseteq Within[m + 1][d]}
<1>1. 0 \in Q
  <2> SUFFICES ASSUME NEW m \in Nat, m = 0, NEW d \in Entities
               PROVE  Within[m][d] \subseteq Within[m + 1][d]
    OBVIOUS
  <2>1. Within[m][d] = {d} /\ Within[m + 1][d] = {d} \cup UNION {Within[m][c] : c \in HeldBy(d)}
    BY WithinIs
  <2> QED
    BY <2>1
<1>2. \A m \in Nat : m \in Q => m + 1 \in Q
  <2> SUFFICES ASSUME NEW m \in Nat, m \in Q, NEW d \in Entities
               PROVE  Within[m + 1][d] \subseteq Within[(m + 1) + 1][d]
    OBVIOUS
  <2>1. \A c \in HeldBy(d) : Within[m][c] \subseteq Within[m + 1][c]
    BY DEF HeldBy
  <2>2. /\ Within[m + 1][d] = {d} \cup UNION {Within[m][c] : c \in HeldBy(d)}
        /\ Within[(m + 1) + 1][d] = {d} \cup UNION {Within[m + 1][c] : c \in HeldBy(d)}
    BY WithinIs
  <2> QED
    BY <2>1, <2>2
<1> HIDE DEF Q
<1>3. n \in Q
  BY <1>1, <1>2, Induct
<1> QED
  BY <1>3 DEF Q

\* A step more at the end of a chain is a step more.
LEMMA WithinSteps ==
  ASSUME NEW n \in Nat, NEW e \in Entities, NEW x \in Within[n][e], NEW y \in HeldBy(x)
  PROVE  y \in Within[n + 1][e]
<1> DEFINE Q == {m \in Nat : \A d \in Entities : \A z \in Within[m][d] :
                   HeldBy(z) \subseteq Within[m + 1][d]}
<1>1. \A m \in Nat, d \in Entities : d \in Within[m][d]
  <2> SUFFICES ASSUME NEW m \in Nat, NEW d \in Entities, m # 0 PROVE d \in Within[m][d]
    BY WithinIs
  <2>1. m - 1 \in Nat /\ (m - 1) + 1 = m
    OBVIOUS
  <2> QED
    BY <2>1, WithinIs
<1>2. 0 \in Q
  <2> SUFFICES ASSUME NEW m \in Nat, m = 0, NEW d \in Entities,
                      NEW z \in Within[m][d], NEW c \in HeldBy(z)
               PROVE  c \in Within[m + 1][d]
    OBVIOUS
  <2>1. z = d /\ c \in Entities
    BY WithinIs DEF HeldBy
  <2>2. c \in Within[m][c]
    BY <1>1, <2>1
  <2>3. Within[m + 1][d] = {d} \cup UNION {Within[m][b] : b \in HeldBy(d)}
    BY WithinIs
  <2> QED
    BY <2>1, <2>2, <2>3
<1>3. \A m \in Nat : m \in Q => m + 1 \in Q
  <2> SUFFICES ASSUME NEW m \in Nat, m \in Q PROVE m + 1 \in Q
    OBVIOUS
  <2> SUFFICES ASSUME NEW d \in Entities, NEW z \in Within[m + 1][d], NEW c \in HeldBy(z)
               PROVE  c \in Within[(m + 1) + 1][d]
    OBVIOUS
  <2>1. /\ Within[m + 1][d] = {d} \cup UNION {Within[m][b] : b \in HeldBy(d)}
        /\ Within[(m + 1) + 1][d] = {d} \cup UNION {Within[m + 1][b] : b \in HeldBy(d)}
    BY WithinIs
  <2>2. CASE z = d
    <3>1. c \in Within[m + 1][c]
      BY <1>1 DEF HeldBy
    <3> QED
      BY <2>1, <2>2, <3>1
  <2>3. CASE z # d
    <3>1. PICK b \in HeldBy(d) : z \in Within[m][b]
      BY <2>1, <2>3
    <3>2. b \in Entities
      BY DEF HeldBy
    <3>3. c \in Within[m + 1][b]
      BY <3>1, <3>2
    <3> QED
      BY <2>1, <3>3
  <2> QED
    BY <2>2, <2>3
<1> HIDE DEF Q
<1>4. n \in Q
  BY <1>2, <1>3, Induct
<1> QED
  BY <1>4 DEF Q

LEMMA WithinClosed ==
  ASSUME NEW n \in Nat, NEW S \in SUBSET Entities, Closed(S), NEW e \in S
  PROVE  Within[n][e] \subseteq S
<1> DEFINE Q == {m \in Nat : \A d \in S : Within[m][d] \subseteq S}
<1>1. 0 \in Q
  BY WithinIs
<1>2. \A m \in Nat : m \in Q => m + 1 \in Q
  <2> SUFFICES ASSUME NEW m \in Nat, m \in Q, NEW d \in S PROVE Within[m + 1][d] \subseteq S
    OBVIOUS
  <2>1. \A c \in HeldBy(d) : Within[m][c] \subseteq S
    BY DEF Closed
  <2> QED
    BY <2>1, WithinIs
<1> HIDE DEF Q
<1>3. n \in Q
  BY <1>1, <1>2, Induct
<1> QED
  BY <1>3 DEF Q

\* What can be reached in n steps is all there is, or has more than n members.
LEMMA OwnsClosed ==
  ASSUME ConstantsOK, NEW e \in Entities
  PROVE  e \in Owns(e) /\ Closed(Owns(e)) /\ Owns(e) \in SUBSET Entities
<1> DEFINE W(n) == Within[n][e]
           Q == {n \in Nat : Closed(W(n)) \/ Cardinality(W(n)) >= n + 1}
<1>1. \A n \in Nat : W(n) \in SUBSET Entities /\ IsFiniteSet(W(n)) /\ Cardinality(W(n)) \in Nat
  BY WithinIs, FS_Subset, FS_CardinalityType DEF ConstantsOK
<1>2. \A n \in Nat : e \in W(n)
  <2> SUFFICES ASSUME NEW n \in Nat, n # 0 PROVE e \in W(n)
    BY WithinIs
  <2>1. n - 1 \in Nat /\ (n - 1) + 1 = n
    OBVIOUS
  <2> QED
    BY <2>1, WithinIs
<1>3. 0 \in Q
  <2>1. W(0) = {e}
    BY WithinIs
  <2>2. Cardinality({e}) = 1
    BY FS_Singleton
  <2>3. Cardinality(W(0)) >= 0 + 1
    BY <2>1, <2>2
  <2> QED
    BY <2>3
<1>4. \A n \in Nat : n \in Q => n + 1 \in Q
  <2> SUFFICES ASSUME NEW n \in Nat, n \in Q PROVE n + 1 \in Q
    OBVIOUS
  <2>1. W(n) \subseteq W(n + 1)
    BY WithinGrows
  <2>2. CASE Closed(W(n))
    <3>1. W(n + 1) \subseteq W(n)
      BY <1>1, <1>2, <2>2, WithinClosed
    <3>2. W(n + 1) = W(n)
      BY <2>1, <3>1
    <3> HIDE DEF W
    <3>3. Closed(W(n + 1))
      BY <2>2, <3>2
    <3> QED
      BY <3>3
  <2>3. CASE ~Closed(W(n))
    <3>1. PICK x \in W(n) : ~(HeldBy(x) \subseteq W(n))
      BY <2>3 DEF Closed
    <3>2. PICK c \in HeldBy(x) : c \notin W(n)
      BY <3>1
    <3>3. c \in W(n + 1)
      BY WithinSteps
    <3> DEFINE more == W(n) \cup {c}
    <3>4. more \subseteq W(n + 1)
      BY <2>1, <3>3
    <3>5. Cardinality(W(n)) >= n + 1
      BY <2>3
    <3> HIDE DEF W
    <3>6. Cardinality(more) = Cardinality(W(n)) + 1
      BY <1>1, <3>2, FS_AddElement
    <3> HIDE DEF more
    <3>7. n + 1 \in Nat
      OBVIOUS
    <3>8. Cardinality(more) <= Cardinality(W(n + 1))
      BY <1>1, <3>4, <3>7, FS_Subset
    <3>9. Cardinality(W(n + 1)) >= (n + 1) + 1
      BY <1>1, <3>5, <3>6, <3>7, <3>8
    <3> QED
      BY <3>9
  <2> QED
    BY <2>2, <2>3
<1>5. Depth \in Nat
  BY FS_CardinalityType DEF ConstantsOK, Depth
<1>6. Depth \in Q
  <2> HIDE DEF Q
  <2> QED
    BY <1>3, <1>4, <1>5, Induct
<1>7. Owns(e) = W(Depth)
  BY DEF Owns, Depth
<1> HIDE DEF W
<1>8. Cardinality(W(Depth)) <= Depth
  BY <1>1, <1>5, FS_Subset DEF ConstantsOK, Depth
<1>9. Closed(W(Depth))
  BY <1>1, <1>5, <1>6, <1>8
<1> QED
  BY <1>1, <1>2, <1>5, <1>7, <1>9


-----------------------------------------------------------------------------
(***************************************************************************)
(* The invariant of the graph: no cycle, and nobody is owned beyond the    *)
(* whole.                                                                  *)
(***************************************************************************)
ChainsInv == /\ TypeOK
             /\ Acyclic
             /\ \A c \in Entities : OwnedOf(c) <= Whole

Shares(c) == [p \in Entities |-> Percent(p, c)]

LEMMA OwnedIs ==
  ASSUME ConstantsOK, TypeOK, NEW c
  PROVE  /\ OwnedOf(c) = SumFunctionOnSet(Shares(c), Entities)
         /\ OwnedOf(c) \in Nat /\ Naturals(Shares(c), Entities)
<1>1. OwnedOf(c) = SumFunctionOnSet(Shares(c), Entities)
  <2>1. OwnedOf(c) = SumFunction(Shares(c))
    BY DEF OwnedOf, Shares
  <2> QED
    BY <2>1, SumOver DEF Shares
<1>2. Naturals(Shares(c), Entities)
  BY Percents DEF Naturals, Shares
<1> QED
  BY <1>1, <1>2, SumSplit DEF ConstantsOK

\* A share is at most what an entity is owned altogether.
LEMMA ShareBounds ==
  ASSUME ConstantsOK, TypeOK, NEW c, NEW p \in Entities
  PROVE  Percent(p, c) <= OwnedOf(c)
<1> DEFINE f == Shares(c)
           rest == SumFunctionOnSet(f, Entities \ {p})
<1>1. f[p] = Percent(p, c) /\ f[p] \in Nat
  BY Percents DEF Shares
<1>2. Naturals(f, Entities) /\ OwnedOf(c) = SumFunctionOnSet(f, Entities)
  BY OwnedIs
<1> HIDE DEF f
<1>3. OwnedOf(c) = f[p] + rest /\ rest \in Nat
  BY <1>2, SumSplit DEF ConstantsOK
<1> HIDE DEF rest
<1> QED
  BY <1>1, <1>3

\* create_ownership adds one link, or to the percentage of one.
LEMMA LinkAdded ==
  ASSUME ConstantsOK, TypeOK, NEW l \in Pairs, NEW percent \in 0..Whole,
         OwnedOf(l[2]) + percent <= Whole,
         share' = [share EXCEPT ![l] = Percent(l[1], l[2]) + percent]
  PROVE  /\ TypeOK'
         /\ \A p, c : Linked(p, c)' <=> Linked(p, c) \/ <<p, c>> = l
         /\ \A p, c : Percent(p, c)' = IF <<p, c>> = l THEN Percent(p, c) + percent
                                       ELSE Percent(p, c)
<1>1. l = <<l[1], l[2]>> /\ l[1] \in Entities /\ l[2] \in Entities
  BY DEF Pairs
<1> DEFINE n == Percent(l[1], l[2]) + percent
<1>2. n \in Nat /\ n <= Whole
  <2>1. Percent(l[1], l[2]) \in Nat
    BY Percents
  <2>2. Percent(l[1], l[2]) <= OwnedOf(l[2]) /\ OwnedOf(l[2]) \in Nat
    BY <1>1, ShareBounds, OwnedIs
  <2> QED
    BY <2>1, <2>2 DEF ConstantsOK
<1>3. n # NoLink /\ n \in 0..Whole \cup {NoLink}
  BY <1>2 DEF NoLink, ConstantsOK
<1>4. share' = [share EXCEPT ![l] = n]
  OBVIOUS
<1> HIDE DEF n
<1>5. TypeOK'
  BY <1>3, <1>4 DEF TypeOK
<1>6. \A p, c : share'[<<p, c>>] = IF <<p, c>> = l THEN n ELSE share[<<p, c>>]
  BY <1>4 DEF TypeOK
<1>7. \A p, c : Linked(p, c)' <=> Linked(p, c) \/ <<p, c>> = l
  BY <1>3, <1>6 DEF Linked
<1>8. \A p, c : Percent(p, c)' = IF <<p, c>> = l THEN Percent(p, c) + percent ELSE Percent(p, c)
  <2> SUFFICES ASSUME NEW p, NEW c
               PROVE  Percent(p, c)' = IF <<p, c>> = l THEN Percent(p, c) + percent
                                       ELSE Percent(p, c)
    OBVIOUS
  <2>1. CASE <<p, c>> = l
    <3>1. l[1] = p /\ l[2] = c
      BY <2>1
    <3>2. Percent(p, c)' = n
      BY <1>6, <1>7, <2>1 DEF Percent
    <3> QED
      BY <2>1, <3>1, <3>2 DEF n
  <2>2. CASE <<p, c>> # l
    BY <1>6, <1>7, <2>2 DEF Percent
  <2> QED
    BY <2>1, <2>2
<1> QED
  BY <1>5, <1>7, <1>8

LEMMA ChainsStep ==
  ASSUME ConstantsOK, ChainsInv, CreateOwnership
  PROVE  ChainsInv'
<1> USE DEF ChainsInv
<1>1. PICK l \in Pairs, percent \in 0..Whole :
        /\ OwnedOf(l[2]) + percent <= Whole
        /\ l[1] \notin Owns(l[2])
        /\ share' = [share EXCEPT ![l] = Percent(l[1], l[2]) + percent]
  BY DEF CreateOwnership
<1> DEFINE p == l[1]
           c == l[2]
<1>2. l = <<p, c>> /\ p \in Entities /\ c \in Entities
  BY DEF Pairs
<1>3. /\ TypeOK'
      /\ \A x, y : Linked(x, y)' <=> Linked(x, y) \/ <<x, y>> = l
      /\ \A x, y : Percent(x, y)' = IF <<x, y>> = l THEN Percent(x, y) + percent
                                    ELSE Percent(x, y)
  BY <1>1, LinkAdded
<1>4. OwnedOf(c) + percent <= Whole /\ p \notin Owns(c)
  BY <1>1
<1> HIDE DEF p, c
<1>5. ASSUME NEW e \in Entities PROVE (OwnedOf(e) <= Whole)'
  <2> DEFINE f == Shares(e)
             h == Shares(e)'
  <2>1. Naturals(f, Entities) /\ OwnedOf(e) = SumFunctionOnSet(f, Entities) /\ OwnedOf(e) \in Nat
    BY OwnedIs
  <2>2. OwnedOf(e)' = SumFunctionOnSet(h, Entities)
    <3>1. OwnedOf(e)' = SumFunction(h) /\ DOMAIN h = Entities
      BY DEF OwnedOf, Shares
    <3> HIDE DEF h
    <3> QED
      BY <3>1, SumOver
  <2>3. \A x \in Entities : f[x] = Percent(x, e) /\ h[x] = Percent(x, e)'
    BY DEF Shares
  <2>4. CASE e = c
    <3>1. h[p] = f[p] + percent /\ \A x \in Entities \ {p} : h[x] = f[x]
      BY <1>2, <1>3, <2>3, <2>4
    <3>2. percent \in Nat
      BY DEF ConstantsOK
    <3> HIDE DEF f, h
    <3>3. SumFunctionOnSet(h, Entities) = SumFunctionOnSet(f, Entities) + percent
      BY <1>2, <2>1, <3>1, <3>2, SumGrows DEF ConstantsOK
    <3> QED
      BY <1>4, <2>1, <2>2, <2>4, <3>3
  <2>5. CASE e # c
    <3>1. \A x \in Entities : f[x] = h[x]
      BY <1>2, <1>3, <2>3, <2>5
    <3> HIDE DEF f, h
    <3>2. SumFunctionOnSet(f, Entities) = SumFunctionOnSet(h, Entities)
      BY <2>1, <3>1, SumSame DEF ConstantsOK
    <3> QED
      BY <2>1, <2>2, <3>2
  <2> QED
    BY <2>4, <2>5
\* A set that is closed stays so unless the new link leaves it.
<1>6. ASSUME NEW S \in SUBSET Entities, Closed(S), p \in S => c \in S
      PROVE  Closed(S)'
  <2> SUFFICES ASSUME NEW x \in S, NEW y \in Entities, Linked(x, y)' PROVE y \in S
    BY DEF Closed, HeldBy
  <2>1. CASE Linked(x, y)
    BY <1>6, <2>1 DEF Closed, HeldBy
  <2>2. CASE <<x, y>> = l
    BY <1>2, <1>6, <2>2
  <2> QED
    BY <1>3, <2>1, <2>2
<1>7. ASSUME NEW S \in SUBSET Entities, NEW d \in S, Closed(S)' PROVE Below(d)' \subseteq S
  BY <1>7 DEF Below
<1>8. p \notin Below(c)
  <2>1. Below(c) \subseteq Owns(c)
    BY <1>2, OwnsClosed DEF Below
  <2> QED
    BY <1>4, <2>1
<1>9. ASSUME NEW e \in Entities, NEW d \in Entities, Linked(e, d)' PROVE e \notin Below(d)'
  <2>1. /\ c \in Below(c) /\ Closed(Below(c)) /\ Below(c) \in SUBSET Entities
        /\ d \in Below(d) /\ Closed(Below(d)) /\ Below(d) \in SUBSET Entities
    BY <1>2, BelowClosed
  <2>2. CASE <<e, d>> = l
    <3>1. e = p /\ d = c
      BY <1>2, <2>2
    <3>2. PICK S : S = Below(c)
      OBVIOUS
    <3>3. S \in SUBSET Entities /\ Closed(S) /\ p \notin S /\ c \in S
      BY <1>8, <2>1, <3>2
    <3>4. Closed(S)'
      BY <1>6, <3>3
    <3>5. Below(c)' \subseteq S
      BY <1>7, <3>3, <3>4
    <3> QED
      BY <3>1, <3>3, <3>5
  <2>3. CASE Linked(e, d) /\ p \notin Below(d)
    <3>1. PICK S : S = Below(d)
      OBVIOUS
    <3>2. S \in SUBSET Entities /\ Closed(S) /\ p \notin S /\ d \in S /\ e \notin S
      BY <2>1, <2>3, <3>1 DEF Acyclic
    <3>3. Closed(S)'
      BY <1>6, <3>2
    <3>4. Below(d)' \subseteq S
      BY <1>7, <3>2, <3>3
    <3> QED
      BY <3>2, <3>4
  <2>4. CASE Linked(e, d) /\ p \in Below(d)
    <3>1. PICK S : S = Below(d) \cup Below(c)
      OBVIOUS
    <3>2. S \in SUBSET Entities /\ c \in S /\ d \in S
      BY <2>1, <3>1
    <3>3. Closed(S)
      BY <2>1, <3>1 DEF Closed
    <3>4. e \notin S
      <4>1. e \notin Below(d)
        BY <2>4 DEF Acyclic
      <4>2. e \notin Below(c)
        <5> SUFFICES ASSUME e \in Below(c) PROVE FALSE
          OBVIOUS
        <5>1. d \in HeldBy(e)
          BY <2>4 DEF HeldBy
        <5>2. d \in Below(c)
          BY <2>1, <5>1 DEF Closed
        <5>3. Below(d) \subseteq Below(c)
          BY <1>2, <5>2, BelowClosed
        <5> QED
          BY <1>8, <2>4, <5>3
      <4> QED
        BY <3>1, <4>1, <4>2
    <3>5. Closed(S)'
      BY <1>6, <3>2, <3>3
    <3>6. Below(d)' \subseteq S
      BY <1>7, <3>2, <3>5
    <3> QED
      BY <3>4, <3>6
  <2> QED
    BY <1>3, <1>9, <2>2, <2>3, <2>4
<1>10. Acyclic'
  BY <1>9 DEF Acyclic
<1> QED
  BY <1>3, <1>5, <1>10

LEMMA ChainsInit ==
  ASSUME ConstantsOK, Init
  PROVE  ChainsInv
<1>1. TypeOK
  BY DEF Init, TypeOK, ConstantsOK, NoLink
<1>2. \A p, c : ~Linked(p, c)
  BY DEF Init, Linked
<1>3. Acyclic
  BY <1>2 DEF Acyclic
<1>4. ASSUME NEW c \in Entities PROVE OwnedOf(c) <= Whole
  <2> DEFINE f == Shares(c)
  <2>1. Naturals(f, Entities) /\ OwnedOf(c) = SumFunctionOnSet(f, Entities)
    BY <1>1, OwnedIs
  <2>2. \A p \in Entities \ {} : f[p] = 0
    BY <1>2 DEF Percent, Shares
  <2> HIDE DEF f
  <2>3. SumFunctionOnSet(f, {}) = SumFunctionOnSet(f, Entities)
    BY <2>1, <2>2, SumOutside DEF ConstantsOK
  <2>4. OwnedOf(c) = 0
    BY <2>1, <2>3, SumEmpty
  <2> QED
    BY <2>4 DEF ConstantsOK
<1> QED
  BY <1>1, <1>3, <1>4 DEF ChainsInv

-----------------------------------------------------------------------------
\* Sums of which all operands, or all but one, are 0.
LEMMA SumZero ==
  ASSUME NEW S, IsFiniteSet(S), NEW f, \A x \in S : f[x] = 0
  PROVE  SumFunctionOnSet(f, S) = 0
<1>1. Naturals(f, S) /\ {} \in SUBSET S /\ \A x \in S \ {} : f[x] = 0
  BY DEF Naturals
<1>2. SumFunctionOnSet(f, {}) = SumFunctionOnSet(f, S)
  BY <1>1, SumOutside
<1> QED
  BY <1>2, SumEmpty

LEMMA SumOne ==
  ASSUME NEW S, IsFiniteSet(S), NEW f, NEW t \in S, f[t] \in Nat, \A x \in S \ {t} : f[x] = 0
  PROVE  SumFunctionOnSet(f, S) = f[t]
<1>1. Naturals(f, S)
  BY DEF Naturals
<1>2. IsFiniteSet(S \ {t})
  BY FS_Subset
<1>3. SumFunctionOnSet(f, S \ {t}) = 0
  BY <1>2, SumZero
<1>4. SumFunctionOnSet(f, S) = f[t] + SumFunctionOnSet(f, S \ {t})
  BY <1>1, SumSplit
<1> QED
  BY <1>3, <1>4

-----------------------------------------------------------------------------
(***************************************************************************)
(* The search.  From an entity, h[n] collects what reaches the target in   *)
(* at most n steps.  Where there is no cycle the visited set cuts nothing  *)
(* off: what the search finds below an entity is what goes on from it.     *)
(***************************************************************************)
Onto(w, e) == [c \in Entities |-> Percent(e, c) * w[c]]
AtTarget(t, e, n) == IF e = t THEN Power[n] ELSE 0
Onward(h, t) ==
  /\ h \in [Nat -> [Entities -> Nat]]
  /\ \A n \in Nat, e \in Entities :
       h[n + 1][e] = AtTarget(t, e, n + 1) + SumFunctionOnSet(Onto(h[n], e), Entities)

LEMMA OntoNaturals ==
  ASSUME ConstantsOK, TypeOK, NEW w, Naturals(w, Entities), NEW e
  PROVE  Naturals(Onto(w, e), Entities)
<1> SUFFICES ASSUME NEW c \in Entities PROVE Percent(e, c) * w[c] \in Nat
  BY DEF Naturals, Onto
<1>1. Percent(e, c) \in Nat /\ w[c] \in Nat
  BY Percents DEF Naturals
<1> QED
  BY <1>1

LEMMA OnwardExists ==
  ASSUME ConstantsOK, TypeOK, NEW t
  PROVE  \E h : Onward(h, t)
<1> DEFINE V == [Entities -> Nat]
           R == Nat \X V
           Row(a, w) == [e \in Entities |-> (IF e = t THEN a ELSE 0)
                                            + SumFunctionOnSet(Onto(w, e), Entities)]
           Pair(r) == <<Whole * r[1], Row(Whole * r[1], r[2])>>
           step == [r \in R |-> Pair(r)]
           start == <<1, [e \in Entities |-> 0]>>
<1>1. \A a \in Nat, w \in V : Row(a, w) \in V
  <2> SUFFICES ASSUME NEW a \in Nat, NEW w \in V, NEW e \in Entities
               PROVE  (IF e = t THEN a ELSE 0) + SumFunctionOnSet(Onto(w, e), Entities) \in Nat
    OBVIOUS
  <2>1. Naturals(w, Entities)
    BY DEF Naturals
  <2>2. SumFunctionOnSet(Onto(w, e), Entities) \in Nat
    BY <2>1, OntoNaturals, SumSplit DEF ConstantsOK
  <2> QED
    BY <2>2
<1>2. start \in R
  OBVIOUS
<1>3. step \in [R -> R]
  <2> SUFFICES ASSUME NEW r \in R PROVE Pair(r) \in R
    OBVIOUS
  <2>1. r[1] \in Nat /\ r[2] \in V
    OBVIOUS
  <2>2. Whole * r[1] \in Nat
    BY <2>1 DEF ConstantsOK
  <2> HIDE DEF V, Row
  <2> QED
    BY <1>1, <2>1, <2>2
<1>4. PICK f \in [Nat -> R] : f[0] = start /\ \A n \in Nat : f[n + 1] = step[f[n]]
  <2> HIDE DEF R, step, start
  <2> QED
    BY <1>2, <1>3, Recursion
<1>5. \A n \in Nat : f[n] \in R /\ f[n + 1] = Pair(f[n])
  <2> HIDE DEF R, Pair
  <2> QED
    BY <1>4
<1>6. \A n \in Nat : f[n][1] \in Nat /\ f[n][2] \in V
  <2> HIDE DEF V
  <2> QED
    BY <1>5
<1>7. \A n \in Nat : /\ f[n + 1][1] = Whole * f[n][1]
                     /\ f[n + 1][2] = Row(Whole * f[n][1], f[n][2])
  <2> HIDE DEF Row, R
  <2> QED
    BY <1>5
<1> DEFINE Q == {n \in Nat : f[n][1] = Power[n]}
<1>8. \A n \in Nat : n \in Q
  <2> HIDE DEF R, V, Row, Pair, step
  <2>1. 0 \in Q
    BY <1>4, PowerIs DEF ConstantsOK
  <2>2. \A n \in Nat : n \in Q => n + 1 \in Q
    <3> SUFFICES ASSUME NEW n \in Nat, f[n][1] = Power[n] PROVE f[n + 1][1] = Power[n + 1]
      OBVIOUS
    <3>1. f[n + 1][1] = Whole * f[n][1]
      BY <1>7
    <3> QED
      BY <3>1, PowerIs DEF ConstantsOK
  <2> HIDE DEF Q
  <2> QED
    BY <2>1, <2>2, Induct
<1> DEFINE h == [n \in Nat |-> f[n][2]]
<1>9. h \in [Nat -> V]
  <2> HIDE DEF V
  <2> QED
    BY <1>6
<1>10. Onward(h, t)
  <2> SUFFICES ASSUME NEW n \in Nat, NEW e \in Entities
               PROVE  h[n + 1][e] = AtTarget(t, e, n + 1)
                                    + SumFunctionOnSet(Onto(h[n], e), Entities)
    BY <1>9 DEF Onward
  <2>1. Whole * f[n][1] = Power[n + 1]
    BY <1>8, PowerIs DEF ConstantsOK
  <2>2. h[n + 1] = Row(Power[n + 1], h[n])
    <3> HIDE DEF Row
    <3> QED
      BY <1>7, <2>1
  <2> HIDE DEF h
  <2> QED
    BY <2>2 DEF AtTarget
<1> HIDE DEF h
<1> QED
  BY <1>10

\* Of the entities n are unvisited, and among them all that is below this one.
Ahead(v, n, e) == Cardinality(v) + n = Depth /\ v \cap Below(e) = {}

LEMMA FoundOnward ==
  ASSUME ConstantsOK, TypeOK, Acyclic, NEW t, NEW h, Onward(h, t),
         NEW m \in Nat, NEW s \in SUBSET Entities, NEW x \in Entities, Ahead(s, m, x)
  PROVE  Found(t)[s][x] = h[m][x]
<1> DEFINE Q == {n \in Nat : \A v \in SUBSET Entities, e \in Entities :
                   Ahead(v, n, e) => Found(t)[v][e] = h[n][e]}
<1>1. 0 \in Q
  <2> SUFFICES ASSUME NEW v \in SUBSET Entities, NEW e \in Entities, Ahead(v, 0, e)
               PROVE  FALSE
    OBVIOUS
  <2>1. Cardinality(v) = Depth
    <3>1. IsFiniteSet(v)
      BY FS_Subset DEF ConstantsOK
    <3>2. Cardinality(v) \in Nat
      BY <3>1, FS_CardinalityType
    <3> QED
      BY <3>2 DEF Ahead
  <2>2. v = Entities
    BY <2>1, FS_Subset DEF ConstantsOK, Depth
  <2> QED
    BY <2>2, BelowClosed DEF Ahead
<1>2. \A n \in Nat : n \in Q => n + 1 \in Q
  <2> SUFFICES ASSUME NEW n \in Nat, n \in Q PROVE n + 1 \in Q
    OBVIOUS
  <2> SUFFICES ASSUME NEW v \in SUBSET Entities, NEW e \in Entities, Ahead(v, n + 1, e)
               PROVE  Found(t)[v][e] = h[n + 1][e]
    OBVIOUS
  <2> DEFINE w == Found(t)[v \cup {e}]
             u == h[n]
  <2>1. e \notin v /\ IsFiniteSet(v) /\ Cardinality(v) \in Nat
    BY BelowClosed, FS_Subset, FS_CardinalityType DEF ConstantsOK, Ahead
  <2>2. Cardinality(v \cup {e}) = Cardinality(v) + 1
    BY <2>1, FS_AddElement
  <2>3. Cardinality(v \cup {e}) + n = Depth /\ Depth - Cardinality(v) = n + 1
    <3> DEFINE k == Cardinality(v)
               j == Cardinality(v \cup {e})
    <3>1. k \in Nat /\ j = k + 1 /\ k + (n + 1) = Depth
      BY <2>1, <2>2 DEF Ahead
    <3> HIDE DEF k, j
    <3>2. j + n = Depth /\ Depth - k = n + 1
      BY <3>1
    <3> QED
      BY <3>2 DEF j, k
  <2>4. \A c \in HeldBy(e) : c \in Entities /\ w[c] = u[c]
    <3> SUFFICES ASSUME NEW c \in HeldBy(e) PROVE c \in Entities /\ w[c] = u[c]
      OBVIOUS
    <3>1. c \in Entities /\ e \notin Below(c)
      BY DEF HeldBy, Acyclic
    <3>2. Below(c) \subseteq Below(e)
      BY <3>1, BelowClosed DEF Closed
    <3>3. Ahead(v \cup {e}, n, c) /\ v \cup {e} \in SUBSET Entities
      BY <2>3, <3>1, <3>2 DEF Ahead
    <3> QED
      BY <3>1, <3>3
  <2>5. u \in [Entities -> Nat]
    BY DEF Onward
  <2>6. Found(t)[v][e] = Cell(t, w, v, e)
    <3> HIDE DEF Q
    <3> QED
      BY FoundIs
  <2>7. h[n + 1][e] = AtTarget(t, e, n + 1) + SumFunctionOnSet(Onto(u, e), Entities)
    BY DEF Onward
  <2> HIDE DEF w, u, Q
  <2>8. Naturals(Onto(u, e), Entities)
    BY <2>5, OntoNaturals DEF Naturals
  <2>9. SumFunction(Held(w, e)) = SumFunctionOnSet(Onto(u, e), Entities)
    <3> DEFINE A == HeldBy(e)
               f == Onto(u, e)
               k == Held(w, e)
    <3>1. A \in SUBSET Entities /\ IsFiniteSet(A)
      BY FS_Subset DEF ConstantsOK, HeldBy
    <3>2. DOMAIN k = A /\ \A c \in A : f[c] = k[c]
      BY <2>4 DEF Held, Onto
    <3>3. \A c \in Entities \ A : f[c] = 0
      <4> SUFFICES ASSUME NEW c \in Entities \ A PROVE Percent(e, c) * u[c] = 0
        BY DEF Onto
      <4>1. Percent(e, c) = 0 /\ u[c] \in Nat
        BY <2>5, Percents DEF HeldBy
      <4> QED
        BY <4>1
    <3> HIDE DEF A, f, k
    <3>4. Naturals(f, Entities) /\ Naturals(f, A)
      BY <2>8, <3>1 DEF f, Naturals
    <3>5. SumFunctionOnSet(f, A) = SumFunctionOnSet(f, Entities)
      BY <3>1, <3>3, <3>4, SumOutside DEF ConstantsOK
    <3>6. SumFunctionOnSet(f, A) = SumFunctionOnSet(k, A)
      BY <3>1, <3>2, <3>4, SumSame
    <3>7. SumFunction(k) = SumFunctionOnSet(k, A)
      BY <3>2, SumOver
    <3> QED
      BY <3>5, <3>6, <3>7 DEF f, k
  <2> QED
    BY <2>1, <2>3, <2>6, <2>7, <2>9 DEF Cell, AtTarget
<1> HIDE DEF Q
<1>3. m \in Q
  BY <1>1, <1>2, Induct
<1> QED
  BY <1>3 DEF Q

\* What the search finds for the target is what goes on from the roots.
Times(w, u) == [e \in Entities |-> w[e] * u[e]]

LEMMA DepthNat ==
  ASSUME ConstantsOK
  PROVE  Depth \in Nat /\ Whole \in Nat /\ Power \in [Nat -> Nat]
BY FS_CardinalityType, PowerIs DEF ConstantsOK, Depth

LEMMA EffectiveOnward ==
  ASSUME ConstantsOK, TypeOK, Acyclic, NEW t, NEW h, Onward(h, t)
  PROVE  Effective(t) = SumFunctionOnSet(Times(Reached[0], h[Depth]), Entities)
<1> DEFINE found == [r \in Roots |-> Found(t)[{}][r]]
           f == Times(Reached[0], h[Depth])
           A == Roots
<1>1. Roots = RootsOnly /\ A \in SUBSET Entities /\ IsFiniteSet(A)
  <2>1. Roots = RootsOnly /\ A \in SUBSET Entities
    BY DEF Roots, RootsOnly, AllParents, AllChildren
  <2> QED
    BY <2>1, FS_Subset DEF ConstantsOK
<1>2. Depth \in Nat /\ h[Depth] \in [Entities -> Nat]
  BY DepthNat DEF Onward
<1>3. \A e \in Entities : Found(t)[{}][e] = h[Depth][e]
  <2> SUFFICES ASSUME NEW e \in Entities PROVE Found(t)[{}][e] = h[Depth][e]
    OBVIOUS
  <2>1. PICK s \in SUBSET Entities : s = {}
    OBVIOUS
  <2>2. Ahead(s, Depth, e)
    BY <1>2, <2>1, FS_EmptySet DEF Ahead
  <2> HIDE DEF f, found, A
  <2>3. Found(t)[s][e] = h[Depth][e]
    BY <1>2, <2>2, FoundOnward
  <2> QED
    BY <2>1, <2>3
<1>4. \A e \in Entities : f[e] = Reached[0][e] * h[Depth][e]
  BY DEF Times
<1>5. \A e \in Entities : f[e] = IF e \in A THEN h[Depth][e] ELSE 0
  <2> SUFFICES ASSUME NEW e \in Entities PROVE f[e] = IF e \in A THEN h[Depth][e] ELSE 0
    OBVIOUS
  <2>1. Reached[0][e] = IF e \in A THEN 1 ELSE 0
    BY <1>1, ReachedIs
  <2>2. h[Depth][e] \in Nat
    BY <1>2
  <2> QED
    BY <1>4, <2>1, <2>2
<1>6. \A e \in A : f[e] = found[e]
  BY <1>1, <1>3, <1>5
<1>7. Effective(t) = SumFunction(found) /\ DOMAIN found = A
  BY DEF Effective
<1>8. Naturals(f, Entities) /\ Naturals(f, A) /\ \A e \in Entities \ A : f[e] = 0
  BY <1>1, <1>2, <1>5 DEF Naturals
<1> HIDE DEF found, f, A
<1>9. SumFunctionOnSet(f, A) = SumFunctionOnSet(f, Entities)
  BY <1>1, <1>8, SumOutside DEF ConstantsOK
<1>10. SumFunctionOnSet(f, A) = SumFunctionOnSet(found, A)
  BY <1>1, <1>6, <1>8, SumSame
<1>11. SumFunction(found) = SumFunctionOnSet(found, A)
  BY <1>7, SumOver
<1> QED
  BY <1>7, <1>9, <1>10, <1>11 DEF f

-----------------------------------------------------------------------------
(***************************************************************************)
(* A chain of n steps to an entity passes n others: what is as long as the *)
(* number of entities has none.                                            *)
(***************************************************************************)
Above(e) == {x \in Entities : x # e /\ e \in Below(x)}

LEMMA AboveMore ==
  ASSUME ConstantsOK, TypeOK, Acyclic, NEW p \in Entities, NEW e \in Entities, Linked(p, e)
  PROVE  /\ IsFiniteSet(Above(e)) /\ Cardinality(Above(e)) \in Nat
         /\ Cardinality(Above(p)) \in Nat
         /\ Cardinality(Above(e)) >= Cardinality(Above(p)) + 1
<1>1. IsFiniteSet(Above(e)) /\ IsFiniteSet(Above(p))
  BY FS_Subset DEF ConstantsOK, Above
<1>2. p # e /\ p \notin Above(p)
  BY DEF Above, Linked, Pairs
<1>3. e \in HeldBy(p) /\ p \notin Below(e)
  BY DEF HeldBy, Acyclic
<1>4. Above(p) \cup {p} \subseteq Above(e)
  <2> SUFFICES ASSUME NEW x \in Above(p) \cup {p} PROVE x \in Above(e)
    OBVIOUS
  <2>1. x \in Entities /\ p \in Below(x)
    BY BelowClosed DEF Above
  <2>2. e \in Below(x)
    BY <1>3, <2>1, BelowClosed DEF Closed
  <2>3. x # e
    BY <1>3, <2>1
  <2> QED
    BY <2>1, <2>2, <2>3 DEF Above
<1> DEFINE A == Above(p)
           B == Above(p) \cup {p}
           C == Above(e)
<1>5. IsFiniteSet(A) /\ IsFiniteSet(C) /\ B \subseteq C /\ p \notin A
  BY <1>1, <1>2, <1>4
<1>6. Cardinality(B) = Cardinality(A) + 1
  BY <1>5, FS_AddElement
<1> HIDE DEF A, B, C
<1>7. Cardinality(B) <= Cardinality(C) /\ Cardinality(C) \in Nat /\ Cardinality(A) \in Nat
  BY <1>5, FS_Subset, FS_CardinalityType
<1>8. Cardinality(C) >= Cardinality(A) + 1
  BY <1>6, <1>7
<1> QED
  BY <1>5, <1>7, <1>8 DEF A, C

LEMMA ReachedAbove ==
  ASSUME ConstantsOK, TypeOK, Acyclic, NEW n \in Nat, NEW e \in Entities, Reached[n][e] # 0
  PROVE  Cardinality(Above(e)) >= n
<1> DEFINE Q == {k \in Nat : \A d \in Entities : Reached[k][d] # 0 => Cardinality(Above(d)) >= k}
<1>1. 0 \in Q
  <2> SUFFICES ASSUME NEW d \in Entities PROVE Cardinality(Above(d)) >= 0
    OBVIOUS
  <2>1. IsFiniteSet(Above(d))
    BY FS_Subset DEF ConstantsOK, Above
  <2> QED
    BY <2>1, FS_CardinalityType
<1>2. \A k \in Nat : k \in Q => k + 1 \in Q
  <2> SUFFICES ASSUME NEW k \in Nat, k \in Q PROVE k + 1 \in Q
    OBVIOUS
  <2> SUFFICES ASSUME NEW d \in Entities, Reached[k + 1][d] # 0
               PROVE  Cardinality(Above(d)) >= k + 1
    OBVIOUS
  <2> DEFINE f == Passed(Reached[k], d)
  <2>1. Reached[k + 1][d] = SumFunctionOnSet(f, Entities)
    BY ReachedIs
  <2>2. \A p \in Entities : f[p] = Percent(p, d) * Reached[k][p] /\ Reached[k][p] \in Nat
    BY ReachedIs DEF Passed
  <2>3. PICK p \in Entities : f[p] # 0
    <3> HIDE DEF f
    <3> QED
      BY <2>1, SumZero DEF ConstantsOK
  <2>4. Linked(p, d) /\ Reached[k][p] # 0
    <3>1. Percent(p, d) \in Nat /\ (~Linked(p, d) => Percent(p, d) = 0)
      BY Percents
    <3> QED
      BY <2>2, <2>3, <3>1
  <2>5. Cardinality(Above(p)) >= k
    BY <2>4
  <2>6. /\ Cardinality(Above(d)) \in Nat /\ Cardinality(Above(p)) \in Nat
        /\ Cardinality(Above(d)) >= Cardinality(Above(p)) + 1
    BY <2>4, AboveMore
  <2> HIDE DEF Q, f
  <2> QED
    BY <2>5, <2>6
<1> HIDE DEF Q
<1>3. n \in Q
  BY <1>1, <1>2, Induct
<1> QED
  BY <1>3 DEF Q

LEMMA ReachedLast ==
  ASSUME ConstantsOK, TypeOK, Acyclic, NEW e \in Entities
  PROVE  Reached[Depth][e] = 0
<1> SUFFICES ASSUME Reached[Depth][e] # 0 PROVE FALSE
  OBVIOUS
<1>1. Depth \in Nat
  BY DepthNat
<1>2. Cardinality(Above(e)) >= Depth
  BY <1>1, ReachedAbove
<1>3. Above(e) \subseteq Entities \ {e} /\ IsFiniteSet(Entities \ {e})
  BY FS_Subset DEF ConstantsOK, Above
<1>4. Cardinality(Entities \ {e}) = Depth - 1
  BY FS_RemoveElement DEF ConstantsOK, Depth
<1> DEFINE A == Above(e)
           B == Entities \ {e}
<1> HIDE DEF A, B
<1>5. Cardinality(A) <= Cardinality(B) /\ Cardinality(A) \in Nat
  <2>1. A \subseteq B /\ IsFiniteSet(B)
    BY <1>3 DEF A, B
  <2> QED
    BY <2>1, FS_Subset, FS_CardinalityType
<1>6. Cardinality(A) >= Depth /\ Cardinality(B) = Depth - 1
  BY <1>2, <1>4 DEF A, B
<1> QED
  BY <1>1, <1>5, <1>6

-----------------------------------------------------------------------------
(***************************************************************************)
(* The chains up to k steps, scaled by Whole^k.                            *)
(***************************************************************************)
Scaled(k, e) == [n \in 0..k |-> Power[k - n] * Reached[n][e]]
Chain(k, e) == SumFunctionOnSet(Scaled(k, e), 0..k)

LEMMA UpTo ==
  ASSUME NEW k \in Nat
  PROVE  /\ IsFiniteSet(0..k) /\ 0..k \in SUBSET (0..(k + 1)) /\ k + 1 \in 0..(k + 1)
         /\ k + 1 \notin 0..k /\ 0..(k + 1) = (0..k) \cup {k + 1}
<1>1. IsFiniteSet(0..k)
  BY FS_Interval
<1> QED
  BY <1>1

LEMMA ScaledNaturals ==
  ASSUME ConstantsOK, TypeOK, NEW k \in Nat, NEW e \in Entities
  PROVE  Naturals(Scaled(k, e), 0..k) /\ Chain(k, e) \in Nat
<1>1. Naturals(Scaled(k, e), 0..k)
  <2> SUFFICES ASSUME NEW n \in 0..k PROVE Power[k - n] * Reached[n][e] \in Nat
    BY DEF Naturals, Scaled
  <2>1. k - n \in Nat /\ n \in Nat
    OBVIOUS
  <2>2. Power[k - n] \in Nat /\ Reached[n][e] \in Nat
    BY <2>1, DepthNat, ReachedIs
  <2> QED
    BY <2>2
<1>2. IsFiniteSet(0..k)
  BY UpTo
<1> QED
  BY <1>1, <1>2, SumSplit DEF Chain

LEMMA ChainIs ==
  ASSUME ConstantsOK, TypeOK, NEW e \in Entities
  PROVE  /\ Chains(e) = Chain(Depth, e)
         /\ Chain(0, e) = Reached[0][e]
         /\ \A k \in Nat : Chain(k + 1, e) = Whole * Chain(k, e) + Reached[k + 1][e]
<1>1. Chains(e) = Chain(Depth, e)
  <2>1. Chains(e) = SumFunction(Scaled(Depth, e)) /\ DOMAIN Scaled(Depth, e) = 0..Depth
    BY DEF Chains, Scaled
  <2> QED
    BY <2>1, SumOver DEF Chain
<1>2. Chain(0, e) = Reached[0][e]
  <2> DEFINE f == Scaled(0, e)
  <2>1. f[0] = Power[0] * Reached[0][e]
    BY DEF Scaled
  <2>2. Power[0] = 1 /\ Reached[0][e] \in Nat
    BY PowerIs, ReachedIs DEF ConstantsOK
  <2>3. f[0] = Reached[0][e] /\ f[0] \in Nat
    BY <2>1, <2>2
  <2> HIDE DEF f
  <2>4. IsFiniteSet(0..0) /\ 0 \in 0..0 /\ \A x \in (0..0) \ {0} : f[x] = 0
    <3>1. IsFiniteSet(0..0)
      BY UpTo
    <3>2. 0 \in 0..0 /\ \A x \in (0..0) \ {0} : f[x] = 0
      OBVIOUS
    <3> QED
      BY <3>1, <3>2
  <2>5. SumFunctionOnSet(f, 0..0) = f[0]
    BY <2>3, <2>4, SumOne
  <2> QED
    BY <2>3, <2>5 DEF Chain, f
<1>3. ASSUME NEW k \in Nat PROVE Chain(k + 1, e) = Whole * Chain(k, e) + Reached[k + 1][e]
  <2> DEFINE f == Scaled(k, e)
             g == Scaled(k + 1, e)
             A == 0..k
             B == 0..(k + 1)
  <2>1. Naturals(f, A) /\ Naturals(g, B)
    BY ScaledNaturals
  <2>2. IsFiniteSet(A) /\ IsFiniteSet(B) /\ A \in SUBSET B /\ k + 1 \in B /\ k + 1 \notin A
        /\ B = A \cup {k + 1}
    BY UpTo
  <2>3. g[k + 1] = Reached[k + 1][e]
    <3>1. (k + 1) - (k + 1) = 0 /\ Power[0] = 1 /\ Reached[k + 1][e] \in Nat
      BY PowerIs, ReachedIs DEF ConstantsOK
    <3>2. g[k + 1] = Power[(k + 1) - (k + 1)] * Reached[k + 1][e]
      BY DEF Scaled
    <3> QED
      BY <3>1, <3>2
  <2>4. \A n \in A : g[n] = Whole * f[n]
    <3> SUFFICES ASSUME NEW n \in A PROVE g[n] = Whole * f[n]
      OBVIOUS
    <3>1. k - n \in Nat /\ (k + 1) - n = (k - n) + 1 /\ n \in Nat /\ n \in B
      OBVIOUS
    <3>2. Power[(k + 1) - n] = Whole * Power[k - n] /\ Power[k - n] \in Nat
          /\ Reached[n][e] \in Nat /\ Whole \in Nat
      <4>1. Reached[n][e] \in Nat
        BY <3>1, ReachedIs
      <4> QED
        BY <3>1, <4>1, PowerIs DEF ConstantsOK
    <3>3. g[n] = Power[(k + 1) - n] * Reached[n][e] /\ f[n] = Power[k - n] * Reached[n][e]
      BY <3>1 DEF Scaled
    <3>4. \A x, y, z \in Nat : (x * y) * z = x * (y * z)
      OBVIOUS
    <3> QED
      BY <3>2, <3>3, <3>4
  <2>5. Chain(k + 1, e) = SumFunctionOnSet(g, B) /\ Chain(k, e) = SumFunctionOnSet(f, A)
    BY DEF Chain
  <2> HIDE DEF f, g, A, B
  <2>6. Naturals(g, A)
    BY <2>1, <2>2 DEF Naturals
  <2>7. SumFunctionOnSet(g, A) = Whole * SumFunctionOnSet(f, A)
    BY <2>1, <2>2, <2>4, SumTimes DEF ConstantsOK
  <2>8. SumFunctionOnSet(g, A \cup {k + 1}) = g[k + 1] + SumFunctionOnSet(g, A)
        /\ SumFunctionOnSet(g, A) \in Nat /\ g[k + 1] \in Nat
    BY <2>1, <2>2, SumMore
  <2>9. SumFunctionOnSet(g, B) = g[k + 1] + SumFunctionOnSet(g, A)
    BY ONLY <2>2, <2>8
  <2> QED
    BY <2>3, <2>5, <2>7, <2>8, <2>9
<1> QED
  BY <1>1, <1>2, <1>3

-----------------------------------------------------------------------------
(***************************************************************************)
(* What is before an entity times what goes on from it: a step moves a     *)
(* link from one side to the other, and leaves at the target what ends     *)
(* there.                                                                  *)
(***************************************************************************)
LEMMA Products ==
  \A x, y, z \in Nat : x * y \in Nat /\ x * (y * z) = z * (y * x) /\ (x * y) * z = x * (y * z)
                       /\ x * y = y * x
OBVIOUS

LEMMA LinkMoves ==
  ASSUME ConstantsOK, TypeOK, NEW w \in [Entities -> Nat], NEW u \in [Entities -> Nat]
  PROVE  SumFunctionOnSet([e \in Entities |-> w[e] * SumFunctionOnSet(Onto(u, e), Entities)], Entities)
         = SumFunctionOnSet([c \in Entities |-> SumFunctionOnSet(Passed(w, c), Entities) * u[c]],
                            Entities)
<1> DEFINE m == [e \in Entities |-> [c \in Entities |-> w[e] * (Percent(e, c) * u[c])]]
           before == [e \in Entities |-> w[e] * SumFunctionOnSet(Onto(u, e), Entities)]
           after == [c \in Entities |-> SumFunctionOnSet(Passed(w, c), Entities) * u[c]]
           rows == [e \in Entities |-> SumFunctionOnSet(m[e], Entities)]
           col(c) == [e \in Entities |-> m[e][c]]
           cols == [c \in Entities |-> SumFunctionOnSet(col(c), Entities)]
<1>1. \A e, c \in Entities : /\ w[e] \in Nat /\ u[c] \in Nat /\ Percent(e, c) \in Nat
                             /\ m[e][c] = w[e] * (Percent(e, c) * u[c])
                             /\ m[e][c] = u[c] * (Percent(e, c) * w[e]) /\ m[e][c] \in Nat
  <2> SUFFICES ASSUME NEW e \in Entities, NEW c \in Entities
               PROVE  /\ w[e] \in Nat /\ u[c] \in Nat /\ Percent(e, c) \in Nat
                      /\ m[e][c] = w[e] * (Percent(e, c) * u[c])
                      /\ m[e][c] = u[c] * (Percent(e, c) * w[e]) /\ m[e][c] \in Nat
    OBVIOUS
  <2>1. w[e] \in Nat /\ u[c] \in Nat /\ Percent(e, c) \in Nat
    BY Percents
  <2>2. m[e][c] = w[e] * (Percent(e, c) * u[c])
    OBVIOUS
  <2> HIDE DEF m
  <2>3. Percent(e, c) * u[c] \in Nat
    BY <2>1, Products
  <2> QED
    BY <2>1, <2>2, <2>3, Products
<1>2. m \in [Entities -> [Entities -> Nat]]
  BY <1>1
<1>3. Naturals(w, Entities) /\ Naturals(u, Entities)
  BY DEF Naturals
<1>4. \A e \in Entities : Naturals(Onto(u, e), Entities) /\ Naturals(Passed(w, e), Entities)
  BY <1>3, OntoNaturals, PassedNaturals
<1>5. ASSUME NEW e \in Entities PROVE rows[e] = before[e] /\ rows[e] \in Nat
  <2> DEFINE f == Onto(u, e)
             k == m[e]
  <2>1. \A c \in Entities : k[c] = w[e] * f[c]
    BY <1>1 DEF Onto
  <2>2. Naturals(f, Entities) /\ w[e] \in Nat
    BY <1>4
  <2>3. rows[e] = SumFunctionOnSet(k, Entities)
        /\ before[e] = w[e] * SumFunctionOnSet(f, Entities)
    <3> HIDE DEF m
    <3> QED
      OBVIOUS
  <2> HIDE DEF rows, before, k, f, m
  <2>4. SumFunctionOnSet(k, Entities) = w[e] * SumFunctionOnSet(f, Entities)
    BY <2>1, <2>2, SumTimes DEF ConstantsOK
  <2>5. SumFunctionOnSet(f, Entities) \in Nat
    BY <2>2, SumSplit DEF ConstantsOK
  <2> QED
    BY <2>2, <2>3, <2>4, <2>5, Products
<1>6. ASSUME NEW c \in Entities PROVE cols[c] = after[c] /\ cols[c] \in Nat
  <2> DEFINE f == Passed(w, c)
             k == col(c)
  <2>1. \A e \in Entities : k[e] = u[c] * f[e]
    BY <1>1 DEF Passed
  <2>2. Naturals(f, Entities) /\ u[c] \in Nat
    BY <1>4
  <2>3. cols[c] = SumFunctionOnSet(k, Entities)
        /\ after[c] = SumFunctionOnSet(f, Entities) * u[c]
    <3> HIDE DEF col
    <3> QED
      OBVIOUS
  <2> HIDE DEF cols, after, k, f, m
  <2>4. SumFunctionOnSet(k, Entities) = u[c] * SumFunctionOnSet(f, Entities)
    BY <2>1, <2>2, SumTimes DEF ConstantsOK
  <2>5. SumFunctionOnSet(f, Entities) \in Nat
    BY <2>2, SumSplit DEF ConstantsOK
  <2> QED
    BY <2>2, <2>3, <2>4, <2>5, Products
<1>7. SumFunctionOnSet(rows, Entities) = SumFunctionOnSet(cols, Entities)
  <2> HIDE DEF m
  <2> QED
    BY <1>2, SumSwap DEF ConstantsOK
<1> HIDE DEF rows, cols, m
<1>8. Naturals(rows, Entities) /\ \A e \in Entities : rows[e] = before[e]
  BY <1>5 DEF Naturals
<1>9. Naturals(cols, Entities) /\ \A c \in Entities : cols[c] = after[c]
  BY <1>6 DEF Naturals
<1> HIDE DEF before, after
<1>10. SumFunctionOnSet(rows, Entities) = SumFunctionOnSet(before, Entities)
  BY <1>8, SumSame DEF ConstantsOK
<1>11. SumFunctionOnSet(cols, Entities) = SumFunctionOnSet(after, Entities)
  BY <1>9, SumSame DEF ConstantsOK
<1> QED
  BY <1>7, <1>10, <1>11 DEF before, after

Across(h, k) == SumFunctionOnSet(Times(Reached[k], h[Depth - k]), Entities)

LEMMA AcrossStep ==
  ASSUME ConstantsOK, TypeOK, NEW t \in Entities, NEW h, Onward(h, t), NEW k \in Nat, k < Depth
  PROVE  /\ Across(h, k) = Power[Depth - k] * Reached[k][t] + Across(h, k + 1)
         /\ Across(h, k + 1) \in Nat
<1> DEFINE m == Depth - (k + 1)
<1>1. m \in Nat /\ Depth - k = m + 1 /\ k + 1 \in Nat
  BY DepthNat
<1> HIDE DEF m
<1> DEFINE w == Reached[k]
           u == h[m]
           f == Times(w, h[m + 1])
           ends == [e \in Entities |-> w[e] * AtTarget(t, e, m + 1)]
           onto == [e \in Entities |-> SumFunctionOnSet(Onto(u, e), Entities)]
           goes == [e \in Entities |-> w[e] * onto[e]]
           next == [c \in Entities |-> SumFunctionOnSet(Passed(w, c), Entities) * u[c]]
<1>2. w \in [Entities -> Nat] /\ u \in [Entities -> Nat] /\ Power[m + 1] \in Nat
  <2>1. m + 1 \in Nat
    BY <1>1
  <2>2. Power[m + 1] \in Nat
    BY <2>1, DepthNat
  <2>3. Reached[k] \in [Entities -> Nat]
    BY ReachedIs
  <2> QED
    BY <1>1, <2>2, <2>3 DEF Onward
<1>3. \A e \in Entities : h[m + 1][e] = AtTarget(t, e, m + 1) + onto[e]
  BY <1>1 DEF Onward
<1>4. \A e \in Entities : onto[e] \in Nat
  <2> SUFFICES ASSUME NEW e \in Entities PROVE SumFunctionOnSet(Onto(u, e), Entities) \in Nat
    OBVIOUS
  <2>1. Naturals(u, Entities)
    BY <1>2 DEF Naturals
  <2> QED
    BY <2>1, OntoNaturals, SumSplit DEF ConstantsOK
<1>5. \A e \in Entities : w[e] \in Nat /\ AtTarget(t, e, m + 1) \in Nat
  BY <1>2 DEF AtTarget
<1>6. \A e \in Entities : f[e] = w[e] * h[m + 1][e]
  BY DEF Times
<1>7. \A e \in Entities : ends[e] = w[e] * AtTarget(t, e, m + 1) /\ goes[e] = w[e] * onto[e]
  OBVIOUS
<1>8. Across(h, k) = SumFunctionOnSet(f, Entities)
  BY <1>1 DEF Across
<1>9. Across(h, k + 1) = SumFunctionOnSet(next, Entities)
  <2> DEFINE g == Times(Reached[k + 1], h[m])
  <2>1. Across(h, k + 1) = SumFunctionOnSet(g, Entities)
    BY DEF Across, m
  <2>2. \A c \in Entities : g[c] = Reached[k + 1][c] * u[c] /\ Reached[k + 1][c] \in Nat
    BY <1>1, ReachedIs DEF Times
  <2>3. \A c \in Entities : next[c] = Reached[k + 1][c] * u[c]
    BY <1>1, ReachedIs
  <2>4. Naturals(g, Entities)
    BY <1>2, <2>2, Products DEF Naturals
  <2> HIDE DEF g, next
  <2>5. SumFunctionOnSet(g, Entities) = SumFunctionOnSet(next, Entities)
    BY <2>2, <2>3, <2>4, SumSame DEF ConstantsOK
  <2> QED
    BY <2>1, <2>5
<1>10. SumFunctionOnSet(goes, Entities) = SumFunctionOnSet(next, Entities)
  <2> HIDE DEF w, u
  <2>1. goes = [e \in Entities |-> w[e] * SumFunctionOnSet(Onto(u, e), Entities)]
    OBVIOUS
  <2>2. SumFunctionOnSet([e \in Entities |-> w[e] * SumFunctionOnSet(Onto(u, e), Entities)], Entities)
        = SumFunctionOnSet(next, Entities)
    BY <1>2, LinkMoves
  <2> HIDE DEF goes, next
  <2> QED
    BY <2>1, <2>2
<1>11. ends[t] = Power[m + 1] * w[t] /\ ends[t] \in Nat
       /\ \A e \in Entities \ {t} : ends[e] = 0
  <2>1. AtTarget(t, t, m + 1) = Power[m + 1] /\ \A e \in Entities \ {t} : AtTarget(t, e, m + 1) = 0
    BY DEF AtTarget
  <2> HIDE DEF w, ends
  <2> QED
    BY <1>2, <1>5, <1>7, <2>1, Products
<1>12. Naturals(ends, Entities) /\ Naturals(goes, Entities)
       /\ \A e \in Entities : f[e] = ends[e] + goes[e]
  <2> SUFFICES ASSUME NEW e \in Entities
               PROVE  ends[e] \in Nat /\ goes[e] \in Nat /\ f[e] = ends[e] + goes[e]
    BY DEF Naturals
  <2> DEFINE x == w[e]
             y == AtTarget(t, e, m + 1)
             z == onto[e]
  <2>1. x \in Nat /\ y \in Nat /\ z \in Nat
    BY <1>4, <1>5
  <2>2. f[e] = x * (y + z) /\ ends[e] = x * y /\ goes[e] = x * z
    BY <1>3, <1>6
  <2> HIDE DEF x, y, z, f, ends, goes
  <2> QED
    BY <2>1, <2>2, Distributes, Products
<1> HIDE DEF w, u, f, ends, onto, goes, next
<1>13. SumFunctionOnSet(f, Entities)
       = SumFunctionOnSet(ends, Entities) + SumFunctionOnSet(goes, Entities)
  BY <1>12, SumPlus DEF ConstantsOK
<1>14. SumFunctionOnSet(ends, Entities) = ends[t]
  BY <1>11, SumOne DEF ConstantsOK
<1>15. SumFunctionOnSet(goes, Entities) \in Nat
  BY <1>12, SumSplit DEF ConstantsOK
<1> QED
  BY <1>1, <1>8, <1>9, <1>10, <1>11, <1>13, <1>14, <1>15 DEF w

LEMMA EffectiveChains ==
  ASSUME ConstantsOK, TypeOK, Acyclic, NEW t \in Entities
  PROVE  Effective(t) = Chains(t)
<1>1. PICK h : Onward(h, t)
  BY OnwardExists
<1>2. Effective(t) = Across(h, 0)
  <2>1. Depth - 0 = Depth
    BY DepthNat
  <2> QED
    BY <1>1, <2>1, EffectiveOnward DEF Across
<1> DEFINE Left(k) == Across(h, 0) + Power[Depth - k] * Reached[k][t]
           Right(k) == Power[Depth - k] * Chain(k, t) + Across(h, k)
           Q == {k \in Nat : k <= Depth => Across(h, 0) \in Nat /\ Across(h, k) \in Nat
                                           /\ Left(k) = Right(k)}
<1>3. Depth \in Nat /\ Depth > 0
  <2>1. Cardinality(Entities) # 0
    BY FS_EmptySet DEF ConstantsOK
  <2> QED
    BY <2>1, DepthNat DEF Depth
<1>4. \A k \in Nat : Reached[k][t] \in Nat /\ Chain(k, t) \in Nat
  BY ReachedIs, ScaledNaturals
<1>5. \A k \in Nat : k <= Depth => Depth - k \in Nat /\ Power[Depth - k] \in Nat
  BY <1>3, DepthNat
<1>6. Across(h, 0) \in Nat
  <2>1. 0 \in Nat /\ 0 < Depth
    BY <1>3
  <2>2. Across(h, 0) = Power[Depth - 0] * Reached[0][t] + Across(h, 0 + 1)
        /\ Across(h, 0 + 1) \in Nat
    BY <1>1, <2>1, AcrossStep
  <2>3. Power[Depth - 0] * Reached[0][t] \in Nat
    BY <1>3, <1>4, <1>5, Products
  <2> QED
    BY <2>2, <2>3
<1>7. 0 \in Q
  <2>1. Chain(0, t) = Reached[0][t]
    BY ChainIs
  <2> DEFINE x == Power[Depth - 0] * Reached[0][t]
  <2>2. x \in Nat
    <3>1. Depth - 0 = Depth
      BY <1>3
    <3>2. Power[Depth - 0] \in Nat /\ Reached[0][t] \in Nat
      BY <1>3, <1>4, <3>1, DepthNat
    <3> QED
      BY <3>2, Products
  <2> HIDE DEF x
  <2>3. Across(h, 0) + x = x + Across(h, 0)
    BY <1>6, <2>2
  <2> QED
    BY <1>6, <2>1, <2>3 DEF x
<1>8. \A k \in Nat : k \in Q => k + 1 \in Q
  <2> SUFFICES ASSUME NEW k \in Nat, k \in Q, k + 1 <= Depth
               PROVE  Across(h, k + 1) \in Nat /\ Left(k + 1) = Right(k + 1)
    BY <1>6
  <2>1. k < Depth /\ k + 1 \in Nat /\ Depth - k = (Depth - (k + 1)) + 1
    BY <1>3
  <2>2. Left(k) = Right(k)
    <3>1. k <= Depth
      BY <1>3, <2>1
    <3> HIDE DEF Left, Right
    <3> QED
      BY <3>1
  <2>3. Across(h, k) = Power[Depth - k] * Reached[k][t] + Across(h, k + 1)
        /\ Across(h, k + 1) \in Nat
    BY <1>1, <2>1, AcrossStep
  <2> DEFINE a == Power[Depth - (k + 1)]
             r == Reached[k][t]
             s == Reached[k + 1][t]
             c == Chain(k, t)
             x == Across(h, k + 1)
  <2>4. a \in Nat /\ r \in Nat /\ s \in Nat /\ c \in Nat /\ x \in Nat /\ Whole \in Nat
    BY <1>4, <1>5, <2>1, <2>3 DEF ConstantsOK
  <2>5. Power[Depth - k] = Whole * a
    <3>1. Depth - (k + 1) \in Nat
      BY <1>5, <2>1
    <3> QED
      BY <2>1, <3>1, PowerIs DEF ConstantsOK
  <2>6. Chain(k + 1, t) = Whole * c + s
    BY ChainIs
  <2>7. /\ Across(h, 0) + Whole * a * r = Whole * a * c + Across(h, k)
        /\ Across(h, k) = Whole * a * r + x
    BY <2>2, <2>3, <2>5
  <2>8. Left(k + 1) = Across(h, 0) + a * s /\ Right(k + 1) = a * (Whole * c + s) + x
    BY <2>6
  <2> HIDE DEF a, r, s, c, x, Left, Right, Q
  <2> DEFINE y == Whole * a * r
             z == Whole * a * c
  <2>9. y \in Nat /\ z \in Nat /\ a * s \in Nat
    BY <2>4, Products
  <2>10. a * (Whole * c + s) = z + a * s
    <3>1. Whole * c \in Nat
      BY <2>4, Products
    <3>2. a * (Whole * c + s) = a * (Whole * c) + a * s
      BY <2>4, <3>1, Distributes
    <3>3. a * (Whole * c) = (a * Whole) * c /\ a * Whole = Whole * a
      BY <2>4, Products
    <3> QED
      BY <3>2, <3>3
  <2> HIDE DEF y, z
  <2>11. Across(h, 0) + y = z + Across(h, k) /\ Across(h, k) = y + x
    BY <2>7 DEF y, z
  <2>12. Across(h, 0) = z + x
    BY <1>6, <2>4, <2>9, <2>11
  <2> QED
    BY <1>6, <2>3, <2>4, <2>8, <2>9, <2>10, <2>12
<1>9. Depth \in Q
  <2> HIDE DEF Q
  <2> QED
    BY <1>3, <1>7, <1>8, Induct
<1>10. Across(h, Depth) = 0
  <2> DEFINE f == Times(Reached[Depth], h[Depth - Depth])
  <2>1. Depth - Depth = 0
    BY <1>3
  <2>2. h[Depth - Depth] \in [Entities -> Nat]
    BY <1>1, <2>1 DEF Onward
  <2>3. \A e \in Entities : f[e] = 0
    BY <2>2, ReachedLast DEF Times
  <2> HIDE DEF f
  <2> QED
    BY <2>3, SumZero DEF ConstantsOK, Across, f
<1>11. Power[Depth - Depth] = 1 /\ Reached[Depth][t] = 0
  <2>1. Depth - Depth = 0
    BY <1>3
  <2> QED
    BY <2>1, PowerIs, ReachedLast DEF ConstantsOK
<1>12. Left(Depth) = Right(Depth)
  BY <1>3, <1>9
<1>13. Across(h, 0) + 1 * 0 = 1 * Chain(Depth, t) + 0
  BY <1>10, <1>11, <1>12
<1>14. Across(h, 0) = Chain(Depth, t)
  BY <1>3, <1>4, <1>6, <1>13
<1> QED
  BY <1>2, <1>14, ChainIs

-----------------------------------------------------------------------------
(***************************************************************************)
(* The bounds.  Taken from the other end, what reaches an entity in up to  *)
(* k + 1 steps is what reaches those that own it in up to k, shared out    *)
(* by their percentages; and these are together at most Whole.             *)
(***************************************************************************)
AtRoot(e, n) == IF e \in RootsOnly THEN Power[n] ELSE 0
ChainsOf(k) == [e \in Entities |-> Chain(k, e)]

LEMMA ChainsOfIs ==
  ASSUME ConstantsOK, TypeOK, NEW k \in Nat
  PROVE  /\ ChainsOf(k) \in [Entities -> Nat]
         /\ \A e \in Entities : ChainsOf(k)[e] = Chain(k, e)
BY ScaledNaturals DEF ChainsOf

LEMMA ChainThroughParents ==
  ASSUME ConstantsOK, TypeOK, NEW k \in Nat, NEW e \in Entities
  PROVE  Chain(k + 1, e) = AtRoot(e, k + 1) + SumFunctionOnSet(Passed(ChainsOf(k), e), Entities)
<1> DEFINE Sum(w) == SumFunctionOnSet(Passed(w, e), Entities)
           Q == {n \in Nat : Chain(n + 1, e) = AtRoot(e, n + 1) + Sum(ChainsOf(n))}
<1>1. \A w \in [Entities -> Nat] : Naturals(Passed(w, e), Entities) /\ Sum(w) \in Nat
  <2> SUFFICES ASSUME NEW w \in [Entities -> Nat]
               PROVE  Naturals(Passed(w, e), Entities) /\ Sum(w) \in Nat
    OBVIOUS
  <2>1. Naturals(w, Entities)
    BY DEF Naturals
  <2> QED
    BY <2>1, PassedNaturals, SumSplit DEF ConstantsOK
<1>2. \A n \in Nat : /\ Chain(n + 1, e) = Whole * Chain(n, e) + Reached[n + 1][e]
                     /\ Reached[n + 1][e] = Sum(Reached[n])
                     /\ Reached[n] \in [Entities -> Nat] /\ ChainsOf(n) \in [Entities -> Nat]
                     /\ Chain(n, e) \in Nat
  BY ChainIs, ReachedIs, ChainsOfIs, ScaledNaturals
<1>3. Whole \in Nat /\ \A n \in Nat : Power[n + 1] = Whole * Power[n] /\ Power[n] \in Nat
  BY PowerIs DEF ConstantsOK
<1>4. 0 \in Q
  <2>1. Chain(0, e) = Reached[0][e] /\ Reached[0][e] = IF e \in RootsOnly THEN 1 ELSE 0
    BY ChainIs, ReachedIs
  <2>2. Power[0 + 1] = Whole
    <3>1. Power[0] = 1
      BY PowerIs DEF ConstantsOK
    <3>2. \A n \in Nat : n = 0 => Power[n + 1] = Whole
      BY <1>3, <3>1
    <3> QED
      BY <3>2
  <2>3. Whole * Chain(0, e) = AtRoot(e, 0 + 1)
    BY <1>3, <2>1, <2>2 DEF AtRoot
  <2>4. ChainsOf(0) = Reached[0]
    <3>1. \A p \in Entities : Chain(0, p) = Reached[0][p]
      BY ChainIs
    <3>2. Reached[0] \in [Entities -> Nat]
      BY ReachedIs
    <3> QED
      BY <3>1, <3>2 DEF ChainsOf
  <2>5. Chain(0 + 1, e) = Whole * Chain(0, e) + Reached[0 + 1][e]
        /\ Reached[0 + 1][e] = Sum(Reached[0])
    <3> HIDE DEF Sum
    <3>1. \A n \in Nat : n = 0 => Chain(n + 1, e) = Whole * Chain(n, e) + Reached[n + 1][e]
                                  /\ Reached[n + 1][e] = Sum(Reached[n])
      BY <1>2
    <3> QED
      BY <3>1
  <2> HIDE DEF Sum
  <2> QED
    BY <2>3, <2>4, <2>5
<1>5. \A n \in Nat : n \in Q => n + 1 \in Q
  <2> SUFFICES ASSUME NEW n \in Nat, Chain(n + 1, e) = AtRoot(e, n + 1) + Sum(ChainsOf(n))
               PROVE  Chain((n + 1) + 1, e) = AtRoot(e, (n + 1) + 1) + Sum(ChainsOf(n + 1))
    OBVIOUS
  <2>0. n + 1 \in Nat
    OBVIOUS
  <2> DEFINE f == Passed(ChainsOf(n), e)
             g == Passed(Reached[n + 1], e)
             j == Passed(ChainsOf(n + 1), e)
             wf == [p \in Entities |-> Whole * f[p]]
  <2>1. \A p \in Entities : j[p] = wf[p] + g[p] /\ wf[p] = Whole * f[p]
    <3> SUFFICES ASSUME NEW p \in Entities PROVE j[p] = wf[p] + g[p]
      OBVIOUS
    <3> DEFINE x == Percent(p, e)
               y == Chain(n, p)
               z == Reached[n + 1][p]
    <3>1. x \in Nat /\ y \in Nat /\ z \in Nat
      <4>1. x \in Nat
        BY Percents
      <4>2. y \in Nat
        BY ScaledNaturals
      <4>3. z \in Nat
        BY <2>0, ReachedIs
      <4> QED
        BY <4>1, <4>2, <4>3
    <3>2. Chain(n + 1, p) = Whole * y + z
      BY ChainIs
    <3>3. f[p] = x * y /\ g[p] = x * z /\ j[p] = x * Chain(n + 1, p) /\ wf[p] = Whole * f[p]
      BY <2>0, ChainsOfIs DEF Passed
    <3> HIDE DEF x, y, z, f, g, j, wf
    <3>4. x * (Whole * y + z) = x * (Whole * y) + x * z
      <4>1. Whole * y \in Nat
        BY <1>3, <3>1, Products
      <4> QED
        BY <3>1, <4>1, Distributes
    <3>5. x * (Whole * y) = Whole * (x * y)
      <4>1. x * (Whole * y) = (x * Whole) * y /\ x * Whole = Whole * x
            /\ (Whole * x) * y = Whole * (x * y)
        BY <1>3, <3>1, Products
      <4> QED
        BY <4>1
    <3> QED
      BY <3>2, <3>3, <3>4, <3>5
  <2>2. Naturals(f, Entities) /\ Naturals(g, Entities)
    BY <1>1, <1>2, <2>0
  <2>3. Naturals(wf, Entities)
    <3> SUFFICES ASSUME NEW p \in Entities PROVE wf[p] \in Nat
      BY DEF Naturals
    <3>1. f[p] \in Nat
      BY <2>2 DEF Naturals
    <3> HIDE DEF f
    <3> QED
      BY <1>3, <3>1, Products
  <2>4. Sum(ChainsOf(n)) = SumFunctionOnSet(f, Entities)
        /\ Sum(Reached[n + 1]) = SumFunctionOnSet(g, Entities)
        /\ Sum(ChainsOf(n + 1)) = SumFunctionOnSet(j, Entities)
    OBVIOUS
  <2>5. Sum(ChainsOf(n)) \in Nat /\ Sum(Reached[n + 1]) \in Nat
    <3> HIDE DEF Sum
    <3> QED
      BY <1>1, <1>2, <2>0
  <2>6. Chain((n + 1) + 1, e) = Whole * Chain(n + 1, e) + Sum(Reached[n + 1])
    <3> HIDE DEF Sum
    <3> QED
      BY <1>2, <2>0
  <2> HIDE DEF f, g, j, wf, Sum
  <2>7. SumFunctionOnSet(j, Entities)
        = SumFunctionOnSet(wf, Entities) + SumFunctionOnSet(g, Entities)
    BY <2>1, <2>2, <2>3, SumPlus DEF ConstantsOK
  <2>8. SumFunctionOnSet(wf, Entities) = Whole * SumFunctionOnSet(f, Entities)
    BY <2>1, <2>2, SumTimes DEF ConstantsOK
  <2> DEFINE a == AtRoot(e, n + 1)
             s == Sum(ChainsOf(n))
             r == Sum(Reached[n + 1])
  <2>9. a \in Nat /\ Whole * a = AtRoot(e, (n + 1) + 1)
    BY <1>3, <2>0 DEF AtRoot
  <2>10. Chain(n + 1, e) = a + s /\ s \in Nat /\ r \in Nat
    BY <2>5
  <2>11. Sum(ChainsOf(n + 1)) = Whole * s + r
    BY <2>4, <2>7, <2>8
  <2>12. Chain((n + 1) + 1, e) = Whole * (a + s) + r
    BY <2>6, <2>10
  <2> HIDE DEF a, s, r
  <2>13. Whole * (a + s) = Whole * a + Whole * s /\ Whole * a \in Nat /\ Whole * s \in Nat
    BY <1>3, <2>9, <2>10, Distributes, Products
  <2>14. \A x, y, z \in Nat : (x + y) + z = x + (y + z)
    OBVIOUS
  <2> QED
    BY <2>9, <2>10, <2>11, <2>12, <2>13, <2>14
<1> HIDE DEF Q
<1>6. k \in Q
  BY <1>4, <1>5, Induct
<1> QED
  BY <1>6 DEF Q

\* What nobody owns has no percentages to share out; a root is such.
LEMMA RootUnowned ==
  ASSUME ConstantsOK, TypeOK, NEW e \in RootsOnly
  PROVE  /\ OwnedOf(e) = 0
         /\ \A w \in [Entities -> Nat] : SumFunctionOnSet(Passed(w, e), Entities) = 0
<1>1. e \in Entities /\ \A p \in Entities : Percent(p, e) = 0
  BY Percents DEF RootsOnly
<1>2. OwnedOf(e) = 0
  <2> DEFINE f == Shares(e)
  <2>1. \A p \in Entities : f[p] = 0
    BY <1>1 DEF Shares
  <2>2. OwnedOf(e) = SumFunctionOnSet(f, Entities)
    BY OwnedIs
  <2> HIDE DEF f
  <2> QED
    BY <2>1, <2>2, SumZero DEF ConstantsOK
<1>3. ASSUME NEW w \in [Entities -> Nat] PROVE SumFunctionOnSet(Passed(w, e), Entities) = 0
  <2> DEFINE f == Passed(w, e)
  <2>1. \A p \in Entities : f[p] = 0
    <3> SUFFICES ASSUME NEW p \in Entities PROVE Percent(p, e) * w[p] = 0
      BY DEF Passed
    <3>1. w[p] \in Nat
      OBVIOUS
    <3> QED
      BY <1>1, <3>1
  <2> HIDE DEF f
  <2>2. SumFunctionOnSet(f, Entities) = 0
    BY <2>1, SumZero DEF ConstantsOK
  <2> QED
    BY <2>2 DEF f
<1> QED
  BY <1>2, <1>3

\* Parents that pass on the same amount pass on together that times what they own.
LEMMA AllPass ==
  ASSUME ConstantsOK, TypeOK, NEW e, NEW w \in [Entities -> Nat], NEW a \in Nat,
         \A p \in Entities : Percent(p, e) > 0 => w[p] = a
  PROVE  SumFunctionOnSet(Passed(w, e), Entities) = a * OwnedOf(e)
<1> DEFINE f == Passed(w, e)
           g == Shares(e)
<1>1. \A p \in Entities : f[p] = a * g[p]
  <2> SUFFICES ASSUME NEW p \in Entities PROVE Percent(p, e) * w[p] = a * Percent(p, e)
    BY DEF Passed, Shares
  <2>1. Percent(p, e) \in Nat /\ w[p] \in Nat
    BY Percents
  <2>2. CASE Percent(p, e) = 0
    BY <2>1, <2>2
  <2>3. CASE Percent(p, e) # 0
    <3>1. w[p] = a
      BY <2>1, <2>3
    <3> QED
      BY <2>1, <3>1, Products
  <2> QED
    BY <2>2, <2>3
<1>2. Naturals(g, Entities) /\ OwnedOf(e) = SumFunctionOnSet(g, Entities)
  BY OwnedIs
<1> HIDE DEF f, g
<1>3. SumFunctionOnSet(f, Entities) = a * SumFunctionOnSet(g, Entities)
  BY <1>1, <1>2, SumTimes DEF ConstantsOK
<1> QED
  BY <1>2, <1>3 DEF f

LEMMA Monotone == \A a, b, c \in Nat : b <= c => a * b <= a * c
<1> SUFFICES ASSUME NEW a \in Nat, NEW b \in Nat, NEW c \in Nat, b <= c
             PROVE  a * b <= a * c
  OBVIOUS
<1>1. PICK d \in Nat : c = b + d
  <2>1. c - b \in Nat /\ c = b + (c - b)
    OBVIOUS
  <2> QED
    BY <2>1
<1>2. a * c = a * b + a * d /\ a * b \in Nat /\ a * d \in Nat
  BY <1>1, Distributes, Products
<1> QED
  BY <1>2

LEMMA ChainBounds ==
  ASSUME ConstantsOK, ChainsInv, NEW k \in Nat, NEW e \in Entities
  PROVE  Chain(k, e) <= Power[k]
<1> USE DEF ChainsInv
<1> DEFINE Q == {n \in Nat : \A d \in Entities : Chain(n, d) <= Power[n]}
<1>1. Whole \in Nat /\ \A n \in Nat : Power[n + 1] = Whole * Power[n] /\ Power[n] \in Nat
  BY PowerIs DEF ConstantsOK
<1>2. 0 \in Q
  <2> SUFFICES ASSUME NEW d \in Entities PROVE Chain(0, d) <= Power[0]
    OBVIOUS
  <2>1. Chain(0, d) = IF d \in RootsOnly THEN 1 ELSE 0
    BY ChainIs, ReachedIs
  <2> QED
    BY <2>1, PowerIs DEF ConstantsOK
<1>3. \A n \in Nat : n \in Q => n + 1 \in Q
  <2> SUFFICES ASSUME NEW n \in Nat, \A d \in Entities : Chain(n, d) <= Power[n],
                      NEW d \in Entities
               PROVE  Chain(n + 1, d) <= Power[n + 1]
    OBVIOUS
  <2> DEFINE w == ChainsOf(n)
             f == Passed(w, d)
             u == [p \in Entities |-> Power[n]]
             g == Passed(u, d)
  <2>1. w \in [Entities -> Nat] /\ u \in [Entities -> Nat]
        /\ \A p \in Entities : w[p] <= u[p] /\ u[p] = Power[n]
    BY <1>1, ChainsOfIs
  <2>2. Chain(n + 1, d) = AtRoot(d, n + 1) + SumFunctionOnSet(f, Entities)
    BY ChainThroughParents
  <2>3. CASE d \in RootsOnly
    <3>1. SumFunctionOnSet(f, Entities) = 0
      BY <2>1, <2>3, RootUnowned
    <3> HIDE DEF f
    <3>2. n + 1 \in Nat /\ Power[n + 1] \in Nat
      BY <1>1
    <3> QED
      BY <2>2, <2>3, <3>1, <3>2 DEF AtRoot
  <2>4. CASE d \notin RootsOnly
    <3>1. Naturals(w, Entities) /\ Naturals(u, Entities)
      BY <2>1 DEF Naturals
    <3>2. \A p \in Entities : f[p] = Percent(p, d) * w[p] /\ g[p] = Percent(p, d) * u[p]
      BY DEF Passed
    <3>3. SumFunctionOnSet(g, Entities) = Power[n] * OwnedOf(d)
      <4> HIDE DEF u
      <4> QED
        BY <1>1, <2>1, AllPass
    <3> HIDE DEF w, u
    <3>4. Naturals(f, Entities) /\ Naturals(g, Entities)
      BY <3>1, PassedNaturals
    <3>5. \A p \in Entities : f[p] <= g[p]
      <4> SUFFICES ASSUME NEW p \in Entities PROVE f[p] <= g[p]
        OBVIOUS
      <4>1. Percent(p, d) \in Nat /\ w[p] \in Nat /\ u[p] \in Nat /\ w[p] <= u[p]
        BY <2>1, Percents
      <4> HIDE DEF f, g
      <4> QED
        BY <3>2, <4>1, Monotone
    <3> HIDE DEF f, g
    <3>6. SumFunctionOnSet(f, Entities) <= SumFunctionOnSet(g, Entities)
      BY <3>4, <3>5, SumLeq DEF ConstantsOK
    <3>7. OwnedOf(d) <= Whole /\ OwnedOf(d) \in Nat
      BY OwnedIs
    <3>8. Power[n] * OwnedOf(d) <= Power[n] * Whole /\ Power[n] * Whole = Power[n + 1]
      BY <1>1, <3>7, Monotone, Products
    <3>9. Chain(n + 1, d) = 0 + SumFunctionOnSet(f, Entities)
      BY <2>2, <2>4 DEF AtRoot
    <3>10. SumFunctionOnSet(f, Entities) \in Nat /\ SumFunctionOnSet(g, Entities) \in Nat
      BY <3>4, SumSplit DEF ConstantsOK
    <3>11. Power[n + 1] \in Nat
      BY <1>1, <3>8, Products
    <3> QED
      BY <3>3, <3>6, <3>8, <3>9, <3>10, <3>11
  <2> QED
    BY <2>3, <2>4
<1> HIDE DEF Q
<1>4. k \in Q
  BY <1>2, <1>3, Induct
<1> QED
  BY <1>4 DEF Q

LEMMA Cancels == \A a, b, c \in Nat : a # 0 /\ a * b = a * c => b = c
OBVIOUS

LEMMA WhollyHeld ==
  ASSUME ConstantsOK, ChainsInv, NEW e \in Entities, OwnedOf(e) = Whole,
         \A p \in Entities : Percent(p, e) > 0 => Chain(Depth, p) = Power[Depth]
  PROVE  Chain(Depth, e) = Power[Depth]
<1> USE DEF ChainsInv
<1>1. Whole \in Nat /\ Whole # 0
      /\ \A n \in Nat : Power[n + 1] = Whole * Power[n] /\ Power[n] \in Nat
  BY PowerIs DEF ConstantsOK
<1>2. PICK k \in Nat : Depth = k + 1
  <2>1. Depth # 0 /\ Depth \in Nat
    BY DepthNat, FS_EmptySet DEF ConstantsOK, Depth
  <2>2. Depth - 1 \in Nat /\ Depth = (Depth - 1) + 1
    BY <2>1
  <2> QED
    BY <2>2
<1> DEFINE w == ChainsOf(k)
           sum == SumFunctionOnSet(Passed(w, e), Entities)
<1>3. w \in [Entities -> Nat] /\ \A p \in Entities : w[p] = Chain(k, p)
  BY ChainsOfIs
<1>4. ASSUME NEW p \in Entities, Percent(p, e) > 0 PROVE w[p] = Power[k]
  <2>1. Chain(k + 1, p) = Whole * Chain(k, p) + Reached[k + 1][p]
    BY ChainIs
  <2>2. Reached[k + 1][p] = 0 /\ Chain(k, p) \in Nat
    BY <1>2, ReachedLast, ScaledNaturals
  <2>3. Chain(k + 1, p) = Whole * Power[k]
    BY <1>1, <1>2, <1>4
  <2>4. Whole * Chain(k, p) \in Nat
    BY <1>1, <2>2, Products
  <2>5. Whole * Chain(k, p) = Whole * Power[k]
    BY <2>1, <2>2, <2>3, <2>4
  <2>6. Chain(k, p) = Power[k]
    <3>1. Power[k] \in Nat /\ Whole \in Nat /\ Whole # 0
      BY <1>1
    <3> QED
      BY ONLY <2>2, <2>5, <3>1, Cancels
  <2> QED
    BY <1>3, <2>6
<1>5. Chain(k + 1, e) = AtRoot(e, k + 1) + sum
  BY ChainThroughParents
<1>6. AtRoot(e, k + 1) = 0
  BY <1>1, RootUnowned DEF AtRoot
<1> HIDE DEF w
<1>7. sum = Power[k] * Whole
  BY <1>1, <1>3, <1>4, AllPass
<1>8. Power[k] * Whole = Power[k + 1] /\ Power[k] * Whole \in Nat
  BY <1>1, Products
<1> HIDE DEF sum
<1> QED
  BY <1>2, <1>5, <1>6, <1>7, <1>8

LEMMA ChainsFollow ==
  ASSUME ConstantsOK, ChainsInv
  PROVE  EffectiveFollowsChains
<1>1. ASSUME NEW e \in Entities
      PROVE  Effective(e) = Chains(e) /\ Effective(e) = Chain(Depth, e)
  BY EffectiveChains, ChainIs DEF ChainsInv
<1>2. ASSUME NEW e \in Entities PROVE Effective(e) <= Power[Depth]
  BY <1>1, DepthNat, ChainBounds
<1>3. ASSUME NEW e \in Entities, OwnedOf(e) = Whole,
             \A p \in Entities : Percent(p, e) > 0 => Effective(p) = Power[Depth]
      PROVE  Effective(e) = Power[Depth]
  <2>1. \A p \in Entities : Percent(p, e) > 0 => Chain(Depth, p) = Power[Depth]
    BY <1>1, <1>3
  <2> QED
    BY <1>1, <1>3, <2>1, WhollyHeld
<1> QED
  BY <1>1, <1>2, <1>3 DEF EffectiveFollowsChains

LEMMA ChainsNext ==
  ASSUME ConstantsOK
  PROVE  ChainsInv /\ [Next]_vars => ChainsInv'
<1> SUFFICES ASSUME ChainsInv, [Next]_vars PROVE ChainsInv'
  OBVIOUS
<1>1. CASE CreateOwnership
  BY <1>1, ChainsStep
<1>2. CASE UNCHANGED vars
  <2>1. share' = share
    BY <1>2 DEF vars
  <2>2. TypeOK'
    BY <2>1 DEF ChainsInv, TypeOK
  <2>3. \A p, c : Linked(p, c)' = Linked(p, c) /\ Percent(p, c)' = Percent(p, c)
    BY <2>1 DEF Linked, Percent
  <2>4. \A c \in Entities : OwnedOf(c)' = OwnedOf(c)
    BY <2>3 DEF OwnedOf
  <2>5. \A e : HeldBy(e)' = HeldBy(e)
    BY <2>3 DEF HeldBy
  <2>6. \A e : Below(e)' = Below(e)
    BY <2>5 DEF Below, Closed
  <2>7. Acyclic'
    BY <2>3, <2>6 DEF ChainsInv, Acyclic
  <2> QED
    BY <2>2, <2>4, <2>7 DEF ChainsInv
<1> QED
  BY <1>1, <1>2 DEF Next

\* create_ownership: it never closes a circle of owners, nor lets an entity be owned
\* beyond the whole.  calculate_effective_ownership: over any links so made, of every
\* entity the search finds the sum over all chains from the roots, never more than the
\* whole, and the whole where it is wholly held by what is wholly held.
THEOREM ChainsCorrect ==
  ASSUME ConstantsOK
  PROVE  Spec => [](ChainsInv /\ EffectiveFollowsChains)
<1>1. Init => ChainsInv
  BY ChainsInit
<1>2. ChainsInv /\ [Next]_vars => ChainsInv'
  BY ChainsNext
<1>3. ChainsInv => EffectiveFollowsChains
  BY ChainsFollow
<1> QED
  BY <1>1, <1>2, <1>3, PTL DEF Spec
=============================================================================
