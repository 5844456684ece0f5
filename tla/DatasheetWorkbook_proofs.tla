----------------------- MODULE DatasheetWorkbook_proofs -----------------------
(***************************************************************************)
(* Every datasheet of any number of rows is read as DatasheetIsRead says.  *)
(* The reader goes through the rows once, so what it holds after n rows is *)
(* described for every n (Reads): the label it would take for the parent   *)
(* of a row with a given indent is that of the nearest row above with less,*)
(* back to the last heading that is not indented (ParentsOK), and what it  *)
(* has made of the rows so far are metrics with rows and paths of their own*)
(* (MetricsOK).                                                            *)
(***************************************************************************)
EXTENDS DatasheetWorkbook, SequenceTheorems, WellFoundedInduction, TLAPS

-----------------------------------------------------------------------------
(* Induction with membership in a set as hypothesis.                       *)
LEMMA Induct ==
  ASSUME NEW Q, 0 \in Q, \A n \in Nat : n \in Q => n + 1 \in Q
  PROVE  \A n \in Nat : n \in Q
<1> DEFINE T == {n \in Nat : n \notin Q}
<1> SUFFICES ASSUME T # {} PROVE FALSE
  OBVIOUS
<1>1. IsWellFoundedOn(OpToRel(<, Nat), Nat)
  BY NatLessThanWellFounded
<1>2. PICK m \in T : \A n \in T : ~(<<n, m>> \in OpToRel(<, Nat))
  BY <1>1, WFMin
<1>3. \A n \in T : ~(n < m)
  BY <1>2 DEF OpToRel
<1>4. m \in Nat /\ m \notin Q
  OBVIOUS
<1>5. m - 1 \in Nat /\ (m - 1) + 1 = m /\ m - 1 < m
  BY <1>4
<1>6. m - 1 \notin Q
  BY <1>4, <1>5
<1>7. m - 1 \in T
  BY <1>5, <1>6
<1> HIDE DEF T
<1> QED
  BY <1>3, <1>5, <1>7

-----------------------------------------------------------------------------
(***************************************************************************)
(* The recursive definition of Read has a solution: what agrees with it up *)
(* to a number exists for every number and is the same up to smaller ones. *)
(***************************************************************************)
Step(st, n) == IF IsHeader(sheet[n]) THEN ReadHeading(st, n) ELSE ReadData(st, n)

LEMMA ReadIs ==
  /\ Read[0] = Blank
  /\ \A n \in Nat : Read[n + 1] = Step(Read[n], n + 1)
<1> DEFINE Fits(f, n) == f[0] = Blank /\ \A k \in 0..n : k < n => f[k + 1] = Step(f[k], k + 1)
           Some == {n \in Nat : \E f : Fits(f, n)}
           h(n) == CHOOSE f : Fits(f, n)
           F == [n \in Nat |-> h(n)[n]]
           Body(f) == [n \in Nat |-> IF n = 0 THEN Blank
                         ELSE IF IsHeader(sheet[n]) THEN ReadHeading(f[n - 1], n)
                              ELSE ReadData(f[n - 1], n)]
<1> HIDE DEF Step
<1>1. 0 \in Some
  <2>1. Fits([k \in 0..0 |-> Blank], 0)
    OBVIOUS
  <2> QED
    BY <2>1
<1>2. \A n \in Nat : n \in Some => n + 1 \in Some
  <2> SUFFICES ASSUME NEW n \in Nat, NEW f, Fits(f, n) PROVE \E g : Fits(g, n + 1)
    OBVIOUS
  <2> DEFINE g == [k \in 0..(n + 1) |-> IF k = n + 1 THEN Step(f[n], n + 1) ELSE f[k]]
  <2>1. \A k \in 0..n : g[k] = f[k]
    OBVIOUS
  <2>2. g[n + 1] = Step(f[n], n + 1)
    OBVIOUS
  <2>3. \A k \in 0..(n + 1) : k < n + 1 => g[k + 1] = Step(g[k], k + 1)
    <3> SUFFICES ASSUME NEW k \in 0..(n + 1), k < n + 1 PROVE g[k + 1] = Step(g[k], k + 1)
      OBVIOUS
    <3> HIDE DEF g
    <3>1. k \in 0..n /\ g[k] = f[k]
      BY <2>1
    <3>2. CASE k = n
      BY <2>2, <3>1, <3>2
    <3>3. CASE k # n
      <4>1. k < n /\ k + 1 \in 0..n
        BY <3>1, <3>3
      <4> QED
        BY <2>1, <3>1, <4>1
    <3> QED
      BY <3>2, <3>3
  <2>4. g[0] = Blank
    BY <2>1
  <2> QED
    BY <2>3, <2>4
<1>3. \A n \in Nat : Fits(h(n), n)
  <2>1. \A n \in Nat : n \in Some
    <3> HIDE DEF Some
    <3> QED
      BY <1>1, <1>2, Induct
  <2> HIDE DEF Fits
  <2> QED
    BY <2>1
<1>4. \A n \in Nat : h(n + 1)[n] = h(n)[n]
  <2> SUFFICES ASSUME NEW n \in Nat PROVE h(n + 1)[n] = h(n)[n]
    OBVIOUS
  <2> DEFINE p == h(n + 1)
             q == h(n)
             Same == {k \in Nat : k <= n => p[k] = q[k]}
  <2>1. Fits(p, n + 1) /\ Fits(q, n)
    <3> HIDE DEF Fits, h
    <3> QED
      BY <1>3
  <2> HIDE DEF h, p, q
  <2>2. 0 \in Same
    BY <2>1
  <2>3. \A k \in Nat : k \in Same => k + 1 \in Same
    <3> SUFFICES ASSUME NEW k \in Nat, k \in Same, k + 1 <= n PROVE p[k + 1] = q[k + 1]
      OBVIOUS
    <3>1. k \in 0..n /\ k < n /\ k \in 0..(n + 1) /\ k < n + 1 /\ p[k] = q[k]
      OBVIOUS
    <3> QED
      BY <2>1, <3>1
  <2>4. n \in Same
    <3> HIDE DEF Same
    <3> QED
      BY <2>2, <2>3, Induct
  <2>5. p[n] = q[n]
    BY <2>4
  <2> QED
    BY <2>5 DEF p, q
<1>5. F[0] = Blank
  <2> HIDE DEF h
  <2> QED
    BY <1>3
<1>6. \A n \in Nat : F[n + 1] = Step(F[n], n + 1)
  <2> SUFFICES ASSUME NEW n \in Nat PROVE F[n + 1] = Step(F[n], n + 1)
    OBVIOUS
  <2> HIDE DEF h
  <2>1. Fits(h(n + 1), n + 1)
    BY <1>3
  <2>2. n \in 0..(n + 1) /\ n < n + 1
    OBVIOUS
  <2>3. h(n + 1)[n + 1] = Step(h(n + 1)[n], n + 1)
    BY <2>1, <2>2
  <2> QED
    BY <1>4, <2>3
<1>7. F = Body(F)
  <2> HIDE DEF h
  <2>1. \A n \in Nat : F[n] = IF n = 0 THEN Blank ELSE Step(F[n - 1], n)
    <3> SUFFICES ASSUME NEW n \in Nat, n # 0 PROVE F[n] = Step(F[n - 1], n)
      BY <1>5
    <3>1. n - 1 \in Nat /\ (n - 1) + 1 = n
      OBVIOUS
    <3> HIDE DEF F
    <3>2. F[(n - 1) + 1] = Step(F[n - 1], (n - 1) + 1)
      BY <1>6, <3>1
    <3> QED
      BY <3>1, <3>2
  <2>2. F = [n \in Nat |-> F[n]]
    OBVIOUS
  <2>3. \A n \in Nat : F[n] = Body(F)[n]
    <3> HIDE DEF F
    <3> QED
      BY <2>1 DEF Step
  <2> HIDE DEF F
  <2> QED
    BY <2>2, <2>3
<1>8. Read = CHOOSE f : f = Body(f)
  BY DEF Read
<1>9. Read = Body(Read)
  <2> HIDE DEF F, Body
  <2> QED
    BY <1>7, <1>8
<1>10. Read[0] = Blank
  BY <1>9
<1>11. \A n \in Nat : Read[n + 1] = Step(Read[n], n + 1)
  <2> SUFFICES ASSUME NEW n \in Nat PROVE Read[n + 1] = Step(Read[n], n + 1)
    OBVIOUS
  <2>1. n + 1 \in Nat /\ n + 1 # 0 /\ (n + 1) - 1 = n
    OBVIOUS
  <2> DEFINE r == Read
  <2>2. r = Body(r)
    BY <1>9
  <2> HIDE DEF r
  <2>3. r[n + 1] = Step(r[(n + 1) - 1], n + 1)
    BY <2>1, <2>2 DEF Step
  <2> QED
    BY <2>1, <2>3 DEF r
<1> QED
  BY <1>10, <1>11

-----------------------------------------------------------------------------
(* A finite set of numbers has a greatest one.                             *)
LEMMA Greatest ==
  ASSUME NEW n \in Nat, NEW S \in SUBSET 0..n, S # {}
  PROVE  \E m \in S : \A k \in S : k <= m
<1> DEFINE Q == {m \in Nat : \A T \in SUBSET 0..m : T # {} => \E x \in T : \A k \in T : k <= x}
<1>1. 0 \in Q
  <2> SUFFICES ASSUME NEW T \in SUBSET 0..0, T # {} PROVE \E x \in T : \A k \in T : k <= x
    OBVIOUS
  <2>1. PICK x \in T : TRUE
    OBVIOUS
  <2>2. \A k \in T : k <= x
    OBVIOUS
  <2> QED
    BY <2>2
<1>2. \A m \in Nat : m \in Q => m + 1 \in Q
  <2> SUFFICES ASSUME NEW m \in Nat, m \in Q, NEW T \in SUBSET 0..(m + 1), T # {}
               PROVE  \E x \in T : \A k \in T : k <= x
    OBVIOUS
  <2>1. CASE m + 1 \in T
    BY <2>1
  <2>2. CASE m + 1 \notin T
    <3>1. T \in SUBSET 0..m
      BY <2>2
    <3> QED
      BY <3>1
  <2> QED
    BY <2>1, <2>2
<1>3. n \in Q
  <2> HIDE DEF Q
  <2> QED
    BY <1>1, <1>2, Induct
<1> QED
  BY <1>3

-----------------------------------------------------------------------------
(***************************************************************************)
(* What the reader keeps of the rows above, and what it is kept of.        *)
(***************************************************************************)
Tops(n) == {j \in 1..n : sheet[j].depth = 0 /\ IsHeader(sheet[j])}
Top(n) == IF Tops(n) = {} THEN 0 ELSE CHOOSE j \in Tops(n) : \A k \in Tops(n) : k <= j
Above(n, d) == {j \in Top(n) + 1..n : sheet[j].depth < d}
Nearest(n, d) == CHOOSE j \in Above(n, d) : \A k \in Above(n, d) : k <= j
NearestLabel(n, d) == IF Above(n, d) = {} THEN Untitled ELSE sheet[Nearest(n, d)].label

LEMMA RowIs ==
  ASSUME RowsOK, TypeOK, NEW i \in 1..Len(sheet)
  PROVE  sheet[i] \in Rows /\ sheet[i].depth \in Nat /\ sheet[i].label # Untitled
BY ElementOfSeq DEF RowsOK, TypeOK

LEMMA ParentAfter ==
  ASSUME NEW p, DOMAIN p \subseteq Nat, NEW e \in Nat, NEW l, NEW d \in Nat
  PROVE  /\ DOMAIN WithLabel(p, e, l) \subseteq Nat
         /\ ParentOf(WithLabel(p, e, l), d) = IF d > e THEN l ELSE ParentOf(p, d)
<1> DEFINE q == WithLabel(p, e, l)
           below == {x \in DOMAIN q : x < d}
<1>1. /\ DOMAIN q = {y \in DOMAIN p : y < e} \cup {e}
      /\ q[e] = l
      /\ \A x \in DOMAIN p : x < e => q[x] = p[x]
  BY DEF WithLabel
<1> HIDE DEF q
<1>2. DOMAIN q \subseteq Nat
  BY <1>1
<1>3. CASE d > e
  <2>1. e \in below /\ \A x \in below : x <= e
    BY <1>1, <1>3
  <2>2. \A x \in below : (\A y \in below : y <= x) => x = e
    BY <1>2, <2>1
  <2>3. (CHOOSE x \in below : \A y \in below : y <= x) = e
    BY <2>1, <2>2
  <2> QED
    BY <1>1, <1>2, <1>3, <2>1, <2>3 DEF ParentOf, q
<1>4. CASE ~(d > e)
  <2> DEFINE there == {x \in DOMAIN p : x < d}
  <2>1. below = there
    BY <1>1, <1>4
  <2>2. \A x \in there : q[x] = p[x]
    BY <1>1, <1>4
  <2>3. ASSUME there # {} PROVE (CHOOSE x \in there : \A y \in there : y <= x) \in there
    <3>1. there \in SUBSET 0..d
      OBVIOUS
    <3>2. \E x \in there : \A y \in there : y <= x
      <4> HIDE DEF there
      <4> QED
        BY <2>3, <3>1, Greatest
    <3> HIDE DEF there
    <3> QED
      BY <3>2
  <2>4. ParentOf(q, d) = ParentOf(p, d)
    <3>1. ParentOf(q, d) = IF below = {} THEN Untitled
                           ELSE q[CHOOSE x \in below : \A y \in below : y <= x]
      BY DEF ParentOf
    <3>2. ParentOf(p, d) = IF there = {} THEN Untitled
                           ELSE p[CHOOSE x \in there : \A y \in there : y <= x]
      BY DEF ParentOf
    <3> HIDE DEF below, there
    <3> QED
      BY <2>1, <2>2, <2>3, <3>1, <3>2
  <2> QED
    BY <1>2, <1>4, <2>4 DEF q
<1> QED
  BY <1>3, <1>4

LEMMA TopIs ==
  ASSUME RowsOK, TypeOK, NEW n \in 0..Len(sheet)
  PROVE  Top(n) \in 0..n
<1>1. Len(sheet) \in Nat
  BY DEF TypeOK
<1>2. CASE Tops(n) = {}
  BY <1>1, <1>2 DEF Top
<1>3. CASE Tops(n) # {}
  <2>1. Tops(n) \in SUBSET 0..n /\ n \in Nat
    BY <1>1 DEF Tops
  <2>2. \E j \in Tops(n) : \A k \in Tops(n) : k <= j
    BY <1>3, <2>1, Greatest
  <2> QED
    BY <1>3, <2>1, <2>2 DEF Top
<1> QED
  BY <1>2, <1>3

LEMMA NearestIs ==
  ASSUME RowsOK, TypeOK, NEW n \in 0..Len(sheet), NEW d \in Nat, Above(n, d) # {}
  PROVE  /\ Nearest(n, d) \in Above(n, d)
         /\ \A k \in Above(n, d) : k <= Nearest(n, d)
<1>1. n \in Nat /\ Top(n) \in 0..n
  BY TopIs DEF TypeOK
<1>2. Above(n, d) \in SUBSET 0..n
  BY <1>1 DEF Above
<1>3. \E j \in Above(n, d) : \A k \in Above(n, d) : k <= j
  BY <1>1, <1>2, Greatest
<1> QED
  BY <1>3 DEF Nearest

LEMMA TopHeading ==
  ASSUME RowsOK, TypeOK, NEW n \in Nat, n + 1 <= Len(sheet), NEW d \in Nat,
         sheet[n + 1].depth = 0, IsHeader(sheet[n + 1])
  PROVE  NearestLabel(n + 1, d) = Untitled
<1>1. n + 1 \in Tops(n + 1) /\ \A k \in Tops(n + 1) : k \in Nat /\ k <= n + 1
  BY DEF Tops
<1>2. \A j \in Tops(n + 1) : (\A k \in Tops(n + 1) : k <= j) => j = n + 1
  BY <1>1
<1>3. Top(n + 1) = n + 1
  BY <1>1, <1>2 DEF Top
<1>4. Above(n + 1, d) = {}
  BY <1>3 DEF Above
<1> QED
  BY <1>4 DEF NearestLabel

LEMMA OtherRow ==
  ASSUME RowsOK, TypeOK, NEW n \in Nat, n + 1 <= Len(sheet), NEW d \in Nat,
         ~(sheet[n + 1].depth = 0 /\ IsHeader(sheet[n + 1]))
  PROVE  NearestLabel(n + 1, d) = IF d > sheet[n + 1].depth THEN sheet[n + 1].label
                                  ELSE NearestLabel(n, d)
<1> DEFINE r == sheet[n + 1]
<1>1. n \in 0..Len(sheet) /\ n + 1 \in 0..Len(sheet) /\ n + 1 \in 1..Len(sheet)
  BY DEF TypeOK
<1>2. r.depth \in Nat
  BY <1>1, RowIs
<1>3. Tops(n + 1) = Tops(n)
  BY DEF Tops
<1>4. Top(n + 1) = Top(n)
  <2> DEFINE s == Tops(n + 1)
             t == Tops(n)
  <2>1. Top(n + 1) = IF s = {} THEN 0 ELSE CHOOSE j \in s : \A k \in s : k <= j
    BY DEF Top
  <2>2. Top(n) = IF t = {} THEN 0 ELSE CHOOSE j \in t : \A k \in t : k <= j
    BY DEF Top
  <2>3. s = t
    BY <1>3
  <2> HIDE DEF s, t
  <2> QED
    BY <2>1, <2>2, <2>3
<1>5. Top(n) \in 0..n
  BY <1>1, TopIs
<1>6. Above(n + 1, d) = Above(n, d) \cup (IF r.depth < d THEN {n + 1} ELSE {})
  BY <1>2, <1>4, <1>5 DEF Above
<1>7. CASE r.depth < d
  <2>1. n + 1 \in Above(n + 1, d) /\ \A k \in Above(n + 1, d) : k \in Nat /\ k <= n + 1
    BY <1>4, <1>5, <1>6, <1>7 DEF Above
  <2>2. \A j \in Above(n + 1, d) : (\A k \in Above(n + 1, d) : k <= j) => j = n + 1
    BY <2>1
  <2>3. Nearest(n + 1, d) = n + 1
    BY <2>1, <2>2 DEF Nearest
  <2> QED
    BY <1>2, <1>7, <2>1, <2>3 DEF NearestLabel
<1>8. CASE ~(r.depth < d)
  <2>1. Above(n + 1, d) = Above(n, d)
    BY <1>6, <1>8
  <2>2. Nearest(n + 1, d) = Nearest(n, d)
    BY <2>1 DEF Nearest
  <2> QED
    BY <1>2, <1>8, <2>1, <2>2 DEF NearestLabel
<1> QED
  BY <1>7, <1>8

-----------------------------------------------------------------------------
(***************************************************************************)
(* Paths: the parts that are there, in their order.                        *)
(***************************************************************************)
Joint(g, a, b, l) == <<g>> \o Titled(a) \o Titled(b) \o <<l>>

LEMMA Joined ==
  ASSUME NEW g, NEW a, NEW b, NEW l
  PROVE  /\ Joint(g, a, b, l) # <<>> /\ Last(Joint(g, a, b, l)) = l
         /\ Range(Joint(g, a, b, l)) = {g, l} \cup (IF a = Untitled THEN {} ELSE {a})
                                              \cup (IF b = Untitled THEN {} ELSE {b})
<1> DEFINE p == Joint(g, a, b, l)
           S == {g, a, b, l}
           p1 == <<g>> \o Titled(a)
           p2 == p1 \o Titled(b)
           R(s) == {s[i] : i \in 1..Len(s)}
<1>1. \A x \in S : <<x>> \in Seq(S) /\ Len(<<x>>) = 1 /\ R(<<x>>) = {x}
  OBVIOUS
<1>2. \A x \in S : Titled(x) \in Seq(S) /\ R(Titled(x)) = IF x = Untitled THEN {} ELSE {x}
  <2> SUFFICES ASSUME NEW x \in S
               PROVE  Titled(x) \in Seq(S) /\ R(Titled(x)) = IF x = Untitled THEN {} ELSE {x}
    OBVIOUS
  <2>1. CASE x = Untitled
    BY <2>1 DEF Titled
  <2>2. CASE x # Untitled
    BY <1>1, <2>2 DEF Titled
  <2> QED
    BY <2>1, <2>2
<1>3. \A s, t \in Seq(S) : /\ s \o t \in Seq(S) /\ Len(s \o t) = Len(s) + Len(t)
                           /\ R(s \o t) = R(s) \cup R(t)
  <2> SUFFICES ASSUME NEW s \in Seq(S), NEW t \in Seq(S)
               PROVE  /\ s \o t \in Seq(S) /\ Len(s \o t) = Len(s) + Len(t)
                      /\ R(s \o t) = R(s) \cup R(t)
    OBVIOUS
  <2> DEFINE u == s \o t
  <2>1. /\ u \in Seq(S) /\ Len(u) = Len(s) + Len(t)
        /\ \A i \in 1..Len(s) + Len(t) : u[i] = IF i <= Len(s) THEN s[i] ELSE t[i - Len(s)]
        /\ Len(s) \in Nat /\ Len(t) \in Nat
    BY ConcatProperties, LenProperties
  <2> HIDE DEF u, S
  <2>2. R(u) \subseteq R(s) \cup R(t)
    <3> SUFFICES ASSUME NEW i \in 1..Len(s) + Len(t) PROVE u[i] \in R(s) \cup R(t)
      BY <2>1
    <3>1. CASE i <= Len(s)
      BY <2>1, <3>1
    <3>2. CASE ~(i <= Len(s))
      <4>1. i - Len(s) \in 1..Len(t)
        BY <2>1, <3>2
      <4> QED
        BY <2>1, <3>2, <4>1
    <3> QED
      BY <3>1, <3>2
  <2>3. R(s) \subseteq R(u)
    <3> SUFFICES ASSUME NEW i \in 1..Len(s) PROVE s[i] \in R(u)
      OBVIOUS
    <3>1. i \in 1..Len(s) + Len(t) /\ i <= Len(s)
      BY <2>1
    <3> QED
      BY <2>1, <3>1
  <2>4. R(t) \subseteq R(u)
    <3> SUFFICES ASSUME NEW i \in 1..Len(t) PROVE t[i] \in R(u)
      OBVIOUS
    <3>1. i + Len(s) \in 1..Len(s) + Len(t) /\ ~(i + Len(s) <= Len(s)) /\ (i + Len(s)) - Len(s) = i
      BY <2>1
    <3> QED
      BY <2>1, <3>1
  <2> QED
    BY <2>1, <2>2, <2>3, <2>4 DEF u
<1>4. p1 \in Seq(S) /\ p2 \in Seq(S) /\ p = p2 \o <<l>>
  <2> HIDE DEF R
  <2>1. <<g>> \in Seq(S) /\ Titled(a) \in Seq(S) /\ Titled(b) \in Seq(S)
    BY <1>1, <1>2
  <2>2. p = p2 \o <<l>>
    BY DEF Joint
  <2> HIDE DEF S, p
  <2> QED
    BY <1>3, <2>1, <2>2
<1> HIDE DEF p
<1>5. R(p1) = {g} \cup (IF a = Untitled THEN {} ELSE {a})
  <2>1. <<g>> \in Seq(S) /\ Titled(a) \in Seq(S)
        /\ R(<<g>>) = {g} /\ R(Titled(a)) = IF a = Untitled THEN {} ELSE {a}
    BY <1>1, <1>2
  <2>2. R(p1) = R(<<g>>) \cup R(Titled(a))
    <3> HIDE DEF R, S
    <3> QED
      BY <1>3, <2>1
  <2> HIDE DEF R, p1
  <2> QED
    BY <2>1, <2>2
<1>6. R(p2) = R(p1) \cup (IF b = Untitled THEN {} ELSE {b})
  <2>1. Titled(b) \in Seq(S) /\ R(Titled(b)) = IF b = Untitled THEN {} ELSE {b}
    BY <1>2
  <2>2. R(p2) = R(p1) \cup R(Titled(b))
    <3> HIDE DEF R, S, p1
    <3> QED
      BY <1>3, <1>4, <2>1
  <2> HIDE DEF R, p1, p2
  <2> QED
    BY <2>1, <2>2
<1>7. p \in Seq(S) /\ Len(p) = Len(p2) + 1 /\ R(p) = R(p2) \cup {l}
  <2>1. <<l>> \in Seq(S) /\ R(<<l>>) = {l} /\ Len(<<l>>) = 1
    BY <1>1
  <2> HIDE DEF R, S, p2
  <2> QED
    BY <1>3, <1>4, <2>1
<1>8. Len(p2) \in Nat /\ p[Len(p)] = l
  <2>1. <<l>> \in Seq(S) /\ Len(<<l>>) = 1 /\ <<l>>[1] = l
    BY <1>1
  <2>2. Len(p2) \in Nat
    BY <1>4, LenProperties
  <2> HIDE DEF S, p2
  <2>3. (p2 \o <<l>>)[Len(p2) + 1] = <<l>>[(Len(p2) + 1) - Len(p2)]
    BY <1>4, <2>1, <2>2, ConcatProperties
  <2> QED
    BY <1>4, <1>7, <2>1, <2>2, <2>3
<1>9. DOMAIN p = 1..Len(p)
  BY <1>7, LenProperties
<1>10. Range(p) = R(p)
  BY <1>9 DEF Range
<1>11. p # <<>>
  BY <1>7, <1>8
<1> HIDE DEF R, p1, p2
<1> QED
  BY <1>5, <1>6, <1>7, <1>8, <1>10, <1>11 DEF Last, p

LEMMA Short ==
  ASSUME NEW g, NEW l, NEW p, p = IF g = l THEN <<g>> ELSE <<g, l>>
  PROVE  p # <<>> /\ Last(p) = l /\ Range(p) = {g, l}
<1>1. CASE g = l
  <2>1. p = <<g>> /\ Len(<<g>>) = 1 /\ <<g>>[1] = g /\ DOMAIN <<g>> = 1..1
    BY <1>1
  <2>2. \A x : x \in 1..1 <=> x = 1
    OBVIOUS
  <2> QED
    BY <1>1, <2>1, <2>2 DEF Last, Range
<1>2. CASE g # l
  <2>1. /\ p = <<g, l>> /\ Len(<<g, l>>) = 2 /\ DOMAIN <<g, l>> = 1..2
        /\ <<g, l>>[1] = g /\ <<g, l>>[2] = l
    BY <1>2
  <2>2. \A x : x \in 1..2 <=> x = 1 \/ x = 2
    OBVIOUS
  <2> QED
    BY <2>1, <2>2 DEF Last, Range
<1> QED
  BY <1>1, <1>2

LEMMA Appended ==
  ASSUME NEW S, NEW s \in Seq(S), NEW e
  PROVE  /\ Append(s, e) \in Seq(S \cup {e})
         /\ Range(Append(s, e)) = Range(s) \cup {e}
<1> DEFINE T == S \cup {e}
           u == Append(s, e)
<1>1. s \in Seq(T) /\ e \in T
  BY SeqMonotonic
<1> HIDE DEF T
<1>2. /\ u \in Seq(T) /\ Len(u) = Len(s) + 1 /\ Len(s) \in Nat
      /\ \A i \in 1..Len(s) : u[i] = s[i]
      /\ u[Len(s) + 1] = e
  BY <1>1, AppendProperties, LenProperties
<1>3. DOMAIN s = 1..Len(s) /\ DOMAIN u = 1..Len(s) + 1
  BY <1>1, <1>2, LenProperties
<1> HIDE DEF u
<1>4. Range(u) = Range(s) \cup {e}
  BY <1>2, <1>3 DEF Range
<1> QED
  BY <1>2, <1>4 DEF T, u

-----------------------------------------------------------------------------
(***************************************************************************)
(* What the reader holds after n rows.                                     *)
(***************************************************************************)
Heads(n) == {sheet[j].label : j \in {k \in 1..n : sheet[k].depth = 0}}

\* The path names the row, the nearest row above that is indented less, and headings.
PathOK(m) ==
  LET i == m.row
      d == sheet[i].depth
      above == IF Above(i - 1, d) = {} THEN {} ELSE {sheet[Nearest(i - 1, d)].label}
  IN /\ m.path # <<>> /\ Last(m.path) = sheet[i].label
     /\ above \subseteq Range(m.path)
     /\ Range(m.path) \subseteq Heads(i) \cup {m.key} \cup {sheet[i].label} \cup above

MetricOK(m, keys) ==
  /\ m.key \in keys
  /\ DOMAIN m.values = Values(sheet[m.row])
  /\ \A y \in DOMAIN m.values : m.values[y] = Mode(sheet[m.row])
  /\ PathOK(m)

MetricsOK(n, st) ==
  /\ \E S : st.metrics \in Seq(S)
  /\ \A m \in Range(st.metrics) : MetricOK(m, st.keys)
  /\ \A m, k \in Range(st.metrics) : m.row = k.row => m = k
  /\ \A m \in Range(st.metrics) : m.row \in 1..n /\ Values(sheet[m.row]) # {}
  /\ \A i \in 1..n : Values(sheet[i]) # {} => \E m \in Range(st.metrics) : m.row = i

GroupsOK(n, st) ==
  /\ st.group # Untitled => st.group \in st.keys
  /\ st.subgroup # Untitled => st.subgroup \in Heads(n)

ParentsOK(n, st) ==
  /\ DOMAIN st.parents \subseteq Nat
  /\ \A d \in Nat : ParentOf(st.parents, d) = NearestLabel(n, d)

Reads(n, st) ==
  /\ GroupsOK(n, st) /\ ParentsOK(n, st) /\ MetricsOK(n, st)

LEMMA NoParent == \A d \in Nat : ParentOf(NoParents, d) = Untitled
BY DEF ParentOf, NoParents

LEMMA BlankReads == Reads(0, Blank)
<1>1. Blank.metrics = <<>> /\ Range(<<>>) = {}
  BY DEF Blank, Range
<1>2. MetricsOK(0, Blank)
  <2>1. Blank.metrics \in Seq({})
    BY <1>1
  <2>2. 1..0 = {}
    OBVIOUS
  <2> QED
    BY <1>1, <2>1, <2>2 DEF MetricsOK
<1>3. GroupsOK(0, Blank)
  BY DEF GroupsOK, Blank
<1>4. ParentsOK(0, Blank)
  <2>1. DOMAIN NoParents = {} /\ Blank.parents = NoParents
    BY DEF NoParents, Blank
  <2>2. \A d \in Nat : NearestLabel(0, d) = Untitled
    <3>1. Tops(0) = {}
      BY DEF Tops
    <3>2. Top(0) = 0
      BY <3>1 DEF Top
    <3>3. \A d : Above(0, d) = {}
      BY <3>2 DEF Above
    <3> QED
      BY <3>3 DEF NearestLabel
  <2> QED
    BY <2>1, <2>2, NoParent DEF ParentsOK
<1> QED
  BY <1>2, <1>3, <1>4 DEF Reads

LEMMA MetricRead ==
  ASSUME RowsOK, TypeOK, NEW n \in Nat, n + 1 <= Len(sheet), NEW st, Reads(n, st),
         NEW keys, st.keys \subseteq keys, GroupOf(st, sheet[n + 1]) \in keys
  PROVE  MetricOf(st, n + 1).row = n + 1 /\ MetricOK(MetricOf(st, n + 1), keys)
<1> DEFINE m == MetricOf(st, n + 1)
           r == sheet[n + 1]
           group == GroupOf(st, r)
           inner == InnerOf(st, r)
           parent == ParentOf(st.parents, r.depth)
           above == IF Above(n, r.depth) = {} THEN {} ELSE {sheet[Nearest(n, r.depth)].label}
<1>1. r \in Rows /\ r.depth \in Nat /\ r.label # Untitled /\ n + 1 \in 1..Len(sheet)
  BY RowIs DEF TypeOK
<1>2. /\ m.row = n + 1 /\ m.path = PathOf(st, r) /\ m.key = group
      /\ m.values = [y \in Values(r) |-> Mode(r)]
  BY DEF MetricOf
<1>3. parent = NearestLabel(n, r.depth)
  BY <1>1 DEF Reads, ParentsOK
<1>4. group # Untitled
  BY <1>1 DEF GroupOf
<1>5. (n + 1) - 1 = n
  OBVIOUS
<1>6. /\ m.path # <<>> /\ Last(m.path) = r.label
      /\ above \subseteq Range(m.path)
      /\ Range(m.path) \subseteq Heads(n + 1) \cup {group} \cup {r.label} \cup above
  <2>1. CASE r.depth = 0
    <3>1. m.path = IF group = r.label THEN <<group>> ELSE <<group, r.label>>
      BY <1>2, <2>1 DEF PathOf
    <3>2. m.path # <<>> /\ Last(m.path) = r.label /\ Range(m.path) = {group, r.label}
      <4> HIDE DEF m, group, r
      <4> QED
        BY <3>1, Short
    <3>3. Above(n, 0) = {}
      <4> SUFFICES ASSUME NEW j \in Above(n, 0) PROVE FALSE
        OBVIOUS
      <4>1. Top(n) \in Nat
        BY TopIs DEF TypeOK
      <4>2. j \in 1..Len(sheet) /\ sheet[j].depth < 0
        BY <4>1 DEF Above, TypeOK
      <4> QED
        BY <4>2, RowIs
    <3>4. above = {}
      BY <2>1, <3>3
    <3> HIDE DEF m, group, r, above
    <3> QED
      BY <3>2, <3>4
  <2>2. CASE r.depth # 0
    <3> DEFINE b == IF parent \in {group, inner} THEN Untitled ELSE parent
    <3>1. m.path = <<group>> \o Titled(inner) \o Titled(b) \o <<r.label>>
      BY <1>2, <2>2 DEF PathOf
    <3>2. inner = st.subgroup
      BY <2>2 DEF InnerOf
    <3>3. inner # Untitled => inner \in Heads(n + 1)
      <4>1. Heads(n) \subseteq Heads(n + 1)
        BY DEF Heads
      <4> QED
        BY <3>2, <4>1 DEF Reads, GroupsOK
    <3>4. above = IF Above(n, r.depth) = {} THEN {} ELSE {parent}
      BY <1>3 DEF NearestLabel
    <3>5. Above(n, r.depth) = {} => parent = Untitled
      BY <1>3 DEF NearestLabel
    <3>6. Above(n, r.depth) # {} => parent # Untitled
      <4> SUFFICES ASSUME Above(n, r.depth) # {} PROVE parent # Untitled
        OBVIOUS
      <4>1. Nearest(n, r.depth) \in Above(n, r.depth)
        BY <1>1, NearestIs DEF TypeOK
      <4>2. Top(n) \in Nat
        BY TopIs DEF TypeOK
      <4>3. Nearest(n, r.depth) \in 1..Len(sheet)
        BY <4>1, <4>2 DEF Above, TypeOK
      <4> QED
        BY <1>3, <4>3, RowIs DEF NearestLabel
    <3>7. /\ m.path # <<>> /\ Last(m.path) = r.label
          /\ Range(m.path) = {group, r.label} \cup (IF inner = Untitled THEN {} ELSE {inner})
                               \cup (IF b = Untitled THEN {} ELSE {b})
      <4> DEFINE l == r.label
      <4>1. m.path = Joint(group, inner, b, l)
        BY <3>1 DEF Joint
      <4> HIDE DEF group, inner, b, l
      <4>2. /\ Joint(group, inner, b, l) # <<>> /\ Last(Joint(group, inner, b, l)) = l
            /\ Range(Joint(group, inner, b, l))
               = {group, l} \cup (IF inner = Untitled THEN {} ELSE {inner})
                            \cup (IF b = Untitled THEN {} ELSE {b})
        BY Joined
      <4> HIDE DEF m, r
      <4> QED
        BY <4>1, <4>2 DEF l
    <3> HIDE DEF m, group, inner, parent, r, above
    <3>8. above \subseteq Range(m.path)
      BY <1>4, <3>4, <3>6, <3>7
    <3>9. Range(m.path) \subseteq Heads(n + 1) \cup {group} \cup {r.label} \cup above
      BY <3>3, <3>4, <3>5, <3>7
    <3> QED
      BY <3>7, <3>8, <3>9
  <2> QED
    BY <2>1, <2>2
<1>7. PathOK(m)
  <2> HIDE DEF m, group
  <2> QED
    BY <1>2, <1>5, <1>6 DEF PathOK
<1>8. DOMAIN m.values = Values(r) /\ \A y \in Values(r) : m.values[y] = Mode(r)
  BY <1>2
<1> HIDE DEF m
<1> QED
  BY <1>2, <1>7, <1>8 DEF MetricOK, m

LEMMA HeadingRead ==
  ASSUME RowsOK, TypeOK, NEW n \in Nat, n + 1 <= Len(sheet), NEW st, Reads(n, st),
         IsHeader(sheet[n + 1])
  PROVE  Reads(n + 1, ReadHeading(st, n + 1))
<1> DEFINE r == sheet[n + 1]
           new == ReadHeading(st, n + 1)
           inner == st.group # Untitled /\ NextDepth(n + 1) > 0 /\ r.label # st.group
           group == IF inner THEN st.group ELSE r.label
<1>1. r \in Rows /\ r.depth \in Nat /\ r.label # Untitled /\ n + 1 \in 1..Len(sheet)
  BY RowIs DEF TypeOK
<1>2. Values(r) = {}
  BY DEF IsHeader
<1>3. /\ new.metrics = st.metrics
      /\ r.depth = 0 =>
           /\ new.group = group /\ new.subgroup = (IF inner THEN r.label ELSE Untitled)
           /\ new.parents = NoParents /\ new.keys = st.keys \cup {group}
      /\ r.depth # 0 =>
           /\ new.group = st.group /\ new.subgroup = st.subgroup /\ new.keys = st.keys
           /\ new.parents = WithLabel(st.parents, r.depth, r.label)
  BY DEF ReadHeading
<1>4. MetricsOK(n + 1, new)
  <2>1. new.metrics = st.metrics /\ st.keys \subseteq new.keys
    BY <1>3
  <2>2. \A i \in 1..n + 1 : i \in 1..n \/ i = n + 1
    OBVIOUS
  <2> HIDE DEF new, r
  <2>3. \A m : MetricOK(m, st.keys) => MetricOK(m, new.keys)
    BY <2>1 DEF MetricOK
  <2>4. \A i \in 1..n : i \in 1..n + 1
    OBVIOUS
  <2> QED
    BY <1>2, <2>1, <2>2, <2>3, <2>4 DEF Reads, MetricsOK, r
<1>5. Heads(n) \subseteq Heads(n + 1)
  BY DEF Heads
<1>6. CASE r.depth = 0
  <2>1. /\ new.group = group /\ new.subgroup = (IF inner THEN r.label ELSE Untitled)
        /\ new.parents = NoParents /\ new.keys = st.keys \cup {group}
    BY <1>3, <1>6
  <2>2. r.label \in Heads(n + 1)
    BY <1>6 DEF Heads
  <2>3. ParentsOK(n + 1, new)
    <3>1. DOMAIN NoParents = {}
      BY DEF NoParents
    <3>2. \A d \in Nat : NearestLabel(n + 1, d) = Untitled
      BY <1>6, TopHeading
    <3> HIDE DEF new
    <3> QED
      BY <2>1, <3>1, <3>2, NoParent DEF ParentsOK
  <2>4. new.group \in new.keys
    BY <2>1
  <2>5. new.subgroup # Untitled => new.subgroup \in Heads(n + 1)
    BY <2>1, <2>2
  <2> HIDE DEF new
  <2> QED
    BY <1>4, <2>3, <2>4, <2>5 DEF Reads, GroupsOK, new
<1>7. CASE r.depth # 0
  <2>1. /\ new.group = st.group /\ new.subgroup = st.subgroup /\ new.keys = st.keys
        /\ new.parents = WithLabel(st.parents, r.depth, r.label)
    BY <1>3, <1>7
  <2>2. ParentsOK(n + 1, new)
    <3>1. \A d \in Nat : NearestLabel(n + 1, d) = IF d > r.depth THEN r.label
                                                 ELSE NearestLabel(n, d)
      BY <1>7, OtherRow
    <3>2. /\ DOMAIN new.parents \subseteq Nat
          /\ \A d \in Nat : ParentOf(new.parents, d) = IF d > r.depth THEN r.label
                                                      ELSE ParentOf(st.parents, d)
      <4>1. DOMAIN st.parents \subseteq Nat
        BY DEF Reads, ParentsOK
      <4> DEFINE e == r.depth
                 l == r.label
                 p == st.parents
      <4>2. e \in Nat /\ DOMAIN p \subseteq Nat
        BY <1>1, <4>1
      <4> HIDE DEF e, l, p
      <4>3. \A d \in Nat : /\ DOMAIN WithLabel(p, e, l) \subseteq Nat
                           /\ ParentOf(WithLabel(p, e, l), d) = IF d > e THEN l
                                                                ELSE ParentOf(p, d)
        BY <4>2, ParentAfter
      <4>4. DOMAIN WithLabel(p, e, l) \subseteq Nat
        BY <4>3
      <4>5. new.parents = WithLabel(p, e, l)
        BY <2>1 DEF p, e, l
      <4> QED
        BY <4>3, <4>4, <4>5 DEF p, e, l
    <3> HIDE DEF new, r
    <3> QED
      BY <3>1, <3>2 DEF ParentsOK, Reads
  <2>3. GroupsOK(n + 1, new)
    <3> HIDE DEF new, r
    <3> QED
      BY <1>5, <2>1 DEF Reads, GroupsOK
  <2> HIDE DEF new
  <2> QED
    BY <1>4, <2>2, <2>3 DEF Reads, new
<1> QED
  BY <1>6, <1>7

LEMMA DataRead ==
  ASSUME RowsOK, TypeOK, NEW n \in Nat, n + 1 <= Len(sheet), NEW st, Reads(n, st),
         ~IsHeader(sheet[n + 1])
  PROVE  Reads(n + 1, ReadData(st, n + 1))
<1> DEFINE r == sheet[n + 1]
           new == ReadData(st, n + 1)
           metric == MetricOf(st, n + 1)
           base == IF r.depth = 0 THEN NoParents ELSE st.parents
<1>1. r \in Rows /\ r.depth \in Nat /\ r.label # Untitled /\ n + 1 \in 1..Len(sheet)
  BY RowIs DEF TypeOK
<1>2. /\ new.group = GroupOf(st, r) /\ new.subgroup = InnerOf(st, r)
      /\ new.keys = st.keys \cup (IF st.group = Untitled THEN {r.label} ELSE {})
      /\ new.parents = WithLabel(base, r.depth, r.label)
      /\ new.metrics = IF Values(r) = {} THEN st.metrics ELSE Append(st.metrics, metric)
  BY DEF ReadData
<1> HIDE DEF new
<1>3. new.group \in new.keys
  BY <1>2 DEF GroupOf, Reads, GroupsOK
<1>4. GroupsOK(n + 1, new)
  <2>1. Heads(n) \subseteq Heads(n + 1)
    BY DEF Heads
  <2> HIDE DEF r
  <2> QED
    BY <1>2, <1>3, <2>1 DEF GroupsOK, InnerOf, Reads
<1>5. ParentsOK(n + 1, new)
  <2>1. \A d \in Nat : NearestLabel(n + 1, d) = IF d > r.depth THEN r.label
                                               ELSE NearestLabel(n, d)
    BY OtherRow
  <2>2. DOMAIN base \subseteq Nat
    BY DEF Reads, ParentsOK, NoParents
  <2>3. \A d \in Nat : ~(d > r.depth) => ParentOf(base, d) = NearestLabel(n, d)
    <3>1. CASE r.depth # 0
      BY <3>1 DEF Reads, ParentsOK
    <3>2. CASE r.depth = 0
      <4>1. Above(n, 0) = {}
        <5> SUFFICES ASSUME NEW j \in Above(n, 0) PROVE FALSE
          OBVIOUS
        <5>1. Top(n) \in Nat
          BY TopIs DEF TypeOK
        <5>2. j \in 1..Len(sheet) /\ sheet[j].depth < 0
          BY <5>1 DEF Above, TypeOK
        <5> QED
          BY <5>2, RowIs
      <4>2. NearestLabel(n, 0) = Untitled
        BY <4>1 DEF NearestLabel
      <4>3. \A d \in Nat : ~(d > 0) => d = 0
        OBVIOUS
      <4>4. base = NoParents
        BY <3>2
      <4> HIDE DEF base, r
      <4> QED
        BY <3>2, <4>2, <4>3, <4>4, NoParent
    <3> QED
      BY <3>1, <3>2
  <2>4. /\ DOMAIN new.parents \subseteq Nat
        /\ \A d \in Nat : ParentOf(new.parents, d) = IF d > r.depth THEN r.label
                                                    ELSE ParentOf(base, d)
    <3> DEFINE e == r.depth
               l == r.label
    <3>1. e \in Nat
      BY <1>1
    <3> HIDE DEF e, l, base
    <3>2. \A d \in Nat : /\ DOMAIN WithLabel(base, e, l) \subseteq Nat
                         /\ ParentOf(WithLabel(base, e, l), d) = IF d > e THEN l
                                                                 ELSE ParentOf(base, d)
      BY <2>2, <3>1, ParentAfter
    <3>3. DOMAIN WithLabel(base, e, l) \subseteq Nat
      BY <3>2
    <3>4. new.parents = WithLabel(base, e, l)
      BY <1>2 DEF e, l
    <3> QED
      BY <3>2, <3>3, <3>4 DEF e, l
  <2> HIDE DEF r, base
  <2> QED
    BY <2>1, <2>3, <2>4 DEF ParentsOK
<1>6. MetricsOK(n + 1, new)
  <2>1. st.keys \subseteq new.keys /\ \A m : MetricOK(m, st.keys) => MetricOK(m, new.keys)
    BY <1>2 DEF MetricOK
  <2>2. PICK S : st.metrics \in Seq(S)
    BY DEF Reads, MetricsOK
  <2>3. /\ \A m \in Range(st.metrics) : MetricOK(m, new.keys)
        /\ \A m, k \in Range(st.metrics) : m.row = k.row => m = k
        /\ \A m \in Range(st.metrics) : m.row \in 1..n /\ Values(sheet[m.row]) # {}
        /\ \A i \in 1..n : Values(sheet[i]) # {} => \E m \in Range(st.metrics) : m.row = i
    BY <2>1 DEF Reads, MetricsOK
  <2>4. /\ \A i \in 1..n + 1 : i \in 1..n \/ i = n + 1
        /\ \A i \in 1..n : i \in 1..n + 1 /\ i # n + 1
        /\ n + 1 \in 1..n + 1
    OBVIOUS
  <2>5. CASE Values(r) = {}
    <3>1. new.metrics = st.metrics
      BY <1>2, <2>5
    <3> QED
      BY <2>2, <2>3, <2>4, <2>5, <3>1 DEF MetricsOK
  <2>6. CASE Values(r) # {}
    <3>1. metric.row = n + 1 /\ MetricOK(metric, new.keys)
      BY <1>2, <1>3, <2>1, MetricRead
    <3> DEFINE s == st.metrics
    <3> HIDE DEF metric, s
    <3>2. /\ Append(s, metric) \in Seq(S \cup {metric})
          /\ Range(Append(s, metric)) = Range(s) \cup {metric}
      <4>1. s \in Seq(S)
        BY <2>2 DEF s
      <4> QED
        BY <4>1, Appended
    <3>3. new.metrics = Append(s, metric)
      BY <1>2, <2>6 DEF s
    <3>4. \A m \in Range(new.metrics) : m \in Range(s) \/ m = metric
      BY <3>2, <3>3
    <3>5. \A m \in Range(s) : m \in Range(new.metrics)
      BY <3>2, <3>3
    <3>6. metric \in Range(new.metrics)
      BY <3>2, <3>3
    <3>7. \A m \in Range(new.metrics) : m.row \in 1..n + 1 /\ Values(sheet[m.row]) # {}
      BY <2>3, <2>4, <2>6, <3>1, <3>4 DEF s
    <3>8. \A i \in 1..n + 1 : Values(sheet[i]) # {} => \E m \in Range(new.metrics) : m.row = i
      BY <2>3, <2>4, <3>1, <3>5, <3>6 DEF s
    <3>9. \A m, k \in Range(new.metrics) : m.row = k.row => m = k
      BY <2>3, <2>4, <3>1, <3>4 DEF s
    <3>10. \A m \in Range(new.metrics) : MetricOK(m, new.keys)
      BY <2>3, <3>1, <3>4 DEF s
    <3>11. \E T : new.metrics \in Seq(T)
      BY <3>2, <3>3
    <3> QED
      BY <3>7, <3>8, <3>9, <3>10, <3>11 DEF MetricsOK
  <2> QED
    BY <2>5, <2>6
<1> QED
  BY <1>2, <1>4, <1>5, <1>6 DEF Reads, new

LEMMA ReadsAll ==
  ASSUME RowsOK, TypeOK
  PROVE  Reads(Len(sheet), Sheet)
<1> DEFINE Q == {n \in Nat : n <= Len(sheet) => Reads(n, Read[n])}
<1>1. 0 \in Q
  BY ReadIs, BlankReads
<1>2. \A n \in Nat : n \in Q => n + 1 \in Q
  <2> SUFFICES ASSUME NEW n \in Nat, n \in Q, n + 1 <= Len(sheet)
               PROVE  Reads(n + 1, Read[n + 1])
    OBVIOUS
  <2>1. Len(sheet) \in Nat /\ n <= Len(sheet)
    BY DEF TypeOK
  <2>2. Reads(n, Read[n])
    BY <2>1
  <2>3. Read[n + 1] = IF IsHeader(sheet[n + 1]) THEN ReadHeading(Read[n], n + 1)
                      ELSE ReadData(Read[n], n + 1)
    BY ReadIs DEF Step
  <2> QED
    BY <2>2, <2>3, HeadingRead, DataRead
<1> HIDE DEF Q
<1>3. \A n \in Nat : n \in Q
  BY <1>1, <1>2, Induct
<1>4. Len(sheet) \in Nat
  BY DEF TypeOK
<1> QED
  BY <1>3, <1>4 DEF Q, Sheet

-----------------------------------------------------------------------------
(***************************************************************************)
(* What was said of the reader says that the sheet is read.                *)
(***************************************************************************)
LEMMA CodesDiffer ==
  ASSUME NEW metrics, NEW m \in Range(metrics), NEW k \in Range(metrics), m.row # k.row
  PROVE  CodeOf(m, metrics) # CodeOf(k, metrics)
<1>1. CASE m.path = k.path
  <2>1. CodeOf(m, metrics) = <<m.path, m.row>> /\ CodeOf(k, metrics) = <<k.path, k.row>>
    BY <1>1 DEF CodeOf
  <2> QED
    BY <2>1
<1>2. CASE m.path # k.path
  <2> DEFINE a == m.path
             b == k.path
             i == m.row
             j == k.row
  <2>1. CodeOf(m, metrics) = <<a, i>> \/ CodeOf(m, metrics) = <<a>>
    BY DEF CodeOf
  <2>2. CodeOf(k, metrics) = <<b, j>> \/ CodeOf(k, metrics) = <<b>>
    BY DEF CodeOf
  <2>3. a # b
    BY <1>2
  <2> HIDE DEF a, b, i, j
  <2>4. <<a, i>> # <<b, j>> /\ <<a>> # <<b>>
    BY <2>3
  <2>5. Len(<<a, i>>) = 2 /\ Len(<<a>>) = 1 /\ Len(<<b, j>>) = 2 /\ Len(<<b>>) = 1
    OBVIOUS
  <2>6. <<a, i>> # <<b>> /\ <<a>> # <<b, j>>
    BY <2>5
  <2> QED
    BY <2>1, <2>2, <2>4, <2>6
<1> QED
  BY <1>1, <1>2

LEMMA ValuesRead ==
  ASSUME RowsOK, TypeOK
  PROVE  ReadsEveryValue
<1> DEFINE metrics == Range(Sheet.metrics)
<1>1. MetricsOK(Len(sheet), Sheet)
  BY ReadsAll DEF Reads
<1>2. Len(sheet) \in Nat /\ DOMAIN sheet = 1..Len(sheet)
  BY LenProperties DEF TypeOK
<1>3. {m.row : m \in metrics} = {i \in DOMAIN sheet : Values(sheet[i]) # {}}
  <2>1. ASSUME NEW m \in metrics
        PROVE  m.row \in {i \in DOMAIN sheet : Values(sheet[i]) # {}}
    BY <1>1, <1>2 DEF MetricsOK
  <2>2. ASSUME NEW i \in DOMAIN sheet, Values(sheet[i]) # {}
        PROVE  \E m \in metrics : m.row = i
    BY <1>1, <1>2, <2>2 DEF MetricsOK
  <2> HIDE DEF metrics
  <2> QED
    BY <2>1, <2>2
<1>4. ASSUME NEW m \in metrics
      PROVE  /\ m.key \in Sheet.keys /\ m.path # <<>>
             /\ DOMAIN m.values = Values(sheet[m.row])
             /\ \A y \in DOMAIN m.values : m.values[y] = Mode(sheet[m.row])
  BY <1>1 DEF MetricsOK, MetricOK, PathOK
<1>5. ASSUME NEW m \in metrics, NEW y \in DOMAIN m.values, sheet[m.row].cells[y] = "text"
      PROVE  m.values[y] = "text"
  <2>1. y \in Values(sheet[m.row]) /\ m.values[y] = Mode(sheet[m.row])
    BY <1>4
  <2> QED
    BY <1>5, <2>1 DEF Mode
<1>6. ASSUME NEW m \in metrics, NEW k \in metrics, k # m
      PROVE  CodeOf(m, Sheet.metrics) # CodeOf(k, Sheet.metrics)
  <2>1. m.row # k.row
    BY <1>1, <1>6 DEF MetricsOK
  <2> QED
    BY <2>1, CodesDiffer
<1> HIDE DEF metrics
<1>7. ASSUME NEW m \in metrics
      PROVE  /\ m.key \in Sheet.keys /\ m.path # <<>>
             /\ DOMAIN m.values = Values(sheet[m.row])
             /\ \A y \in DOMAIN m.values : sheet[m.row].cells[y] = "text" => m.values[y] = "text"
             /\ \A y, z \in DOMAIN m.values : m.values[y] = m.values[z]
             /\ \A n \in metrics : n # m => CodeOf(m, Sheet.metrics) # CodeOf(n, Sheet.metrics)
  BY <1>4, <1>5, <1>6
<1> QED
  BY <1>3, <1>7 DEF ReadsEveryValue, metrics

LEMMA PathsRead ==
  ASSUME RowsOK, TypeOK
  PROVE  PathsFollowIndents
<1> SUFFICES ASSUME NEW m \in Range(Sheet.metrics)
             PROVE
    LET i == m.row
        d == sheet[i].depth
        tops == {j \in 1 .. i - 1 : sheet[j].depth = 0 /\ IsHeader(sheet[j])}
        top == IF tops = {} THEN 0 ELSE CHOOSE j \in tops : \A k \in tops : k <= j
        above == {j \in top + 1 .. i - 1 : sheet[j].depth < d}
        nearest == CHOOSE j \in above : \A k \in above : k <= j
        headings == {sheet[j].label : j \in {k \in 1 .. i : sheet[k].depth = 0}} \cup {m.key}
    IN /\ Last(m.path) = sheet[i].label
       /\ above # {} => sheet[nearest].label \in Range(m.path)
       /\ Range(m.path) \subseteq headings \cup {sheet[i].label}
            \cup (IF above = {} THEN {} ELSE {sheet[nearest].label})
  BY DEF PathsFollowIndents
<1>1. PathOK(m)
  BY ReadsAll DEF Reads, MetricsOK, MetricOK
<1> DEFINE i == m.row
           d == sheet[i].depth
           above == Above(i - 1, d)
           nearest == Nearest(i - 1, d)
<1>2. /\ Last(m.path) = sheet[i].label
      /\ above # {} => sheet[nearest].label \in Range(m.path)
      /\ Range(m.path) \subseteq Heads(i) \cup {m.key} \cup {sheet[i].label}
           \cup (IF above = {} THEN {} ELSE {sheet[nearest].label})
  BY <1>1 DEF PathOK
<1> QED
  BY <1>2, Zenon DEF Above, Nearest, Top, Tops, Heads

LEMMA TypesInit == RowsOK /\ Init => TypeOK
BY DEF RowsOK, Init, TypeOK

LEMMA TypesNext == RowsOK /\ TypeOK /\ [Next]_vars => TypeOK'
<1> SUFFICES ASSUME RowsOK, TypeOK, [Next]_vars PROVE TypeOK'
  OBVIOUS
<1>1. CASE Next
  BY <1>1, AppendProperties DEF Next, WriteRow, TypeOK, RowsOK
<1>2. CASE UNCHANGED vars
  BY <1>2 DEF vars, TypeOK
<1> QED
  BY <1>1, <1>2

LEMMA SheetRead == RowsOK /\ TypeOK => DatasheetIsRead
BY ValuesRead, PathsRead DEF DatasheetIsRead

\* Of a datasheet of any rows every value is read, as a number or a text, under a path
\* that follows the indents and a code of its own (parse_workbook).
THEOREM DatasheetsAreRead == ASSUME RowsOK PROVE Spec => [](TypeOK /\ DatasheetIsRead)
<1>1. Init => TypeOK
  BY TypesInit
<1>2. TypeOK /\ [Next]_vars => TypeOK'
  BY TypesNext
<1>3. TypeOK => TypeOK /\ DatasheetIsRead
  BY SheetRead
<1> QED
  BY <1>1, <1>2, <1>3, PTL DEF Spec
=============================================================================
