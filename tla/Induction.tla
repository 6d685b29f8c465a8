------------------------------ MODULE Induction ------------------------------
(***************************************************************************)
(* Induction and recursion on the natural numbers, stated with sets and    *)
(* functions in the place of predicates and operators: what the proofs     *)
(* about the framing and the lines of a stream need, whose definitions     *)
(* recur over bytes. They come down to the finite sets 0..n, of which a    *)
(* non-empty collection has a minimal one.                                 *)
(***************************************************************************)
EXTENDS Integers, Sequences, FiniteSetTheorems, SequenceTheorems, TLAPS

\* A non-empty set of naturals has a least element.
LEMMA LeastElement ==
    ASSUME NEW A \in SUBSET Nat, A # {}
    PROVE  \E m \in A : \A k \in A : m <= k
<1> DEFINE T == {0..n : n \in A}
           R == StrictSubsetOrdering(Nat)
<1>1. T \subseteq FiniteSubsetsOf(Nat)
      <2>1. ASSUME NEW n \in A PROVE 0..n \in SUBSET Nat /\ IsFiniteSet(0..n)
            BY FS_Interval
      <2> QED BY <2>1 DEF FiniteSubsetsOf
<1>2. T # {}
      OBVIOUS
<1>3. IsWellFoundedOn(R, FiniteSubsetsOf(Nat))
      BY FS_StrictSubsetOrderingWellFounded
<1>4. PICK x \in T : \A y \in T : <<y, x>> \notin R
      <2> HIDE DEF T, R
      <2> QED BY <1>1, <1>2, <1>3, WFMin
<1>5. PICK m \in A : x = 0..m
      OBVIOUS
<1>6. ASSUME NEW k \in A, k < m
      PROVE  FALSE
      <2>1. 0..k \in T
            OBVIOUS
      <2>2. 0..k \subseteq 0..m /\ 0..k # 0..m
            <3>1. m \in 0..m /\ m \notin 0..k
                  BY <1>6
            <3> QED BY <1>6, <3>1
      <2>3. <<0..k, 0..m>> \in R
            BY <2>2 DEF StrictSubsetOrdering
      <2> QED BY <1>4, <1>5, <2>1, <2>3
<1> QED BY <1>6

\* A non-empty set of naturals with a bound has a greatest element.
LEMMA GreatestElement ==
    ASSUME NEW n \in Nat, NEW A \in SUBSET (0..n), A # {}
    PROVE  \E m \in A : \A k \in A : k <= m
<1> DEFINE B == {n - k : k \in A}
<1>1. B \in SUBSET Nat /\ B # {}
      <2>1. \A k \in A : n - k \in Nat
            OBVIOUS
      <2> QED BY <2>1
<1>2. PICK d \in B : \A e \in B : d <= e
      <2> HIDE DEF B
      <2> QED BY <1>1, LeastElement
<1>3. PICK m \in A : d = n - m
      OBVIOUS
<1>4. ASSUME NEW k \in A
      PROVE  k <= m
      <2>1. n - k \in B
            OBVIOUS
      <2> QED BY <1>2, <1>3, <2>1
<1> QED BY <1>4

\* A set of naturals that contains a number as soon as it contains all smaller
\* ones contains them all.
LEMMA SetInduction ==
    ASSUME NEW A \in SUBSET Nat,
           \A n \in Nat : (\A k \in Nat : k < n => k \in A) => n \in A
    PROVE  A = Nat
<1>1. SUFFICES ASSUME Nat \ A # {} PROVE FALSE
      OBVIOUS
<1>2. PICK m \in Nat \ A : \A k \in Nat \ A : m <= k
      BY <1>1, LeastElement
<1> QED BY <1>2

\* A set of naturals that contains 0 and the successor of each of its elements
\* contains them all.
LEMMA StepInduction ==
    ASSUME NEW A \in SUBSET Nat, 0 \in A, \A n \in A : n + 1 \in A
    PROVE  A = Nat
<1>1. ASSUME NEW n \in Nat, \A k \in Nat : k < n => k \in A
      PROVE  n \in A
      <2>1. CASE n = 0
            BY <2>1
      <2>2. CASE n # 0
            <3>1. n - 1 \in Nat /\ n - 1 < n /\ (n - 1) + 1 = n
                  BY <2>2
            <3> QED BY <1>1, <3>1
      <2> QED BY <2>1, <2>2
<1> QED BY <1>1, SetInduction

\* A recursive definition over the set D, with values in S: for the data in B
\* the value is given by base, and for any other x it is made by step[x] of the
\* value for prev[x], which is smaller.
WellDefined(D, S, size, B, base, prev, step) ==
    /\ size \in [D -> Nat]
    /\ \A x \in D \cap B : base[x] \in S
    /\ \A x \in D \ B : prev[x] \in D /\ size[prev[x]] < size[x]
    /\ \A x \in D \ B : \A y \in S : step[x][y] \in S

Solution(f, D, S, B, base, prev, step) ==
    /\ f = [x \in D |-> f[x]]
    /\ \A x \in D \cap B : f[x] = base[x]
    /\ \A x \in D \ B : f[prev[x]] \in S => f[x] = step[x][f[prev[x]]]

\* Such a definition has a solution.
LEMMA Recursion ==
    ASSUME NEW D, NEW S, NEW size, NEW B, NEW base, NEW prev, NEW step,
           WellDefined(D, S, size, B, base, prev, step)
    PROVE  \E f : Solution(f, D, S, B, base, prev, step)
<1> USE DEF WellDefined
<1> DEFINE Part(n) == {x \in D : size[x] < n}
           Solves(g, n) == \A x \in Part(n) :
                              g[x] = IF x \in B THEN base[x] ELSE step[x][g[prev[x]]]
           A == {n \in Nat : \E g \in [Part(n) -> S] : Solves(g, n)}
           G == [n \in Nat |-> CHOOSE g \in [Part(n) -> S] : Solves(g, n)]
           U == {k \in Nat : \A m, n \in Nat : \A x \in D :
                    size[x] = k /\ k < m /\ k < n => G[m][x] = G[n][x]}
           f == [x \in D |-> G[size[x] + 1][x]]
<1>1. 0 \in A
      <2>1. Part(0) = {}
            OBVIOUS
      <2>2. [x \in Part(0) |-> base[x]] \in [Part(0) -> S]
            BY <2>1
      <2> QED BY <2>1, <2>2
<1>2. ASSUME NEW n \in A
      PROVE  n + 1 \in A
      <2>1. PICK g \in [Part(n) -> S] : Solves(g, n)
            OBVIOUS
      <2> DEFINE h == [x \in Part(n + 1) |-> IF x \in B THEN base[x] ELSE step[x][g[prev[x]]]]
      <2>2. \A x \in Part(n + 1) : x \notin B => prev[x] \in Part(n)
            OBVIOUS
      <2>3. h \in [Part(n + 1) -> S]
            <3>1. \A y \in Part(n) : g[y] \in S
                  BY <2>1
            <3>2. \A x \in Part(n + 1) :
                     (IF x \in B THEN base[x] ELSE step[x][g[prev[x]]]) \in S
                  BY <2>2, <3>1
            <3> HIDE DEF Part
            <3> QED BY <3>2
      <2>4. \A x \in Part(n) : x \in Part(n + 1) /\ h[x] = g[x]
            BY <2>1
      <2>5. Solves(h, n + 1)
            BY <2>2, <2>4
      <2>6. \E e \in [Part(n + 1) -> S] : Solves(e, n + 1)
            BY <2>3, <2>5
      <2> HIDE DEF Part, Solves
      <2> QED BY <2>6
<1>3. A = Nat
      <2> HIDE DEF A
      <2> QED BY <1>1, <1>2, StepInduction DEF A
<1>4. \A n \in Nat : G[n] \in [Part(n) -> S] /\ Solves(G[n], n)
      <2> SUFFICES ASSUME NEW n \in Nat
                   PROVE  G[n] \in [Part(n) -> S] /\ Solves(G[n], n)
          OBVIOUS
      <2>1. \E g \in [Part(n) -> S] : Solves(g, n)
            BY <1>3
      <2> HIDE DEF Part, Solves
      <2> QED BY <2>1
<1> HIDE DEF G
<1>5. \A n \in Nat : \A x \in D : size[x] < n =>
         /\ G[n][x] \in S
         /\ G[n][x] = IF x \in B THEN base[x] ELSE step[x][G[n][prev[x]]]
      <2> SUFFICES ASSUME NEW n \in Nat, NEW x \in D, size[x] < n
                   PROVE  /\ G[n][x] \in S
                          /\ G[n][x] = IF x \in B THEN base[x] ELSE step[x][G[n][prev[x]]]
          OBVIOUS
      <2>1. x \in Part(n)
            OBVIOUS
      <2>2. Solves(G[n], n) /\ G[n] \in [Part(n) -> S]
            BY <1>4
      <2>3. G[n][x] \in S
            <3> HIDE DEF Part, Solves
            <3> QED BY <2>1, <2>2
      <2> HIDE DEF Part
      <2> QED BY <2>1, <2>2, <2>3
<1>6. ASSUME NEW k \in Nat, \A j \in Nat : j < k => j \in U
      PROVE  k \in U
      <2> SUFFICES ASSUME NEW m \in Nat, NEW n \in Nat, NEW x \in D, size[x] = k, k < m, k < n
                   PROVE  G[m][x] = G[n][x]
          OBVIOUS
      <2>1. size[x] < m /\ size[x] < n
            OBVIOUS
      <2>2. CASE x \in B
            BY <1>5, <2>1, <2>2
      <2>3. CASE x \notin B
            <3>1. prev[x] \in D /\ size[prev[x]] \in Nat /\ size[prev[x]] < k
                  BY <2>3
            <3>2. size[prev[x]] \in U
                  BY <1>6, <3>1
            <3>3. size[prev[x]] < m /\ size[prev[x]] < n
                  BY <3>1
            <3>4. G[m][prev[x]] = G[n][prev[x]]
                  BY <3>1, <3>2, <3>3
            <3>5. G[m][x] = step[x][G[m][prev[x]]]
                  BY <1>5, <2>1, <2>3
            <3>6. G[n][x] = step[x][G[n][prev[x]]]
                  BY <1>5, <2>1, <2>3
            <3> QED BY <3>4, <3>5, <3>6
      <2> QED BY <2>2, <2>3
<1>7. U = Nat
      <2> HIDE DEF U
      <2> QED BY <1>6, SetInduction DEF U
<1>8. \A x \in D : size[x] + 1 \in Nat /\ size[x] < size[x] + 1
      OBVIOUS
<1>9. f \in [D -> S]
      BY <1>5, <1>8
<1>10. ASSUME NEW x \in D
      PROVE  f[x] = IF x \in B THEN base[x] ELSE step[x][f[prev[x]]]
      <2>1. G[size[x] + 1][x] = IF x \in B THEN base[x]
                                ELSE step[x][G[size[x] + 1][prev[x]]]
            BY <1>5, <1>8
      <2>2. ASSUME x \notin B
            PROVE  G[size[x] + 1][prev[x]] = f[prev[x]]
            <3>1. /\ prev[x] \in D /\ size[prev[x]] \in Nat /\ size[x] \in Nat
                  /\ size[prev[x]] < size[x] + 1 /\ size[prev[x]] < size[prev[x]] + 1
                  BY <2>2
            <3>2. size[prev[x]] \in U
                  BY <1>7, <3>1
            <3> QED BY <3>1, <3>2
      <2> QED BY <2>1, <2>2
<1> HIDE DEF f
<1>11. f = [x \in D |-> f[x]]
       BY <1>9
<1> QED BY <1>10, <1>11 DEF Solution

\* The values of a solution are in S.
LEMMA RecursionType ==
    ASSUME NEW D, NEW S, NEW size, NEW B, NEW base, NEW prev, NEW step,
           WellDefined(D, S, size, B, base, prev, step),
           NEW f, Solution(f, D, S, B, base, prev, step)
    PROVE  f \in [D -> S]
<1> USE DEF WellDefined
<1> DEFINE A == {n \in Nat : \A x \in D : size[x] = n => f[x] \in S}
<1>1. ASSUME NEW n \in Nat, \A k \in Nat : k < n => k \in A
      PROVE  n \in A
      <2> SUFFICES ASSUME NEW x \in D, size[x] = n
                   PROVE  f[x] \in S
          OBVIOUS
      <2>1. CASE x \in B
            BY <2>1 DEF Solution
      <2>2. CASE x \notin B
            <3>1. prev[x] \in D /\ size[prev[x]] \in Nat /\ size[prev[x]] < n
                  BY <2>2
            <3>2. f[prev[x]] \in S
                  BY <1>1, <3>1
            <3> QED BY <2>2, <3>2 DEF Solution
      <2> QED BY <2>1, <2>2
<1>2. A = Nat
      <2> HIDE DEF A
      <2> QED BY <1>1, SetInduction DEF A
<1> QED BY <1>2 DEF Solution
=============================================================================
