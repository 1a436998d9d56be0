----------------------------- MODULE FoldLemmas -----------------------------
(***************************************************************************)
(* Induction without an operator parameter: facts about minimal elements,  *)
(* and about functions defined by recursion over the subsets of a finite   *)
(* set, which is what a fold of the community modules is.                  *)
(***************************************************************************)
EXTENDS Integers, FiniteSetsExt, FiniteSetTheorems, TLAPS

\* A set of naturals that is not empty has a least element.
LEMMA LeastNat ==
    ASSUME NEW T \in SUBSET Nat, T # {}
    PROVE  \E m \in T : \A n \in T : m <= n
<1>1. \E m \in T : \A n \in T : ~ (<<n, m>> \in OpToRel(<, Nat))
  BY NatLessThanWellFounded, WFMin
<1>2. PICK m \in T : \A n \in T : ~ (<<n, m>> \in OpToRel(<, Nat))
  BY <1>1
<1>3. ASSUME NEW n \in T PROVE m <= n
  <2>1. n \in Nat /\ m \in Nat
    OBVIOUS
  <2>2. ~ (n < m)
    BY <1>2, <2>1 DEF OpToRel
  <2>3. QED
    BY <2>1, <2>2
<1>4. QED
  BY <1>2, <1>3

\* A family of subsets of a finite set has a member none other is part of.
LEMMA MinimalSubset ==
    ASSUME NEW S, IsFiniteSet(S), NEW T \in SUBSET (SUBSET S), T # {}
    PROVE  \E m \in T : \A t \in T : t \subseteq m => t = m
<1>1. IsWellFoundedOn(StrictSubsetOrdering(S), FiniteSubsetsOf(S))
  BY FS_StrictSubsetOrderingWellFounded
<1>2. T \subseteq FiniteSubsetsOf(S)
  BY FS_FiniteSubsetsOfFinite
<1>3. PICK m \in T : \A t \in T : ~ (<<t, m>> \in StrictSubsetOrdering(S))
  BY <1>1, <1>2, WFMin
<1>4. ASSUME NEW t \in T, t \subseteq m PROVE t = m
  <2>1. t \in SUBSET S /\ m \in SUBSET S
    OBVIOUS
  <2>2. <<t, m>> \in (SUBSET S) \X (SUBSET S)
    BY <2>1
  <2>3. ~ (<<t, m>> \in StrictSubsetOrdering(S))
    BY <1>3
  <2>4. QED
    BY <2>2, <2>3, <1>4 DEF StrictSubsetOrdering
<1>5. QED
  BY <1>3, <1>4

\* Induction on the naturals, for the set of those that have the property.
LEMMA NatSetInduction ==
    ASSUME NEW P, 0 \in P, \A n \in Nat : n \in P => n + 1 \in P
    PROVE  Nat \subseteq P
<1>1. SUFFICES ASSUME Nat \ P # {} PROVE FALSE
  OBVIOUS
<1>2. PICK m \in Nat \ P : \A n \in Nat \ P : m <= n
  BY <1>1, LeastNat
<1>3. m # 0 /\ m \in Nat
  BY <1>2
<1>4. m - 1 \in Nat /\ m = (m - 1) + 1 /\ ~ (m <= m - 1)
  BY <1>3
<1>5. m - 1 \in P
  BY <1>2, <1>4
<1>6. QED
  BY <1>2, <1>4, <1>5

\* Induction on the subsets of a finite set, for the family of those that have
\* the property: a subset has it whenever it has an element without which it does.
LEMMA SubsetInduction ==
    ASSUME NEW S, IsFiniteSet(S), NEW P, {} \in P,
           \A s \in SUBSET S : s # {} => \E c \in s : s \ {c} \in P => s \in P
    PROVE  SUBSET S \subseteq P
<1> DEFINE Bad == (SUBSET S) \ P
<1>1. SUFFICES ASSUME Bad # {} PROVE FALSE
  OBVIOUS
<1>2. PICK m \in Bad : \A t \in Bad : t \subseteq m => t = m
  <2>1. Bad \in SUBSET (SUBSET S)
    OBVIOUS
  <2> HIDE DEF Bad
  <2>2. QED
    BY <1>1, <2>1, MinimalSubset
<1>3. PICK c \in m : m \ {c} \in P => m \in P
  BY <1>2
<1>4. m \ {c} \notin P
  BY <1>2, <1>3
<1>5. m \ {c} \in SUBSET S /\ m \ {c} \subseteq m /\ m \ {c} # m
  BY <1>2, <1>3
<1>6. QED
  BY <1>2, <1>4, <1>5

-----------------------------------------------------------------------------
\* Recursion that takes one element from a set at a time: the element it takes,
\* and what it computes for every subset.
Picks(pick, S) == \A s \in SUBSET S : s # {} => pick[s] \in s

FoldsTo(g, S, base, F, pick) ==
    \A s \in SUBSET S : g[s] = IF s = {} THEN base ELSE F[s][g[s \ {pick[s]}]]

\* The same, by steps U[c] that stay in D.
FoldsWithin(g, S, D, base, U, pick) ==
    \A s \in SUBSET S :
        /\ g[s] = IF s = {} THEN base ELSE U[pick[s]][g[s \ {pick[s]}]]
        /\ g[s] \in D

\* Such a recursion defines a function.
LEMMA FoldExists ==
    ASSUME NEW S, IsFiniteSet(S), NEW base, NEW F, NEW pick,
           Picks(pick, S)
    PROVE  \E g : FoldsTo(g, S, base, F, pick)
<1> DEFINE Small(n) == {s \in SUBSET S : Cardinality(s) <= n}
           Folds(g, n) == g = [s \in Small(n) |->
                                 IF s = {} THEN base ELSE F[s][g[s \ {pick[s]}]]]
           Good == {n \in Nat : \E g : Folds(g, n)}
<1>1. \A s \in SUBSET S : IsFiniteSet(s) /\ Cardinality(s) \in Nat
  BY FS_Subset, FS_CardinalityType
<1>2. \A s \in SUBSET S : s # {} =>
          s \ {pick[s]} \in SUBSET S /\ Cardinality(s \ {pick[s]}) = Cardinality(s) - 1
  BY <1>1, FS_RemoveElement DEF Picks
<1>3. 0 \in Good
  <2>1. \A s \in Small(0) : s = {}
    BY <1>1, FS_EmptySet
  <2>2. \A g : [s \in Small(0) |-> base] =
               [s \in Small(0) |-> IF s = {} THEN base ELSE F[s][g[s \ {pick[s]}]]]
    BY <2>1
  <2>3. Folds([s \in Small(0) |-> base], 0)
    BY <2>2
  <2>4. QED
    BY <2>3
<1>4. ASSUME NEW n \in Nat, n \in Good PROVE n + 1 \in Good
  <2>1. PICK g : Folds(g, n)
    BY <1>4
  <2> DEFINE h == [s \in Small(n + 1) |->
                      IF s = {} THEN base ELSE F[s][g[s \ {pick[s]}]]]
  <2>2. \A s \in Small(n) : s \in Small(n + 1) /\ h[s] = g[s]
    <3>1. \A s \in Small(n) : s \in Small(n + 1)
      BY <1>1
    <3>2. \A s \in Small(n) : h[s] = IF s = {} THEN base ELSE F[s][g[s \ {pick[s]}]]
      BY <3>1
    <3>3. \A s \in Small(n) : g[s] = IF s = {} THEN base ELSE F[s][g[s \ {pick[s]}]]
      BY <2>1
    <3>4. QED
      BY <3>1, <3>2, <3>3
  <2>3. \A s \in Small(n + 1) : s # {} => s \ {pick[s]} \in Small(n)
    BY <1>1, <1>2
  <2>4. \A s \in Small(n + 1) : s # {} => g[s \ {pick[s]}] = h[s \ {pick[s]}]
    BY <2>2, <2>3
  <2>5. \A s \in Small(n + 1) :
            h[s] = IF s = {} THEN base ELSE F[s][h[s \ {pick[s]}]]
    BY <2>4
  <2>6. h = [s \in Small(n + 1) |-> h[s]]
    OBVIOUS
  <2> HIDE DEF Small, h
  <2>7. Folds(h, n + 1)
    BY <2>5, <2>6
  <2> HIDE DEF Folds
  <2>8. QED
    BY <2>7
<1>5. Cardinality(S) \in Good
  <2> HIDE DEF Good
  <2>1. Nat \subseteq Good
    BY <1>3, <1>4, NatSetInduction
  <2>2. QED
    BY <2>1, FS_CardinalityType
<1>6. Small(Cardinality(S)) = SUBSET S
  BY FS_Subset, FS_CardinalityType
<1>7. PICK g : Folds(g, Cardinality(S))
  BY <1>5
<1>8. g = [s \in SUBSET S |-> IF s = {} THEN base ELSE F[s][g[s \ {pick[s]}]]]
  BY <1>6, <1>7
<1>9. FoldsTo(g, S, base, F, pick)
  BY <1>8 DEF FoldsTo
<1>10. QED
  BY <1>9

\* Folding with steps that stay in a set stays in it.
LEMMA FoldInto ==
    ASSUME NEW S, IsFiniteSet(S), NEW D, NEW base \in D, NEW U \in [S -> [D -> D]],
           NEW pick, Picks(pick, S)
    PROVE  \E g : FoldsWithin(g, S, D, base, U, pick)
<1> DEFINE F == [s \in SUBSET S |-> U[pick[s]]]
<1>1. PICK g : FoldsTo(g, S, base, F, pick)
  <2> HIDE DEF F
  <2>1. QED
    BY FoldExists
<1>2. \A s \in SUBSET S : g[s] = IF s = {} THEN base ELSE U[pick[s]][g[s \ {pick[s]}]]
  BY <1>1 DEF FoldsTo
<1> HIDE DEF F
<1> DEFINE P == {s \in SUBSET S : g[s] \in D}
<1>3. {} \in P
  BY <1>2
<1>4. \A s \in SUBSET S : s # {} => \E c \in s : s \ {c} \in P => s \in P
  <2> SUFFICES ASSUME NEW s \in SUBSET S, s # {}, s \ {pick[s]} \in P
               PROVE  s \in P
    BY DEF Picks
  <2>1. pick[s] \in S /\ g[s \ {pick[s]}] \in D
    BY DEF Picks
  <2>2. U[pick[s]] \in [D -> D]
    BY <2>1
  <2>3. U[pick[s]][g[s \ {pick[s]}]] \in D
    BY <2>1, <2>2
  <2>4. g[s] \in D
    BY <1>2, <2>3
  <2>5. QED
    BY <2>4
<1>5. SUBSET S \subseteq P
  <2> HIDE DEF P
  <2>1. QED
    BY <1>3, <1>4, SubsetInduction
<1>6. FoldsWithin(g, S, D, base, U, pick)
  BY <1>2, <1>5 DEF FoldsWithin
<1>7. QED
  BY <1>6

-----------------------------------------------------------------------------
\* FoldLeft, which takes the greatest index first: what it computes over every
\* set of indices, by steps U[k] that stay in D.
FoldsUp(h, n, D, base, U) ==
    /\ h = [s \in SUBSET (1..n) |-> h[s]]
    /\ \A s \in SUBSET (1..n) :
          /\ h[s] = IF s = {} THEN base ELSE U[Max(s)][h[s \ {Max(s)}]]
          /\ h[s] \in D

\* The same, index after index.
Runs(P, n, D, base, U) ==
    /\ P \in [0..n -> D]
    /\ P[0] = base
    /\ \A k \in 1..n : P[k] = U[k][P[k - 1]]

\* A function on sets of indices that takes a step of U from every prefix it
\* has in D.
StepsThrough(h, n, D, base, U) ==
    /\ base \in D /\ U \in [1..n -> [D -> D]]
    /\ h[{}] = base
    /\ \A k \in 1..n : h[1..(k - 1)] \in D => h[1..k] = U[k][h[1..(k - 1)]]

\* The greatest index of a set of indices is one of them.
LEMMA GreatestIndex ==
    ASSUME NEW n \in Nat, NEW s \in SUBSET (1..n), s # {}
    PROVE  Max(s) \in s /\ \A x \in s : Max(s) >= x
<1> DEFINE T == {n - x : x \in s}
<1>0. \A x \in s : x \in Nat /\ x <= n /\ n - x \in Nat
  <2>1. \A x \in 1..n : x \in Nat /\ x <= n /\ n - x \in Nat
    OBVIOUS
  <2>2. QED
    BY <2>1
<1>1. T \in SUBSET Nat /\ T # {}
  BY <1>0
<1>2. PICK m \in T : \A t \in T : m <= t
  <2> HIDE DEF T
  <2>1. QED
    BY <1>1, LeastNat
<1>3. PICK x \in s : m = n - x
  BY <1>2
<1>4. \A y \in s : x >= y
  <2> SUFFICES ASSUME NEW y \in s PROVE x >= y
    OBVIOUS
  <2>1. m <= n - y
    BY <1>2
  <2>2. x \in Nat /\ y \in Nat
    BY <1>0
  <2>3. QED
    BY <1>3, <2>1, <2>2
<1>5. \E z \in s : \A y \in s : z >= y
  BY <1>4
<1>6. QED
  BY <1>5 DEF Max

\* The first k indices, and the greatest of them.
LEMMA FirstIndices ==
    ASSUME NEW n \in Nat, NEW k \in 1..n
    PROVE  /\ 1..k \in SUBSET (1..n) /\ 1..k # {} /\ k - 1 \in 0..n
           /\ Max(1..k) = k /\ (1..k) \ {k} = 1..(k - 1)
<1>1. 1..k \in SUBSET (1..n) /\ 1..k # {} /\ k - 1 \in 0..n /\ (1..k) \ {k} = 1..(k - 1)
  OBVIOUS
<1>2. Max(1..k) \in 1..k /\ \A x \in 1..k : Max(1..k) >= x
  BY <1>1, GreatestIndex
<1>3. k \in 1..k
  OBVIOUS
<1>4. Max(1..k) >= k
  BY <1>2, <1>3
<1>5. QED
  BY <1>1, <1>2, <1>4

\* A fold by steps that stay in a set is a function.
LEMMA FoldLeftExists ==
    ASSUME NEW n \in Nat, NEW D, NEW base \in D, NEW U \in [1..n -> [D -> D]]
    PROVE  \E h : FoldsUp(h, n, D, base, U)
<1> DEFINE pick == [s \in SUBSET (1..n) |-> Max(s)]
<1>1. Picks(pick, 1..n)
  BY GreatestIndex DEF Picks
<1>2. \A s \in SUBSET (1..n) : pick[s] = Max(s)
  OBVIOUS
<1>3. IsFiniteSet(1..n)
  BY FS_Interval
<1> HIDE DEF pick
<1>4. PICK g : FoldsWithin(g, 1..n, D, base, U, pick)
  BY <1>1, <1>3, FoldInto
<1> DEFINE h == [s \in SUBSET (1..n) |-> g[s]]
<1>5. \A s \in SUBSET (1..n) : h[s] = g[s]
  OBVIOUS
<1>6. h = [s \in SUBSET (1..n) |-> h[s]]
  OBVIOUS
<1> HIDE DEF h
<1>7. \A s \in SUBSET (1..n) :
          /\ h[s] = IF s = {} THEN base ELSE U[Max(s)][h[s \ {Max(s)}]]
          /\ h[s] \in D
  <2> SUFFICES ASSUME NEW s \in SUBSET (1..n)
               PROVE  /\ h[s] = IF s = {} THEN base ELSE U[Max(s)][h[s \ {Max(s)}]]
                      /\ h[s] \in D
    OBVIOUS
  <2>1. s \ {Max(s)} \in SUBSET (1..n)
    OBVIOUS
  <2>2. h[s \ {Max(s)}] = g[s \ {Max(s)}] /\ h[s] = g[s]
    BY <1>5, <2>1
  <2>3. QED
    BY <1>2, <1>4, <2>2 DEF FoldsWithin
<1>8. FoldsUp(h, n, D, base, U)
  BY <1>6, <1>7 DEF FoldsUp
<1>9. QED
  BY <1>8

\* Such a function runs through D.
LEMMA FoldLeftRuns ==
    ASSUME NEW n \in Nat, NEW D, NEW base, NEW U, NEW h, StepsThrough(h, n, D, base, U)
    PROVE  \E P : Runs(P, n, D, base, U) /\ P[n] = h[1..n]
<1> USE DEF StepsThrough
<1> DEFINE P == {k \in Nat : k <= n => h[1..k] \in D}
<1>1. 1..0 = {}
  OBVIOUS
<1>2. 0 \in P
  BY <1>1
<1>3. ASSUME NEW k \in Nat, k \in P PROVE k + 1 \in P
  <2> SUFFICES ASSUME k + 1 <= n PROVE h[1..(k + 1)] \in D
    OBVIOUS
  <2>1. k + 1 \in 1..n /\ (k + 1) - 1 = k /\ h[1..k] \in D
    BY <1>3
  <2>2. h[1..(k + 1)] = U[k + 1][h[1..k]]
    BY <2>1
  <2>3. U[k + 1] \in [D -> D]
    BY <2>1
  <2>4. QED
    BY <2>1, <2>2, <2>3
<1>4. \A k \in 0..n : h[1..k] \in D
  <2>1. Nat \subseteq P
    <3> HIDE DEF P
    <3>1. QED
      BY <1>2, <1>3, NatSetInduction
  <2>2. QED
    BY <2>1
<1> DEFINE R == [k \in 0..n |-> h[1..k]]
<1>5. R \in [0..n -> D] /\ R[0] = base
  BY <1>1, <1>4
<1>6. ASSUME NEW k \in 1..n PROVE R[k] = U[k][R[k - 1]]
  <2>1. k - 1 \in 0..n /\ k \in 0..n
    OBVIOUS
  <2>2. R[k] = h[1..k] /\ R[k - 1] = h[1..(k - 1)] /\ h[1..(k - 1)] \in D
    BY <1>4, <2>1
  <2>3. QED
    BY <2>2
<1>7. R[n] = h[1..n]
  OBVIOUS
<1> HIDE DEF R
<1>8. Runs(R, n, D, base, U)
  BY <1>5, <1>6 DEF Runs
<1>9. QED
  BY <1>7, <1>8
=============================================================================
