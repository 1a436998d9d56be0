---- MODULE HistoryProofs ----
(***************************************************************************)
(* Proofs about the session history (session::History over                 *)
(* scene::UndoStack).                                                      *)
(*                                                                         *)
(* The inductive invariant is HistoryIInv: the types (Typed), the two      *)
(* bracket counters together (BracketsAgree), and the count, that no step  *)
(* names an entry which the stack does not hold (Counted).  Most of the    *)
(* module is about the loops of the code: each is a FoldLeft of the model, *)
(* described by the sequence of values it goes through (FoldLemmas), and   *)
(* an argument about such a sequence is an induction on its index.         *)
(*                                                                         *)
(* The hypotheses are about which optional calls the host makes (Calls).   *)
(* KeepsOrder excludes clearing over commands, a stroke that goes on       *)
(* across steps, and an undo inside a bracket: with any one of them TLC    *)
(* finds StepsNameEntries violated.  UndoDepthIsHonest needs less          *)
(* (ClosesFirst and ClearsSafely), BracketsAgree only the latter, types and *)
(* action properties nothing.                                              *)
(*                                                                         *)
(* Then what a refused undo leaves behind, which needs the states the      *)
(* lists lead through: both sides of the stack are a line of documents     *)
(* (StackLine), the steps and the redo steps a trail of payloads (Trail),  *)
(* and a step that is applied where it fits can be taken back leaf by      *)
(* leaf, exactly (StepExact).  Retraced says that both hold.               *)
(*                                                                         *)
(* Last, what SessionProofs compares sessions with: two worlds one of      *)
(* which is the other without its oldest (Alike), and the states a list of *)
(* steps leads through (Passes, Strides), which are what the folds of      *)
(* HistoryRefinement compute.  A step that succeeds returns the way it     *)
(* came (StepUndone), and what lies behind a world depends on nothing an   *)
(* undo does not read (BehindSamePast).                                    *)
(***************************************************************************)
EXTENDS HistoryRefinement, FoldLemmas, SequenceTheorems

-----------------------------------------------------------------------------
\* What a step names, and the loops over lists of steps, as running sums and
\* prefixes.

\* A step, whatever its leaves.
AnyStep == Seq(Leaf)

\* Where a step names entries of the stack.
SceneAt(step) == {k \in 1..Len(step) : IsScene(step[k])}

\* A step names a number of entries.
LEMMA ScenesInNat ==
    ASSUME NEW step, Len(step) \in Nat
    PROVE  /\ ScenesIn(step) \in Nat /\ ScenesIn(step) = Cardinality(SceneAt(step))
           /\ IsFiniteSet(SceneAt(step))
<1>1. IsFiniteSet(1..Len(step)) /\ SceneAt(step) \in SUBSET (1..Len(step))
  BY FS_Interval DEF SceneAt
<1>2. IsFiniteSet(SceneAt(step))
  BY <1>1, FS_Subset
<1>3. QED
  BY <1>2, FS_CardinalityType DEF ScenesIn, SceneAt

\* What two steps name, one after the other, is what each of them names.
LEMMA ScenesInConcat ==
    ASSUME NEW S, NEW a \in Seq(S), NEW b \in Seq(S)
    PROVE  ScenesIn(a \o b) = ScenesIn(a) + ScenesIn(b)
<1> DEFINE m == Len(a)
           Shifted == {m + k : k \in SceneAt(b)}
           shift == [k \in SceneAt(b) |-> m + k]
<1>1. m \in Nat /\ Len(b) \in Nat
  OBVIOUS
<1>2. SceneAt(a \o b) = SceneAt(a) \cup Shifted
  <2>1. /\ Len(a \o b) = m + Len(b)
        /\ \A k \in 1..m : (a \o b)[k] = a[k]
        /\ \A k \in 1..Len(b) : (a \o b)[m + k] = b[k]
    BY ConcatProperties
  <2>2. \A k \in SceneAt(a \o b) : k \in SceneAt(a) \cup Shifted
    <3> SUFFICES ASSUME NEW k \in SceneAt(a \o b) PROVE k \in SceneAt(a) \cup Shifted
      OBVIOUS
    <3>1. k \in 1..(m + Len(b)) /\ IsScene((a \o b)[k])
      BY <2>1 DEF SceneAt
    <3>2. CASE k <= m
      BY <1>1, <2>1, <3>1, <3>2 DEF SceneAt
    <3>3. CASE k > m
      <4>1. k - m \in 1..Len(b) /\ m + (k - m) = k
        BY <1>1, <3>1, <3>3
      <4>2. k - m \in SceneAt(b)
        BY <2>1, <3>1, <4>1 DEF SceneAt
      <4>3. QED
        BY <4>1, <4>2
    <3>4. QED
      BY <1>1, <3>1, <3>2, <3>3
  <2>3. \A k \in SceneAt(a) : k \in SceneAt(a \o b)
    BY <1>1, <2>1 DEF SceneAt
  <2>4. \A k \in SceneAt(b) : m + k \in SceneAt(a \o b)
    <3> SUFFICES ASSUME NEW k \in SceneAt(b) PROVE m + k \in SceneAt(a \o b)
      OBVIOUS
    <3>1. k \in 1..Len(b) /\ IsScene(b[k])
      BY DEF SceneAt
    <3>2. m + k \in 1..(m + Len(b))
      BY <1>1, <3>1
    <3>3. QED
      BY <2>1, <3>1, <3>2 DEF SceneAt
  <2>5. QED
    BY <2>2, <2>3, <2>4
<1>3. \A k \in SceneAt(b) : k \in 1..Len(b)
  BY DEF SceneAt
<1>4. SceneAt(a) \cap Shifted = {}
  BY <1>1, <1>3 DEF SceneAt
<1>5. IsFiniteSet(Shifted) /\ Cardinality(Shifted) = Cardinality(SceneAt(b))
  <2>1. shift \in Bijection(SceneAt(b), Shifted)
    BY <1>1, <1>3 DEF Bijection, Injection, Surjection, IsInjective
  <2>2. ExistsBijection(SceneAt(b), Shifted)
    BY <2>1 DEF ExistsBijection
  <2>3. QED
    BY <1>1, <2>2, ScenesInNat, FS_Bijection
<1> HIDE DEF Shifted, shift
<1>6. /\ Cardinality(SceneAt(a) \cup Shifted)
           = Cardinality(SceneAt(a)) + Cardinality(Shifted) - Cardinality({})
  BY <1>1, <1>4, <1>5, ScenesInNat, FS_Union
<1>7. Cardinality({}) = 0
  BY FS_EmptySet
<1>8. Len(a \o b) \in Nat
  BY <1>1, ConcatProperties
<1>9. /\ ScenesIn(a \o b) = Cardinality(SceneAt(a \o b))
      /\ ScenesIn(a) = Cardinality(SceneAt(a)) /\ ScenesIn(a) \in Nat
      /\ ScenesIn(b) = Cardinality(SceneAt(b)) /\ ScenesIn(b) \in Nat
  BY <1>1, <1>8, ScenesInNat
<1>10. Cardinality(SceneAt(a \o b)) = Cardinality(SceneAt(a) \cup Shifted)
  BY <1>2
<1>11. QED
  BY <1>5, <1>6, <1>7, <1>9, <1>10

\* The plain steps.
LEMMA ScenesInPlain ==
    /\ ScenesIn(<<>>) = 0 /\ ScenesIn(<<Scene>>) = 1
    /\ \A x : x # Scene => ScenesIn(<<x>>) = 0
<1>1. SceneAt(<<>>) = {} /\ SceneAt(<<Scene>>) = {1}
  BY DEF SceneAt, IsScene
<1>2. \A x : x # Scene => SceneAt(<<x>>) = {}
  BY DEF SceneAt, IsScene
<1>3. Len(<<>>) \in Nat /\ Len(<<Scene>>) \in Nat /\ \A x : Len(<<x>>) \in Nat
  OBVIOUS
<1>4. ScenesIn(<<>>) = 0 /\ ScenesIn(<<Scene>>) = 1
  BY <1>1, <1>3, ScenesInNat, FS_EmptySet, FS_Singleton
<1>5. \A x : x # Scene => ScenesIn(<<x>>) = 0
  <2> SUFFICES ASSUME NEW x, x # Scene PROVE ScenesIn(<<x>>) = 0
    OBVIOUS
  <2>1. SceneAt(<<x>>) = {} /\ Len(<<x>>) \in Nat
    BY <1>2, <1>3
  <2>2. QED
    BY <2>1, ScenesInNat, FS_EmptySet
<1>6. QED
  BY <1>4, <1>5

\* Backwards, a step names as many entries.
LEMMA ScenesInReverse ==
    ASSUME NEW S, NEW a \in Seq(S)
    PROVE  /\ Reverse(a) \in Seq(S) /\ Len(Reverse(a)) = Len(a)
           /\ \A k \in 1..Len(a) : Reverse(a)[k] = a[Len(a) - k + 1]
           /\ ScenesIn(Reverse(a)) = ScenesIn(a)
<1> DEFINE n == Len(a)
           turn == [k \in SceneAt(a) |-> n - k + 1]
<1>1. n \in Nat /\ \A k \in 1..n : n - k + 1 \in 1..n /\ (n - (n - k + 1)) + 1 = k
  OBVIOUS
<1>2. /\ Reverse(a) \in [1..n -> S] /\ \A k \in 1..n : Reverse(a)[k] = a[n - k + 1]
  BY <1>1 DEF Reverse
<1>3. Reverse(a) \in Seq(S) /\ Len(Reverse(a)) = n
  <2>1. \A m \in Nat : \A f \in [1..m -> S] : f \in Seq(S) /\ Len(f) = m
    OBVIOUS
  <2>2. QED
    BY <1>1, <1>2, <2>1
<1>4. turn \in Bijection(SceneAt(a), SceneAt(Reverse(a)))
  <2>1. \A k \in SceneAt(a) : k \in 1..n /\ n - k + 1 \in SceneAt(Reverse(a))
    <3> SUFFICES ASSUME NEW k \in SceneAt(a) PROVE k \in 1..n /\ n - k + 1 \in SceneAt(Reverse(a))
      OBVIOUS
    <3>1. k \in 1..n /\ IsScene(a[k])
      BY DEF SceneAt
    <3>2. n - k + 1 \in 1..n /\ Reverse(a)[n - k + 1] = a[k]
      BY <1>1, <1>2, <3>1
    <3>3. QED
      BY <1>3, <3>1, <3>2 DEF SceneAt
  <2>2. \A j \in SceneAt(Reverse(a)) : j \in 1..n /\ n - j + 1 \in SceneAt(a) /\ j = n - (n - j + 1) + 1
    BY <1>1, <1>2, <1>3 DEF SceneAt
  <2>3. \A k \in SceneAt(a) : turn[k] = n - k + 1
    OBVIOUS
  <2>4. turn \in [SceneAt(a) -> SceneAt(Reverse(a))]
    BY <2>1
  <2>5. \A x, y \in SceneAt(a) : turn[x] = turn[y] => x = y
    BY <1>1, <2>1, <2>3
  <2>6. \A j \in SceneAt(Reverse(a)) : \E k \in SceneAt(a) : turn[k] = j
    BY <2>2, <2>3
  <2> HIDE DEF turn
  <2>7. QED
    BY <2>4, <2>5, <2>6 DEF Bijection, Injection, Surjection, IsInjective
<1>5. ExistsBijection(SceneAt(a), SceneAt(Reverse(a)))
  BY <1>4 DEF ExistsBijection
<1>6. Cardinality(SceneAt(Reverse(a))) = Cardinality(SceneAt(a))
  BY <1>1, <1>5, ScenesInNat, FS_Bijection
<1>7. QED
  BY <1>1, <1>2, <1>3, <1>6, ScenesInNat

\* The running sums of what the steps of a list name.
Sums(P, list) ==
    /\ P \in [0..Len(list) -> Nat] /\ P[0] = 0
    /\ \A k \in 1..Len(list) : P[k] = P[k - 1] + ScenesIn(list[k])
    /\ SceneSteps(list) = P[Len(list)]

\* The counting loop of sync_scene_steps has such running sums
\* (FoldLeft takes the list from its end, the sums from its front).
LEMMA SceneSums ==
    ASSUME NEW list \in Seq(AnyStep)
    PROVE  \E P : Sums(P, list)
<1> DEFINE n == Len(list)
           U == [k \in 1..n |-> [m \in Nat |-> m + ScenesIn(list[k])]]
           Iter(it) == it = [s \in SUBSET DOMAIN list |->
                               IF s = {} THEN 0
                               ELSE it[s \ {Max(s)}] + ScenesIn(list[Max(s)])]
           iter == CHOOSE it : Iter(it)
<1>1. SceneSteps(list) = iter[DOMAIN list]
  BY DEF SceneSteps, FoldLeft, MapThenFoldSet
<1>2. n \in Nat /\ DOMAIN list = 1..n
  OBVIOUS
<1>3. \A k \in 1..n : ScenesIn(list[k]) \in Nat
  <2> SUFFICES ASSUME NEW k \in 1..n PROVE ScenesIn(list[k]) \in Nat
    OBVIOUS
  <2>1. list[k] \in Seq(Leaf)
    BY DEF AnyStep
  <2>2. QED
    BY <2>1, ScenesInNat
<1>4. /\ U \in [1..n -> [Nat -> Nat]]
      /\ \A k \in 1..n, m \in Nat : U[k][m] = m + ScenesIn(list[k])
  BY <1>3
<1> HIDE DEF n, U
<1>5. \E it : Iter(it)
  <2>1. PICK h : FoldsUp(h, n, Nat, 0, U)
    BY <1>2, <1>4, FoldLeftExists
  <2>2. ASSUME NEW s \in SUBSET (1..n), s # {}
        PROVE  h[s] = h[s \ {Max(s)}] + ScenesIn(list[Max(s)])
    <3>1. Max(s) \in 1..n /\ s \ {Max(s)} \in SUBSET (1..n)
      BY <1>2, <2>2, GreatestIndex
    <3>2. h[s] = U[Max(s)][h[s \ {Max(s)}]] /\ h[s \ {Max(s)}] \in Nat
      BY <2>1, <2>2, <3>1 DEF FoldsUp
    <3>3. QED
      BY <1>4, <3>1, <3>2
  <2>3. /\ h = [s \in SUBSET (1..n) |-> h[s]]
        /\ h[{}] = 0
    BY <2>1 DEF FoldsUp
  <2>4. Iter(h)
    BY <1>2, <2>2, <2>3
  <2>5. QED
    BY <2>4
<1>6. Iter(iter)
  <2> HIDE DEF Iter
  <2>1. QED
    BY <1>5
<1> HIDE DEF iter
<1>7. iter[{}] = 0 /\ \A s \in SUBSET (1..n) : s # {} =>
             iter[s] = iter[s \ {Max(s)}] + ScenesIn(list[Max(s)])
  BY <1>2, <1>6
<1>8. ASSUME NEW k \in 1..n
      PROVE  iter[1..k] = iter[1..(k - 1)] + ScenesIn(list[k])
  <2>1. /\ 1..k \in SUBSET (1..n) /\ 1..k # {}
        /\ Max(1..k) = k /\ (1..k) \ {k} = 1..(k - 1)
    BY <1>2, FirstIndices
  <2>2. iter[1..k] = iter[(1..k) \ {Max(1..k)}] + ScenesIn(list[Max(1..k)])
    BY <1>7, <2>1
  <2>3. QED
    BY <2>1, <2>2
<1>9. PICK P : Runs(P, n, Nat, 0, U) /\ P[n] = iter[1..n]
  <2>1. \A k \in 1..n : iter[1..(k - 1)] \in Nat => iter[1..k] = U[k][iter[1..(k - 1)]]
    BY <1>4, <1>8
  <2>2. iter[{}] = 0 /\ 0 \in Nat /\ n \in Nat /\ U \in [1..n -> [Nat -> Nat]]
    BY <1>2, <1>4, <1>7
  <2>3. StepsThrough(iter, n, Nat, 0, U)
    BY <2>1, <2>2 DEF StepsThrough
  <2> HIDE DEF Iter
  <2>4. n \in Nat
    BY <2>2
  <2>5. QED
    BY <2>3, <2>4, FoldLeftRuns
<1>10. Sums(P, list)
  <2>1. /\ P \in [0..n -> Nat] /\ P[0] = 0
        /\ \A k \in 1..n : P[k] = U[k][P[k - 1]]
    BY <1>9 DEF Runs
  <2>2. \A k \in 1..n : P[k - 1] \in Nat
    BY <1>2, <2>1
  <2>3. QED
    BY <1>1, <1>2, <1>4, <1>9, <2>1, <2>2 DEF Sums, n
<1>11. QED
  BY <1>10

\* What a list names is a number, and two lists name together what each does.
LEMMA SceneStepsConcat ==
    ASSUME NEW a \in Seq(AnyStep), NEW b \in Seq(AnyStep)
    PROVE  /\ SceneSteps(a) \in Nat /\ SceneSteps(b) \in Nat
           /\ SceneSteps(a \o b) = SceneSteps(a) + SceneSteps(b)
<1> DEFINE m == Len(a)
           n == Len(b)
           c == a \o b
<1>1. m \in Nat /\ n \in Nat
  OBVIOUS
<1>2. /\ c \in Seq(AnyStep) /\ Len(c) = m + n
      /\ \A k \in 1..m : c[k] = a[k]
      /\ \A k \in 1..n : c[m + k] = b[k]
  BY ConcatProperties
<1>3. PICK P : Sums(P, a)
  BY SceneSums
<1>4. PICK Q : Sums(Q, b)
  BY SceneSums
<1>5. PICK R : Sums(R, c)
  BY <1>2, SceneSums
<1> HIDE DEF c
<1>6. /\ P \in [0..m -> Nat] /\ P[0] = 0 /\ SceneSteps(a) = P[m]
      /\ \A k \in 1..m : P[k] = P[k - 1] + ScenesIn(a[k])
  BY <1>3 DEF Sums
<1>7. /\ Q \in [0..n -> Nat] /\ Q[0] = 0 /\ SceneSteps(b) = Q[n]
      /\ \A k \in 1..n : Q[k] = Q[k - 1] + ScenesIn(b[k])
  BY <1>4 DEF Sums
<1>8. /\ R \in [0..(m + n) -> Nat] /\ R[0] = 0 /\ SceneSteps(c) = R[m + n]
      /\ \A k \in 1..(m + n) : R[k] = R[k - 1] + ScenesIn(c[k])
  BY <1>2, <1>5 DEF Sums
<1> HIDE DEF m, n
<1>9. \A k \in 0..m : R[k] = P[k]
  <2> DEFINE Same == {k \in Nat : k <= m => R[k] = P[k]}
  <2>1. 0 \in Same
    BY <1>6, <1>8
  <2>2. ASSUME NEW k \in Nat, k \in Same PROVE k + 1 \in Same
    <3> SUFFICES ASSUME k + 1 <= m PROVE R[k + 1] = P[k + 1]
      OBVIOUS
    <3>1. k + 1 \in 1..m /\ k + 1 \in 1..(m + n) /\ (k + 1) - 1 = k /\ R[k] = P[k]
      BY <1>1, <2>2
    <3>2. P[k + 1] = P[k] + ScenesIn(a[k + 1]) /\ R[k + 1] = R[k] + ScenesIn(c[k + 1])
      BY <1>6, <1>8, <3>1
    <3>3. QED
      BY <1>2, <3>1, <3>2
  <2>3. Nat \subseteq Same
    <3> HIDE DEF Same
    <3>1. QED
      BY <2>1, <2>2, NatSetInduction
  <2>4. QED
    BY <1>1, <2>3
<1>10. \A k \in 0..n : R[m + k] = P[m] + Q[k]
  <2> DEFINE Same == {k \in Nat : k <= n => R[m + k] = P[m] + Q[k]}
  <2>1. 0 \in Same
    BY <1>1, <1>6, <1>7, <1>9
  <2>2. ASSUME NEW k \in Nat, k \in Same PROVE k + 1 \in Same
    <3> SUFFICES ASSUME k + 1 <= n PROVE R[m + (k + 1)] = P[m] + Q[k + 1]
      OBVIOUS
    <3>1. /\ k + 1 \in 1..n /\ m + (k + 1) \in 1..(m + n) /\ (k + 1) - 1 = k
          /\ (m + (k + 1)) - 1 = m + k /\ R[m + k] = P[m] + Q[k]
      BY <1>1, <2>2
    <3>2. Q[k + 1] = Q[k] + ScenesIn(b[k + 1])
      BY <1>7, <3>1
    <3>3. R[m + (k + 1)] = R[m + k] + ScenesIn(c[m + (k + 1)])
      BY <1>8, <3>1
    <3>4. c[m + (k + 1)] = b[k + 1]
      BY <1>2, <3>1
    <3>5. P[m] \in Nat /\ Q[k] \in Nat /\ k \in 0..n
      BY <1>1, <1>6, <1>7, <3>1
    <3>6. ScenesIn(b[k + 1]) \in Nat
      <4>1. b[k + 1] \in Seq(Leaf)
        BY <3>1 DEF n, AnyStep
      <4>2. QED
        BY <4>1, ScenesInNat
    <3>7. QED
      BY <3>1, <3>2, <3>3, <3>4, <3>5, <3>6
  <2>3. Nat \subseteq Same
    <3> HIDE DEF Same
    <3>1. QED
      BY <2>1, <2>2, NatSetInduction
  <2>4. QED
    BY <1>1, <2>3
<1>11. R[m + n] = P[m] + Q[n] /\ P[m] \in Nat /\ Q[n] \in Nat
  BY <1>1, <1>6, <1>7, <1>10
<1>12. QED
  BY <1>6, <1>7, <1>8, <1>11 DEF c

\* A list of one step names what the step does; an empty one names nothing.
LEMMA SceneStepsOfOne ==
    /\ SceneSteps(<<>>) = 0
    /\ \A s \in AnyStep : SceneSteps(<<s>>) = ScenesIn(s)
<1>1. SceneSteps(<<>>) = 0
  <2>1. <<>> \in Seq(AnyStep) /\ Len(<<>>) = 0
    OBVIOUS
  <2>2. PICK P : Sums(P, <<>>)
    BY <2>1, SceneSums
  <2>3. QED
    BY <2>1, <2>2 DEF Sums
<1>2. ASSUME NEW s \in AnyStep PROVE SceneSteps(<<s>>) = ScenesIn(s)
  <2>1. <<s>> \in Seq(AnyStep) /\ Len(<<s>>) = 1 /\ <<s>>[1] = s
    OBVIOUS
  <2>2. PICK P : Sums(P, <<s>>)
    BY <2>1, SceneSums
  <2>3. 1 \in 1..1 /\ 1 - 1 = 0
    OBVIOUS
  <2>4. P[1] = P[0] + ScenesIn(s) /\ P[0] = 0 /\ SceneSteps(<<s>>) = P[1]
    BY <2>1, <2>2, <2>3 DEF Sums
  <2>5. ScenesIn(s) \in Nat
    BY ScenesInNat DEF AnyStep
  <2>6. QED
    BY <2>4, <2>5
<1>3. QED
  BY <1>1, <1>2

\* A list with one step more, with its newest step gone, cut in two.
LEMMA SceneStepsMoves ==
    ASSUME NEW list \in Seq(AnyStep)
    PROVE  /\ SceneSteps(list) \in Nat
           /\ \A s \in AnyStep : SceneSteps(Append(list, s)) = SceneSteps(list) + ScenesIn(s)
           /\ list # <<>> => SceneSteps(list) = SceneSteps(Front(list)) + ScenesIn(Last(list))
           /\ \A k \in 0..Len(list) :
                 SceneSteps(list) = SceneSteps(SubSeq(list, 1, k)) + SceneSteps(Without(list, k))
<1>1. SceneSteps(list) \in Nat
  BY SceneStepsConcat
<1>2. ASSUME NEW s \in AnyStep
      PROVE  SceneSteps(Append(list, s)) = SceneSteps(list) + ScenesIn(s)
  <2>1. <<s>> \in Seq(AnyStep) /\ Append(list, s) = list \o <<s>>
    BY AppendIsConcat
  <2>2. QED
    BY <2>1, SceneStepsConcat, SceneStepsOfOne
<1>3. ASSUME NEW k \in 0..Len(list)
      PROVE  SceneSteps(list) = SceneSteps(SubSeq(list, 1, k)) + SceneSteps(Without(list, k))
  <2>1. /\ SubSeq(list, 1, k) \in Seq(AnyStep) /\ SubSeq(list, k + 1, Len(list)) \in Seq(AnyStep)
        /\ list = SubSeq(list, 1, k) \o SubSeq(list, k + 1, Len(list))
    <3>1. Len(list) \in Nat /\ k \in Nat /\ k <= Len(list)
      OBVIOUS
    <3>2. 1 \in 1..(Len(list) + 1) /\ k \in (1 - 1)..Len(list) /\ Len(list) \in k..Len(list)
      BY <3>1
    <3>3. SubSeq(list, 1, k) \o SubSeq(list, k + 1, Len(list)) = SubSeq(list, 1, Len(list))
      BY <3>2, ConcatAdjacentSubSeq
    <3>4. SubSeq(list, 1, Len(list)) = list
      BY SubSeqFull
    <3>5. SubSeq(list, 1, k) \in Seq(AnyStep)
      BY <3>1
    <3>6. SubSeq(list, k + 1, Len(list)) \in Seq(AnyStep)
      BY <3>1
    <3>7. QED
      BY Zenon, <3>3, <3>4, <3>5, <3>6
  <2>2. QED
    BY Zenon, <2>1, SceneStepsConcat DEF Without
<1>4. ASSUME list # <<>>
      PROVE  SceneSteps(list) = SceneSteps(Front(list)) + ScenesIn(Last(list))
  <2>1. /\ Front(list) \in Seq(AnyStep) /\ Last(list) \in AnyStep
        /\ list = Append(Front(list), Last(list))
    BY <1>4 DEF Front, Last
  <2>2. SceneSteps(Append(Front(list), Last(list))) = SceneSteps(Front(list)) + ScenesIn(Last(list))
    <3>1. <<Last(list)>> \in Seq(AnyStep)
          /\ Append(Front(list), Last(list)) = Front(list) \o <<Last(list)>>
      BY <2>1, AppendIsConcat
    <3>2. QED
      BY <2>1, <3>1, SceneStepsConcat, SceneStepsOfOne
  <2>3. QED
    BY <2>1, <2>2
<1>5. QED
  BY <1>1, <1>2, <1>3, <1>4

\* One step of Gathered, and what it has gathered so far.
Grown(leaves, step, plain) ==
    IF (step = <<Scene>>) <=> plain THEN leaves \o step ELSE leaves

\* What is gathered from every prefix of a list of steps.
Gathers(P, T, list, plain) ==
    /\ P \in [0..Len(list) -> Seq(T)] /\ P[0] = <<>>
    /\ \A k \in 1..Len(list) : P[k] = Grown(P[k - 1], list[k], plain)
    /\ Gathered(list, plain) = P[Len(list)]

\* The loop of collapse_group goes through such prefixes.
LEMMA Gatherings ==
    ASSUME NEW T, NEW list \in Seq(Seq(T)), NEW plain \in BOOLEAN
    PROVE  \E P : Gathers(P, T, list, plain)
<1> DEFINE n == Len(list)
           U == [k \in 1..n |-> [m \in Seq(T) |-> Grown(m, list[k], plain)]]
           Iter(it) == it = [s \in SUBSET DOMAIN list |->
                               IF s = {} THEN <<>>
                               ELSE Grown(it[s \ {Max(s)}], list[Max(s)], plain)]
           iter == CHOOSE it : Iter(it)
<1>1. Gathered(list, plain) = iter[DOMAIN list]
  BY Zenon DEF Gathered, FoldLeft, MapThenFoldSet, Grown
<1>2. n \in Nat /\ DOMAIN list = 1..n
  OBVIOUS
<1>3. \A k \in 1..n, m \in Seq(T) : Grown(m, list[k], plain) \in Seq(T)
  <2> SUFFICES ASSUME NEW k \in 1..n, NEW m \in Seq(T)
               PROVE  Grown(m, list[k], plain) \in Seq(T)
    OBVIOUS
  <2>1. list[k] \in Seq(T)
    OBVIOUS
  <2>2. m \o list[k] \in Seq(T)
    BY <2>1, ConcatProperties
  <2>3. QED
    BY <2>2 DEF Grown
<1>4. /\ U \in [1..n -> [Seq(T) -> Seq(T)]]
      /\ \A k \in 1..n, m \in Seq(T) : U[k][m] = Grown(m, list[k], plain)
  BY <1>3
<1>5. <<>> \in Seq(T)
  OBVIOUS
<1> HIDE DEF n, U
<1>6. \E it : Iter(it)
  <2>1. PICK h : FoldsUp(h, n, Seq(T), <<>>, U)
    BY <1>2, <1>4, <1>5, FoldLeftExists
  <2>2. ASSUME NEW s \in SUBSET (1..n), s # {}
        PROVE  h[s] = Grown(h[s \ {Max(s)}], list[Max(s)], plain)
    <3>1. Max(s) \in 1..n /\ s \ {Max(s)} \in SUBSET (1..n)
      BY <1>2, <2>2, GreatestIndex
    <3>2. h[s] = U[Max(s)][h[s \ {Max(s)}]] /\ h[s \ {Max(s)}] \in Seq(T)
      BY <2>1, <2>2, <3>1 DEF FoldsUp
    <3>3. QED
      BY <1>4, <3>1, <3>2
  <2>3. /\ h = [s \in SUBSET (1..n) |-> h[s]]
        /\ h[{}] = <<>>
    BY <2>1 DEF FoldsUp
  <2>4. Iter(h)
    BY <1>2, <2>2, <2>3
  <2>5. QED
    BY <2>4
<1>7. Iter(iter)
  <2> HIDE DEF Iter
  <2>1. QED
    BY <1>6
<1> HIDE DEF iter
<1>8. iter[{}] = <<>> /\ \A s \in SUBSET (1..n) : s # {} =>
             iter[s] = Grown(iter[s \ {Max(s)}], list[Max(s)], plain)
  BY <1>2, <1>7
<1>9. ASSUME NEW k \in 1..n
      PROVE  iter[1..k] = Grown(iter[1..(k - 1)], list[k], plain)
  <2>1. /\ 1..k \in SUBSET (1..n) /\ 1..k # {}
        /\ Max(1..k) = k /\ (1..k) \ {k} = 1..(k - 1)
    BY <1>2, FirstIndices
  <2>2. iter[1..k] = Grown(iter[(1..k) \ {Max(1..k)}], list[Max(1..k)], plain)
    BY <1>8, <2>1
  <2>3. QED
    BY <2>1, <2>2
<1>10. PICK P : Runs(P, n, Seq(T), <<>>, U) /\ P[n] = iter[1..n]
  <2>1. \A k \in 1..n : iter[1..(k - 1)] \in Seq(T) => iter[1..k] = U[k][iter[1..(k - 1)]]
    BY <1>4, <1>9
  <2>2. StepsThrough(iter, n, Seq(T), <<>>, U)
    BY <1>4, <1>5, <1>8, <2>1 DEF StepsThrough
  <2>3. QED
    BY <1>2, <2>2, FoldLeftRuns
<1>11. Gathers(P, T, list, plain)
  <2>1. /\ P \in [0..n -> Seq(T)] /\ P[0] = <<>>
        /\ \A k \in 1..n : P[k] = U[k][P[k - 1]]
    BY <1>10 DEF Runs
  <2>2. \A k \in 1..n : P[k - 1] \in Seq(T)
    BY <1>2, <2>1
  <2>3. QED
    BY <1>1, <1>2, <1>4, <1>10, <2>1, <2>2 DEF Gathers, n
<1>12. QED
  BY <1>11

\* Folding a bracket keeps its leaves: none appears, and as many entries are named.
LEMMA GatheredAll ==
    ASSUME NEW T \in SUBSET Leaf, NEW list \in Seq(Seq(T) \ {<<>>}), list # <<>>
    PROVE  LET all == Gathered(list, TRUE) \o Gathered(list, FALSE)
           IN  all \in Seq(T) \ {<<>>} /\ ScenesIn(all) = SceneSteps(list)
<1> DEFINE n == Len(list)
           all == Gathered(list, TRUE) \o Gathered(list, FALSE)
<1>1. /\ list \in Seq(Seq(T)) /\ list \in Seq(AnyStep)
  <2>1. Seq(T) \subseteq AnyStep
    BY SeqMonotonic DEF AnyStep
  <2>2. QED
    BY <2>1, SeqMonotonic
<1>2. PICK P : Gathers(P, T, list, TRUE)
  BY <1>1, Gatherings
<1>3. PICK Q : Gathers(Q, T, list, FALSE)
  BY <1>1, Gatherings
<1>4. PICK S : Sums(S, list)
  BY <1>1, SceneSums
<1>5. \A k \in 1..n : list[k] \in Seq(T) /\ list[k] # <<>>
  OBVIOUS
<1>0. n \in Nat /\ n >= 1 /\ n \in 0..n /\ n \in 1..n /\ n - 1 \in 0..n
  <2>1. n \in Nat /\ n # 0
    OBVIOUS
  <2> HIDE DEF n
  <2>2. QED
    BY <2>1
<1>6. /\ P \in [0..n -> Seq(T)] /\ P[0] = <<>> /\ Gathered(list, TRUE) = P[n]
      /\ \A k \in 1..n : P[k] = Grown(P[k - 1], list[k], TRUE)
  BY <1>2 DEF Gathers
<1>7. /\ Q \in [0..n -> Seq(T)] /\ Q[0] = <<>> /\ Gathered(list, FALSE) = Q[n]
      /\ \A k \in 1..n : Q[k] = Grown(Q[k - 1], list[k], FALSE)
  BY <1>3 DEF Gathers
<1>8. /\ S \in [0..n -> Nat] /\ S[0] = 0 /\ SceneSteps(list) = S[n]
      /\ \A k \in 1..n : S[k] = S[k - 1] + ScenesIn(list[k])
  BY <1>4 DEF Sums
<1> HIDE DEF n
<1>9. \A k \in 1..n : \/ /\ P[k] = P[k - 1] \o list[k] /\ Q[k] = Q[k - 1]
                      \/ /\ P[k] = P[k - 1] /\ Q[k] = Q[k - 1] \o list[k]
  BY <1>6, <1>7 DEF Grown
<1>10. \A k \in 0..n : ScenesIn(P[k]) + ScenesIn(Q[k]) = S[k]
  <2> DEFINE Same == {k \in Nat : k <= n => ScenesIn(P[k]) + ScenesIn(Q[k]) = S[k]}
  <2>1. 0 \in Same
    BY <1>6, <1>7, <1>8, ScenesInPlain
  <2>2. ASSUME NEW k \in Nat, k \in Same PROVE k + 1 \in Same
    <3> SUFFICES ASSUME k + 1 <= n PROVE ScenesIn(P[k + 1]) + ScenesIn(Q[k + 1]) = S[k + 1]
      OBVIOUS
    <3>1. k + 1 \in 1..n /\ (k + 1) - 1 = k /\ k \in 0..n /\ ScenesIn(P[k]) + ScenesIn(Q[k]) = S[k]
      <4>1. k + 1 \in 1..n /\ (k + 1) - 1 = k /\ k \in 0..n /\ k <= n
        BY <1>0
      <4>2. QED
        BY <2>2, <4>1
    <3>2. P[k] \in Seq(T) /\ Q[k] \in Seq(T) /\ list[k + 1] \in Seq(T)
      BY <1>5, <1>6, <1>7, <3>1
    <3>3. /\ ScenesIn(P[k] \o list[k + 1]) = ScenesIn(P[k]) + ScenesIn(list[k + 1])
          /\ ScenesIn(Q[k] \o list[k + 1]) = ScenesIn(Q[k]) + ScenesIn(list[k + 1])
      BY <3>2, ScenesInConcat
    <3>4. ScenesIn(P[k]) \in Nat /\ ScenesIn(Q[k]) \in Nat /\ ScenesIn(list[k + 1]) \in Nat
      <4>1. Len(P[k]) \in Nat /\ Len(Q[k]) \in Nat /\ Len(list[k + 1]) \in Nat
        BY <3>2
      <4>2. QED
        BY <4>1, ScenesInNat
    <3>5. S[k + 1] = S[k] + ScenesIn(list[k + 1]) /\ S[k] \in Nat
      BY <1>8, <3>1
    <3>6. \/ P[k + 1] = P[k] \o list[k + 1] /\ Q[k + 1] = Q[k]
          \/ P[k + 1] = P[k] /\ Q[k + 1] = Q[k] \o list[k + 1]
      BY <1>9, <3>1
    <3>7. \/ /\ ScenesIn(P[k + 1]) = ScenesIn(P[k]) + ScenesIn(list[k + 1])
             /\ ScenesIn(Q[k + 1]) = ScenesIn(Q[k])
          \/ /\ ScenesIn(P[k + 1]) = ScenesIn(P[k])
             /\ ScenesIn(Q[k + 1]) = ScenesIn(Q[k]) + ScenesIn(list[k + 1])
      BY <3>3, <3>6
    <3>8. S[k] = ScenesIn(P[k]) + ScenesIn(Q[k])
      BY <3>1
    <3>9. QED
      BY <3>4, <3>5, <3>7, <3>8
  <2>3. Nat \subseteq Same
    <3> HIDE DEF Same
    <3>1. QED
      BY <2>1, <2>2, NatSetInduction
  <2>4. QED
    BY <1>0, <2>3
<1>11. P[n] \in Seq(T) /\ Q[n] \in Seq(T) /\ P[n - 1] \in Seq(T) /\ Q[n - 1] \in Seq(T)
  BY <1>0, <1>6, <1>7
<1>12. P[n] # <<>> \/ Q[n] # <<>>
  <2>1. n \in 1..n /\ list[n] \in Seq(T) /\ list[n] # <<>>
    BY <1>0, <1>5
  <2>2. P[n - 1] \o list[n] # <<>> /\ Q[n - 1] \o list[n] # <<>>
    BY <1>11, <2>1, ConcatEqualIffEmpty
  <2>3. QED
    BY <1>9, <2>1, <2>2
<1>13. P[n] \o Q[n] \in Seq(T) /\ P[n] \o Q[n] # <<>>
  <2> DEFINE p == P[n]
             q == Q[n]
  <2>1. p \in Seq(T) /\ q \in Seq(T) /\ (p # <<>> \/ q # <<>>)
    BY <1>11, <1>12
  <2> HIDE DEF p, q
  <2>2. p \o q \in Seq(T)
    BY <2>1, ConcatProperties
  <2>3. p \o q # <<>>
    BY <2>1, ConcatEqualIffEmpty
  <2>4. QED
    BY <2>2, <2>3 DEF p, q
<1>14. ScenesIn(P[n] \o Q[n]) = ScenesIn(P[n]) + ScenesIn(Q[n])
  BY <1>11, ScenesInConcat
<1>15. ScenesIn(P[n]) + ScenesIn(Q[n]) = S[n]
  BY <1>0, <1>10
<1>16. QED
  BY <1>6, <1>7, <1>8, <1>13, <1>14, <1>15

-----------------------------------------------------------------------------
\* The lists of the session: budget, push, reconciliation with the stack.

\* A barrier is a step of its own: no leaf of another step is one.
FreeLeaf == Leaf \ {Barrier}

\* The steps a host can have pushed, and the lists of them.
WholeStep == (Seq(FreeLeaf) \ {<<>>}) \cup {<<Barrier>>}
ListsType == [steps: Seq(WholeStep), redo: Seq(WholeStep), dropped: Nat]

\* What is left of the lists when the oldest have gone.
Fewer(r, lists) ==
    /\ r \in ListsType
    /\ SceneSteps(r.steps) <= SceneSteps(lists.steps)
    /\ SceneSteps(r.redo) <= SceneSteps(lists.redo)
    /\ r.dropped >= lists.dropped
    /\ r.dropped = lists.dropped => r.steps = lists.steps
    /\ lists.steps # <<>> => r.steps # <<>> /\ Last(r.steps) = Last(lists.steps)

\* The lists with one step more, and nothing to redo.
Pushed(r, lists, step) ==
    /\ r \in ListsType
    /\ r.redo = <<>>
    /\ SceneSteps(r.steps) <= SceneSteps(lists.steps) + ScenesIn(step)
    /\ r.dropped >= lists.dropped
    /\ r.dropped = lists.dropped => r.steps = Append(lists.steps, step)

\* What kind of leaves these steps have.
LEMMA StepTypes ==
    /\ Scene \in FreeLeaf /\ <<Scene>> \in WholeStep /\ <<Barrier>> \in WholeStep
    /\ WholeStep \subseteq AnyStep /\ WholeStep \subseteq Step
    /\ Seq(WholeStep) \subseteq Seq(AnyStep) /\ Seq(WholeStep) \subseteq Seq(Step)
    /\ \A s \in WholeStep : ScenesIn(s) \in Nat /\ (s # <<Barrier>> => s \in Seq(FreeLeaf) \ {<<>>})
<1>1. Scene \in Leaf /\ Barrier \in Leaf /\ Scene # Barrier
  BY DEF Leaf, Scene, Barrier
<1>2. Scene \in FreeLeaf /\ FreeLeaf \subseteq Leaf
  BY <1>1 DEF FreeLeaf
<1>3. Seq(FreeLeaf) \subseteq Seq(Leaf)
  BY <1>2, SeqMonotonic
<1>4. <<Scene>> \in Seq(FreeLeaf) /\ <<Barrier>> \in Seq(Leaf) /\ <<Scene>> # <<>> /\ <<Barrier>> # <<>>
  BY <1>1, <1>2
<1>5. WholeStep \subseteq AnyStep /\ WholeStep \subseteq Step
  BY <1>3, <1>4 DEF WholeStep, AnyStep, Step
<1>6. Seq(WholeStep) \subseteq Seq(AnyStep) /\ Seq(WholeStep) \subseteq Seq(Step)
  BY <1>5, SeqMonotonic
<1>7. \A s \in WholeStep : ScenesIn(s) \in Nat
  <2>1. \A s \in AnyStep : Len(s) \in Nat
    BY DEF AnyStep
  <2>2. QED
    BY <1>5, <2>1, ScenesInNat
<1>8. QED
  BY <1>2, <1>4, <1>5, <1>6, <1>7 DEF WholeStep

\* The least number of losses that suffices is one of those allowed.
LEMMA FewestExists ==
    ASSUME NEW most \in Nat, NEW F
    PROVE  \E k \in 0..most : (k = most \/ k \in F) /\ \A j \in 0..(k - 1) : j \notin F
<1> DEFINE T == {k \in 0..most : k = most \/ k \in F}
<1>1. T \in SUBSET Nat /\ T # {}
  OBVIOUS
<1>2. PICK k \in T : \A j \in T : k <= j
  <2> HIDE DEF T
  <2>1. QED
    BY <1>1, LeastNat
<1>3. \A j \in 0..(k - 1) : j \notin F
  <2> SUFFICES ASSUME NEW j \in 0..(k - 1), j \in F PROVE FALSE
    OBVIOUS
  <2>1. k \in Nat /\ k <= most /\ j \in Nat /\ j < k
    OBVIOUS
  <2>2. j \in T
    BY <2>1
  <2>3. QED
    BY <1>2, <2>1, <2>2
<1>4. QED
  BY <1>2, <1>3

\* Eviction takes the oldest of redo, and the oldest steps but never the newest.
LEMMA EvictTakes ==
    ASSUME NEW lists \in ListsType, NEW commands, NEW limit
    PROVE  \E r \in 0..Len(lists.redo), s \in 0..Evictable(lists.steps) :
              Evict(lists, commands, limit) = Evicted(lists, r, s)
<1> DEFINE spent(r, s) == Cost([lists EXCEPT !.redo = Without(@, r),
                                             !.steps = Without(@, s)], commands) <= limit
           most == Len(lists.redo)
           r0 == CHOOSE k \in 0..most :
                    /\ k = most \/ spent(k, 0)
                    /\ \A j \in 0..(k - 1) : ~spent(j, 0)
           least == Evictable(lists.steps)
           s0 == CHOOSE k \in 0..least :
                    /\ k = least \/ spent(r0, k)
                    /\ \A j \in 0..(k - 1) : ~spent(r0, j)
<1>1. Evict(lists, commands, limit) = Evicted(lists, r0, s0)
  BY DEF Evict, FewestDropped
<1>2. most \in Nat /\ least \in Nat
  BY DEF ListsType, Evictable
<1> HIDE DEF spent, most, least
<1>3. r0 \in 0..most
  <2> DEFINE F == {k \in 0..most : spent(k, 0)}
  <2>1. PICK k \in 0..most : (k = most \/ k \in F) /\ \A j \in 0..(k - 1) : j \notin F
    <3> HIDE DEF F
    <3>1. QED
      BY <1>2, FewestExists
  <2>2. \A j \in 0..(k - 1) : j \in 0..most
    BY <1>2
  <2>3. /\ k = most \/ spent(k, 0)
        /\ \A j \in 0..(k - 1) : ~spent(j, 0)
    BY <2>1, <2>2
  <2>4. QED
    BY <2>3
<1> HIDE DEF r0
<1>4. s0 \in 0..least
  <2> DEFINE F == {k \in 0..least : spent(r0, k)}
  <2>1. PICK k \in 0..least : (k = least \/ k \in F) /\ \A j \in 0..(k - 1) : j \notin F
    <3> HIDE DEF F
    <3>1. QED
      BY <1>2, FewestExists
  <2>2. \A j \in 0..(k - 1) : j \in 0..least
    BY <1>2
  <2>3. /\ k = least \/ spent(r0, k)
        /\ \A j \in 0..(k - 1) : ~spent(r0, j)
    BY <2>1, <2>2
  <2>4. QED
    BY <2>3
<1> HIDE DEF s0
<1>5. QED
  BY <1>1, <1>3, <1>4 DEF most, least

\* Without its oldest elements, a list keeps its newest.
LEMMA WithoutKeeps ==
    ASSUME NEW list \in Seq(WholeStep), NEW k \in 0..Len(list)
    PROVE  /\ Without(list, k) \in Seq(WholeStep)
           /\ Len(Without(list, k)) = Len(list) - k
           /\ SceneSteps(Without(list, k)) <= SceneSteps(list)
           /\ k = 0 => Without(list, k) = list
           /\ k < Len(list) => Without(list, k) # <<>> /\ Last(Without(list, k)) = Last(list)
<1>1. /\ Without(list, k) \in Seq(WholeStep)
      /\ Len(Without(list, k)) = Len(list) - k
      /\ k = 0 => Without(list, k) = list
      /\ k < Len(list) => Without(list, k) # <<>> /\ Last(Without(list, k)) = Last(list)
  <2>1. Len(list) \in Nat /\ k \in Nat /\ k <= Len(list)
    OBVIOUS
  <2> DEFINE w == SubSeq(list, k + 1, Len(list))
  <2>2. w \in Seq(WholeStep) /\ Len(w) = Len(list) - k
    BY <2>1
  <2>3. \A i \in 1..Len(w) : w[i] = list[k + i]
    BY <2>1
  <2>4. k = 0 => w = list
    BY SubSeqFull
  <2> HIDE DEF w
  <2>5. ASSUME k < Len(list) PROVE w # <<>> /\ w[Len(w)] = list[Len(list)]
    <3>1. Len(w) \in 1..Len(w) /\ k + Len(w) = Len(list)
      BY <2>1, <2>2, <2>5
    <3>2. w[Len(w)] = list[Len(list)]
      BY <2>3, <3>1
    <3>3. QED
      BY <2>1, <2>2, <2>5, <3>2
  <2>6. Without(list, k) = w
    BY DEF Without, w
  <2>7. QED
    BY <2>2, <2>4, <2>5, <2>6 DEF Last
<1>2. SceneSteps(Without(list, k)) <= SceneSteps(list)
  <2>1. list \in Seq(AnyStep)
    BY StepTypes
  <2>2. SceneSteps(list) = SceneSteps(SubSeq(list, 1, k)) + SceneSteps(Without(list, k))
    BY <2>1, SceneStepsMoves
  <2>3. SceneSteps(SubSeq(list, 1, k)) \in Nat /\ SceneSteps(Without(list, k)) \in Nat
    <3>1. SubSeq(list, 1, k) \in Seq(WholeStep)
      OBVIOUS
    <3>2. QED
      BY <1>1, <3>1, SceneStepsMoves, StepTypes
  <2>4. QED
    BY <2>2, <2>3
<1>3. QED
  BY <1>1, <1>2

\* What a list of the session names is a number.
LEMMA SceneStepsNat ==
    ASSUME NEW list \in Seq(WholeStep)
    PROVE  SceneSteps(list) \in Nat
BY StepTypes, SceneStepsMoves

\* Evicting only drops the oldest steps, and never the newest one.
LEMMA EvictKeeps ==
    ASSUME NEW lists \in ListsType, NEW commands, NEW limit
    PROVE  Fewer(Evict(lists, commands, limit), lists)
<1>1. PICK r \in 0..Len(lists.redo), s \in 0..Evictable(lists.steps) :
              Evict(lists, commands, limit) = Evicted(lists, r, s)
  BY EvictTakes
<1>2. lists.steps \in Seq(WholeStep) /\ lists.redo \in Seq(WholeStep) /\ lists.dropped \in Nat
  BY DEF ListsType
<1>3. s \in Nat /\ s \in 0..Len(lists.steps) /\ (lists.steps # <<>> => s < Len(lists.steps))
  BY <1>2 DEF Evictable
<1> DEFINE e == Evicted(lists, r, s)
<1>4. /\ e.steps = Without(lists.steps, s) /\ e.redo = Without(lists.redo, r)
      /\ e.dropped = lists.dropped + s
      /\ e = [steps |-> e.steps, redo |-> e.redo, dropped |-> e.dropped]
  BY DEF Evicted
<1> HIDE DEF e
<1>5. e.steps \in Seq(WholeStep) /\ e.redo \in Seq(WholeStep) /\ e.dropped \in Nat
  BY <1>2, <1>3, <1>4, WithoutKeeps
<1>6. e \in ListsType
  BY <1>4, <1>5 DEF ListsType
<1>7. e.dropped >= lists.dropped /\ (e.dropped = lists.dropped => s = 0)
  BY <1>2, <1>3, <1>4
<1>8. Fewer(e, lists)
  BY <1>2, <1>3, <1>4, <1>6, <1>7, WithoutKeeps DEF Fewer
<1>9. QED
  BY <1>1, <1>8 DEF e

\* Nor does enforcing the budget.
LEMMA EnforceBudgetKeeps ==
    ASSUME NEW lists \in ListsType, NEW commands, NEW grouping \in BOOLEAN
    PROVE  Fewer(EnforceBudget(lists, commands, grouping), lists)
<1>1. Fewer(lists, lists)
  <2>1. lists.steps \in Seq(WholeStep) /\ lists.redo \in Seq(WholeStep) /\ lists.dropped \in Nat
    BY DEF ListsType
  <2>2. SceneSteps(lists.steps) \in Nat /\ SceneSteps(lists.redo) \in Nat
    BY <2>1, SceneStepsNat
  <2>3. QED
    BY <2>1, <2>2 DEF Fewer
<1>2. QED
  BY <1>1, EvictKeeps DEF EnforceBudget

\* A push appends its step, clears what could be redone, and drops only
\* the oldest steps.
LEMMA PushPushes ==
    ASSUME NEW lists \in ListsType, NEW commands, NEW grouping \in BOOLEAN,
           NEW step \in WholeStep
    PROVE  Pushed(Push(lists, commands, grouping, step), lists, step)
<1> DEFINE more == [lists EXCEPT !.steps = Append(@, step)]
           kept == EnforceBudget(more, commands, grouping)
           r == [kept EXCEPT !.redo = <<>>]
<1>1. Push(lists, commands, grouping, step) = r
  BY DEF Push
<1>2. lists.steps \in Seq(WholeStep) /\ lists.redo \in Seq(WholeStep) /\ lists.dropped \in Nat
  BY DEF ListsType
<1>3. /\ more \in ListsType /\ more.steps = Append(lists.steps, step)
      /\ more.dropped = lists.dropped
  <2> DEFINE longer == Append(lists.steps, step)
  <2>1. longer \in Seq(WholeStep) /\ more = [lists EXCEPT !.steps = longer]
    BY <1>2
  <2> HIDE DEF longer, more
  <2>2. more \in ListsType /\ more.steps = longer /\ more.dropped = lists.dropped
    BY <2>1 DEF ListsType
  <2>3. QED
    BY <2>2 DEF longer
<1> HIDE DEF more
<1>4. Fewer(kept, more)
  BY <1>3, EnforceBudgetKeeps
<1> HIDE DEF kept
<1>5. /\ r \in ListsType /\ r.redo = <<>> /\ r.steps = kept.steps /\ r.dropped = kept.dropped
  <2>1. kept \in ListsType
    BY <1>4 DEF Fewer
  <2> DEFINE none == <<>>
  <2>2. none \in Seq(WholeStep) /\ r = [kept EXCEPT !.redo = none]
    OBVIOUS
  <2> HIDE DEF none, r
  <2>3. r \in ListsType /\ r.redo = none /\ r.steps = kept.steps /\ r.dropped = kept.dropped
    BY <2>1, <2>2 DEF ListsType
  <2>4. QED
    BY <2>3 DEF none
<1> HIDE DEF r
<1>6. SceneSteps(Append(lists.steps, step)) = SceneSteps(lists.steps) + ScenesIn(step)
  BY <1>2, StepTypes, SceneStepsMoves
<1>7. QED
  BY <1>1, <1>3, <1>4, <1>5, <1>6 DEF Fewer, Pushed

\* The two loops of the reconciliation, step after step.
Adds(P, lists, commands, n, r) ==
    /\ P \in [0..n -> ListsType] /\ P[0] = lists /\ P[n] = r
    /\ \A k \in 1..n : P[k] = Push(P[k - 1], commands, FALSE, <<Scene>>)

\* One turn of the loop of sync_scene_steps that forgets.
Removal(lists) == [lists EXCEPT !.steps = WithoutNewestScene(@)]

\* A forgotten step leaves lists of steps.
LEMMA RemovalType ==
    ASSUME NEW lists \in ListsType
    PROVE  Removal(lists) \in ListsType
<1> DEFINE list == lists.steps
           at == {i \in 1..Len(list) : list[i] = <<Scene>>}
           shorter == WithoutNewestScene(list)
<1>1. list \in Seq(WholeStep)
  BY DEF ListsType
<1> HIDE DEF list
<1>2. shorter \in Seq(WholeStep)
  <2>1. CASE at = {}
    BY <1>1, <2>1 DEF WithoutNewestScene
  <2>2. CASE at # {}
    <3> DEFINE i == CHOOSE i \in at : \A j \in at : j <= i
    <3>1. at \in SUBSET (1..Len(list)) /\ Len(list) \in Nat
      BY <1>1
    <3>2. \E x \in at : \A j \in at : j <= x
      <4>1. Max(at) \in at /\ \A x \in at : Max(at) >= x
        BY <2>2, <3>1, GreatestIndex
      <4>2. \A x \in at : x <= Max(at)
        BY <3>1, <4>1
      <4>3. QED
        BY <4>1, <4>2
    <3> HIDE DEF at
    <3>3. i \in 1..Len(list)
      BY <3>1, <3>2
    <3>4. shorter = RemoveAt(list, i)
      BY <2>2 DEF WithoutNewestScene, at
    <3> HIDE DEF i
    <3>5. SubSeq(list, 1, i - 1) \in Seq(WholeStep)
      BY <1>1, <3>3
    <3>6. SubSeq(list, i + 1, Len(list)) \in Seq(WholeStep)
      BY <1>1, <3>3
    <3>7. QED
      BY <3>4, <3>5, <3>6, ConcatProperties DEF RemoveAt
  <2>3. QED
    BY <2>1, <2>2
<1>3. Removal(lists) = [lists EXCEPT !.steps = shorter]
  BY DEF Removal, list
<1> HIDE DEF shorter
<1>4. QED
  BY <1>2, <1>3 DEF ListsType

\* A stack that has more entries than the steps name: the steps are added one
\* after the other.
LEMMA SyncAdds ==
    ASSUME NEW lists \in ListsType, NEW commands, NEW n \in Nat, n > 0,
           Len(commands.undo) \in Nat, n = Len(commands.undo) - SceneSteps(lists.steps)
    PROVE  \E P : Adds(P, lists, commands, n, SyncSceneSteps(lists, commands, FALSE))
<1> DEFINE times == [i \in 1..n |-> i]
           More(acc) == Push(acc, commands, FALSE, <<Scene>>)
           U == [k \in 1..n |-> [m \in ListsType |-> More(m)]]
           Iter(it) == it = [s \in SUBSET DOMAIN times |->
                               IF s = {} THEN lists ELSE More(it[s \ {Max(s)}])]
           iter == CHOOSE it : Iter(it)
           r == SyncSceneSteps(lists, commands, FALSE)
<1>1. SceneSteps(lists.steps) \in Nat
  BY SceneStepsNat DEF ListsType
<1>2. SceneSteps(lists.steps) < Len(commands.undo)
  BY <1>1
<1>3. r = iter[DOMAIN times]
  <2>1. r = FoldLeft(LAMBDA acc, i : Push(acc, commands, FALSE, <<Scene>>), lists,
                     [i \in 1..(Len(commands.undo) - SceneSteps(lists.steps)) |-> i])
    BY <1>2 DEF SyncSceneSteps
  <2>2. FoldLeft(LAMBDA acc, i : Push(acc, commands, FALSE, <<Scene>>), lists, times)
            = iter[DOMAIN times]
    BY DEF FoldLeft, MapThenFoldSet
  <2>3. QED
    BY <2>1, <2>2
<1> HIDE DEF r
<1>4. DOMAIN times = 1..n
  OBVIOUS
<1> HIDE DEF times
<1>5. \A m \in ListsType : More(m) \in ListsType
  <2>1. <<Scene>> \in WholeStep
    BY StepTypes
  <2>2. QED
    BY <2>1, PushPushes DEF Pushed
<1>6. /\ U \in [1..n -> [ListsType -> ListsType]]
      /\ \A k \in 1..n, m \in ListsType : U[k][m] = More(m)
  BY <1>5
<1> HIDE DEF U, More
<1>7. \E it : Iter(it)
  <2>1. PICK h : FoldsUp(h, n, ListsType, lists, U)
    BY <1>6, FoldLeftExists
  <2>2. ASSUME NEW s \in SUBSET (1..n), s # {}
        PROVE  h[s] = More(h[s \ {Max(s)}])
    <3>1. Max(s) \in 1..n /\ s \ {Max(s)} \in SUBSET (1..n)
      BY <2>2, GreatestIndex
    <3>2. h[s] = U[Max(s)][h[s \ {Max(s)}]] /\ h[s \ {Max(s)}] \in ListsType
      BY <2>1, <2>2, <3>1 DEF FoldsUp
    <3>3. QED
      BY <1>6, <3>1, <3>2
  <2>3. /\ h = [s \in SUBSET (1..n) |-> h[s]]
        /\ h[{}] = lists
    BY <2>1 DEF FoldsUp
  <2>4. Iter(h)
    BY <1>4, <2>2, <2>3
  <2>5. QED
    BY <2>4
<1>8. Iter(iter)
  <2> HIDE DEF Iter
  <2>1. QED
    BY <1>7
<1> HIDE DEF iter
<1>9. iter[{}] = lists /\ \A s \in SUBSET (1..n) : s # {} =>
             iter[s] = More(iter[s \ {Max(s)}])
  BY <1>4, <1>8
<1>10. ASSUME NEW k \in 1..n PROVE iter[1..k] = More(iter[1..(k - 1)])
  <2>1. /\ 1..k \in SUBSET (1..n) /\ 1..k # {}
        /\ Max(1..k) = k /\ (1..k) \ {k} = 1..(k - 1)
    BY FirstIndices
  <2>2. iter[1..k] = More(iter[(1..k) \ {Max(1..k)}])
    BY <1>9, <2>1
  <2>3. QED
    BY <2>1, <2>2
<1>11. PICK P : Runs(P, n, ListsType, lists, U) /\ P[n] = iter[1..n]
  <2>1. \A k \in 1..n : iter[1..(k - 1)] \in ListsType => iter[1..k] = U[k][iter[1..(k - 1)]]
    BY <1>6, <1>10
  <2>2. StepsThrough(iter, n, ListsType, lists, U)
    BY <1>6, <1>9, <2>1 DEF StepsThrough
  <2>3. QED
    BY <2>2, FoldLeftRuns
<1>12. Adds(P, lists, commands, n, r)
  <2>1. /\ P \in [0..n -> ListsType] /\ P[0] = lists
        /\ \A k \in 1..n : P[k] = U[k][P[k - 1]]
    BY <1>11 DEF Runs
  <2>2. \A k \in 1..n : P[k - 1] \in ListsType
    BY <2>1
  <2>3. \A k \in 1..n : P[k] = More(P[k - 1])
    BY <1>6, <2>1, <2>2
  <2>4. QED
    BY <1>3, <1>4, <1>11, <2>1, <2>3 DEF Adds, More
<1>13. QED
  BY <1>12 DEF r

\* Reconciling when the list names fewer entries than there are: every entry is
\* named when nothing is evicted, and the redo side is gone.
LEMMA SyncCatchesUp ==
    ASSUME NEW lists \in ListsType, NEW commands, Len(commands.undo) \in Nat,
           SceneSteps(lists.steps) < Len(commands.undo)
    PROVE  LET r == SyncSceneSteps(lists, commands, FALSE)
           IN  /\ r \in ListsType /\ r.redo = <<>> /\ r.dropped >= lists.dropped
               /\ SceneSteps(r.steps) <= Len(commands.undo)
               /\ r.dropped = lists.dropped => SceneSteps(r.steps) = Len(commands.undo)
<1> DEFINE c == SceneSteps(lists.steps)
           n == Len(commands.undo) - c
           r == SyncSceneSteps(lists, commands, FALSE)
<1>1. c \in Nat /\ lists.dropped \in Nat
  BY SceneStepsNat DEF ListsType
<1>2. n \in Nat /\ n > 0 /\ c + n = Len(commands.undo)
  BY <1>1
<1>3. PICK P : Adds(P, lists, commands, n, r)
  BY <1>2, SyncAdds
<1> HIDE DEF n, r
<1>4. /\ P \in [0..n -> ListsType] /\ P[0] = lists /\ P[n] = r
      /\ \A k \in 1..n : P[k] = Push(P[k - 1], commands, FALSE, <<Scene>>)
  BY <1>3 DEF Adds
<1>5. ASSUME NEW k \in 1..n
      PROVE  /\ P[k - 1] \in ListsType /\ P[k] \in ListsType /\ P[k].redo = <<>>
             /\ SceneSteps(P[k].steps) <= SceneSteps(P[k - 1].steps) + 1
             /\ P[k].dropped >= P[k - 1].dropped
             /\ P[k].dropped = P[k - 1].dropped =>
                    SceneSteps(P[k].steps) = SceneSteps(P[k - 1].steps) + 1
  <2>1. k - 1 \in 0..n /\ P[k - 1] \in ListsType
    BY <1>2, <1>4
  <2>2. <<Scene>> \in WholeStep /\ ScenesIn(<<Scene>>) = 1
    BY StepTypes, ScenesInPlain
  <2>3. Pushed(P[k], P[k - 1], <<Scene>>)
    BY <1>4, <2>1, <2>2, PushPushes
  <2>4. SceneSteps(Append(P[k - 1].steps, <<Scene>>)) = SceneSteps(P[k - 1].steps) + 1
    <3>1. P[k - 1].steps \in Seq(AnyStep) /\ <<Scene>> \in AnyStep
      BY <2>1, <2>2, StepTypes DEF ListsType
    <3>2. QED
      BY <2>2, <3>1, SceneStepsMoves
  <2>5. QED
    BY <2>1, <2>2, <2>3, <2>4 DEF Pushed
<1>6. \A k \in 0..n : /\ SceneSteps(P[k].steps) \in Nat /\ P[k].dropped \in Nat
  <2> SUFFICES ASSUME NEW k \in 0..n
               PROVE  SceneSteps(P[k].steps) \in Nat /\ P[k].dropped \in Nat
    OBVIOUS
  <2>1. P[k] \in ListsType
    BY <1>4
  <2>2. QED
    BY <2>1, SceneStepsNat DEF ListsType
<1> DEFINE Holds(k) == /\ P[k].dropped >= lists.dropped
                       /\ SceneSteps(P[k].steps) <= c + k
                       /\ P[k].dropped = lists.dropped => SceneSteps(P[k].steps) = c + k
           Good == {k \in Nat : k <= n => Holds(k)}
<1>7. 0 \in Good
  BY <1>1, <1>4
<1>8. ASSUME NEW k \in Nat, k \in Good PROVE k + 1 \in Good
  <2> SUFFICES ASSUME k + 1 <= n PROVE Holds(k + 1)
    OBVIOUS
  <2>1. k + 1 \in 1..n /\ (k + 1) - 1 = k /\ k \in 0..n /\ k + 1 \in 0..n /\ Holds(k)
    BY <1>2, <1>8
  <2> DEFINE a == SceneSteps(P[k].steps)
             b == SceneSteps(P[k + 1].steps)
             d == P[k].dropped
             e == P[k + 1].dropped
             f == lists.dropped
  <2>2. a \in Nat /\ b \in Nat /\ d \in Nat /\ e \in Nat /\ f \in Nat
    BY <1>1, <1>6, <2>1
  <2>3. /\ b <= a + 1 /\ e >= d /\ (e = d => b = a + 1)
    BY <1>5, <2>1
  <2>4. /\ d >= f /\ a <= c + k /\ (d = f => a = c + k)
    BY <2>1
  <2> HIDE DEF a, b, d, e, f, c
  <2>5. /\ e >= f /\ b <= c + (k + 1) /\ (e = f => b = c + (k + 1))
    BY <1>1, <2>2, <2>3, <2>4
  <2>6. QED
    BY <2>5 DEF a, b, d, e, f
<1>9. Holds(n)
  <2>1. Nat \subseteq Good
    <3> HIDE DEF Good
    <3>1. QED
      BY <1>7, <1>8, NatSetInduction
  <2>2. QED
    BY <1>2, <2>1
<1>10. n \in 1..n
  BY <1>2
<1>11. QED
  BY <1>2, <1>4, <1>5, <1>9, <1>10 DEF r

\* The lists while steps are forgotten.
Removes(P, lists, n, r) ==
    /\ P \in [0..n -> ListsType] /\ P[0] = lists /\ P[n] = r
    /\ \A k \in 1..n : P[k] = Removal(P[k - 1])

\* A stack that has fewer entries than the steps name: the newest ones are
\* forgotten one after the other.
LEMMA SyncRemoves ==
    ASSUME NEW lists \in ListsType, NEW commands, NEW n \in Nat,
           Len(commands.undo) \in Nat, n = SceneSteps(lists.steps) - Len(commands.undo)
    PROVE  \E P : Removes(P, lists, n, SyncSceneSteps(lists, commands, FALSE))
<1> DEFINE times == [i \in 1..n |-> i]
           U == [k \in 1..n |-> [m \in ListsType |-> Removal(m)]]
           Iter(it) == it = [s \in SUBSET DOMAIN times |->
                               IF s = {} THEN lists ELSE Removal(it[s \ {Max(s)}])]
           iter == CHOOSE it : Iter(it)
           r == SyncSceneSteps(lists, commands, FALSE)
<1>1. SceneSteps(lists.steps) \in Nat
  BY SceneStepsNat DEF ListsType
<1>2. ~ (SceneSteps(lists.steps) < Len(commands.undo))
  BY <1>1
<1>3. r = iter[DOMAIN times]
  <2>1. r = FoldLeft(LAMBDA acc, i : [acc EXCEPT !.steps = WithoutNewestScene(@)], lists,
                     [i \in 1..(SceneSteps(lists.steps) - Len(commands.undo)) |-> i])
    BY <1>2 DEF SyncSceneSteps
  <2>2. FoldLeft(LAMBDA acc, i : [acc EXCEPT !.steps = WithoutNewestScene(@)], lists, times)
            = iter[DOMAIN times]
    BY DEF FoldLeft, MapThenFoldSet, Removal
  <2>3. QED
    BY <2>1, <2>2
<1> HIDE DEF r
<1>4. DOMAIN times = 1..n
  OBVIOUS
<1> HIDE DEF times
<1>5. \A m \in ListsType : Removal(m) \in ListsType
  BY RemovalType
<1>6. /\ U \in [1..n -> [ListsType -> ListsType]]
      /\ \A k \in 1..n, m \in ListsType : U[k][m] = Removal(m)
  BY <1>5
<1> HIDE DEF U
<1>7. \E it : Iter(it)
  <2>1. PICK h : FoldsUp(h, n, ListsType, lists, U)
    BY <1>6, FoldLeftExists
  <2>2. ASSUME NEW s \in SUBSET (1..n), s # {}
        PROVE  h[s] = Removal(h[s \ {Max(s)}])
    <3>1. Max(s) \in 1..n /\ s \ {Max(s)} \in SUBSET (1..n)
      BY <2>2, GreatestIndex
    <3>2. h[s] = U[Max(s)][h[s \ {Max(s)}]] /\ h[s \ {Max(s)}] \in ListsType
      BY <2>1, <2>2, <3>1 DEF FoldsUp
    <3>3. QED
      BY <1>6, <3>1, <3>2
  <2>3. /\ h = [s \in SUBSET (1..n) |-> h[s]]
        /\ h[{}] = lists
    BY <2>1 DEF FoldsUp
  <2>4. Iter(h)
    BY <1>4, <2>2, <2>3
  <2>5. QED
    BY <2>4
<1>8. Iter(iter)
  <2> HIDE DEF Iter
  <2>1. QED
    BY <1>7
<1> HIDE DEF iter
<1>9. iter[{}] = lists /\ \A s \in SUBSET (1..n) : s # {} =>
             iter[s] = Removal(iter[s \ {Max(s)}])
  BY <1>4, <1>8
<1>10. ASSUME NEW k \in 1..n PROVE iter[1..k] = Removal(iter[1..(k - 1)])
  <2>1. /\ 1..k \in SUBSET (1..n) /\ 1..k # {}
        /\ Max(1..k) = k /\ (1..k) \ {k} = 1..(k - 1)
    BY FirstIndices
  <2>2. iter[1..k] = Removal(iter[(1..k) \ {Max(1..k)}])
    BY <1>9, <2>1
  <2>3. QED
    BY <2>1, <2>2
<1>11. PICK P : Runs(P, n, ListsType, lists, U) /\ P[n] = iter[1..n]
  <2>1. \A k \in 1..n : iter[1..(k - 1)] \in ListsType => iter[1..k] = U[k][iter[1..(k - 1)]]
    BY <1>6, <1>10
  <2>2. StepsThrough(iter, n, ListsType, lists, U)
    BY <1>6, <1>9, <2>1 DEF StepsThrough
  <2>3. QED
    BY <2>2, FoldLeftRuns
<1>12. Removes(P, lists, n, r)
  <2>1. /\ P \in [0..n -> ListsType] /\ P[0] = lists
        /\ \A k \in 1..n : P[k] = U[k][P[k - 1]]
    BY <1>11 DEF Runs
  <2>2. \A k \in 1..n : P[k - 1] \in ListsType
    BY <2>1
  <2>3. \A k \in 1..n : P[k] = Removal(P[k - 1])
    BY <1>6, <2>1, <2>2
  <2>4. QED
    BY <1>3, <1>4, <1>11, <2>1, <2>3 DEF Removes
<1>13. QED
  BY <1>12 DEF r

\* Reconciling keeps the lists well formed, whatever they name, and leaves a list
\* alone that names every entry.
LEMMA SyncSettles ==
    ASSUME NEW lists \in ListsType, NEW commands, NEW grouping \in BOOLEAN,
           Len(commands.undo) \in Nat
    PROVE  LET r == SyncSceneSteps(lists, commands, grouping)
           IN  /\ r \in ListsType
               /\ grouping \/ SceneSteps(lists.steps) = Len(commands.undo) => r = lists
<1>1. CASE grouping
  BY <1>1 DEF SyncSceneSteps
<1>2. CASE grouping = FALSE /\ SceneSteps(lists.steps) < Len(commands.undo)
  <2>1. SceneSteps(lists.steps) \in Nat
    BY SceneStepsNat DEF ListsType
  <2>2. SyncSceneSteps(lists, commands, FALSE) \in ListsType
    BY <1>2, SyncCatchesUp
  <2>3. SceneSteps(lists.steps) # Len(commands.undo)
    BY <1>2, <2>1
  <2>4. QED
    BY <1>2, <2>2, <2>3
<1>3. CASE grouping = FALSE /\ ~ (SceneSteps(lists.steps) < Len(commands.undo))
  <2> DEFINE n == SceneSteps(lists.steps) - Len(commands.undo)
             r == SyncSceneSteps(lists, commands, FALSE)
  <2>1. SceneSteps(lists.steps) \in Nat
    BY SceneStepsNat DEF ListsType
  <2>2. n \in Nat
    BY <1>3, <2>1
  <2>3. PICK P : Removes(P, lists, n, r)
    BY <2>2, SyncRemoves
  <2>4. SceneSteps(lists.steps) = Len(commands.undo) => n = 0
    BY <2>1
  <2> HIDE DEF n, r
  <2>5. r \in ListsType /\ (n = 0 => r = lists)
    BY <2>2, <2>3 DEF Removes
  <2>6. QED
    BY <1>3, <2>4, <2>5 DEF r
<1>4. QED
  BY <1>1, <1>2, <1>3

\* Folding a bracket into one step keeps what the list names.
LEMMA CollapseFolds ==
    ASSUME NEW lists \in ListsType, NEW commands, start \in Nat
    PROVE  LET r == CollapseGroup(lists, commands)
           IN  /\ r \in ListsType
               /\ SceneSteps(r.steps) <= SceneSteps(lists.steps)
               /\ SceneSteps(r.redo) <= SceneSteps(lists.redo)
               /\ r.dropped >= lists.dropped
               /\ r.dropped = lists.dropped => SceneSteps(r.steps) = SceneSteps(lists.steps)
<1> DEFINE list     == lists.steps
           from     == IF start > Len(list) THEN Len(list) ELSE start
           produced == Without(list, from)
           compound == Gathered(produced, TRUE) \o Gathered(produced, FALSE)
           first    == SubSeq(list, 1, from)
           folded   == [lists EXCEPT !.steps = Append(SubSeq(@, 1, from), compound)]
           r        == CollapseGroup(lists, commands)
<1>1. r = IF FoldsIntoOne(produced) THEN EnforceBudget(folded, commands, FALSE) ELSE lists
  BY DEF CollapseGroup
<1> HIDE DEF r
<1>2. list \in Seq(WholeStep) /\ lists.redo \in Seq(WholeStep) /\ lists.dropped \in Nat
  BY DEF ListsType
<1>3. from \in 0..Len(list)
  BY <1>2
<1>4. SceneSteps(list) \in Nat /\ SceneSteps(lists.redo) \in Nat
  BY <1>2, SceneStepsNat
<1>5. CASE ~ FoldsIntoOne(produced)
  BY <1>1, <1>2, <1>4, <1>5 DEF r
<1>6. CASE FoldsIntoOne(produced)
  <2>1. produced \in Seq(WholeStep) /\ Len(produced) >= 2
        /\ \A i \in 1..Len(produced) : Reversible(produced[i])
    BY <1>2, <1>3, <1>6, WithoutKeeps DEF FoldsIntoOne
  <2>2. first \in Seq(WholeStep)
    BY <1>2, <1>3
  <2>3. SceneSteps(list) = SceneSteps(first) + SceneSteps(produced)
    <3>1. list \in Seq(AnyStep)
      BY <1>2, StepTypes
    <3>2. QED
      BY <1>3, <3>1, SceneStepsMoves
  <2> HIDE DEF produced, first, from, list
  <2>4. produced \in Seq(Seq(FreeLeaf) \ {<<>>}) /\ produced # <<>>
    <3>1. \A i \in 1..Len(produced) : produced[i] \in Seq(FreeLeaf) \ {<<>>}
      BY <2>1 DEF Reversible, WholeStep
    <3>2. produced \in [1..Len(produced) -> Seq(FreeLeaf) \ {<<>>}] /\ Len(produced) \in Nat
      BY <2>1, <3>1
    <3>3. \A S : \A m \in Nat : [1..m -> S] \subseteq Seq(S)
      OBVIOUS
    <3>4. produced # <<>>
      BY <2>1
    <3>5. QED
      BY <3>2, <3>3, <3>4
  <2>5. compound \in Seq(FreeLeaf) \ {<<>>} /\ ScenesIn(compound) = SceneSteps(produced)
    <3>1. FreeLeaf \in SUBSET Leaf
      BY DEF FreeLeaf
    <3>2. QED
      BY <2>4, <3>1, GatheredAll
  <2> HIDE DEF compound
  <2>6. compound \in WholeStep
    BY <2>5 DEF WholeStep
  <2> DEFINE whole == Append(first, compound)
  <2>7. /\ whole \in Seq(WholeStep)
        /\ SceneSteps(whole) = SceneSteps(first) + ScenesIn(compound)
    <3>1. first \in Seq(AnyStep) /\ compound \in AnyStep
      BY <2>2, <2>6, StepTypes
    <3>2. QED
      BY <2>2, <2>6, <3>1, SceneStepsMoves
  <2>8. folded = [lists EXCEPT !.steps = whole]
    BY DEF first, list
  <2> HIDE DEF whole, folded
  <2>9. folded \in ListsType /\ folded.steps = whole /\ folded.redo = lists.redo
        /\ folded.dropped = lists.dropped
    BY <2>7, <2>8 DEF ListsType
  <2>10. Fewer(r, folded)
    BY <1>1, <1>6, <2>9, EnforceBudgetKeeps
  <2>11. SceneSteps(whole) = SceneSteps(list)
    BY <2>3, <2>5, <2>7
  <2>12. QED
    BY <2>9, <2>10, <2>11 DEF Fewer, r, list
<1>7. QED
  BY <1>5, <1>6

-----------------------------------------------------------------------------
\* The edit list and its stack: how far each operation moves the two sizes.

\* What an edit leaves is a document, and what takes it back is a command.
LEMMA EditTypes ==
    ASSUME NEW d \in Document, NEW cmd \in Command, Applicable(d, cmd)
    PROVE  Applied(d, cmd) \in Document /\ InverseOf(d, cmd) \in Command
<1> DEFINE n == cmd.node
           item == d[n]
<1>1. n \in Nodes
  BY DEF Command
<1>2. item \in Item \cup {NoItem}
  BY <1>1 DEF Document
<1>3. /\ \A i \in Item \cup {NoItem} : [d EXCEPT ![n] = i] \in Document
  BY <1>1 DEF Document
<1> HIDE DEF n
<1>4. CASE cmd.op = "AddNode"
  <2>1. cmd.item \in Item
    BY <1>4 DEF Command
  <2>2. Applied(d, cmd) = [d EXCEPT ![n] = cmd.item]
    BY <1>4 DEF Applied, n
  <2>3. InverseOf(d, cmd) = [op |-> "RemoveNode", node |-> n]
    BY <1>4 DEF InverseOf, n
  <2>4. Applied(d, cmd) \in Document
    BY <1>3, <2>1, <2>2
  <2>5. InverseOf(d, cmd) \in Command
    BY <1>1, <2>3 DEF Command
  <2>6. QED
    BY <2>4, <2>5
<1>5. CASE cmd.op = "RemoveNode"
  <2>1. item \in Item
    BY <1>2, <1>5 DEF Applicable, n
  <2>2. Applied(d, cmd) = [d EXCEPT ![n] = NoItem]
    BY <1>5 DEF Applied, n
  <2>3. InverseOf(d, cmd) = [op |-> "AddNode", node |-> n, item |-> item]
    BY <1>5 DEF InverseOf, n
  <2> HIDE DEF item
  <2>4. Applied(d, cmd) \in Document
    BY <1>3, <2>2
  <2>5. InverseOf(d, cmd) \in Command
    BY <1>1, <2>1, <2>3 DEF Command
  <2>6. QED
    BY <2>4, <2>5
<1>6. CASE cmd.op = "SetColor"
  <2>1. item \in Item /\ cmd.color \in Colors
    BY <1>2, <1>6 DEF Applicable, Command, n
  <2>2. Applied(d, cmd) = [d EXCEPT ![n] = [item EXCEPT !.color = cmd.color]]
    BY <1>6 DEF Applied, n
  <2>3. InverseOf(d, cmd) = [op |-> "SetColor", node |-> n, color |-> item.color]
    BY <1>6 DEF InverseOf, n
  <2> HIDE DEF item
  <2>4. [item EXCEPT !.color = cmd.color] \in Item /\ item.color \in Colors
    BY <2>1 DEF Item
  <2> DEFINE painted == [item EXCEPT !.color = cmd.color]
             was == item.color
  <2>5. painted \in Item /\ was \in Colors
    BY <2>4
  <2>6. Applied(d, cmd) = [d EXCEPT ![n] = painted]
        /\ InverseOf(d, cmd) = [op |-> "SetColor", node |-> n, color |-> was]
    BY <2>2, <2>3
  <2> HIDE DEF painted, was
  <2>7. Applied(d, cmd) \in Document
    BY <1>3, <2>5, <2>6
  <2>8. InverseOf(d, cmd) \in Command
    BY <1>1, <2>5, <2>6 DEF Command
  <2>9. QED
    BY <2>7, <2>8
<1>7. CASE cmd.op = "AppendStroke"
  <2>1. item \in Item /\ cmd.points \in Seq(Points)
    BY <1>2, <1>7 DEF Applicable, Command, n
  <2>2. Applied(d, cmd) = [d EXCEPT ![n] = [item EXCEPT !.stroke = @ \o cmd.points]]
    BY <1>7 DEF Applied, n
  <2>3. InverseOf(d, cmd) = [op |-> "TrimStroke", node |-> n, count |-> Len(cmd.points)]
    BY <1>7 DEF InverseOf, n
  <2> HIDE DEF item
  <2> DEFINE longer == item.stroke \o cmd.points
  <2>4. longer \in Seq(Points) /\ Len(cmd.points) \in Nat
    BY <2>1 DEF Item
  <2>5. [item EXCEPT !.stroke = @ \o cmd.points] = [item EXCEPT !.stroke = longer]
    OBVIOUS
  <2> HIDE DEF longer
  <2>6. [item EXCEPT !.stroke = longer] \in Item
    BY <2>1, <2>4 DEF Item
  <2> DEFINE grown == [item EXCEPT !.stroke = longer]
             size == Len(cmd.points)
  <2>7. grown \in Item /\ size \in Nat
    BY <2>4, <2>6
  <2>8. Applied(d, cmd) = [d EXCEPT ![n] = grown]
        /\ InverseOf(d, cmd) = [op |-> "TrimStroke", node |-> n, count |-> size]
    BY <2>2, <2>3, <2>5
  <2> HIDE DEF grown, size
  <2>9. Applied(d, cmd) \in Document
    BY <1>3, <2>7, <2>8
  <2>10. InverseOf(d, cmd) \in Command
    BY <1>1, <2>7, <2>8 DEF Command
  <2>11. QED
    BY <2>9, <2>10
<1>8. CASE cmd.op = "TrimStroke"
  <2>1. item \in Item /\ cmd.count \in Nat /\ cmd.count <= Len(item.stroke)
    BY <1>2, <1>8 DEF Applicable, Command, n
  <2>2. Applied(d, cmd) = [d EXCEPT ![n] = [item EXCEPT !.stroke = SubSeq(@, 1, Len(@) - cmd.count)]]
    BY <1>8 DEF Applied, n
  <2> DEFINE tail == SubSeq(item.stroke, Len(item.stroke) - cmd.count + 1, Len(item.stroke))
             shorter == SubSeq(item.stroke, 1, Len(item.stroke) - cmd.count)
  <2>3. InverseOf(d, cmd) = [op |-> "AppendStroke", node |-> n, points |-> tail]
    BY <1>8 DEF InverseOf, n
  <2>4. Applied(d, cmd) = [d EXCEPT ![n] = [item EXCEPT !.stroke = shorter]]
    BY <2>2
  <2> HIDE DEF item
  <2>5. item.stroke \in Seq(Points)
    BY <2>1 DEF Item
  <2>6. tail \in Seq(Points)
    BY <2>1, <2>5
  <2>7. shorter \in Seq(Points)
    BY <2>1, <2>5
  <2> HIDE DEF tail, shorter
  <2>8. [item EXCEPT !.stroke = shorter] \in Item
    BY <2>1, <2>7 DEF Item
  <2> DEFINE cut == [item EXCEPT !.stroke = shorter]
  <2>9. cut \in Item
    BY <2>8
  <2>10. Applied(d, cmd) = [d EXCEPT ![n] = cut]
    BY <2>4
  <2> HIDE DEF cut
  <2>11. Applied(d, cmd) \in Document
    BY <1>3, <2>9, <2>10
  <2>12. InverseOf(d, cmd) \in Command
    BY <1>1, <2>3, <2>6 DEF Command
  <2>13. QED
    BY <2>11, <2>12
<1>9. QED
  BY <1>4, <1>5, <1>6, <1>7, <1>8 DEF Command

\* The sizes of the stack, which is what the history relies on.
Undos(w) == Len(w.commands.undo)
Redos(w) == Len(w.commands.redo)

\* What is left of a sequence without its last element.
LEMMA FrontLen ==
    ASSUME NEW S, NEW s \in Seq(S), s # <<>>
    PROVE  /\ Front(s) \in Seq(S) /\ Len(Front(s)) = Len(s) - 1
           /\ Len(SubSeq(s, 1, Len(s) - 1)) = Len(s) - 1
           /\ \A k \in 1..(Len(s) - 1) : Front(s)[k] = s[k]
           /\ Last(s) \in S
<1> DEFINE m == Len(s) - 1
           f == SubSeq(s, 1, m)
<1>1. Len(s) \in Nat /\ m \in Nat
  OBVIOUS
<1>2. f \in Seq(S)
  BY <1>1
<1>3. \A i \in 1..m : s[i] \in S
  BY <1>1
<1>4. 1 \in Int /\ m \in Int
  BY <1>1
<1> HIDE DEF m
<1>5. /\ Len(f) = IF 1 <= m THEN m - 1 + 1 ELSE 0
      /\ \A i \in 1..(m - 1 + 1) : f[i] = s[1 + i - 1]
  BY <1>3, <1>4, SubSeqProperties
<1>6. Len(f) = m /\ \A i \in 1..m : f[i] = s[i]
  BY <1>1, <1>5
<1>7. s[Len(s)] \in S
  BY <1>1, ElementOfSeq DEF m
<1>8. QED
  BY <1>2, <1>6, <1>7 DEF Front, Last, f, m

\* The newest entry of a stack, replaced.
LEMMA RetopKeeps ==
    ASSUME NEW undo \in Seq(Entry), undo # <<>>, NEW entry \in Entry
    PROVE  /\ Retop(undo, entry) \in Seq(Entry)
           /\ Len(Retop(undo, entry)) = Len(undo)
           /\ Last(Retop(undo, entry)) = entry /\ Retop(undo, entry) # <<>>
<1>1. Len(undo) \in Nat /\ Len(undo) > 0
  OBVIOUS
<1> DEFINE f == SubSeq(undo, 1, Len(undo) - 1)
<1>2. f \in Seq(Entry)
  BY <1>1
<1>3. Len(f) = Len(undo) - 1
  BY FrontLen
<1> HIDE DEF f
<1>4. /\ Append(f, entry) \in Seq(Entry) /\ Len(Append(f, entry)) = Len(undo)
      /\ Append(f, entry)[Len(undo)] = entry /\ Append(f, entry) # <<>>
  BY <1>1, <1>2, <1>3, AppendProperties
<1>5. QED
  BY <1>4 DEF Retop, Last, Front, f

\* What performing a command does to the stack.
StackMoves(r, stack, coalesced) ==
    /\ r \in UndoStackType
    /\ r.depth = stack.depth
    /\ r.redo = <<>>
    /\ stack.depth > 0 /\ stack.undo # <<>> =>
          Len(r.undo) = Len(stack.undo) /\ Last(r.undo) # <<>> /\ r.undo # <<>>
    /\ ~ (stack.depth > 0 /\ stack.undo # <<>>) =>
          Len(r.undo) = Len(stack.undo) + (IF coalesced THEN 0 ELSE 1)

\* What an applied command does to the sizes of the stack.
LEMMA StackAfterMoves ==
    ASSUME NEW stack \in UndoStackType, NEW d \in Document, NEW cmd \in Command,
           Applicable(d, cmd)
    PROVE  StackMoves(StackAfter(stack, d, cmd), stack, Coalesces(stack, cmd))
<1> DEFINE inverse == InverseOf(d, cmd)
           undo == stack.undo
           top == Last(undo)
           merged == [top[1] EXCEPT !.count = @ + Len(cmd.points)]
           inGroup == stack.depth > 0 /\ undo # <<>>
           co == Coalesces(stack, cmd)
           newUndo == IF inGroup THEN Retop(undo, Append(top, inverse))
                      ELSE IF co THEN Retop(undo, <<merged>>)
                      ELSE Append(undo, <<inverse>>)
           r == StackAfter(stack, d, cmd)
           none == <<>>
<1>1. r = [stack EXCEPT !.redo = none, !.undo = newUndo]
  BY DEF StackAfter
<1>2. undo \in Seq(Entry) /\ stack.depth \in Nat /\ stack.redo \in Seq(Entry)
  BY DEF UndoStackType
<1>3. inverse \in Command
  BY EditTypes
<1>4. undo # <<>> => top \in Entry
  BY <1>2 DEF Last
<1> HIDE DEF r, inverse, undo, top
<1>5. CASE inGroup
  <2>1. Append(top, inverse) \in Entry /\ Append(top, inverse) # <<>>
    BY <1>3, <1>4, <1>5, AppendProperties DEF Entry
  <2>2. newUndo \in Seq(Entry) /\ Len(newUndo) = Len(undo) /\ Last(newUndo) # <<>> /\ newUndo # <<>>
    BY <1>2, <1>5, <2>1, RetopKeeps
  <2> HIDE DEF newUndo
  <2>3. none \in Seq(Entry)
    OBVIOUS
  <2> HIDE DEF none
  <2>4. r \in UndoStackType /\ r.depth = stack.depth /\ r.redo = none /\ r.undo = newUndo
    BY <1>1, <2>2, <2>3 DEF UndoStackType
  <2>5. QED
    BY <1>5, <2>2, <2>4 DEF StackMoves, r, none, undo
<1>6. CASE ~ inGroup /\ co
  <2>1. /\ cmd.op = "AppendStroke" /\ undo # <<>> /\ Len(top) = 1 /\ top[1].op = "TrimStroke"
    BY <1>6 DEF Coalesces, undo, top
  <2>2. cmd.points \in Seq(Points) /\ Len(cmd.points) \in Nat
    BY <2>1 DEF Command
  <2>3. top[1] \in Command
    <3>1. top \in Seq(Command) /\ 1 \in 1..Len(top)
      BY <1>4, <2>1 DEF Entry
    <3>2. QED
      BY <3>1, ElementOfSeq
  <2> DEFINE old == top[1]
             sum == old.count + Len(cmd.points)
  <2>4. old \in [op: {"TrimStroke"}, node: Nodes, count: Nat]
    BY <2>1, <2>3 DEF Command
  <2>5. merged = [old EXCEPT !.count = sum]
    OBVIOUS
  <2> HIDE DEF old
  <2>6. sum \in Nat
    BY <2>2, <2>4
  <2> HIDE DEF sum, merged
  <2>7. merged \in Command
    BY <2>4, <2>5, <2>6 DEF Command
  <2>8. <<merged>> \in Entry
    BY <2>7 DEF Entry
  <2>9. newUndo \in Seq(Entry) /\ Len(newUndo) = Len(undo)
    BY <1>2, <1>6, <2>1, <2>8, RetopKeeps
  <2> HIDE DEF newUndo
  <2>10. none \in Seq(Entry)
    OBVIOUS
  <2> HIDE DEF none
  <2>11. r \in UndoStackType /\ r.depth = stack.depth /\ r.redo = none /\ r.undo = newUndo
    BY <1>1, <2>9, <2>10 DEF UndoStackType
  <2>12. Len(undo) \in Nat
    BY <1>2
  <2>13. QED
    BY <1>6, <2>9, <2>11, <2>12 DEF StackMoves, r, none, undo
<1>7. CASE ~ inGroup /\ ~ co
  <2>1. <<inverse>> \in Entry
    BY <1>3 DEF Entry
  <2>2. newUndo \in Seq(Entry) /\ Len(newUndo) = Len(undo) + 1
    BY <1>2, <1>7, <2>1, AppendProperties
  <2> HIDE DEF newUndo
  <2>3. none \in Seq(Entry)
    OBVIOUS
  <2> HIDE DEF none
  <2>4. r \in UndoStackType /\ r.depth = stack.depth /\ r.redo = none /\ r.undo = newUndo
    BY <1>1, <2>2, <2>3 DEF UndoStackType
  <2>5. QED
    BY <1>7, <2>2, <2>4 DEF StackMoves, r, none, undo
<1>8. QED
  BY <1>5, <1>6, <1>7

\* A performed command moves the sizes of the stack, one that is refused
\* changes nothing.
LEMMA PerformMoves ==
    ASSUME NEW w \in World, NEW cmd \in Command
    PROVE  LET r == StackPerform(w, cmd)
           IN  /\ r \in World
               /\ Applicable(w.doc, cmd) =>
                     StackMoves(r.commands, w.commands, Coalesces(w.commands, cmd))
               /\ ~ Applicable(w.doc, cmd) => r = w
<1>1. w.doc \in Document /\ w.commands \in UndoStackType
  BY DEF World
<1>2. CASE Applicable(w.doc, cmd)
  <2> DEFINE d == Applied(w.doc, cmd)
             c == StackAfter(w.commands, w.doc, cmd)
             r == StackPerform(w, cmd)
  <2>1. d \in Document
    BY <1>1, <1>2, EditTypes
  <2>2. StackMoves(c, w.commands, Coalesces(w.commands, cmd))
    BY <1>1, <1>2, StackAfterMoves
  <2>3. r = [w EXCEPT !.doc = d, !.commands = c]
    BY <1>2 DEF StackPerform
  <2> HIDE DEF d, c, r
  <2>4. r \in World /\ r.commands = c
    BY <2>1, <2>2, <2>3 DEF World, StackMoves
  <2>5. QED
    BY <1>2, <2>2, <2>4 DEF r
<1>3. CASE ~ Applicable(w.doc, cmd)
  BY <1>3 DEF StackPerform
<1>4. QED
  BY <1>2, <1>3

\* An engine call's commands, one after the other.
EngineEdited(w, cmds) == FoldLeft(StackPerform, w, cmds)

\* The worlds an engine call goes through.
Performs(P, w, cmds) ==
    /\ P \in [0..Len(cmds) -> World] /\ P[0] = w
    /\ \A k \in 1..Len(cmds) : P[k] = StackPerform(P[k - 1], cmds[k])
    /\ P[Len(cmds)] = EngineEdited(w, cmds)

\* They exist, and each is what a command makes of the one before.
LEMMA PerformRuns ==
    ASSUME NEW w \in World, NEW cmds \in Seq(Command)
    PROVE  \E P : Performs(P, w, cmds)
<1> DEFINE n == Len(cmds)
           U == [k \in 1..n |-> [m \in World |-> StackPerform(m, cmds[k])]]
           Iter(it) == it = [s \in SUBSET DOMAIN cmds |->
                               IF s = {} THEN w
                               ELSE StackPerform(it[s \ {Max(s)}], cmds[Max(s)])]
           iter == CHOOSE it : Iter(it)
<1>1. EngineEdited(w, cmds) = iter[DOMAIN cmds]
  BY DEF EngineEdited, FoldLeft, MapThenFoldSet
<1>2. n \in Nat /\ DOMAIN cmds = 1..n
  OBVIOUS
<1>3. \A k \in 1..n, m \in World : StackPerform(m, cmds[k]) \in World
  <2> SUFFICES ASSUME NEW k \in 1..n, NEW m \in World PROVE StackPerform(m, cmds[k]) \in World
    OBVIOUS
  <2>1. cmds[k] \in Command
    OBVIOUS
  <2>2. QED
    BY <2>1, PerformMoves
<1>4. /\ U \in [1..n -> [World -> World]]
      /\ \A k \in 1..n, m \in World : U[k][m] = StackPerform(m, cmds[k])
  BY <1>3
<1> HIDE DEF n, U
<1>5. \E it : Iter(it)
  <2>1. PICK h : FoldsUp(h, n, World, w, U)
    BY <1>2, <1>4, FoldLeftExists
  <2>2. ASSUME NEW s \in SUBSET (1..n), s # {}
        PROVE  h[s] = StackPerform(h[s \ {Max(s)}], cmds[Max(s)])
    <3>1. Max(s) \in 1..n /\ s \ {Max(s)} \in SUBSET (1..n)
      BY <1>2, <2>2, GreatestIndex
    <3>2. h[s] = U[Max(s)][h[s \ {Max(s)}]] /\ h[s \ {Max(s)}] \in World
      BY <2>1, <2>2, <3>1 DEF FoldsUp
    <3>3. QED
      BY <1>4, <3>1, <3>2
  <2>3. /\ h = [s \in SUBSET (1..n) |-> h[s]]
        /\ h[{}] = w
    BY <2>1 DEF FoldsUp
  <2>4. Iter(h)
    BY <1>2, <2>2, <2>3
  <2>5. QED
    BY <2>4
<1>6. Iter(iter)
  <2> HIDE DEF Iter
  <2>1. QED
    BY <1>5
<1> HIDE DEF iter
<1>7. iter[{}] = w /\ \A s \in SUBSET (1..n) : s # {} =>
             iter[s] = StackPerform(iter[s \ {Max(s)}], cmds[Max(s)])
  BY <1>2, <1>6
<1>8. ASSUME NEW k \in 1..n
      PROVE  iter[1..k] = StackPerform(iter[1..(k - 1)], cmds[k])
  <2>1. /\ 1..k \in SUBSET (1..n) /\ 1..k # {}
        /\ Max(1..k) = k /\ (1..k) \ {k} = 1..(k - 1)
    BY <1>2, FirstIndices
  <2>2. iter[1..k] = StackPerform(iter[(1..k) \ {Max(1..k)}], cmds[Max(1..k)])
    BY <1>7, <2>1
  <2>3. QED
    BY <2>1, <2>2
<1>9. PICK P : Runs(P, n, World, w, U) /\ P[n] = iter[1..n]
  <2>1. \A k \in 1..n : iter[1..(k - 1)] \in World => iter[1..k] = U[k][iter[1..(k - 1)]]
    BY <1>4, <1>8
  <2>2. iter[{}] = w /\ w \in World /\ n \in Nat
    BY <1>2, <1>7
  <2>3. StepsThrough(iter, n, World, w, U)
    BY <1>4, <2>1, <2>2 DEF StepsThrough
  <2>4. QED
    BY <1>2, <1>4, <2>3, FoldLeftRuns
<1>10. Performs(P, w, cmds)
  <2>1. /\ P \in [0..n -> World] /\ P[0] = w
        /\ \A k \in 1..n : P[k] = U[k][P[k - 1]]
    BY <1>9 DEF Runs
  <2>2. \A k \in 1..n : P[k - 1] \in World
    BY <1>2, <2>1
  <2>3. \A k \in 1..n : P[k] = StackPerform(P[k - 1], cmds[k])
    BY <1>4, <2>1, <2>2
  <2>4. QED
    BY <1>1, <1>2, <1>9, <2>1, <2>3 DEF Performs, n
<1>11. QED
  BY <1>10

\* What is left of an open bracket when commands were performed in it: no entry
\* more or less, and an entry still empty means nothing was changed.
LEMMA EngineMoves ==
    ASSUME NEW w \in World, NEW cmds \in Seq(Command)
    PROVE  LET e == EngineEdited(w, cmds)
           IN  /\ e \in World /\ e.commands.depth = w.commands.depth
               /\ w.commands.depth > 0 /\ w.commands.undo # <<>> =>
                     /\ Undos(e) = Undos(w) /\ e.commands.undo # <<>>
                     /\ Last(e.commands.undo) = <<>> => e = w
<1> DEFINE e == EngineEdited(w, cmds)
           n == Len(cmds)
           open == w.commands.depth > 0 /\ w.commands.undo # <<>>
<1>1. PICK P : Performs(P, w, cmds)
  BY PerformRuns
<1>2. n \in Nat
  OBVIOUS
<1> HIDE DEF e
<1>3. /\ P \in [0..n -> World] /\ P[0] = w /\ P[n] = e
      /\ \A k \in 1..n : P[k] = StackPerform(P[k - 1], cmds[k])
  BY <1>1 DEF Performs, e
<1>4. \A k \in 1..n : cmds[k] \in Command
  OBVIOUS
<1> HIDE DEF n
<1> DEFINE Holds(k) == /\ P[k].commands.depth = w.commands.depth
                       /\ open => /\ Undos(P[k]) = Undos(w) /\ P[k].commands.undo # <<>>
                                  /\ Last(P[k].commands.undo) = <<>> => P[k] = w
           Good == {k \in Nat : k <= n => Holds(k)}
<1>5. 0 \in Good
  BY <1>2, <1>3
<1>6. ASSUME NEW k \in Nat, k \in Good PROVE k + 1 \in Good
  <2> SUFFICES ASSUME k + 1 <= n PROVE Holds(k + 1)
    OBVIOUS
  <2>1. k + 1 \in 1..n /\ (k + 1) - 1 = k /\ k \in 0..n /\ Holds(k)
    BY <1>2, <1>6
  <2>2. P[k] \in World /\ cmds[k + 1] \in Command
    BY <1>3, <1>4, <2>1
  <2>3. P[k + 1] = StackPerform(P[k], cmds[k + 1])
    BY <1>3, <2>1
  <2>4. CASE ~ Applicable(P[k].doc, cmds[k + 1])
    <3>1. P[k + 1] = P[k]
      BY <2>2, <2>3, <2>4, PerformMoves
    <3>2. QED
      BY <2>1, <3>1
  <2>5. CASE Applicable(P[k].doc, cmds[k + 1])
    <3>1. StackMoves(P[k + 1].commands, P[k].commands, Coalesces(P[k].commands, cmds[k + 1]))
      BY <2>2, <2>3, <2>5, PerformMoves
    <3>2. QED
      BY <2>1, <3>1 DEF StackMoves, Undos
  <2>6. QED
    BY <2>4, <2>5
<1>7. Holds(n)
  <2>1. Nat \subseteq Good
    <3> HIDE DEF Good
    <3>1. QED
      BY <1>5, <1>6, NatSetInduction
  <2>2. QED
    BY <1>2, <2>1
<1>8. e \in World
  BY <1>2, <1>3
<1>9. QED
  BY <1>3, <1>7, <1>8 DEF e

\* Opening a bracket of the stack.
LEMMA BeginMoves ==
    ASSUME NEW w \in World
    PROVE  LET b == [w EXCEPT !.commands = StackBeginGroup(@)]
           IN  /\ b \in World /\ b.commands.depth = w.commands.depth + 1
               /\ b.commands.redo = w.commands.redo
               /\ w.commands.depth > 0 => b.commands.undo = w.commands.undo
               /\ w.commands.depth = 0 =>
                     /\ Undos(b) = Undos(w) + 1 /\ b.commands.undo # <<>>
                     /\ Last(b.commands.undo) = <<>>
<1> DEFINE old == w.commands
           deeper == old.depth + 1
           undo == IF old.depth = 0 THEN Append(old.undo, <<>>) ELSE old.undo
           c == [old EXCEPT !.depth = deeper, !.undo = undo]
           b == [w EXCEPT !.commands = StackBeginGroup(@)]
<1>1. b = [w EXCEPT !.commands = c]
  BY DEF StackBeginGroup
<1>2. old \in UndoStackType
  BY DEF World
<1> HIDE DEF b, old
<1>3. deeper \in Nat /\ old.undo \in Seq(Entry)
  BY <1>2 DEF UndoStackType
<1>4. <<>> \in Entry
  BY DEF Entry
<1>5. /\ undo \in Seq(Entry) /\ (old.depth > 0 => undo = old.undo)
      /\ old.depth = 0 => Len(undo) = Len(old.undo) + 1 /\ undo # <<>> /\ Last(undo) = <<>>
  BY <1>3, <1>4, AppendProperties DEF Last
<1> HIDE DEF deeper, undo
<1>6. c \in UndoStackType /\ c.depth = deeper /\ c.undo = undo /\ c.redo = old.redo
  BY <1>2, <1>3, <1>5 DEF UndoStackType
<1> HIDE DEF c
<1>7. b \in World /\ b.commands = c
  BY <1>1, <1>6 DEF World
<1>8. QED
  BY <1>5, <1>6, <1>7 DEF b, old, deeper, Undos

\* Closing one: an entry nothing was collected in goes.
LEMMA EndMoves ==
    ASSUME NEW w \in World
    PROVE  LET b == [w EXCEPT !.commands = StackEndGroup(@)]
           IN  /\ b \in World
               /\ b.commands.depth = IF w.commands.depth = 0 THEN 0 ELSE w.commands.depth - 1
               /\ b.commands.redo = w.commands.redo
               /\ w.commands.depth > 1 => b.commands.undo = w.commands.undo
               /\ w.commands.depth = 1 /\ w.commands.undo # <<>> =>
                     Undos(b) = IF Last(w.commands.undo) = <<>> THEN Undos(w) - 1 ELSE Undos(w)
               /\ w.commands.depth = 1 /\ w.commands.undo # <<>> /\ Last(w.commands.undo) = <<>> =>
                     b.commands.undo = SubSeq(w.commands.undo, 1, Undos(w) - 1)
<1> DEFINE old == w.commands
           drops == old.depth = 1 /\ old.undo # <<>> /\ Last(old.undo) = <<>>
           front == SubSeq(old.undo, 1, Len(old.undo) - 1)
           undo == IF drops THEN front ELSE old.undo
           out == old.depth - 1
           c == [old EXCEPT !.depth = out, !.undo = undo]
           b == [w EXCEPT !.commands = StackEndGroup(@)]
<1>1. b = [w EXCEPT !.commands = IF old.depth = 0 THEN old ELSE c]
  BY DEF StackEndGroup, Front
<1>2. old \in UndoStackType
  BY DEF World
<1> HIDE DEF b, old
<1>3. old.depth \in Nat /\ old.undo \in Seq(Entry) /\ Len(old.undo) \in Nat
  BY <1>2 DEF UndoStackType
<1>4. old.undo # <<>> => front \in Seq(Entry)
  BY <1>3
<1>5. old.undo # <<>> => Len(front) = Len(old.undo) - 1
  BY <1>3, FrontLen
<1>6. undo \in Seq(Entry)
  BY <1>3, <1>4
<1> HIDE DEF front
<1>7. /\ old.depth > 1 => undo = old.undo
      /\ old.depth = 1 /\ old.undo # <<>> =>
             Len(undo) = IF Last(old.undo) = <<>> THEN Len(old.undo) - 1 ELSE Len(old.undo)
      /\ drops => undo = front
  BY <1>3, <1>5
<1> HIDE DEF undo
<1>8. CASE old.depth = 0
  <2>1. b = [w EXCEPT !.commands = old]
    BY <1>1, <1>8
  <2>2. b \in World /\ b.commands = old
    BY <1>2, <2>1 DEF World
  <2>3. QED
    BY <1>8, <2>2 DEF b, old
<1>9. CASE old.depth # 0
  <2>1. out \in Nat
    BY <1>3, <1>9
  <2> HIDE DEF out
  <2>2. c \in UndoStackType /\ c.depth = out /\ c.undo = undo /\ c.redo = old.redo
    BY <1>2, <1>6, <2>1 DEF UndoStackType
  <2> HIDE DEF c
  <2>3. b \in World /\ b.commands = c
    BY <1>1, <1>9, <2>2 DEF World
  <2>4. QED
    BY <1>7, <1>9, <2>2, <2>3 DEF b, old, out, front, Undos
<1>10. QED
  BY <1>8, <1>9

\* What replaying an entry of the stack carries along.
ReplayType == [doc: Document, opposite: Seq(Command)]

\* What replaying one inverse does.
Reapplied(acc, cmd) ==
    IF Applicable(acc.doc, cmd)
    THEN [doc      |-> Applied(acc.doc, cmd),
          opposite |-> Append(acc.opposite, InverseOf(acc.doc, cmd))]
    ELSE acc

\* The document a replay starts from.
Fresh(d) == [doc |-> d, opposite |-> <<>>]

\* Replaying one inverse yields a document, and commands that take it back.
LEMMA ReplayedTypes ==
    ASSUME NEW acc \in ReplayType, NEW cmd \in Command
    PROVE  Reapplied(acc, cmd) \in ReplayType
<1>1. acc.doc \in Document /\ acc.opposite \in Seq(Command)
  BY DEF ReplayType
<1>2. CASE Applicable(acc.doc, cmd)
  <2> DEFINE d == Applied(acc.doc, cmd)
             inverse == InverseOf(acc.doc, cmd)
             o == Append(acc.opposite, inverse)
  <2>1. d \in Document /\ inverse \in Command
    BY <1>1, <1>2, EditTypes
  <2> HIDE DEF inverse
  <2>2. o \in Seq(Command)
    BY <1>1, <2>1, AppendProperties
  <2>3. Reapplied(acc, cmd) = [doc |-> d, opposite |-> o]
    BY <1>2 DEF Reapplied, inverse
  <2> HIDE DEF d, o
  <2>4. QED
    BY <2>1, <2>2, <2>3 DEF ReplayType
<1>3. CASE ~ Applicable(acc.doc, cmd)
  BY <1>3 DEF Reapplied
<1>4. QED
  BY <1>2, <1>3

\* The states a replay goes through.
Replays(P, d, entry) ==
    /\ P \in [0..Len(NewestFirst(entry)) -> ReplayType] /\ P[0] = Fresh(d)
    /\ \A k \in 1..Len(NewestFirst(entry)) : P[k] = Reapplied(P[k - 1], NewestFirst(entry)[k])
    /\ P[Len(NewestFirst(entry))] = Replay(d, entry)

\* They exist, and each is what one inverse makes of the one before.
LEMMA ReplayRuns ==
    ASSUME NEW d \in Document, NEW entry \in Entry
    PROVE  \E P : Replays(P, d, entry)
<1> DEFINE n == Len(NewestFirst(entry))
           U == [k \in 1..n |-> [m \in ReplayType |-> Reapplied(m, NewestFirst(entry)[k])]]
           Iter(it) == it = [s \in SUBSET DOMAIN NewestFirst(entry) |->
                               IF s = {} THEN Fresh(d)
                               ELSE Reapplied(it[s \ {Max(s)}], NewestFirst(entry)[Max(s)])]
           iter == CHOOSE it : Iter(it)
<1>1. Replay(d, entry) = iter[DOMAIN NewestFirst(entry)]
  BY DEF Replay, Reapplied, Fresh, FoldLeft, MapThenFoldSet
<1>0. NewestFirst(entry) \in Seq(Command)
  BY ScenesInReverse DEF NewestFirst, Entry
<1>2. n \in Nat /\ DOMAIN NewestFirst(entry) = 1..n /\ Fresh(d) \in ReplayType
  <2>1. <<>> \in Seq(Command)
    OBVIOUS
  <2>2. Fresh(d) \in ReplayType
    BY <2>1 DEF Fresh, ReplayType
  <2>3. QED
    BY <1>0, <2>2
<1>3. \A k \in 1..n, m \in ReplayType : Reapplied(m, NewestFirst(entry)[k]) \in ReplayType
  <2> SUFFICES ASSUME NEW k \in 1..n, NEW m \in ReplayType
               PROVE  Reapplied(m, NewestFirst(entry)[k]) \in ReplayType
    OBVIOUS
  <2>1. NewestFirst(entry)[k] \in Command
    BY <1>0
  <2>2. QED
    BY <2>1, ReplayedTypes
<1>4. /\ U \in [1..n -> [ReplayType -> ReplayType]]
      /\ \A k \in 1..n, m \in ReplayType : U[k][m] = Reapplied(m, NewestFirst(entry)[k])
  BY <1>3
<1> HIDE DEF n, U
<1>5. \E it : Iter(it)
  <2>1. PICK h : FoldsUp(h, n, ReplayType, Fresh(d), U)
    BY <1>2, <1>4, FoldLeftExists
  <2>2. ASSUME NEW s \in SUBSET (1..n), s # {}
        PROVE  h[s] = Reapplied(h[s \ {Max(s)}], NewestFirst(entry)[Max(s)])
    <3>1. Max(s) \in 1..n /\ s \ {Max(s)} \in SUBSET (1..n)
      BY <1>2, <2>2, GreatestIndex
    <3>2. h[s] = U[Max(s)][h[s \ {Max(s)}]] /\ h[s \ {Max(s)}] \in ReplayType
      BY <2>1, <2>2, <3>1 DEF FoldsUp
    <3>3. QED
      BY <1>4, <3>1, <3>2
  <2>3. /\ h = [s \in SUBSET (1..n) |-> h[s]]
        /\ h[{}] = Fresh(d)
    BY <2>1 DEF FoldsUp
  <2>4. Iter(h)
    BY <1>2, <2>2, <2>3
  <2>5. QED
    BY <2>4
<1>6. Iter(iter)
  <2> HIDE DEF Iter
  <2>1. QED
    BY <1>5
<1> HIDE DEF iter
<1>7. iter[{}] = Fresh(d) /\ \A s \in SUBSET (1..n) : s # {} =>
             iter[s] = Reapplied(iter[s \ {Max(s)}], NewestFirst(entry)[Max(s)])
  BY <1>2, <1>6
<1>8. ASSUME NEW k \in 1..n
      PROVE  iter[1..k] = Reapplied(iter[1..(k - 1)], NewestFirst(entry)[k])
  <2>1. /\ 1..k \in SUBSET (1..n) /\ 1..k # {}
        /\ Max(1..k) = k /\ (1..k) \ {k} = 1..(k - 1)
    BY <1>2, FirstIndices
  <2>2. iter[1..k] = Reapplied(iter[(1..k) \ {Max(1..k)}], NewestFirst(entry)[Max(1..k)])
    BY <1>7, <2>1
  <2>3. QED
    BY <2>1, <2>2
<1>9. PICK P : Runs(P, n, ReplayType, Fresh(d), U) /\ P[n] = iter[1..n]
  <2>1. \A k \in 1..n : iter[1..(k - 1)] \in ReplayType => iter[1..k] = U[k][iter[1..(k - 1)]]
    BY <1>4, <1>8
  <2>2. iter[{}] = Fresh(d) /\ Fresh(d) \in ReplayType /\ n \in Nat
    BY <1>2, <1>7
  <2>3. StepsThrough(iter, n, ReplayType, Fresh(d), U)
    BY <1>4, <2>1, <2>2 DEF StepsThrough
  <2>4. QED
    BY <1>2, <1>4, <2>3, FoldLeftRuns
<1>10. Replays(P, d, entry)
  <2>1. /\ P \in [0..n -> ReplayType] /\ P[0] = Fresh(d)
        /\ \A k \in 1..n : P[k] = U[k][P[k - 1]]
    BY <1>9 DEF Runs
  <2>2. \A k \in 1..n : P[k - 1] \in ReplayType
    BY <1>2, <2>1
  <2>3. \A k \in 1..n : P[k] = Reapplied(P[k - 1], NewestFirst(entry)[k])
    BY <1>4, <2>1, <2>2
  <2>4. QED
    BY <1>1, <1>2, <1>9, <2>1, <2>3 DEF Replays, n
<1>11. QED
  BY <1>10

\* An entry crosses from one side of the stack to the other.
Moved(v, w, n, forward) ==
    /\ v \in World
    /\ v.commands.depth = w.commands.depth
    /\ forward => Undos(v) = Undos(w) + n /\ Redos(v) = Redos(w) - n
    /\ ~forward => Undos(v) = Undos(w) - n /\ Redos(v) = Redos(w) + n

\* A replay leaves a document and the entry that takes it back.
LEMMA ReplayTypes ==
    ASSUME NEW d \in Document, NEW entry \in Entry
    PROVE  Replay(d, entry).doc \in Document /\ Replay(d, entry).opposite \in Entry
<1>1. PICK P : Replays(P, d, entry)
  BY ReplayRuns
<1>2. NewestFirst(entry) \in Seq(Command)
  BY ScenesInReverse DEF NewestFirst, Entry
<1>3. Len(NewestFirst(entry)) \in Nat
  BY <1>2
<1>4. Replay(d, entry) \in ReplayType
  BY <1>1, <1>3 DEF Replays
<1>5. QED
  BY <1>4 DEF ReplayType, Entry

\* Undoing the newest entry of the stack.
LEMMA UndoMoves ==
    ASSUME NEW w \in World, w.commands.undo # <<>>
    PROVE  Moved(StackUndo(w), w, 1, FALSE)
<1> DEFINE old == w.commands
           r == Replay(w.doc, Last(old.undo))
           less == Front(old.undo)
           more == Append(old.redo, r.opposite)
           d == r.doc
           c == [old EXCEPT !.undo = less, !.redo = more]
           v == StackUndo(w)
<1>1. v = [w EXCEPT !.doc = d, !.commands = c]
  BY DEF StackUndo
<1>2. old \in UndoStackType /\ w.doc \in Document
  BY DEF World
<1> HIDE DEF v, old
<1>3. old.undo \in Seq(Entry) /\ old.redo \in Seq(Entry) /\ old.undo # <<>>
  BY <1>2 DEF UndoStackType, old
<1>4. less \in Seq(Entry) /\ Len(less) = Len(old.undo) - 1 /\ Last(old.undo) \in Entry
  BY <1>3, FrontLen
<1>5. d \in Document /\ r.opposite \in Entry
  BY <1>2, <1>4, ReplayTypes
<1> HIDE DEF r
<1>6. more \in Seq(Entry) /\ Len(more) = Len(old.redo) + 1
  BY <1>3, <1>5, AppendProperties
<1> HIDE DEF less, more, d
<1>7. c \in UndoStackType /\ c.depth = old.depth /\ c.undo = less /\ c.redo = more
  BY <1>2, <1>4, <1>6 DEF UndoStackType
<1> HIDE DEF c
<1>8. v \in World /\ v.commands = c
  BY <1>1, <1>5, <1>7 DEF World
<1>9. Len(old.undo) \in Nat /\ Len(old.redo) \in Nat
  BY <1>3
<1>10. QED
  BY <1>4, <1>6, <1>7, <1>8, <1>9 DEF Moved, Undos, Redos, v, old

\* Redoing it.
LEMMA RedoMoves ==
    ASSUME NEW w \in World, w.commands.redo # <<>>
    PROVE  Moved(StackRedo(w), w, 1, TRUE)
<1> DEFINE old == w.commands
           r == Replay(w.doc, Last(old.redo))
           less == Front(old.redo)
           more == Append(old.undo, r.opposite)
           d == r.doc
           c == [old EXCEPT !.redo = less, !.undo = more]
           v == StackRedo(w)
<1>1. v = [w EXCEPT !.doc = d, !.commands = c]
  BY DEF StackRedo
<1>2. old \in UndoStackType /\ w.doc \in Document
  BY DEF World
<1> HIDE DEF v, old
<1>3. old.undo \in Seq(Entry) /\ old.redo \in Seq(Entry) /\ old.redo # <<>>
  BY <1>2 DEF UndoStackType, old
<1>4. less \in Seq(Entry) /\ Len(less) = Len(old.redo) - 1 /\ Last(old.redo) \in Entry
  BY <1>3, FrontLen
<1>5. d \in Document /\ r.opposite \in Entry
  BY <1>2, <1>4, ReplayTypes
<1> HIDE DEF r
<1>6. more \in Seq(Entry) /\ Len(more) = Len(old.undo) + 1
  BY <1>3, <1>5, AppendProperties
<1> HIDE DEF less, more, d
<1>7. c \in UndoStackType /\ c.depth = old.depth /\ c.redo = less /\ c.undo = more
  BY <1>2, <1>4, <1>6 DEF UndoStackType
<1> HIDE DEF c
<1>8. v \in World /\ v.commands = c
  BY <1>1, <1>5, <1>7 DEF World
<1>9. Len(old.undo) \in Nat /\ Len(old.redo) \in Nat
  BY <1>3
<1>10. QED
  BY <1>4, <1>6, <1>7, <1>8, <1>9 DEF Moved, Undos, Redos, v, old

\* What applying a step returns.
StepResult == [ok: BOOLEAN, world: World]

\* The side of the stack that a Scene leaf takes its entry from.
Source(w, forward) == IF forward THEN Redos(w) ELSE Undos(w)

\* What can be applied without being refused.
Free(found, leaf) == leaf # Barrier /\ (leaf.kind = "Payload" => leaf.layer \in found)

\* Sizes are numbers.
LEMMA SizesAreNat ==
    ASSUME NEW w \in World
    PROVE  Undos(w) \in Nat /\ Redos(w) \in Nat
<1>1. w.commands.undo \in Seq(Entry) /\ w.commands.redo \in Seq(Entry)
  BY DEF World, UndoStackType
<1>2. QED
  BY <1>1 DEF Undos, Redos

\* Applying one leaf: refused, it changes nothing; applied, it moves the stack by
\* what it names.
LEMMA LeafMoves ==
    ASSUME NEW found, NEW w \in World, NEW leaf \in Leaf, NEW forward \in BOOLEAN
    PROVE  LET r == ApplyLeaf(found, w, leaf, forward)
           IN  /\ r \in StepResult
               /\ r.ok => Moved(r.world, w, ScenesIn(<<leaf>>), forward)
               /\ ~r.ok => r.world = w
               /\ Free(found, leaf) /\ Source(w, forward) >= ScenesIn(<<leaf>>) => r.ok
<1> DEFINE r == ApplyLeaf(found, w, leaf, forward)
           refused == [ok |-> FALSE, world |-> w]
<1>1. Undos(w) \in Nat /\ Redos(w) \in Nat
  BY SizesAreNat
<1>2. refused \in StepResult
  BY DEF StepResult
<1>3. CASE leaf = Barrier
  <2>1. r = refused
    BY <1>3 DEF ApplyLeaf, Barrier
  <2>2. QED
    BY <1>2, <1>3, <2>1 DEF Free
<1>4. CASE leaf = Scene /\ forward
  <2>1. r = IF w.commands.redo = <<>> THEN refused ELSE [ok |-> TRUE, world |-> StackRedo(w)]
    BY <1>4 DEF ApplyLeaf, Scene
  <2>2. ScenesIn(<<leaf>>) = 1 /\ forward = TRUE
    BY <1>4, ScenesInPlain
  <2>3. CASE w.commands.redo = <<>>
    <3>1. Redos(w) = 0
      BY <2>3 DEF Redos
    <3>2. r = refused /\ ~ (Source(w, forward) >= ScenesIn(<<leaf>>))
      BY <2>1, <2>2, <2>3, <3>1 DEF Source
    <3>3. QED
      BY <1>2, <3>2
  <2>4. CASE w.commands.redo # <<>>
    <3>1. Moved(StackRedo(w), w, 1, TRUE)
      BY <2>4, RedoMoves
    <3>2. r = [ok |-> TRUE, world |-> StackRedo(w)] /\ StackRedo(w) \in World
      BY <2>1, <2>4, <3>1 DEF Moved
    <3>3. r \in StepResult
      BY <3>2 DEF StepResult
    <3>4. r.ok /\ r.world = StackRedo(w)
      BY <3>2
    <3> HIDE DEF r
    <3>5. Moved(r.world, w, ScenesIn(<<leaf>>), forward)
      BY <2>2, <3>1, <3>4
    <3>6. QED
      BY <3>3, <3>4, <3>5 DEF r
  <2>5. QED
    BY <2>3, <2>4
<1>5. CASE leaf = Scene /\ ~forward
  <2>1. r = IF w.commands.undo = <<>> THEN refused ELSE [ok |-> TRUE, world |-> StackUndo(w)]
    BY <1>5 DEF ApplyLeaf, Scene
  <2>2. ScenesIn(<<leaf>>) = 1
    BY <1>5, ScenesInPlain
  <2>3. CASE w.commands.undo = <<>>
    <3>1. Undos(w) = 0
      BY <2>3 DEF Undos
    <3>2. QED
      BY <1>2, <1>5, <2>1, <2>2, <2>3, <3>1 DEF Source
  <2>4. CASE w.commands.undo # <<>>
    <3>1. Moved(StackUndo(w), w, 1, FALSE)
      BY <2>4, UndoMoves
    <3>2. QED
      BY <1>5, <2>1, <2>2, <2>4, <3>1 DEF StepResult, Moved
  <2>5. QED
    BY <2>3, <2>4
<1>6. CASE leaf \in [kind: {"Payload"}, layer: Layers, before: Values, after: Values]
  <2> DEFINE value == IF forward THEN leaf.after ELSE leaf.before
             content == [w.content EXCEPT ![leaf.layer] = value]
             v == [w EXCEPT !.content = content]
  <2>1. leaf.kind = "Payload" /\ leaf.layer \in Layers /\ value \in Values
    BY <1>6
  <2>2. r = IF leaf.layer \notin found THEN refused ELSE [ok |-> TRUE, world |-> v]
    BY <2>1 DEF ApplyLeaf
  <2>3. leaf # Scene /\ ScenesIn(<<leaf>>) = 0
    <3>1. leaf # Scene
      BY <2>1 DEF Scene
    <3>2. QED
      BY <3>1, ScenesInPlain
  <2>4. w.content \in [Layers -> Values]
    BY DEF World
  <2> HIDE DEF value
  <2>5. content \in [Layers -> Values]
    BY <2>1, <2>4
  <2> HIDE DEF content
  <2>6. v \in World /\ v.commands = w.commands
    BY <2>5 DEF World
  <2> HIDE DEF v, r
  <2>7. Moved(v, w, 0, forward)
    BY <1>1, <2>6 DEF Moved, Undos, Redos
  <2>8. CASE leaf.layer \notin found
    BY <1>2, <2>1, <2>2, <2>8 DEF Free, r
  <2>9. CASE leaf.layer \in found
    BY <2>2, <2>3, <2>6, <2>7, <2>9 DEF StepResult, r
  <2>10. QED
    BY <2>8, <2>9
<1>7. QED
  BY <1>3, <1>4, <1>5, <1>6 DEF Leaf

-----------------------------------------------------------------------------
\* The walk of apply_step over the leaves of a step.

\* What the first k leaves name.
FirstScenes(order, k) == ScenesIn(SubSeq(order, 1, k))

\* Leaf after leaf, up to what the whole step names.
LEMMA FirstScenesGrow ==
    ASSUME NEW order \in Seq(Leaf)
    PROVE  /\ \A k \in 0..Len(order) : /\ FirstScenes(order, k) \in Nat
                                       /\ FirstScenes(order, k) <= ScenesIn(order)
           /\ \A k \in 1..Len(order) :
                  FirstScenes(order, k) = FirstScenes(order, k - 1) + ScenesIn(<<order[k]>>)
           /\ FirstScenes(order, 0) = 0 /\ FirstScenes(order, Len(order)) = ScenesIn(order)
<1>1. Len(order) \in Nat
  OBVIOUS
<1>2. ASSUME NEW k \in 0..Len(order)
      PROVE  FirstScenes(order, k) \in Nat /\ FirstScenes(order, k) <= ScenesIn(order)
  <2> DEFINE a == SubSeq(order, 1, k)
             b == SubSeq(order, k + 1, Len(order))
  <2>1. a \in Seq(Leaf)
    BY <1>1
  <2>2. b \in Seq(Leaf)
    BY <1>1
  <2>3. Len(a) \in Nat /\ Len(b) \in Nat
    BY <2>1, <2>2
  <2>4. order = a \o b
    <3>1. 1 \in 1..(Len(order) + 1) /\ k \in (1 - 1)..Len(order) /\ Len(order) \in k..Len(order)
      BY <1>1
    <3>2. SubSeq(order, 1, k) \o SubSeq(order, k + 1, Len(order)) = SubSeq(order, 1, Len(order))
      BY <3>1, ConcatAdjacentSubSeq
    <3>3. QED
      BY <3>2, SubSeqFull
  <2> HIDE DEF a, b
  <2>5. ScenesIn(order) = ScenesIn(a) + ScenesIn(b)
    BY <2>1, <2>2, <2>4, ScenesInConcat
  <2>6. ScenesIn(a) \in Nat /\ ScenesIn(b) \in Nat
    BY <2>3, ScenesInNat
  <2>7. QED
    BY <2>5, <2>6 DEF FirstScenes, a
<1>3. ASSUME NEW k \in 1..Len(order)
      PROVE  FirstScenes(order, k) = FirstScenes(order, k - 1) + ScenesIn(<<order[k]>>)
  <2>1. SubSeq(order, 1, k) = SubSeq(order, 1, k - 1) \o <<order[k]>>
    <3>1. 1 \in 1..Len(order) /\ k \in 1..Len(order)
      BY <1>1
    <3>2. QED
      BY <3>1, SubSeqRecursiveSecond
  <2>2. SubSeq(order, 1, k - 1) \in Seq(Leaf)
    BY <1>1
  <2>3. <<order[k]>> \in Seq(Leaf)
    BY <1>1
  <2>4. QED
    BY <2>1, <2>2, <2>3, ScenesInConcat DEF FirstScenes
<1>4. FirstScenes(order, 0) = 0
  <2>1. SubSeq(order, 1, 0) = <<>>
    BY SubSeqEmpty
  <2>2. QED
    BY <2>1, ScenesInPlain DEF FirstScenes
<1>5. FirstScenes(order, Len(order)) = ScenesIn(order)
  BY SubSeqFull DEF FirstScenes
<1>6. QED
  BY <1>2, <1>3, <1>4, <1>5

\* Moving one leaf the other way.
MovedBack(found, forward, v, leaf) == ApplyLeaf(found, v, leaf, ~forward).world

\* The worlds through which the moved leaves are put back.
PutsBack(P, found, w, moved, forward) ==
    /\ P \in [0..Len(Reverse(moved)) -> World] /\ P[0] = w
    /\ \A k \in 1..Len(Reverse(moved)) : P[k] = MovedBack(found, forward, P[k - 1], Reverse(moved)[k])
    /\ P[Len(Reverse(moved))] = PutBack(found, w, moved, forward)

\* They exist, and each is what one leaf makes of the one before.
LEMMA PutBackRuns ==
    ASSUME NEW found, NEW w \in World, NEW moved \in Seq(Leaf), NEW forward \in BOOLEAN
    PROVE  \E P : PutsBack(P, found, w, moved, forward)
<1> DEFINE n == Len(Reverse(moved))
           U == [k \in 1..n |-> [m \in World |-> MovedBack(found, forward, m, Reverse(moved)[k])]]
           Iter(it) == it = [s \in SUBSET DOMAIN Reverse(moved) |->
                               IF s = {} THEN w
                               ELSE MovedBack(found, forward, it[s \ {Max(s)}], Reverse(moved)[Max(s)])]
           iter == CHOOSE it : Iter(it)
<1>1. PutBack(found, w, moved, forward) = iter[DOMAIN Reverse(moved)]
  BY DEF PutBack, MovedBack, FoldLeft, MapThenFoldSet
<1>2. n \in Nat /\ DOMAIN Reverse(moved) = 1..n /\ Reverse(moved) \in Seq(Leaf)
  <2>1. Reverse(moved) \in Seq(Leaf)
    BY ScenesInReverse
  <2>2. QED
    BY <2>1
<1>3. \A k \in 1..n, m \in World : MovedBack(found, forward, m, Reverse(moved)[k]) \in World
  <2> SUFFICES ASSUME NEW k \in 1..n, NEW m \in World
               PROVE  MovedBack(found, forward, m, Reverse(moved)[k]) \in World
    OBVIOUS
  <2>1. Reverse(moved)[k] \in Leaf
    BY <1>2
  <2>2. (~forward) \in BOOLEAN
    OBVIOUS
  <2>3. ApplyLeaf(found, m, Reverse(moved)[k], ~forward) \in StepResult
    BY <2>1, <2>2, LeafMoves
  <2>4. QED
    BY <2>3 DEF MovedBack, StepResult
<1>4. /\ U \in [1..n -> [World -> World]]
      /\ \A k \in 1..n, m \in World : U[k][m] = MovedBack(found, forward, m, Reverse(moved)[k])
  BY <1>3
<1> HIDE DEF n, U
<1>5. \E it : Iter(it)
  <2>1. PICK h : FoldsUp(h, n, World, w, U)
    BY <1>2, <1>4, FoldLeftExists
  <2>2. ASSUME NEW s \in SUBSET (1..n), s # {}
        PROVE  h[s] = MovedBack(found, forward, h[s \ {Max(s)}], Reverse(moved)[Max(s)])
    <3>1. Max(s) \in 1..n /\ s \ {Max(s)} \in SUBSET (1..n)
      BY <1>2, <2>2, GreatestIndex
    <3>2. h[s] = U[Max(s)][h[s \ {Max(s)}]] /\ h[s \ {Max(s)}] \in World
      BY <2>1, <2>2, <3>1 DEF FoldsUp
    <3>3. QED
      BY <1>4, <3>1, <3>2
  <2>3. /\ h = [s \in SUBSET (1..n) |-> h[s]]
        /\ h[{}] = w
    BY <2>1 DEF FoldsUp
  <2>4. Iter(h)
    BY <1>2, <2>2, <2>3
  <2>5. QED
    BY <2>4
<1>6. Iter(iter)
  <2> HIDE DEF Iter
  <2>1. QED
    BY <1>5
<1> HIDE DEF iter
<1>7. iter[{}] = w /\ \A s \in SUBSET (1..n) : s # {} =>
             iter[s] = MovedBack(found, forward, iter[s \ {Max(s)}], Reverse(moved)[Max(s)])
  BY <1>2, <1>6
<1>8. ASSUME NEW k \in 1..n
      PROVE  iter[1..k] = MovedBack(found, forward, iter[1..(k - 1)], Reverse(moved)[k])
  <2>1. /\ 1..k \in SUBSET (1..n) /\ 1..k # {}
        /\ Max(1..k) = k /\ (1..k) \ {k} = 1..(k - 1)
    BY <1>2, FirstIndices
  <2>2. iter[1..k] = MovedBack(found, forward, iter[(1..k) \ {Max(1..k)}], Reverse(moved)[Max(1..k)])
    BY <1>7, <2>1
  <2>3. QED
    BY <2>1, <2>2
<1>9. PICK P : Runs(P, n, World, w, U) /\ P[n] = iter[1..n]
  <2>1. \A k \in 1..n : iter[1..(k - 1)] \in World => iter[1..k] = U[k][iter[1..(k - 1)]]
    BY <1>4, <1>8
  <2>2. iter[{}] = w /\ w \in World /\ n \in Nat
    BY <1>2, <1>7
  <2>3. StepsThrough(iter, n, World, w, U)
    BY <1>4, <2>1, <2>2 DEF StepsThrough
  <2>4. QED
    BY <1>2, <1>4, <2>3, FoldLeftRuns
<1>10. PutsBack(P, found, w, moved, forward)
  <2>1. /\ P \in [0..n -> World] /\ P[0] = w
        /\ \A k \in 1..n : P[k] = U[k][P[k - 1]]
    BY <1>9 DEF Runs
  <2>2. \A k \in 1..n : P[k - 1] \in World
    BY <1>2, <2>1
  <2>3. \A k \in 1..n : P[k] = MovedBack(found, forward, P[k - 1], Reverse(moved)[k])
    BY <1>4, <2>1, <2>2
  <2>4. QED
    BY <1>1, <1>2, <1>9, <2>1, <2>3 DEF PutsBack, n
<1>11. QED
  BY <1>10

\* Putting moved leaves back moves the stack by what they name, the other way.
LEMMA PutBackMoves ==
    ASSUME NEW found, NEW w \in World, NEW moved \in Seq(Leaf), NEW forward \in BOOLEAN
    PROVE  LET v == PutBack(found, w, moved, forward)
           IN  /\ v \in World
               /\ Source(w, ~forward) >= ScenesIn(moved) => Moved(v, w, ScenesIn(moved), ~forward)
<1> DEFINE back == Reverse(moved)
           n == Len(back)
           v == PutBack(found, w, moved, forward)
           other == ~forward
<1>1. PICK P : PutsBack(P, found, w, moved, forward)
  BY PutBackRuns
<1>2. back \in Seq(Leaf) /\ ScenesIn(back) = ScenesIn(moved)
  BY ScenesInReverse
<1> HIDE DEF v
<1>3. /\ P \in [0..n -> World] /\ P[0] = w /\ P[n] = v
      /\ \A k \in 1..n : P[k] = ApplyLeaf(found, P[k - 1], back[k], other).world
  BY <1>1 DEF PutsBack, MovedBack, v
<1>4. n \in Nat /\ \A k \in 1..n : back[k] \in Leaf
  BY <1>2
<1>5. /\ \A k \in 0..n : FirstScenes(back, k) \in Nat /\ FirstScenes(back, k) <= ScenesIn(back)
      /\ \A k \in 1..n : FirstScenes(back, k) = FirstScenes(back, k - 1) + ScenesIn(<<back[k]>>)
      /\ FirstScenes(back, 0) = 0 /\ FirstScenes(back, n) = ScenesIn(back)
  BY <1>2, FirstScenesGrow
<1>6. other \in BOOLEAN
  OBVIOUS
<1>7. v \in World
  BY <1>3, <1>4
<1> HIDE DEF n, back, other
<1>8. ASSUME Source(w, other) >= ScenesIn(back)
      PROVE  Moved(v, w, ScenesIn(back), other)
  <2> DEFINE Holds(k) == Moved(P[k], w, FirstScenes(back, k), other)
             Good == {k \in Nat : k <= n => Holds(k)}
  <2>1. Undos(w) \in Nat /\ Redos(w) \in Nat
    BY SizesAreNat
  <2>2. 0 \in Good
    BY <1>3, <1>5, <2>1 DEF Moved
  <2>3. ASSUME NEW k \in Nat, k \in Good PROVE k + 1 \in Good
    <3> SUFFICES ASSUME k + 1 <= n PROVE Holds(k + 1)
      OBVIOUS
    <3> DEFINE leaf == back[k + 1]
               u == P[k]
               x == P[k + 1]
               f == FirstScenes(back, k)
               s == ScenesIn(<<leaf>>)
    <3>1. k + 1 \in 1..n /\ (k + 1) - 1 = k /\ k \in 0..n /\ k + 1 \in 0..n /\ Moved(u, w, f, other)
      BY <1>4, <2>3
    <3>2. leaf \in Leaf /\ u \in World
      BY <1>3, <1>4, <3>1
    <3>3. x = ApplyLeaf(found, u, leaf, other).world
      BY <1>3, <3>1
    <3>4. FirstScenes(back, k + 1) = f + s /\ f \in Nat /\ f + s <= ScenesIn(back)
      BY <1>5, <3>1
    <3>5. s \in Nat
      <4>1. Len(<<leaf>>) \in Nat
        OBVIOUS
      <4>2. QED
        BY <4>1, ScenesInNat
    <3> HIDE DEF leaf, u, x, f, s
    <3>6. CASE ApplyLeaf(found, u, leaf, other).ok
      <4>1. Moved(x, u, s, other)
        BY <1>6, <3>2, <3>3, <3>6, LeafMoves DEF s
      <4>2. QED
        BY <1>6, <2>1, <3>1, <3>4, <3>5, <4>1 DEF Moved, x
    <3>7. CASE ~ ApplyLeaf(found, u, leaf, other).ok
      <4>1. x = u
        BY <1>6, <3>2, <3>3, <3>7, LeafMoves
      <4>2. s = 0
        <5>1. CASE leaf = Scene
          <6>1. Source(u, other) >= s
            <7>1. Undos(u) \in Nat /\ Redos(u) \in Nat
              BY <3>2, SizesAreNat
            <7>2. Source(u, other) = Source(w, other) - f
              BY <1>6, <2>1, <3>1 DEF Moved, Source
            <7>3. Source(w, other) \in Nat /\ ScenesIn(back) \in Nat
              BY <1>4, <1>5, <2>1 DEF Source
            <7>4. QED
              BY <1>8, <3>4, <3>5, <7>2, <7>3
          <6>2. Free(found, leaf)
            BY <5>1 DEF Free, Scene, Barrier
          <6>3. QED
            BY <1>6, <3>2, <3>7, <6>1, <6>2, LeafMoves DEF s
        <5>2. CASE leaf # Scene
          BY <5>2, ScenesInPlain DEF s
        <5>3. QED
          BY <5>1, <5>2
      <4>3. QED
        BY <3>1, <3>4, <4>1, <4>2 DEF x
    <3>8. QED
      BY <3>6, <3>7
  <2>4. Holds(n)
    <3>1. Nat \subseteq Good
      <4> HIDE DEF Good
      <4>1. QED
        BY <2>2, <2>3, NatSetInduction
    <3>2. QED
      BY <1>4, <3>1
  <2>5. QED
    BY <1>3, <1>5, <2>4
<1>9. QED
  BY <1>2, <1>7, <1>8 DEF v, other

\* The order a step's leaves are walked in, and where the walk starts.
Order(step, forward) == IF forward THEN step ELSE Reverse(step)
Indices(order) == [k \in 1..Len(order) |-> k]
Started(w) == [ok |-> TRUE, world |-> w]

\* The walk over one leaf.
Walked(found, order, forward, acc, k) ==
    LET r == ApplyLeaf(found, acc.world, order[k], forward)
    IN  IF ~acc.ok THEN acc
        ELSE IF r.ok THEN r
        ELSE [ok |-> FALSE,
              world |-> PutBack(found, r.world, SubSeq(order, 1, k - 1), forward)]

\* The order of a step has the leaves of the step.
LEMMA OrderLeaves ==
    ASSUME NEW step \in Seq(Leaf), NEW forward \in BOOLEAN
    PROVE  /\ Order(step, forward) \in Seq(Leaf) /\ Len(Order(step, forward)) = Len(step)
           /\ ScenesIn(Order(step, forward)) = ScenesIn(step)
           /\ \A k \in 1..Len(step) : \E j \in 1..Len(step) : Order(step, forward)[k] = step[j]
<1>1. CASE forward
  BY <1>1 DEF Order
<1>2. CASE ~forward
  <2>1. /\ Reverse(step) \in Seq(Leaf) /\ Len(Reverse(step)) = Len(step)
        /\ ScenesIn(Reverse(step)) = ScenesIn(step)
        /\ \A k \in 1..Len(step) : Reverse(step)[k] = step[Len(step) - k + 1]
    BY ScenesInReverse
  <2>2. Len(step) \in Nat /\ \A k \in 1..Len(step) : Len(step) - k + 1 \in 1..Len(step)
    OBVIOUS
  <2>3. QED
    BY <1>2, <2>1, <2>2 DEF Order
<1>3. QED
  BY <1>1, <1>2

\* The walk over one leaf ends in a world, whatever it meets.
LEMMA WalkedTypes ==
    ASSUME NEW found, NEW order \in Seq(Leaf), NEW forward \in BOOLEAN,
           NEW acc \in StepResult, NEW k \in 1..Len(order)
    PROVE  Walked(found, order, forward, acc, k) \in StepResult
<1> DEFINE r == ApplyLeaf(found, acc.world, order[k], forward)
           moved == SubSeq(order, 1, k - 1)
           v == PutBack(found, r.world, moved, forward)
<1>1. acc.world \in World /\ order[k] \in Leaf
  BY DEF StepResult
<1>2. moved \in Seq(Leaf)
  OBVIOUS
<1>3. r \in StepResult
  BY <1>1, LeafMoves
<1>4. Walked(found, order, forward, acc, k)
         = IF ~acc.ok THEN acc ELSE IF r.ok THEN r ELSE [ok |-> FALSE, world |-> v]
  BY DEF Walked
<1> HIDE DEF r, moved
<1>5. r.world \in World
  BY <1>3 DEF StepResult
<1>6. v \in World
  BY <1>2, <1>5, PutBackMoves
<1> HIDE DEF v
<1>7. [ok |-> FALSE, world |-> v] \in StepResult
  BY <1>6 DEF StepResult
<1>8. QED
  BY <1>3, <1>4, <1>7

\* The results the walk over a step goes through.
Walks(P, found, w, step, forward) ==
    /\ P \in [0..Len(Indices(Order(step, forward))) -> StepResult] /\ P[0] = Started(w)
    /\ \A k \in 1..Len(Indices(Order(step, forward))) : P[k] = Walked(found, Order(step, forward), forward, P[k - 1], Indices(Order(step, forward))[k])
    /\ P[Len(Indices(Order(step, forward)))] = ApplyStep(found, w, step, forward)

\* They exist, and each is what one leaf makes of the one before.
LEMMA WalkRuns ==
    ASSUME NEW found, NEW w \in World, NEW step \in Seq(Leaf), NEW forward \in BOOLEAN
    PROVE  \E P : Walks(P, found, w, step, forward)
<1> DEFINE n == Len(Indices(Order(step, forward)))
           U == [k \in 1..n |-> [m \in StepResult |-> Walked(found, Order(step, forward), forward, m, Indices(Order(step, forward))[k])]]
           Iter(it) == it = [s \in SUBSET DOMAIN Indices(Order(step, forward)) |->
                               IF s = {} THEN Started(w)
                               ELSE Walked(found, Order(step, forward), forward, it[s \ {Max(s)}], Indices(Order(step, forward))[Max(s)])]
           iter == CHOOSE it : Iter(it)
<1>1. ApplyStep(found, w, step, forward) = iter[DOMAIN Indices(Order(step, forward))]
  BY DEF ApplyStep, Order, Indices, Walked, Started, FoldLeft, MapThenFoldSet
<1>0. Len(Order(step, forward)) \in Nat /\ Order(step, forward) \in Seq(Leaf)
  BY OrderLeaves
<1>2. /\ n \in Nat /\ DOMAIN Indices(Order(step, forward)) = 1..n
      /\ n = Len(Order(step, forward))
      /\ \A k \in 1..n : Indices(Order(step, forward))[k] = k
      /\ Started(w) \in StepResult
  <2>1. Indices(Order(step, forward)) \in Seq(Nat)
        /\ Len(Indices(Order(step, forward))) = Len(Order(step, forward))
    BY <1>0 DEF Indices
  <2>2. Started(w) \in StepResult
    BY DEF Started, StepResult
  <2>3. QED
    BY <1>0, <2>1, <2>2 DEF Indices
<1>3. \A k \in 1..n, m \in StepResult :
          Walked(found, Order(step, forward), forward, m, Indices(Order(step, forward))[k]) \in StepResult
  <2> SUFFICES ASSUME NEW k \in 1..n, NEW m \in StepResult
               PROVE  Walked(found, Order(step, forward), forward, m, k) \in StepResult
    BY <1>2
  <2>1. k \in 1..Len(Order(step, forward))
    BY <1>2
  <2>2. QED
    BY <1>0, <2>1, WalkedTypes
<1>4. /\ U \in [1..n -> [StepResult -> StepResult]]
      /\ \A k \in 1..n, m \in StepResult : U[k][m] = Walked(found, Order(step, forward), forward, m, Indices(Order(step, forward))[k])
  BY <1>3
<1> HIDE DEF n, U
<1>5. \E it : Iter(it)
  <2>1. PICK h : FoldsUp(h, n, StepResult, Started(w), U)
    BY <1>2, <1>4, FoldLeftExists
  <2>2. ASSUME NEW s \in SUBSET (1..n), s # {}
        PROVE  h[s] = Walked(found, Order(step, forward), forward, h[s \ {Max(s)}], Indices(Order(step, forward))[Max(s)])
    <3>1. Max(s) \in 1..n /\ s \ {Max(s)} \in SUBSET (1..n)
      BY <1>2, <2>2, GreatestIndex
    <3>2. h[s] = U[Max(s)][h[s \ {Max(s)}]] /\ h[s \ {Max(s)}] \in StepResult
      BY <2>1, <2>2, <3>1 DEF FoldsUp
    <3>3. QED
      BY <1>4, <3>1, <3>2
  <2>3. /\ h = [s \in SUBSET (1..n) |-> h[s]]
        /\ h[{}] = Started(w)
    BY <2>1 DEF FoldsUp
  <2>4. Iter(h)
    BY <1>2, <2>2, <2>3
  <2>5. QED
    BY <2>4
<1>6. Iter(iter)
  <2> HIDE DEF Iter
  <2>1. QED
    BY <1>5
<1> HIDE DEF iter
<1>7. iter[{}] = Started(w) /\ \A s \in SUBSET (1..n) : s # {} =>
             iter[s] = Walked(found, Order(step, forward), forward, iter[s \ {Max(s)}], Indices(Order(step, forward))[Max(s)])
  BY <1>2, <1>6
<1>8. ASSUME NEW k \in 1..n
      PROVE  iter[1..k] = Walked(found, Order(step, forward), forward, iter[1..(k - 1)], Indices(Order(step, forward))[k])
  <2>1. /\ 1..k \in SUBSET (1..n) /\ 1..k # {}
        /\ Max(1..k) = k /\ (1..k) \ {k} = 1..(k - 1)
    BY <1>2, FirstIndices
  <2>2. iter[1..k] = Walked(found, Order(step, forward), forward, iter[(1..k) \ {Max(1..k)}], Indices(Order(step, forward))[Max(1..k)])
    BY <1>7, <2>1
  <2>3. QED
    BY <2>1, <2>2
<1>9. PICK P : Runs(P, n, StepResult, Started(w), U) /\ P[n] = iter[1..n]
  <2>1. \A k \in 1..n : iter[1..(k - 1)] \in StepResult => iter[1..k] = U[k][iter[1..(k - 1)]]
    BY <1>4, <1>8
  <2>2. iter[{}] = Started(w) /\ Started(w) \in StepResult /\ n \in Nat
    BY <1>2, <1>7
  <2>3. StepsThrough(iter, n, StepResult, Started(w), U)
    BY <1>4, <2>1, <2>2 DEF StepsThrough
  <2>4. QED
    BY <1>2, <1>4, <2>3, FoldLeftRuns
<1>10. Walks(P, found, w, step, forward)
  <2>1. /\ P \in [0..n -> StepResult] /\ P[0] = Started(w)
        /\ \A k \in 1..n : P[k] = U[k][P[k - 1]]
    BY <1>9 DEF Runs
  <2>2. \A k \in 1..n : P[k - 1] \in StepResult
    BY <1>2, <2>1
  <2>3. \A k \in 1..n : P[k] = Walked(found, Order(step, forward), forward, P[k - 1], Indices(Order(step, forward))[k])
    BY <1>4, <2>1, <2>2
  <2>4. QED
    BY <1>1, <1>2, <1>9, <2>1, <2>3 DEF Walks, n
<1>11. QED
  BY <1>10

\* Every leaf of a step can be applied.
AllFree(found, step) == \A k \in 1..Len(step) : Free(found, step[k])

\* Applying a step moves the stack by what the step names, and not at all when it
\* is refused; it is not refused when every leaf can be applied and the stack holds
\* the entries they name.
LEMMA StepMoves ==
    ASSUME NEW found, NEW w \in World, NEW step \in Seq(Leaf), NEW forward \in BOOLEAN
    PROVE  LET r == ApplyStep(found, w, step, forward)
           IN  /\ r \in StepResult
               /\ r.ok => Moved(r.world, w, ScenesIn(step), forward)
               /\ ~r.ok => Moved(r.world, w, 0, forward)
               /\ AllFree(found, step) /\ Source(w, forward) >= ScenesIn(step) => r.ok
<1> DEFINE order == Order(step, forward)
           n == Len(order)
           r == ApplyStep(found, w, step, forward)
<1>1. PICK P : Walks(P, found, w, step, forward)
  BY WalkRuns
<1>2. order \in Seq(Leaf) /\ ScenesIn(order) = ScenesIn(step) /\ Len(order) = Len(step)
  BY OrderLeaves
<1>3. n \in Nat /\ \A k \in 1..n : order[k] \in Leaf
  BY <1>2
<1>4. AllFree(found, step) => \A k \in 1..n : Free(found, order[k])
  <2> SUFFICES ASSUME AllFree(found, step), NEW k \in 1..n PROVE Free(found, order[k])
    OBVIOUS
  <2>1. PICK j \in 1..Len(step) : order[k] = step[j]
    <3>1. \A i \in 1..Len(step) : \E j \in 1..Len(step) : order[i] = step[j]
      BY OrderLeaves
    <3>2. QED
      BY <1>2, <3>1
  <2>2. QED
    BY <2>1 DEF AllFree
<1>5. Len(Indices(order)) = n /\ \A k \in 1..n : Indices(order)[k] = k
  BY <1>3 DEF Indices
<1> HIDE DEF r, order
<1>6. /\ P \in [0..n -> StepResult] /\ P[0] = Started(w) /\ P[n] = r
      /\ \A k \in 1..n : P[k] = Walked(found, order, forward, P[k - 1], k)
  BY <1>1, <1>5 DEF Walks, r, order
<1>7. /\ \A k \in 0..n : FirstScenes(order, k) \in Nat /\ FirstScenes(order, k) <= ScenesIn(order)
      /\ \A k \in 1..n : FirstScenes(order, k) = FirstScenes(order, k - 1) + ScenesIn(<<order[k]>>)
      /\ FirstScenes(order, 0) = 0 /\ FirstScenes(order, n) = ScenesIn(order)
  BY <1>2, FirstScenesGrow
<1>8. Undos(w) \in Nat /\ Redos(w) \in Nat
  BY SizesAreNat
<1>9. r \in StepResult
  BY <1>3, <1>6
<1> DEFINE clear == AllFree(found, step) /\ Source(w, forward) >= ScenesIn(order)
           Holds(k) == /\ P[k].ok => Moved(P[k].world, w, FirstScenes(order, k), forward)
                       /\ ~P[k].ok => Moved(P[k].world, w, 0, forward)
                       /\ clear => P[k].ok
           Good == {k \in Nat : k <= n => Holds(k)}
<1> HIDE DEF n
<1>10. 0 \in Good
  <2>1. P[0].ok = TRUE /\ P[0].world = w
    BY <1>6 DEF Started
  <2>2. Moved(w, w, 0, forward)
    BY <1>8 DEF Moved
  <2>3. QED
    BY <1>7, <2>1, <2>2
<1>11. ASSUME NEW k \in Nat, k \in Good PROVE k + 1 \in Good
  <2> SUFFICES ASSUME k + 1 <= n PROVE Holds(k + 1)
    OBVIOUS
  <2> DEFINE acc == P[k]
             next == P[k + 1]
             u == acc.world
             leaf == order[k + 1]
             f == FirstScenes(order, k)
             s == ScenesIn(<<leaf>>)
             moved == SubSeq(order, 1, k)
             l == ApplyLeaf(found, u, leaf, forward)
  <2>1. k + 1 \in 1..n /\ (k + 1) - 1 = k /\ k \in 0..n /\ k + 1 \in 0..n /\ Holds(k)
    BY <1>3, <1>11
  <2>2. acc \in StepResult /\ leaf \in Leaf
    BY <1>3, <1>6, <2>1
  <2>3. next = IF ~acc.ok THEN acc ELSE IF l.ok THEN l
               ELSE [ok |-> FALSE, world |-> PutBack(found, l.world, moved, forward)]
    BY <1>6, <2>1 DEF Walked
  <2>4. FirstScenes(order, k + 1) = f + s /\ f \in Nat /\ f + s <= ScenesIn(order)
    BY <1>7, <2>1
  <2>5. s \in Nat
    <3>1. Len(<<leaf>>) \in Nat
      OBVIOUS
    <3>2. QED
      BY <3>1, ScenesInNat
  <2>6. moved \in Seq(Leaf) /\ ScenesIn(moved) = f
    <3>1. moved \in Seq(Leaf)
      BY <1>2, <2>1 DEF n
    <3>2. QED
      BY <3>1 DEF FirstScenes
  <2>7. u \in World
    BY <2>2 DEF StepResult
  <2>8. /\ acc.ok => Moved(u, w, f, forward)
        /\ ~acc.ok => Moved(u, w, 0, forward)
        /\ clear => acc.ok
    BY <2>1
  <2>9. clear => Free(found, leaf)
    BY <1>4, <2>1
  <2> HIDE DEF acc, u, leaf, f, s, moved
  <2>10. /\ l \in StepResult
         /\ l.ok => Moved(l.world, u, s, forward)
         /\ ~l.ok => l.world = u
         /\ Free(found, leaf) /\ Source(u, forward) >= s => l.ok
    BY <2>2, <2>7, LeafMoves DEF s
  <2> HIDE DEF l
  <2>11. Undos(u) \in Nat /\ Redos(u) \in Nat
    BY <2>7, SizesAreNat
  <2>12. CASE ~acc.ok
    <3>1. next = acc /\ ~next.ok
      BY <2>3, <2>12
    <3>2. Moved(next.world, w, 0, forward) /\ ~clear
      BY <2>8, <2>12, <3>1 DEF u
    <3>3. QED
      BY <3>1, <3>2
  <2>13. CASE acc.ok /\ l.ok
    <3>1. next = l
      BY <2>3, <2>13
    <3>2. Moved(l.world, w, f + s, forward)
      BY <1>8, <2>4, <2>5, <2>8, <2>10, <2>11, <2>13 DEF Moved
    <3> HIDE DEF next
    <3>3. QED
      BY <2>4, <2>13, <3>1, <3>2 DEF next
  <2>14. CASE acc.ok /\ ~l.ok
    <3> DEFINE v == PutBack(found, u, moved, forward)
    <3>1. next.ok = FALSE /\ next.world = v
      BY <2>3, <2>10, <2>14
    <3>2. Moved(u, w, f, forward)
      BY <2>8, <2>14
    <3>3. Source(u, ~forward) >= f
      <4>1. CASE forward
        <5>1. Source(u, ~forward) = Undos(u) /\ Undos(u) = Undos(w) + f
          BY <3>2, <4>1 DEF Moved, Source
        <5>2. QED
          BY <1>8, <2>4, <5>1
      <4>2. CASE ~forward
        <5>1. Source(u, ~forward) = Redos(u) /\ Redos(u) = Redos(w) + f
          BY <3>2, <4>2 DEF Moved, Source
        <5>2. QED
          BY <1>8, <2>4, <5>1
      <4>3. QED
        BY <4>1, <4>2
    <3>4. Moved(v, u, f, ~forward)
      BY <2>6, <2>7, <3>3, PutBackMoves
    <3>5. Moved(v, w, 0, forward)
      BY <1>8, <2>4, <2>11, <3>2, <3>4 DEF Moved
    <3>6. ~clear
      <4> SUFFICES ASSUME clear PROVE FALSE
        OBVIOUS
      <4>1. ~ (Source(u, forward) >= s)
        BY <2>9, <2>10, <2>14
      <4>2. Source(u, forward) = Source(w, forward) - f
        BY <3>2 DEF Moved, Source
      <4>3. Source(w, forward) \in Nat /\ Source(w, forward) >= ScenesIn(order)
        BY <1>8 DEF Source
      <4>4. ScenesIn(order) \in Nat
        BY <1>3, <1>7
      <4>5. QED
        BY <2>4, <2>5, <4>1, <4>2, <4>3, <4>4
    <3> HIDE DEF next
    <3>7. QED
      BY <3>1, <3>5, <3>6 DEF next
  <2>15. QED
    BY <2>12, <2>13, <2>14
<1>12. Holds(n)
  <2>1. Nat \subseteq Good
    <3> HIDE DEF Good
    <3>1. QED
      BY <1>10, <1>11, NatSetInduction
  <2>2. QED
    BY <1>3, <2>1
<1>13. FirstScenes(order, n) = ScenesIn(step) /\ ScenesIn(order) = ScenesIn(step)
  BY <1>2, <1>7
<1>14. /\ r.ok => Moved(r.world, w, ScenesIn(step), forward)
       /\ ~r.ok => Moved(r.world, w, 0, forward)
       /\ AllFree(found, step) /\ Source(w, forward) >= ScenesIn(step) => r.ok
  BY <1>6, <1>12, <1>13
<1>15. QED
  BY <1>9, <1>14 DEF r

-----------------------------------------------------------------------------
\* Type correctness.

\* What the session has recorded.
RecordTyped ==
    /\ journal \in Seq(Event)
    /\ base \in Nat
    /\ base + Len(journal) <= MaxEvents
    /\ DOMAIN snapshots \subseteq 0..MaxEvents

\* The type invariant, made inductive: a barrier is a step of its own, and the
\* events are within their bound.
Typed ==
    /\ world \in World
    /\ present \subseteq Layers
    /\ steps \in Seq(WholeStep)
    /\ redo \in Seq(WholeStep)
    /\ depth \in 0..MaxDepth
    /\ start \in Nat
    /\ budget \in Limits \cup {0}
    /\ dropped \in Nat
    /\ RecordTyped

\* The lists of the session, and the lists a step sets.
LEMMA ListsOfSession ==
    ASSUME Typed
    PROVE  /\ Lists \in ListsType
           /\ Lists.steps = steps /\ Lists.redo = redo /\ Lists.dropped = dropped
BY DEF Typed, Lists, ListsType

\* The lists a step sets.
LEMMA ListsSet ==
    ASSUME NEW lists \in ListsType, SetLists(lists)
    PROVE  steps' \in Seq(WholeStep) /\ redo' \in Seq(WholeStep) /\ dropped' \in Nat
BY DEF SetLists, ListsType

\* One event more is within the bound.
LEMMA RecordKeeps ==
    ASSUME RecordTyped, NEW event \in Event, Record(event)
    PROVE  RecordTyped'
<1>1. journal \in Seq(Event) /\ base \in Nat /\ DOMAIN snapshots \subseteq 0..MaxEvents
      /\ base + Len(journal) < MaxEvents /\ MaxEvents \in Nat
  BY HistoryAssumption DEF RecordTyped, Record, JournalNext
<1>2. journal' = Append(journal, event) /\ base' = base /\ snapshots' = snapshots
  BY DEF Record
<1>3. journal' \in Seq(Event) /\ Len(journal') = Len(journal) + 1
  BY <1>1, <1>2, AppendProperties
<1>4. Len(journal) \in Nat
  BY <1>1
<1>5. base' + Len(journal') <= MaxEvents
  BY <1>1, <1>2, <1>3, <1>4
<1>6. QED
  BY <1>1, <1>2, <1>3, <1>5 DEF RecordTyped

\* The events.
LEMMA EventTypes ==
    /\ \A cmd \in HostCommands : [kind |-> "Command", command |-> cmd] \in Event
    /\ \A l \in Layers, a \in Values, b \in Values : Payload(l, a, b) \in Event
    /\ \A k \in {"GroupBegin", "GroupEnd", "Barrier", "Undo", "Redo"} : Plain(k) \in Event
BY DEF Event, Payload, Plain

\* A sequence without its oldest elements.
LEMMA WithoutLen ==
    ASSUME NEW S, NEW s \in Seq(S), NEW k \in 0..Len(s)
    PROVE  Without(s, k) \in Seq(S) /\ Len(Without(s, k)) = Len(s) - k
<1>1. Len(s) \in Nat /\ k \in Nat /\ k <= Len(s)
  OBVIOUS
<1> DEFINE w == SubSeq(s, k + 1, Len(s))
<1>2. w \in Seq(S)
  BY <1>1
<1>3. Len(w) = Len(s) - k
  BY <1>1
<1>4. QED
  BY <1>2, <1>3 DEF Without

\* A payload step.
LEMMA PayloadStep ==
    ASSUME NEW l \in Layers, NEW a \in Values, NEW b \in Values
    PROVE  <<Payload(l, a, b)>> \in WholeStep /\ ScenesIn(<<Payload(l, a, b)>>) = 0
<1> DEFINE p == Payload(l, a, b)
<1>1. p \in Leaf /\ p # Barrier /\ p # Scene
  BY DEF Payload, Leaf, Barrier, Scene
<1> HIDE DEF p
<1>2. p \in FreeLeaf
  BY <1>1 DEF FreeLeaf
<1>3. <<p>> \in Seq(FreeLeaf) /\ <<p>> # <<>>
  BY <1>2
<1>4. <<p>> \in WholeStep /\ ScenesIn(<<p>>) = 0
  BY <1>1, <1>3, ScenesInPlain DEF WholeStep
<1>5. QED
  BY <1>4 DEF p

\* The type invariant holds at the start.
LEMMA TypedInit ==
    ASSUME Init
    PROVE  Typed
<1> USE DEF Init
<1>1. world.doc \in Document /\ world.content \in [Layers -> Values]
  BY HistoryAssumption DEF Document
<1>2. EmptyStack \in UndoStackType
  <2>1. <<>> \in Seq(Entry)
    OBVIOUS
  <2>2. QED
    BY <2>1 DEF EmptyStack, UndoStackType
<1>3. world \in World
  BY <1>1, <1>2 DEF World
<1>4. steps \in Seq(WholeStep) /\ redo \in Seq(WholeStep) /\ journal \in Seq(Event) /\ Len(journal) = 0
  OBVIOUS
<1>5. DOMAIN snapshots = {}
  OBVIOUS
<1>6. RecordTyped
  BY <1>4, <1>5, HistoryAssumption DEF RecordTyped
<1>7. depth \in 0..MaxDepth
  BY HistoryAssumption
<1>8. QED
  BY <1>3, <1>4, <1>6, <1>7 DEF Typed

\* The newest step of a list, and the list without it.
LEMMA NewestStep ==
    ASSUME NEW list \in Seq(WholeStep), list # <<>>
    PROVE  /\ Front(list) \in Seq(WholeStep) /\ Last(list) \in WholeStep
           /\ Last(list) \in Seq(Leaf)
           /\ SceneSteps(list) = SceneSteps(Front(list)) + ScenesIn(Last(list))
           /\ ScenesIn(Last(list)) \in Nat /\ SceneSteps(Front(list)) \in Nat
<1>1. Front(list) \in Seq(WholeStep) /\ Last(list) \in WholeStep
  BY FrontLen
<1>2. list \in Seq(AnyStep) /\ Last(list) \in AnyStep /\ ScenesIn(Last(list)) \in Nat
  BY <1>1, StepTypes
<1>3. SceneSteps(list) = SceneSteps(Front(list)) + ScenesIn(Last(list))
  BY <1>2, SceneStepsMoves
<1>4. SceneSteps(Front(list)) \in Nat
  BY <1>1, SceneStepsNat
<1>5. QED
  BY <1>1, <1>2, <1>3, <1>4 DEF AnyStep

\* What an engine call leaves.
Opened(w) == [w EXCEPT !.commands = StackBeginGroup(@)]
Closed(w) == [w EXCEPT !.commands = StackEndGroup(@)]

\* The world an engine call leaves, which is one again.
LEMMA EngineEditIs ==
    ASSUME Typed, NEW cmds \in EngineEdits, EngineEdit(cmds)
    PROVE  /\ cmds \in Seq(Command)
           /\ Opened(world) \in World
           /\ EngineEdited(Opened(world), cmds) \in World
           /\ Closed(EngineEdited(Opened(world), cmds)) \in World
           /\ world' = Closed(EngineEdited(Opened(world), cmds)) /\ world' # world
           /\ SetLists(SyncSceneSteps(Lists, world'.commands, Grouping))
           /\ UNCHANGED <<present, depth, start, budget, recordVars>>
<1>1. cmds \in Seq(Command) /\ world \in World
  BY HistoryAssumption DEF Typed
<1> DEFINE o == Opened(world)
           e == EngineEdited(o, cmds)
           c == Closed(e)
<1>2. world' = c /\ c # world /\ UNCHANGED <<present, depth, start, budget, recordVars>>
  BY DEF EngineEdit, EngineEdited, Opened, Closed
<1>3. SetLists(SyncSceneSteps(Lists, c.commands, Grouping))
  BY DEF EngineEdit, EngineEdited, Opened, Closed
<1>4. o \in World
  BY <1>1, BeginMoves DEF Opened
<1>5. e \in World
  BY <1>1, <1>4, EngineMoves
<1>6. c \in World
  BY <1>5, EndMoves DEF Closed
<1>7. QED
  BY <1>1, <1>2, <1>3, <1>4, <1>5, <1>6

\* A performed command keeps the types, in whatever order the host goes on.
LEMMA PerformTyped ==
    ASSUME Typed, NEW cmd \in HostCommands, Perform(cmd)
    PROVE  Typed'
<1>1. /\ world \in World /\ present \subseteq Layers /\ depth \in 0..MaxDepth /\ start \in Nat
      /\ budget \in Limits \cup {0} /\ RecordTyped
  BY DEF Typed
<1>2. Lists \in ListsType /\ Grouping \in BOOLEAN
  BY ListsOfSession DEF Grouping
<1> DEFINE after == StackPerform(world, cmd)
           event == [kind |-> "Command", command |-> cmd]
           lists == IF Len(after.commands.undo) > Len(world.commands.undo)
                    THEN Push(Lists, after.commands, Grouping, <<Scene>>) ELSE Lists
<1>3. world' = after /\ Record(event) /\ SetLists(lists) /\ UNCHANGED <<present, depth, start, budget>>
  BY DEF Perform
<1>4. cmd \in Command
  BY HistoryAssumption
<1>5. after \in World
  BY <1>1, <1>4, PerformMoves
<1>6. lists \in ListsType
  <2>1. <<Scene>> \in WholeStep
    BY StepTypes
  <2>2. Push(Lists, after.commands, Grouping, <<Scene>>) \in ListsType
    BY <1>2, <2>1, PushPushes DEF Pushed
  <2>3. QED
    BY <1>2, <2>2
<1>7. event \in Event
  BY EventTypes
<1> HIDE DEF after, lists, event
<1>8. RecordTyped' /\ steps' \in Seq(WholeStep) /\ redo' \in Seq(WholeStep) /\ dropped' \in Nat
  BY <1>1, <1>3, <1>6, <1>7, RecordKeeps, ListsSet
<1>9. QED
  BY <1>1, <1>3, <1>5, <1>8 DEF Typed

\* The type invariant is kept by every step.
LEMMA TypedNext ==
    ASSUME Typed, [Next]_vars
    PROVE  Typed'
<1>1. /\ world \in World /\ present \subseteq Layers /\ depth \in 0..MaxDepth /\ start \in Nat
      /\ budget \in Limits \cup {0} /\ RecordTyped /\ MaxDepth \in Nat /\ MaxEvents \in Nat
      /\ steps \in Seq(WholeStep) /\ redo \in Seq(WholeStep) /\ dropped \in Nat
  BY HistoryAssumption DEF Typed
<1>2. Lists \in ListsType /\ Grouping \in BOOLEAN
  BY ListsOfSession DEF Grouping
<1>3. ASSUME NEW cmd \in HostCommands, Perform(cmd) PROVE Typed'
  BY <1>3, PerformTyped
<1>4. ASSUME NEW layer \in Layers, NEW value \in Values, EditPayload(layer, value) PROVE Typed'
  <2> DEFINE was == world.content[layer]
             event == Payload(layer, was, value)
             content == [world.content EXCEPT ![layer] = value]
             lists == Push(Lists, world.commands, Grouping, <<event>>)
  <2>1. /\ world' = [world EXCEPT !.content = content] /\ Record(event) /\ SetLists(lists)
        /\ UNCHANGED <<present, depth, start, budget>>
    BY <1>4 DEF EditPayload
  <2>2. was \in Values /\ content \in [Layers -> Values]
    BY <1>1 DEF World
  <2> HIDE DEF was, content
  <2>3. world' \in World
    BY <1>1, <2>1, <2>2 DEF World
  <2>4. event \in Event /\ <<event>> \in WholeStep
    BY <2>2, EventTypes, PayloadStep
  <2> HIDE DEF event
  <2>5. lists \in ListsType
    BY <1>2, <2>4, PushPushes DEF Pushed
  <2> HIDE DEF lists
  <2>6. RecordTyped' /\ steps' \in Seq(WholeStep) /\ redo' \in Seq(WholeStep) /\ dropped' \in Nat
    BY <1>1, <2>1, <2>4, <2>5, RecordKeeps, ListsSet
  <2>7. QED
    BY <1>1, <2>1, <2>3, <2>6 DEF Typed
<1>5. ASSUME NEW layer \in Layers, NEW value \in Values, Unrecorded(layer, value) PROVE Typed'
  <2> DEFINE content == [world.content EXCEPT ![layer] = value]
             lists == Push(Lists, world.commands, Grouping, <<Barrier>>)
  <2>1. /\ world' = [world EXCEPT !.content = content] /\ Record(Plain("Barrier")) /\ SetLists(lists)
        /\ UNCHANGED <<present, depth, start, budget>>
    BY <1>5 DEF Unrecorded
  <2>2. content \in [Layers -> Values]
    BY <1>1 DEF World
  <2> HIDE DEF content
  <2>3. world' \in World
    BY <1>1, <2>1, <2>2 DEF World
  <2>4. Plain("Barrier") \in Event /\ <<Barrier>> \in WholeStep
    BY EventTypes, StepTypes
  <2>5. lists \in ListsType
    BY <1>2, <2>4, PushPushes DEF Pushed
  <2> HIDE DEF lists
  <2>6. RecordTyped' /\ steps' \in Seq(WholeStep) /\ redo' \in Seq(WholeStep) /\ dropped' \in Nat
    BY <1>1, <2>1, <2>4, <2>5, RecordKeeps, ListsSet
  <2>7. QED
    BY <1>1, <2>1, <2>3, <2>6 DEF Typed
<1>6. ASSUME BeginGroup PROVE Typed'
  <2>1. world' \in World
    BY <1>1, <1>6, BeginMoves DEF BeginGroup
  <2>2. depth' \in 0..MaxDepth
    BY <1>1, <1>6 DEF BeginGroup
  <2>3. start' \in Nat
    <3>1. Len(steps) \in Nat
      BY <1>1
    <3>2. QED
      BY <1>1, <1>6, <3>1 DEF BeginGroup
  <2>4. RecordTyped'
    <3>1. CASE depth = 0
      <4>1. Record(Plain("GroupBegin")) /\ Plain("GroupBegin") \in Event
        BY <1>6, <3>1, EventTypes DEF BeginGroup
      <4>2. QED
        BY <1>1, <4>1, RecordKeeps
    <3>2. CASE depth # 0
      BY <1>1, <1>6, <3>2 DEF BeginGroup, recordVars, RecordTyped
    <3>3. QED
      BY <3>1, <3>2
  <2>5. UNCHANGED <<present, steps, redo, budget, dropped>>
    BY <1>6 DEF BeginGroup
  <2>6. QED
    BY <1>1, <2>1, <2>2, <2>3, <2>4, <2>5 DEF Typed
<1>7. ASSUME EndGroup PROVE Typed'
  <2> DEFINE commands == StackEndGroup(world.commands)
             synced == SyncSceneSteps(Lists, commands, FALSE)
             folded == CollapseGroup(synced, commands)
  <2>1. world' = [world EXCEPT !.commands = commands]
    BY <1>7 DEF EndGroup
  <2>2. world' \in World /\ world'.commands = commands
    <3>1. [world EXCEPT !.commands = StackEndGroup(@)] \in World
      BY <1>1, EndMoves
    <3>2. world'.commands = commands
      BY <1>1, <2>1 DEF World
    <3>3. QED
      BY <2>1, <3>1, <3>2
  <2>3. depth' \in 0..MaxDepth
    BY <1>1, <1>7 DEF EndGroup
  <2>4. UNCHANGED <<present, start, budget>>
    BY <1>7 DEF EndGroup
  <2>5. CASE depth > 1
    <3>1. UNCHANGED <<steps, redo, dropped, recordVars>>
      BY <1>7, <2>5 DEF EndGroup
    <3>2. QED
      BY <1>1, <2>2, <2>3, <2>4, <3>1 DEF Typed, RecordTyped, recordVars
  <2>6. CASE ~ (depth > 1)
    <3>1. Record(Plain("GroupEnd")) /\ SetLists(folded)
      BY <1>7, <2>6 DEF EndGroup
    <3>2. Len(commands.undo) \in Nat
      <4>1. world'.commands.undo \in Seq(Entry)
        BY <2>2 DEF World, UndoStackType
      <4>2. QED
        BY <2>2, <4>1
    <3>3. FALSE \in BOOLEAN
      OBVIOUS
    <3> HIDE DEF commands
    <3>4. synced \in ListsType
      BY <1>2, <3>2, <3>3, SyncSettles
    <3> HIDE DEF synced
    <3>5. folded \in ListsType
      BY <1>1, <3>4, CollapseFolds
    <3> HIDE DEF folded
    <3>6. Plain("GroupEnd") \in Event
      BY EventTypes
    <3>7. RecordTyped' /\ steps' \in Seq(WholeStep) /\ redo' \in Seq(WholeStep) /\ dropped' \in Nat
      BY <1>1, <3>1, <3>5, <3>6, RecordKeeps, ListsSet
    <3>8. QED
      BY <1>1, <2>2, <2>3, <2>4, <3>7 DEF Typed
  <2>7. QED
    BY <2>5, <2>6
<1>8. ASSUME NEW cmds \in EngineEdits, EngineEdit(cmds) PROVE Typed'
  <2>1. /\ world' \in World
        /\ SetLists(SyncSceneSteps(Lists, world'.commands, Grouping))
        /\ UNCHANGED <<present, depth, start, budget, recordVars>>
    BY <1>8, EngineEditIs
  <2>2. Len(world'.commands.undo) \in Nat
    <3>1. world'.commands.undo \in Seq(Entry)
      BY <2>1 DEF World, UndoStackType
    <3>2. QED
      BY <3>1
  <2>3. SyncSceneSteps(Lists, world'.commands, Grouping) \in ListsType
    BY <1>2, <2>2, SyncSettles
  <2>4. steps' \in Seq(WholeStep) /\ redo' \in Seq(WholeStep) /\ dropped' \in Nat
    BY <2>1, <2>3, ListsSet
  <2>5. QED
    BY <1>1, <2>1, <2>4 DEF Typed, RecordTyped, recordVars
<1>9. ASSUME Undo PROVE Typed'
  <2> DEFINE r == ApplyStep(present, world, Last(steps), FALSE)
  <2>1. /\ steps # <<>> /\ world' = r.world
        /\ IF r.ok
           THEN /\ steps' = Front(steps)
                /\ redo' = Append(redo, Last(steps))
                /\ Record(Plain("Undo"))
           ELSE UNCHANGED <<steps, redo, recordVars>>
        /\ UNCHANGED <<present, depth, start, budget, dropped>>
    BY <1>9 DEF Undo, CanUndo, TakeBack
  <2>2. Front(steps) \in Seq(WholeStep) /\ Last(steps) \in WholeStep /\ Last(steps) \in Seq(Leaf)
    BY <1>1, <2>1, NewestStep
  <2>3. r \in StepResult
    BY <1>1, <2>2, StepMoves
  <2> HIDE DEF r
  <2>4. world' \in World
    BY <2>1, <2>3 DEF StepResult
  <2>5. CASE r.ok
    <3>1. Append(redo, Last(steps)) \in Seq(WholeStep)
      BY <1>1, <2>2, AppendProperties
    <3>2. Plain("Undo") \in Event
      BY EventTypes
    <3>3. RecordTyped'
      BY <1>1, <2>1, <2>5, <3>2, RecordKeeps
    <3>4. QED
      BY <1>1, <2>1, <2>2, <2>4, <2>5, <3>1, <3>3 DEF Typed
  <2>6. CASE ~r.ok
    BY <1>1, <2>1, <2>4, <2>6 DEF Typed, RecordTyped, recordVars
  <2>7. QED
    BY <2>5, <2>6
<1>10. ASSUME Redo PROVE Typed'
  <2> DEFINE r == ApplyStep(present, world, Last(redo), TRUE)
  <2>1. /\ redo # <<>> /\ world' = r.world
        /\ IF r.ok
           THEN /\ redo' = Front(redo)
                /\ steps' = Append(steps, Last(redo))
                /\ Record(Plain("Redo"))
           ELSE UNCHANGED <<steps, redo, recordVars>>
        /\ UNCHANGED <<present, depth, start, budget, dropped>>
    BY <1>10 DEF Redo, CanRedo, BringBack
  <2>2. Front(redo) \in Seq(WholeStep) /\ Last(redo) \in WholeStep /\ Last(redo) \in Seq(Leaf)
    BY <1>1, <2>1, NewestStep
  <2>3. r \in StepResult
    BY <1>1, <2>2, StepMoves
  <2> HIDE DEF r
  <2>4. world' \in World
    BY <2>1, <2>3 DEF StepResult
  <2>5. CASE r.ok
    <3>1. Append(steps, Last(redo)) \in Seq(WholeStep)
      BY <1>1, <2>2, AppendProperties
    <3>2. Plain("Redo") \in Event
      BY EventTypes
    <3>3. RecordTyped'
      BY <1>1, <2>1, <2>5, <3>2, RecordKeeps
    <3>4. QED
      BY <1>1, <2>1, <2>2, <2>4, <2>5, <3>1, <3>3 DEF Typed
  <2>6. CASE ~r.ok
    BY <1>1, <2>1, <2>4, <2>6 DEF Typed, RecordTyped, recordVars
  <2>7. QED
    BY <2>5, <2>6
<1>11. ASSUME NEW limit \in Limits, SetBudget(limit) PROVE Typed'
  <2> DEFINE lists == IF limit = 0 \/ Grouping THEN Lists ELSE Evict(Lists, world.commands, limit)
  <2>1. /\ budget' = limit /\ SetLists(lists)
        /\ UNCHANGED <<world, present, depth, start, recordVars>>
    BY <1>11 DEF SetBudget
  <2>2. lists \in ListsType
    BY <1>2, EvictKeeps DEF Fewer
  <2> HIDE DEF lists
  <2>3. steps' \in Seq(WholeStep) /\ redo' \in Seq(WholeStep) /\ dropped' \in Nat
    BY <2>1, <2>2, ListsSet
  <2>4. QED
    BY <1>1, <2>1, <2>3 DEF Typed, RecordTyped, recordVars
<1>12. ASSUME NEW limit \in Limits, TrimTo(limit) PROVE Typed'
  <2> DEFINE lists == Evict(Lists, world.commands, limit)
  <2>1. /\ SetLists(lists)
        /\ UNCHANGED <<world, present, depth, start, budget, recordVars>>
    BY <1>12 DEF TrimTo
  <2>2. lists \in ListsType
    BY <1>2, EvictKeeps DEF Fewer
  <2> HIDE DEF lists
  <2>3. steps' \in Seq(WholeStep) /\ redo' \in Seq(WholeStep) /\ dropped' \in Nat
    BY <2>1, <2>2, ListsSet
  <2>4. QED
    BY <1>1, <2>1, <2>3 DEF Typed, RecordTyped, recordVars
<1>13. ASSUME Clear PROVE Typed'
  <2>1. /\ steps' = <<>> /\ redo' = <<>> /\ dropped' = 0 /\ depth' = 0 /\ start' = 0
        /\ journal' = <<>> /\ base' = 0 /\ snapshots' = <<>> /\ UNCHANGED <<world, present, budget>>
    BY <1>13 DEF Clear
  <2>2. steps' \in Seq(WholeStep) /\ redo' \in Seq(WholeStep) /\ journal' \in Seq(Event)
    BY <2>1
  <2>3. Len(journal') = 0 /\ DOMAIN snapshots' = {}
    BY <2>1
  <2>4. RecordTyped'
    BY <1>1, <2>1, <2>2, <2>3 DEF RecordTyped
  <2>5. QED
    BY <1>1, <2>1, <2>2, <2>4 DEF Typed
<1>14. ASSUME NEW layer \in Layers, ResolverChanges(layer) PROVE Typed'
  BY <1>1, <1>14 DEF ResolverChanges, Typed, RecordTyped, recordVars
<1>15. ASSUME NoteSnapshot PROVE Typed'
  <2>1. /\ UNCHANGED <<world, present, steps, redo, depth, start, budget, dropped, journal, base>>
        /\ DOMAIN snapshots' = DOMAIN snapshots \cup {JournalNext}
    BY <1>15 DEF NoteSnapshot
  <2>2. JournalNext \in 0..MaxEvents
    <3>1. Len(journal) \in Nat
      BY <1>1 DEF RecordTyped
    <3>2. QED
      BY <1>1, <3>1 DEF JournalNext, RecordTyped
  <2>3. QED
    BY <1>1, <2>1, <2>2 DEF Typed, RecordTyped
<1>16. ASSUME NEW upto \in 1..MaxEvents, TrimJournal(upto) PROVE Typed'
  <2> DEFINE floor == IF upto > JournalNext THEN JournalNext ELSE upto
  <2>1. /\ upto > base /\ journal' = Without(journal, floor - base) /\ base' = floor
        /\ snapshots' = [i \in SnapshotsKept(floor) |-> snapshots[i]]
        /\ UNCHANGED <<world, present, steps, redo, depth, start, budget, dropped>>
    BY <1>16 DEF TrimJournal
  <2>2. Len(journal) \in Nat /\ base \in Nat /\ upto \in Nat /\ journal \in Seq(Event)
    BY <1>1 DEF RecordTyped
  <2>3. floor \in Nat /\ floor - base \in 0..Len(journal)
    BY <2>1, <2>2 DEF JournalNext
  <2> HIDE DEF floor
  <2>4. journal' \in Seq(Event) /\ Len(journal') = Len(journal) - (floor - base)
    BY <2>1, <2>2, <2>3, WithoutLen
  <2>5. base' + Len(journal') = base + Len(journal)
    BY <2>1, <2>2, <2>3, <2>4
  <2>6. DOMAIN snapshots' \subseteq DOMAIN snapshots
    BY <2>1 DEF SnapshotsKept
  <2>7. RecordTyped'
    BY <1>1, <2>1, <2>3, <2>4, <2>5, <2>6 DEF RecordTyped
  <2>8. QED
    BY <1>1, <2>1, <2>7 DEF Typed
<1>17. CASE UNCHANGED vars
  BY <1>1, <1>17 DEF vars, Typed, RecordTyped, recordVars
<1>18. QED
  BY <1>3, <1>4, <1>5, <1>6, <1>7, <1>8, <1>9, <1>10, <1>11, <1>12, <1>13, <1>14,
     <1>15, <1>16, <1>17 DEF Next

\* Every member keeps its type (TypeOK), whatever the host calls.
THEOREM HistoryTyped == Spec => []TypeOK
<1>1. Init => Typed
  BY TypedInit
<1>2. Typed /\ [Next]_vars => Typed'
  BY TypedNext
<1>3. Typed => TypeOK
  <2>1. Seq(WholeStep) \subseteq Seq(Step)
    BY StepTypes
  <2>2. QED
    BY <2>1 DEF Typed, RecordTyped, TypeOK
<1>4. QED
  BY <1>1, <1>2, <1>3, PTL DEF Spec

-----------------------------------------------------------------------------
\* The two bracket counters.

\* No host clears both inside a bracket and over commands that can still be undone.
ClearsSafely == ~ ({"clearInBracket", "clearOverCommands"} \subseteq Calls)

\* A host that clears only an empty stack, goes on with a stroke only where it left
\* off, and closes its bracket before it undoes.
KeepsOrder ==
    {"clearOverCommands", "strokeAcrossSteps", "undoInBracket"} \cap Calls = {}

\* A host that, whatever else it calls, closes its bracket before it undoes.
ClosesFirst == "undoInBracket" \notin Calls

\* A performed command leaves the two bracket counters as they are.
LEMMA PerformKeepsBrackets ==
    ASSUME Typed, BracketsAgree, NEW cmd \in HostCommands, Perform(cmd)
    PROVE  BracketsAgree'
<1>1. /\ world' = StackPerform(world, cmd) /\ Applicable(world.doc, cmd) /\ depth' = depth
  BY DEF Perform
<1>2. cmd \in Command /\ world \in World
  BY HistoryAssumption DEF Typed
<1>3. StackMoves(world'.commands, world.commands, Coalesces(world.commands, cmd))
  BY <1>1, <1>2, PerformMoves
<1>4. QED
  BY <1>1, <1>3 DEF StackMoves, BracketsAgree

\* Each step keeps the two bracket counters together.
LEMMA BracketsNext ==
    ASSUME ClearsSafely, Typed, BracketsAgree, [Next]_vars
    PROVE  BracketsAgree'
<1>1. /\ world \in World /\ depth \in Nat /\ world.commands.depth = depth
      /\ steps \in Seq(WholeStep) /\ redo \in Seq(WholeStep)
  BY HistoryAssumption DEF Typed, BracketsAgree
<1> SUFFICES world'.commands.depth = depth'
  BY DEF BracketsAgree
<1>2. ASSUME NEW cmd \in HostCommands, Perform(cmd) PROVE world'.commands.depth = depth'
  BY <1>2, PerformKeepsBrackets DEF BracketsAgree
<1>3. ASSUME NEW layer \in Layers, NEW value \in Values,
             EditPayload(layer, value) \/ Unrecorded(layer, value)
      PROVE  world'.commands.depth = depth'
  <2> DEFINE content == [world.content EXCEPT ![layer] = value]
  <2>1. world' = [world EXCEPT !.content = content] /\ depth' = depth
    BY <1>3 DEF EditPayload, Unrecorded
  <2> HIDE DEF content
  <2>2. world'.commands = world.commands
    BY <1>1, <2>1 DEF World
  <2>3. QED
    BY <1>1, <2>1, <2>2
<1>4. ASSUME BeginGroup PROVE world'.commands.depth = depth'
  BY <1>1, <1>4, BeginMoves DEF BeginGroup
<1>5. ASSUME EndGroup PROVE world'.commands.depth = depth'
  <2>1. world' = [world EXCEPT !.commands = StackEndGroup(@)] /\ depth > 0 /\ depth' = depth - 1
    BY <1>5 DEF EndGroup
  <2>2. world'.commands.depth = IF world.commands.depth = 0 THEN 0 ELSE world.commands.depth - 1
    BY <1>1, <2>1, EndMoves
  <2>3. QED
    BY <1>1, <2>1, <2>2
<1>6. ASSUME NEW cmds \in EngineEdits, EngineEdit(cmds) PROVE world'.commands.depth = depth'
  <2> DEFINE o == Opened(world)
             e == EngineEdited(o, cmds)
  <2>1. /\ cmds \in Seq(Command) /\ o \in World /\ e \in World
        /\ world' = Closed(e) /\ depth' = depth
    BY <1>6, EngineEditIs
  <2>2. o.commands.depth = depth + 1
    BY <1>1, BeginMoves DEF Opened
  <2>3. e.commands.depth = o.commands.depth
    BY <2>1, EngineMoves
  <2> HIDE DEF o, e
  <2>4. Closed(e).commands.depth = IF e.commands.depth = 0 THEN 0 ELSE e.commands.depth - 1
    BY <2>1, EndMoves DEF Closed
  <2>5. QED
    BY <1>1, <2>1, <2>2, <2>3, <2>4
<1>7. ASSUME Undo PROVE world'.commands.depth = depth'
  <2> DEFINE r == ApplyStep(present, world, Last(steps), FALSE)
  <2>1. steps # <<>> /\ world' = r.world /\ depth' = depth
    BY <1>7 DEF Undo, CanUndo, TakeBack
  <2>2. Last(steps) \in Seq(Leaf)
    BY <1>1, <2>1, NewestStep
  <2>3. Moved(r.world, world, ScenesIn(Last(steps)), FALSE) \/ Moved(r.world, world, 0, FALSE)
    BY <1>1, <2>2, StepMoves
  <2> HIDE DEF r
  <2>4. QED
    BY <1>1, <2>1, <2>3 DEF Moved
<1>8. ASSUME Redo PROVE world'.commands.depth = depth'
  <2> DEFINE r == ApplyStep(present, world, Last(redo), TRUE)
  <2>1. redo # <<>> /\ world' = r.world /\ depth' = depth
    BY <1>8 DEF Redo, CanRedo, BringBack
  <2>2. Last(redo) \in Seq(Leaf)
    BY <1>1, <2>1, NewestStep
  <2>3. Moved(r.world, world, ScenesIn(Last(redo)), TRUE) \/ Moved(r.world, world, 0, TRUE)
    BY <1>1, <2>2, StepMoves
  <2> HIDE DEF r
  <2>4. QED
    BY <1>1, <2>1, <2>3 DEF Moved
<1>9. ASSUME Clear PROVE world'.commands.depth = depth'
  <2>1. /\ Grouping => "clearInBracket" \in Calls
        /\ world.commands # EmptyStack => "clearOverCommands" \in Calls
        /\ world' = world /\ depth' = 0
    BY <1>9 DEF Clear
  <2>2. ~Grouping \/ world.commands = EmptyStack
    BY <2>1 DEF ClearsSafely
  <2>3. QED
    BY <1>1, <2>1, <2>2 DEF Grouping, EmptyStack
<1>10. ASSUME NEW limit \in Limits, SetBudget(limit) \/ TrimTo(limit)
       PROVE  world'.commands.depth = depth'
  BY <1>1, <1>10 DEF SetBudget, TrimTo
<1>11. ASSUME NEW layer \in Layers, ResolverChanges(layer) PROVE world'.commands.depth = depth'
  BY <1>1, <1>11 DEF ResolverChanges
<1>12. ASSUME NoteSnapshot PROVE world'.commands.depth = depth'
  BY <1>1, <1>12 DEF NoteSnapshot
<1>13. ASSUME NEW upto \in 1..MaxEvents, TrimJournal(upto) PROVE world'.commands.depth = depth'
  BY <1>1, <1>13 DEF TrimJournal
<1>14. CASE UNCHANGED vars
  BY <1>1, <1>14 DEF vars
<1>15. QED
  BY <1>2, <1>3, <1>4, <1>5, <1>6, <1>7, <1>8, <1>9, <1>10, <1>11, <1>12, <1>13, <1>14 DEF Next

\* The stack's bracket is open exactly as deep as the history's (BracketsAgree),
\* unless the host clears inside a bracket over commands.
THEOREM BracketsMoveTogether ==
    ASSUME ClearsSafely
    PROVE  Spec => []BracketsAgree
<1>1. Init => Typed /\ BracketsAgree
  BY TypedInit DEF Init, BracketsAgree, EmptyStack
<1>2. Typed /\ BracketsAgree /\ [Next]_vars => Typed' /\ BracketsAgree'
  BY TypedNext, BracketsNext
<1>3. QED
  BY <1>1, <1>2, PTL DEF Spec

\* The entries of the stack that steps name: those outside the open bracket.
Entries == Undos(world) - (IF Grouping THEN 1 ELSE 0)

\* No step names an entry that the stack does not hold.  For a host that keeps the
\* order, moreover, the steps name the entries one for one until something was
\* evicted, and what is to be redone can be, unless the open bracket has collected
\* a command.
Counted ==
    /\ Grouping => world.commands.undo # <<>>
    /\ SceneSteps(steps) <= Entries
    /\ KeepsOrder =>
        /\ dropped = 0 => SceneSteps(steps) = Entries
        /\ (Grouping => Last(world.commands.undo) = <<>>) => SceneSteps(redo) <= Redos(world)

\* Numbers the steps below compare.
LEMMA Sizes ==
    ASSUME Typed
    PROVE  /\ Undos(world) \in Nat /\ Redos(world) \in Nat
           /\ SceneSteps(steps) \in Nat /\ SceneSteps(redo) \in Nat /\ dropped \in Nat
           /\ depth \in Nat /\ Lists \in ListsType
           /\ Lists.steps = steps /\ Lists.redo = redo /\ Lists.dropped = dropped
           /\ steps \in Seq(WholeStep) /\ redo \in Seq(WholeStep) /\ world \in World
BY HistoryAssumption, SizesAreNat, SceneStepsNat, ListsOfSession DEF Typed

\* A step pushed on the lists.
LEMMA PushCounts ==
    ASSUME Typed, NEW commands, NEW step \in WholeStep
    PROVE  LET r == Push(Lists, commands, Grouping, step)
           IN  /\ r \in ListsType /\ r.redo = <<>>
               /\ SceneSteps(r.steps) \in Nat
               /\ SceneSteps(r.steps) <= SceneSteps(steps) + ScenesIn(step)
               /\ r.dropped = 0 =>
                     dropped = 0 /\ SceneSteps(r.steps) = SceneSteps(steps) + ScenesIn(step)
<1> DEFINE r == Push(Lists, commands, Grouping, step)
<1>1. Lists \in ListsType /\ Grouping \in BOOLEAN /\ Lists.steps = steps /\ Lists.dropped = dropped
      /\ steps \in Seq(WholeStep) /\ dropped \in Nat
  BY Sizes DEF Grouping
<1>2. Pushed(r, Lists, step)
  BY <1>1, PushPushes
<1>3. SceneSteps(Append(steps, step)) = SceneSteps(steps) + ScenesIn(step)
  BY <1>1, StepTypes, SceneStepsMoves
<1> HIDE DEF r
<1>4. r \in ListsType /\ r.dropped \in Nat /\ r.steps \in Seq(WholeStep)
  BY <1>2 DEF Pushed, ListsType
<1>5. SceneSteps(r.steps) \in Nat
  BY <1>4, SceneStepsNat
<1>6. r.dropped = 0 => dropped = 0 /\ r.dropped = Lists.dropped
  BY <1>1, <1>2, <1>4 DEF Pushed
<1>7. QED
  BY <1>1, <1>2, <1>3, <1>4, <1>5, <1>6 DEF Pushed, r

\* A command the host performs keeps the count.
LEMMA PerformCounts ==
    ASSUME Typed, BracketsAgree, Counted, NEW cmd \in HostCommands, Perform(cmd),
           KeepsOrder => GoesOn(cmd)
    PROVE  Counted'
<1> DEFINE after == StackPerform(world, cmd)
           grew == Len(after.commands.undo) > Len(world.commands.undo)
           co == Coalesces(world.commands, cmd)
           pushed == Push(Lists, after.commands, Grouping, <<Scene>>)
<1>1. /\ world' = after /\ Applicable(world.doc, cmd) /\ depth' = depth
      /\ KeepsOrder => GoesOn(cmd)
      /\ SetLists(IF grew THEN pushed ELSE Lists)
  BY DEF Perform
<1>2. cmd \in Command
  BY HistoryAssumption
<1>3. /\ Undos(world) \in Nat /\ Redos(world) \in Nat /\ world \in World
      /\ SceneSteps(steps) \in Nat /\ dropped \in Nat /\ depth \in Nat
      /\ Lists.steps = steps /\ Lists.redo = redo /\ Lists.dropped = dropped
  BY Sizes
<1>4. after \in World /\ StackMoves(after.commands, world.commands, co)
  BY <1>1, <1>2, <1>3, PerformMoves
<1>5. world.commands.depth = depth
  BY DEF BracketsAgree
<1>6. <<Scene>> \in WholeStep /\ ScenesIn(<<Scene>>) = 1 /\ SceneSteps(<<>>) = 0
  BY StepTypes, ScenesInPlain, SceneStepsOfOne
<1>7. Undos(after) \in Nat /\ Redos(after) \in Nat
  BY <1>4, SizesAreNat
<1>8. /\ pushed.redo = <<>> /\ SceneSteps(pushed.steps) \in Nat
      /\ SceneSteps(pushed.steps) <= SceneSteps(steps) + 1
      /\ pushed.dropped = 0 => dropped = 0 /\ SceneSteps(pushed.steps) = SceneSteps(steps) + 1
  BY <1>6, PushCounts
<1> HIDE DEF after, co, pushed
<1>9. CASE Grouping
  <2>1. /\ Undos(after) = Undos(world) /\ Last(after.commands.undo) # <<>>
        /\ after.commands.undo # <<>>
    BY <1>4, <1>5, <1>9 DEF StackMoves, Counted, Grouping, Undos
  <2>2. ~grew
    BY <1>3, <2>1 DEF Undos
  <2>3. steps' = steps /\ redo' = redo /\ dropped' = dropped
    BY <1>1, <1>3, <2>2 DEF SetLists
  <2>4. Grouping' /\ Entries' = Entries
    BY <1>1, <1>9, <2>1 DEF Grouping, Entries, Undos
  <2>5. QED
    BY <1>1, <1>9, <2>1, <2>3, <2>4 DEF Counted
<1>10. CASE ~Grouping /\ co
  <2>1. Undos(after) = Undos(world)
    BY <1>3, <1>4, <1>5, <1>10 DEF StackMoves, Grouping, Undos
  <2>2. ~grew
    BY <1>3, <2>1 DEF Undos
  <2>3. steps' = steps /\ redo' = redo /\ dropped' = dropped
    BY <1>1, <1>3, <2>2 DEF SetLists
  <2>4. KeepsOrder => redo = <<>>
    BY <1>1, <1>10 DEF GoesOn, co
  <2>5. ~Grouping' /\ Entries' = Entries
    BY <1>1, <1>10, <2>1 DEF Grouping, Entries, Undos
  <2>6. KeepsOrder => SceneSteps(redo)' <= Redos(world)'
    BY <1>1, <1>6, <1>7, <2>3, <2>4
  <2>7. QED
    BY <2>3, <2>5, <2>6 DEF Counted
<1>11. CASE ~Grouping /\ ~co
  <2>1. Undos(after) = Undos(world) + 1
    BY <1>3, <1>4, <1>5, <1>11 DEF StackMoves, Grouping, Undos
  <2>2. grew
    BY <1>3, <2>1 DEF Undos
  <2>3. steps' = pushed.steps /\ redo' = pushed.redo /\ dropped' = pushed.dropped
    BY <1>1, <2>2 DEF SetLists
  <2>4. ~Grouping' /\ Entries' = Entries + 1 /\ Entries = Undos(world)
    BY <1>1, <1>3, <1>11, <2>1 DEF Grouping, Entries, Undos
  <2>5. SceneSteps(redo)' <= Redos(world)'
    BY <1>1, <1>6, <1>7, <1>8, <2>3
  <2>6. /\ SceneSteps(steps)' <= Entries'
        /\ KeepsOrder /\ dropped' = 0 => SceneSteps(steps)' = Entries'
    BY <1>3, <1>8, <2>3, <2>4 DEF Counted
  <2>7. QED
    BY <2>4, <2>5, <2>6 DEF Counted
<1>12. QED
  BY <1>9, <1>10, <1>11

\* So does an edit of a payload, or an unrecorded one.
LEMMA PayloadCounts ==
    ASSUME Typed, Counted, NEW layer \in Layers, NEW value \in Values,
           EditPayload(layer, value) \/ Unrecorded(layer, value)
    PROVE  Counted'
<1> DEFINE content == [world.content EXCEPT ![layer] = value]
           was == world.content[layer]
<1>1. world' = [world EXCEPT !.content = content] /\ depth' = depth
  BY DEF EditPayload, Unrecorded
<1>2. /\ Undos(world) \in Nat /\ Redos(world) \in Nat /\ world \in World
      /\ SceneSteps(steps) \in Nat /\ dropped \in Nat /\ depth \in Nat
  BY Sizes
<1>3. was \in Values
  BY <1>2 DEF World
<1> HIDE DEF content
<1>4. world'.commands = world.commands
  BY <1>1, <1>2 DEF World
<1>5. PICK step \in WholeStep :
         ScenesIn(step) = 0 /\ SetLists(Push(Lists, world.commands, Grouping, step))
  <2>1. CASE EditPayload(layer, value)
    <3>1. SetLists(Push(Lists, world.commands, Grouping, <<Payload(layer, was, value)>>))
      BY <2>1 DEF EditPayload
    <3> HIDE DEF was
    <3>2. QED
      BY <1>3, <3>1, PayloadStep
  <2>2. CASE Unrecorded(layer, value)
    <3>1. SetLists(Push(Lists, world.commands, Grouping, <<Barrier>>))
      BY <2>2 DEF Unrecorded
    <3>2. <<Barrier>> \in WholeStep /\ ScenesIn(<<Barrier>>) = 0
      <4>1. Barrier # Scene
        BY DEF Barrier, Scene
      <4>2. QED
        BY <4>1, StepTypes, ScenesInPlain
    <3>3. QED
      BY <3>1, <3>2
  <2>3. QED
    BY <2>1, <2>2
<1> DEFINE pushed == Push(Lists, world.commands, Grouping, step)
<1>6. /\ pushed.redo = <<>> /\ SceneSteps(pushed.steps) \in Nat
      /\ SceneSteps(pushed.steps) <= SceneSteps(steps) + 0
      /\ pushed.dropped = 0 => dropped = 0 /\ SceneSteps(pushed.steps) = SceneSteps(steps) + 0
  BY <1>5, PushCounts
<1>7. steps' = pushed.steps /\ redo' = pushed.redo /\ dropped' = pushed.dropped
  BY <1>5 DEF SetLists
<1> HIDE DEF pushed
<1>8. Entries' = Entries /\ Entries \in Int /\ (Grouping' <=> Grouping) /\ Redos(world)' = Redos(world)
  BY <1>1, <1>2, <1>4 DEF Entries, Grouping, Undos, Redos
<1>9. SceneSteps(redo)' <= Redos(world)'
  BY <1>2, <1>6, <1>7, <1>8, SceneStepsOfOne
<1>10. /\ SceneSteps(steps)' <= Entries'
       /\ KeepsOrder /\ dropped' = 0 => SceneSteps(steps)' = Entries'
  BY <1>2, <1>6, <1>7, <1>8 DEF Counted
<1>11. QED
  BY <1>4, <1>8, <1>9, <1>10 DEF Counted

-----------------------------------------------------------------------------
\* The count: what the steps name is what the stack has.

\* Opening a bracket keeps the count.
LEMMA BeginCounts ==
    ASSUME Typed, BracketsAgree, Counted, BeginGroup
    PROVE  Counted'
<1>1. /\ world' = [world EXCEPT !.commands = StackBeginGroup(@)] /\ depth' = depth + 1
      /\ UNCHANGED <<steps, redo, dropped>>
  BY DEF BeginGroup
<1>2. /\ Undos(world) \in Nat /\ Redos(world) \in Nat /\ world \in World
      /\ SceneSteps(steps) \in Nat /\ dropped \in Nat /\ depth \in Nat
      /\ world.commands.depth = depth
  BY Sizes DEF BracketsAgree
<1>3. /\ world'.commands.redo = world.commands.redo
      /\ depth > 0 => world'.commands.undo = world.commands.undo
      /\ depth = 0 => /\ Undos(world') = Undos(world) + 1 /\ world'.commands.undo # <<>>
                      /\ Last(world'.commands.undo) = <<>>
  BY <1>1, <1>2, BeginMoves
<1>4. Redos(world)' = Redos(world) /\ Grouping'
  BY <1>1, <1>2, <1>3 DEF Redos, Grouping
<1>5. CASE depth = 0
  <2>1. Entries' = Entries
    BY <1>2, <1>3, <1>4, <1>5 DEF Entries, Grouping, Undos
  <2>2. QED
    BY <1>1, <1>3, <1>4, <1>5, <2>1 DEF Counted, Grouping
<1>6. CASE depth > 0
  <2>1. Entries' = Entries
    BY <1>3, <1>4, <1>6 DEF Entries, Grouping, Undos
  <2>2. QED
    BY <1>1, <1>3, <1>4, <1>6, <2>1 DEF Counted, Grouping
<1>7. QED
  BY <1>2, <1>5, <1>6

\* What reconciling leaves when no entry is named that the stack does not hold.
LEMMA SyncCounts ==
    ASSUME NEW lists \in ListsType, NEW commands, Len(commands.undo) \in Nat,
           SceneSteps(lists.steps) <= Len(commands.undo)
    PROVE  LET r == SyncSceneSteps(lists, commands, FALSE)
           IN  /\ r \in ListsType
               /\ SceneSteps(r.steps) <= Len(commands.undo)
               /\ r.redo = lists.redo \/ r.redo = <<>>
               /\ SceneSteps(lists.steps) < Len(commands.undo) => r.redo = <<>>
               /\ r.dropped >= lists.dropped
               /\ r.dropped = lists.dropped => 
                     SceneSteps(r.steps) = Len(commands.undo)
<1> DEFINE r == SyncSceneSteps(lists, commands, FALSE)
           n == SceneSteps(lists.steps)
           m == Len(commands.undo)
<1>1. n \in Nat /\ lists.dropped \in Nat
  BY SceneStepsNat DEF ListsType
<1>2. CASE n < m
  <2>1. /\ r \in ListsType /\ r.redo = <<>> /\ r.dropped >= lists.dropped
        /\ SceneSteps(r.steps) <= m
        /\ r.dropped = lists.dropped => SceneSteps(r.steps) = m
    BY <1>2, SyncCatchesUp
  <2> HIDE DEF r
  <2>2. QED
    BY <2>1 DEF r
<1>3. CASE n = m
  <2>1. FALSE \in BOOLEAN
    OBVIOUS
  <2>2. r = lists
    BY <1>3, <2>1, SyncSettles
  <2>3. /\ lists \in ListsType /\ SceneSteps(lists.steps) <= m
        /\ ~ (SceneSteps(lists.steps) < m)
        /\ lists.dropped >= lists.dropped /\ SceneSteps(lists.steps) = m
    BY <1>1, <1>3
  <2> HIDE DEF n, m, r
  <2>4. /\ r \in ListsType /\ SceneSteps(r.steps) <= m /\ r.redo = lists.redo
        /\ ~ (SceneSteps(lists.steps) < m)
        /\ r.dropped >= lists.dropped /\ SceneSteps(r.steps) = m
    BY <2>2, <2>3
  <2>5. QED
    BY <2>4 DEF r, m
<1>4. n < m \/ n = m
  BY <1>1
<1>5. QED
  BY <1>2, <1>3, <1>4

\* Closing one does.
LEMMA EndCounts ==
    ASSUME Typed, BracketsAgree, Counted, EndGroup
    PROVE  Counted'
<1> DEFINE commands == StackEndGroup(world.commands)
           synced == SyncSceneSteps(Lists, commands, FALSE)
           folded == CollapseGroup(synced, commands)
           next == [world EXCEPT !.commands = StackEndGroup(@)]
           undo == world.commands.undo
<1>1. world' = next /\ depth > 0 /\ depth' = depth - 1
  BY DEF EndGroup
<1>2. /\ Undos(world) \in Nat /\ Redos(world) \in Nat /\ world \in World
      /\ SceneSteps(steps) \in Nat /\ SceneSteps(redo) \in Nat /\ dropped \in Nat /\ depth \in Nat
      /\ world.commands.depth = depth /\ Lists \in ListsType
      /\ Lists.steps = steps /\ Lists.redo = redo /\ Lists.dropped = dropped
  BY Sizes DEF BracketsAgree
<1>3. next.commands = commands
  <2>1. next = [world EXCEPT !.commands = commands]
    OBVIOUS
  <2> HIDE DEF commands, next
  <2>2. QED
    BY <1>2, <2>1 DEF World
<1>4. /\ next \in World
      /\ next.commands.redo = world.commands.redo
      /\ depth > 1 => next.commands.undo = undo
      /\ depth = 1 /\ undo # <<>> =>
            Undos(next) = IF Last(undo) = <<>> THEN Undos(world) - 1 ELSE Undos(world)
  BY <1>2, EndMoves
<1>5. Undos(next) \in Nat /\ Redos(next) \in Nat
  BY <1>4, SizesAreNat
<1>6. Redos(world)' = Redos(world) /\ undo # <<>> /\ Grouping
  BY <1>1, <1>2, <1>4 DEF Redos, Grouping, Counted
<1>7. CASE depth > 1
  <2>1. UNCHANGED <<steps, redo, dropped>>
    BY <1>7 DEF EndGroup
  <2>2. world'.commands.undo = undo /\ Grouping'
    BY <1>1, <1>2, <1>4, <1>7 DEF Grouping
  <2>3. Entries' = Entries
    BY <1>6, <2>2 DEF Entries, Undos
  <2>4. QED
    BY <1>6, <2>1, <2>2, <2>3 DEF Counted
<1>8. CASE depth = 1
  <2>1. SetLists(folded)
    <3>1. ~ (depth > 1)
      BY <1>8
    <3>2. QED
      BY <3>1 DEF EndGroup
  <2>2. Entries = Undos(world) - 1
    BY <1>2, <1>6 DEF Entries
  <2>3. /\ SceneSteps(steps) <= Entries
        /\ KeepsOrder /\ Last(undo) = <<>> => SceneSteps(redo) <= Redos(world)
    BY <1>6 DEF Counted
  <2> DEFINE size == Len(commands.undo)
  <2>4. size = Undos(next) /\ size \in Nat
    BY <1>3, <1>5 DEF Undos
  <2>5. size = IF Last(undo) = <<>> THEN Undos(world) - 1 ELSE Undos(world)
    BY <1>4, <1>6, <1>8, <2>4
  <2> HIDE DEF commands
  <2>6. SceneSteps(steps) <= size /\ (Last(undo) # <<>> => SceneSteps(steps) < size)
    BY <1>2, <2>2, <2>3, <2>5
  <2>7. /\ synced \in ListsType
        /\ SceneSteps(synced.steps) <= size
        /\ synced.redo = redo \/ synced.redo = <<>>
        /\ SceneSteps(steps) < size => synced.redo = <<>>
        /\ synced.dropped >= dropped
        /\ synced.dropped = dropped => SceneSteps(synced.steps) = size
    BY <1>2, <2>4, <2>6, SyncCounts
  <2> HIDE DEF synced
  <2>8. start \in Nat
    BY DEF Typed
  <2>9. /\ folded \in ListsType
        /\ SceneSteps(folded.steps) <= SceneSteps(synced.steps)
        /\ SceneSteps(folded.redo) <= SceneSteps(synced.redo)
        /\ folded.dropped >= synced.dropped
        /\ folded.dropped = synced.dropped => SceneSteps(folded.steps) = SceneSteps(synced.steps)
    BY <2>7, <2>8, CollapseFolds
  <2> HIDE DEF folded
  <2>10. /\ folded.dropped \in Nat /\ synced.dropped \in Nat
         /\ SceneSteps(folded.steps) \in Nat /\ SceneSteps(synced.steps) \in Nat
         /\ SceneSteps(folded.redo) \in Nat /\ SceneSteps(synced.redo) \in Nat
    BY <2>7, <2>9, SceneStepsNat DEF ListsType
  <2>11. steps' = folded.steps /\ redo' = folded.redo /\ dropped' = folded.dropped
    BY <2>1 DEF SetLists
  <2>12. ~Grouping' /\ Entries' = size
    <3>1. ~Grouping'
      BY <1>1, <1>8 DEF Grouping
    <3>2. Entries' = Undos(world')
      BY <1>1, <1>5, <3>1 DEF Entries
    <3>3. QED
      BY <1>1, <2>4, <3>1, <3>2
  <2> HIDE DEF size
  <2>13. SceneSteps(steps)' <= Entries'
    BY <2>4, <2>7, <2>9, <2>10, <2>11, <2>12
  <2>14. dropped' = 0 => SceneSteps(steps)' = Entries'
    BY <1>2, <2>7, <2>9, <2>10, <2>11, <2>12
  <2>15. ASSUME KeepsOrder PROVE SceneSteps(synced.redo) <= Redos(world)
    <3>1. CASE synced.redo = <<>>
      BY <1>2, <3>1, SceneStepsOfOne
    <3>2. CASE synced.redo = redo /\ synced.redo # <<>>
      <4>1. Last(undo) = <<>>
        BY <2>6, <2>7, <3>2
      <4>2. QED
        BY <2>3, <2>15, <3>2, <4>1
    <3>3. QED
      BY <2>7, <3>1, <3>2
  <2>16. KeepsOrder => SceneSteps(redo)' <= Redos(world)'
    BY <1>2, <1>6, <2>9, <2>10, <2>11, <2>15
  <2>17. QED
    BY <2>12, <2>13, <2>14, <2>16 DEF Counted
<1>9. QED
  BY <1>1, <1>2, <1>7, <1>8

\* A bracket opened and closed with nothing in it leaves the world as it was.
LEMMA OpenedClosed ==
    ASSUME NEW w \in World, w.commands.depth = 0
    PROVE  Closed(Opened(w)) = w
<1> DEFINE old == w.commands
           longer == Append(old.undo, <<>>)
           mid == [old EXCEPT !.depth = 1, !.undo = longer]
<1>1. old \in UndoStackType /\ old.undo \in Seq(Entry) /\ <<>> \in Entry
  BY DEF World, UndoStackType, Entry
<1>2. StackBeginGroup(old) = mid
  BY DEF StackBeginGroup
<1>3. longer \in Seq(Entry) /\ longer # <<>> /\ Last(longer) = <<>> /\ Front(longer) = old.undo
  <2>1. longer \in Seq(Entry) /\ longer # <<>> /\ Len(longer) = Len(old.undo) + 1
        /\ longer[Len(old.undo) + 1] = <<>>
    BY <1>1, AppendProperties
  <2>2. Len(longer) - 1 = Len(old.undo)
    BY <1>1, <2>1
  <2>3. SubSeq(longer, 1, Len(old.undo)) = old.undo
    BY <1>1
  <2>4. QED
    BY <2>1, <2>2, <2>3 DEF Front, Last
<1> HIDE DEF longer
<1>4. mid.depth = 1 /\ mid.undo = longer /\ mid.redo = old.redo
  BY <1>1 DEF UndoStackType
<1>5. [mid EXCEPT !.depth = 0, !.undo = old.undo] = old
  <2>1. old = [undo |-> old.undo, redo |-> old.redo, depth |-> 0]
    BY <1>1 DEF UndoStackType
  <2>2. QED
    BY <2>1
<1> HIDE DEF mid
<1>6. StackEndGroup(mid) = [mid EXCEPT !.depth = 0, !.undo = old.undo]
  <2>1. StackEndGroup(mid) = [mid EXCEPT !.depth = 1 - 1,
            !.undo = IF longer # <<>> /\ Last(longer) = <<>> THEN Front(longer) ELSE longer]
    BY <1>4 DEF StackEndGroup
  <2>2. QED
    BY <1>3, <2>1
<1>7. Closed(Opened(w)) = [w EXCEPT !.commands = StackEndGroup(StackBeginGroup(old))]
  BY DEF Closed, Opened, World
<1>8. [w EXCEPT !.commands = old] = w
  BY DEF World
<1>9. QED
  BY <1>2, <1>5, <1>6, <1>7, <1>8

\* An engine call does, in a bracket and outside one.
LEMMA EngineCounts ==
    ASSUME Typed, BracketsAgree, Counted, NEW cmds \in EngineEdits, EngineEdit(cmds)
    PROVE  Counted'
<1> DEFINE o == Opened(world)
           e == EngineEdited(o, cmds)
           c == Closed(e)
           r == SyncSceneSteps(Lists, c.commands, Grouping)
<1>1. /\ cmds \in Seq(Command) /\ o \in World /\ e \in World /\ c \in World
      /\ world' = c /\ c # world /\ depth' = depth /\ SetLists(r)
  BY EngineEditIs
<1>2. /\ Undos(world) \in Nat /\ Redos(world) \in Nat /\ world \in World
      /\ SceneSteps(steps) \in Nat /\ SceneSteps(redo) \in Nat /\ dropped \in Nat /\ depth \in Nat
      /\ world.commands.depth = depth /\ Lists \in ListsType
      /\ Lists.steps = steps /\ Lists.redo = redo /\ Lists.dropped = dropped
  BY Sizes DEF BracketsAgree
<1>3. /\ o.commands.depth = depth + 1 /\ o.commands.redo = world.commands.redo
      /\ depth > 0 => o.commands.undo = world.commands.undo
      /\ depth = 0 => /\ Undos(o) = Undos(world) + 1 /\ o.commands.undo # <<>>
                      /\ Last(o.commands.undo) = <<>>
  BY <1>2, BeginMoves DEF Opened
<1>4. /\ e.commands.depth = o.commands.depth
      /\ o.commands.depth > 0 /\ o.commands.undo # <<>> =>
            /\ Undos(e) = Undos(o) /\ e.commands.undo # <<>>
            /\ Last(e.commands.undo) = <<>> => e = o
  BY <1>1, EngineMoves
<1>5. /\ c.commands.redo = e.commands.redo
      /\ e.commands.depth > 1 => c.commands.undo = e.commands.undo
      /\ e.commands.depth = 1 /\ e.commands.undo # <<>> =>
            Undos(c) = IF Last(e.commands.undo) = <<>> THEN Undos(e) - 1 ELSE Undos(e)
  BY <1>1, EndMoves DEF Closed
<1>6. Undos(c) \in Nat /\ Redos(c) \in Nat
  BY <1>1, SizesAreNat
<1>7. CASE Grouping
  <2>1. depth > 0 /\ world.commands.undo # <<>>
    BY <1>7 DEF Grouping, Counted
  <2>2. r = Lists
    BY <1>7 DEF SyncSceneSteps
  <2> HIDE DEF o, e, c, r
  <2>3. steps' = steps /\ redo' = redo /\ dropped' = dropped
    BY <1>1, <1>2, <2>2 DEF SetLists
  <2>4. /\ Undos(c) = Undos(world) /\ c.commands.undo # <<>> /\ c.commands.undo = e.commands.undo
        /\ Last(e.commands.undo) = <<>> => e = o
    <3>1. e.commands.depth > 1 /\ o.commands.depth > 0 /\ o.commands.undo = world.commands.undo
      BY <1>2, <1>3, <1>4, <2>1
    <3>2. /\ Undos(e) = Undos(o) /\ e.commands.undo # <<>> /\ c.commands.undo = e.commands.undo
          /\ Last(e.commands.undo) = <<>> => e = o
      BY <1>4, <1>5, <2>1, <3>1
    <3>3. Undos(o) = Undos(world) /\ Undos(c) = Undos(e)
      BY <3>1, <3>2 DEF Undos
    <3>4. QED
      BY <3>2, <3>3
  <2>5. Grouping' /\ Entries' = Entries
    BY <1>1, <1>7, <2>4 DEF Grouping, Entries
  <2>6. Last(c.commands.undo) = <<>> =>
          Redos(c) = Redos(world) /\ Last(world.commands.undo) = <<>>
    BY <1>3, <1>4, <1>5, <2>1, <2>4 DEF Redos
  <2>7. QED
    BY <1>1, <1>7, <2>3, <2>4, <2>5, <2>6 DEF Counted
<1>8. CASE ~Grouping
  <2>1. depth = 0 /\ SceneSteps(steps) <= Undos(world)
    BY <1>2, <1>8 DEF Grouping, Counted, Entries
  <2>2. e.commands.depth = 1 /\ e.commands.undo # <<>> /\ Undos(e) = Undos(world) + 1
        /\ (Last(e.commands.undo) = <<>> => e = o)
    BY <1>2, <1>3, <1>4, <2>1
  <2>3. Last(e.commands.undo) # <<>>
    <3> SUFFICES ASSUME Last(e.commands.undo) = <<>> PROVE FALSE
      OBVIOUS
    <3>1. c = Closed(o)
      BY <2>2
    <3>2. Closed(o) = world
      BY <1>2, <2>1, OpenedClosed
    <3>3. QED
      BY <1>1, <3>1, <3>2
  <2>4. Undos(c) = Undos(world) + 1
    BY <1>5, <2>2, <2>3
  <2>5. r = SyncSceneSteps(Lists, c.commands, FALSE)
    <3>1. Grouping = FALSE
      BY <1>8 DEF Grouping
    <3>2. QED
      BY <3>1
  <2> HIDE DEF o, e, c
  <2>6. Len(c.commands.undo) \in Nat /\ SceneSteps(Lists.steps) < Len(c.commands.undo)
    BY <1>2, <1>6, <2>1, <2>4 DEF Undos
  <2>7. /\ r \in ListsType /\ r.redo = <<>> /\ r.dropped >= dropped
        /\ SceneSteps(r.steps) <= Undos(c)
        /\ r.dropped = dropped => SceneSteps(r.steps) = Undos(c)
    BY <1>2, <2>5, <2>6, SyncCatchesUp DEF Undos
  <2> HIDE DEF r
  <2>8. r.dropped \in Nat
    BY <2>7 DEF ListsType
  <2>9. steps' = r.steps /\ redo' = r.redo /\ dropped' = r.dropped
    BY <1>1 DEF SetLists
  <2>10. ~Grouping' /\ Entries' = Undos(c)
    <3>1. ~Grouping'
      BY <1>1, <1>8 DEF Grouping
    <3>2. Entries' = Undos(world')
      BY <1>1, <1>6, <3>1 DEF Entries
    <3>3. QED
      BY <1>1, <3>1, <3>2
  <2>11. SceneSteps(redo)' <= Redos(world)'
    BY <1>1, <1>6, <2>7, <2>9, SceneStepsOfOne
  <2>12. SceneSteps(steps)' <= Entries' /\ (dropped' = 0 => SceneSteps(steps)' = Entries')
    BY <1>2, <2>7, <2>8, <2>9, <2>10
  <2>13. QED
    BY <2>10, <2>11, <2>12 DEF Counted
<1>9. QED
  BY <1>7, <1>8

\* Taking the newest step back, outside a bracket, keeps the count.
LEMMA UndoCounts ==
    ASSUME ClosesFirst, Typed, Counted, Undo
    PROVE  Counted'
<1> DEFINE r == ApplyStep(present, world, Last(steps), FALSE)
           n == ScenesIn(Last(steps))
<1>1. /\ ~Grouping /\ steps # <<>> /\ world' = r.world /\ depth' = depth /\ dropped' = dropped
      /\ IF r.ok THEN steps' = Front(steps) /\ redo' = Append(redo, Last(steps))
         ELSE UNCHANGED <<steps, redo>>
  BY DEF Undo, CanUndo, TakeBack, ClosesFirst
<1>2. /\ Undos(world) \in Nat /\ Redos(world) \in Nat /\ world \in World
      /\ SceneSteps(steps) \in Nat /\ SceneSteps(redo) \in Nat /\ dropped \in Nat
      /\ steps \in Seq(WholeStep) /\ redo \in Seq(WholeStep)
  BY Sizes
<1>3. /\ Last(steps) \in WholeStep /\ Last(steps) \in Seq(Leaf)
      /\ SceneSteps(steps) = SceneSteps(Front(steps)) + n
      /\ n \in Nat /\ SceneSteps(Front(steps)) \in Nat
  BY <1>1, <1>2, NewestStep
<1>4. /\ r.ok => Moved(r.world, world, n, FALSE)
      /\ ~r.ok => Moved(r.world, world, 0, FALSE)
  BY <1>2, <1>3, StepMoves
<1>5. SceneSteps(Append(redo, Last(steps))) = SceneSteps(redo) + n
  BY <1>2, <1>3, StepTypes, SceneStepsMoves
<1>6. /\ SceneSteps(steps) <= Undos(world)
      /\ KeepsOrder /\ dropped = 0 => SceneSteps(steps) = Undos(world)
      /\ KeepsOrder => SceneSteps(redo) <= Redos(world)
  BY <1>1, <1>2 DEF Counted, Entries
<1> HIDE DEF r, n
<1>7. ~Grouping' /\ Entries' = Undos(world')
  <2>1. ~Grouping'
    BY <1>1 DEF Grouping
  <2>2. Undos(world') \in Nat
    BY <1>1, <1>4, SizesAreNat DEF Moved
  <2>3. QED
    BY <2>1, <2>2 DEF Entries
<1>8. CASE r.ok
  <2>1. Undos(world') = Undos(world) - n /\ Redos(world') = Redos(world) + n
    BY <1>1, <1>4, <1>8 DEF Moved
  <2>2. SceneSteps(steps') = SceneSteps(steps) - n /\ SceneSteps(redo') = SceneSteps(redo) + n
    <3>1. steps' = Front(steps) /\ redo' = Append(redo, Last(steps))
      BY <1>1, <1>8
    <3>2. SceneSteps(Front(steps)) = SceneSteps(steps) - n
      BY <1>2, <1>3
    <3>3. QED
      BY <1>5, <3>1, <3>2
  <2>3. /\ SceneSteps(steps') <= Undos(world')
        /\ KeepsOrder /\ dropped' = 0 => SceneSteps(steps') = Undos(world')
        /\ KeepsOrder => SceneSteps(redo') <= Redos(world')
    BY <1>1, <1>2, <1>3, <1>6, <2>1, <2>2
  <2>4. QED
    BY <1>7, <2>3 DEF Counted
<1>9. CASE ~r.ok
  <2>1. Undos(world') = Undos(world) /\ Redos(world') = Redos(world)
    BY <1>1, <1>2, <1>4, <1>9 DEF Moved
  <2>2. steps' = steps /\ redo' = redo
    BY <1>1, <1>9
  <2>3. QED
    BY <1>1, <1>6, <1>7, <2>1, <2>2 DEF Counted
<1>10. QED
  BY <1>8, <1>9

\* So does bringing one back.
LEMMA RedoCounts ==
    ASSUME ClosesFirst, Typed, Counted, Redo
    PROVE  Counted'
<1> DEFINE r == ApplyStep(present, world, Last(redo), TRUE)
           n == ScenesIn(Last(redo))
<1>1. /\ ~Grouping /\ redo # <<>> /\ world' = r.world /\ depth' = depth /\ dropped' = dropped
      /\ IF r.ok THEN redo' = Front(redo) /\ steps' = Append(steps, Last(redo))
         ELSE UNCHANGED <<steps, redo>>
  BY DEF Redo, CanRedo, BringBack, ClosesFirst
<1>2. /\ Undos(world) \in Nat /\ Redos(world) \in Nat /\ world \in World
      /\ SceneSteps(steps) \in Nat /\ SceneSteps(redo) \in Nat /\ dropped \in Nat
      /\ steps \in Seq(WholeStep) /\ redo \in Seq(WholeStep)
  BY Sizes
<1>3. /\ Last(redo) \in WholeStep /\ Last(redo) \in Seq(Leaf)
      /\ SceneSteps(redo) = SceneSteps(Front(redo)) + n
      /\ n \in Nat /\ SceneSteps(Front(redo)) \in Nat
  BY <1>1, <1>2, NewestStep
<1>4. /\ r.ok => Moved(r.world, world, n, TRUE)
      /\ ~r.ok => Moved(r.world, world, 0, TRUE)
  BY <1>2, <1>3, StepMoves
<1>5. SceneSteps(Append(steps, Last(redo))) = SceneSteps(steps) + n
  BY <1>2, <1>3, StepTypes, SceneStepsMoves
<1>6. /\ SceneSteps(steps) <= Undos(world)
      /\ KeepsOrder /\ dropped = 0 => SceneSteps(steps) = Undos(world)
      /\ KeepsOrder => SceneSteps(redo) <= Redos(world)
  BY <1>1, <1>2 DEF Counted, Entries
<1> HIDE DEF r, n
<1>7. ~Grouping' /\ Entries' = Undos(world')
  <2>1. ~Grouping'
    BY <1>1 DEF Grouping
  <2>2. Undos(world') \in Nat
    BY <1>1, <1>4, SizesAreNat DEF Moved
  <2>3. QED
    BY <2>1, <2>2 DEF Entries
<1>8. CASE r.ok
  <2>1. Undos(world') = Undos(world) + n /\ Redos(world') = Redos(world) - n
    BY <1>1, <1>4, <1>8 DEF Moved
  <2>2. SceneSteps(redo') = SceneSteps(redo) - n /\ SceneSteps(steps') = SceneSteps(steps) + n
    <3>1. redo' = Front(redo) /\ steps' = Append(steps, Last(redo))
      BY <1>1, <1>8
    <3>2. SceneSteps(Front(redo)) = SceneSteps(redo) - n
      BY <1>2, <1>3
    <3>3. QED
      BY <1>5, <3>1, <3>2
  <2>3. /\ SceneSteps(steps') <= Undos(world')
        /\ KeepsOrder /\ dropped' = 0 => SceneSteps(steps') = Undos(world')
        /\ KeepsOrder => SceneSteps(redo') <= Redos(world')
    BY <1>1, <1>2, <1>3, <1>6, <2>1, <2>2
  <2>4. QED
    BY <1>7, <2>3 DEF Counted
<1>9. CASE ~r.ok
  <2>1. Undos(world') = Undos(world) /\ Redos(world') = Redos(world)
    BY <1>1, <1>2, <1>4, <1>9 DEF Moved
  <2>2. steps' = steps /\ redo' = redo
    BY <1>1, <1>9
  <2>3. QED
    BY <1>1, <1>6, <1>7, <2>1, <2>2 DEF Counted
<1>10. QED
  BY <1>8, <1>9

\* So does losing the oldest steps.
LEMMA EvictionCounts ==
    ASSUME Typed, Counted, NEW lists, Fewer(lists, Lists), SetLists(lists),
           UNCHANGED <<world, depth>>
    PROVE  Counted'
<1>1. /\ Undos(world) \in Nat /\ Redos(world) \in Nat /\ dropped \in Nat
      /\ SceneSteps(steps) \in Nat /\ SceneSteps(redo) \in Nat
      /\ Lists.steps = steps /\ Lists.redo = redo /\ Lists.dropped = dropped
  BY Sizes
<1>2. /\ lists \in ListsType
      /\ SceneSteps(lists.steps) <= SceneSteps(steps) /\ SceneSteps(lists.redo) <= SceneSteps(redo)
      /\ lists.dropped >= dropped /\ (lists.dropped = dropped => lists.steps = steps)
  BY <1>1 DEF Fewer
<1>3. lists.dropped \in Nat /\ SceneSteps(lists.steps) \in Nat /\ SceneSteps(lists.redo) \in Nat
  BY <1>2, SceneStepsNat DEF ListsType
<1>4. steps' = lists.steps /\ redo' = lists.redo /\ dropped' = lists.dropped
  BY DEF SetLists
<1>5. /\ Entries' = Entries /\ Entries \in Int /\ (Grouping' <=> Grouping) /\ world' = world
  BY <1>1 DEF Entries, Grouping
<1>6. /\ SceneSteps(steps)' <= Entries'
      /\ KeepsOrder /\ dropped' = 0 => SceneSteps(steps)' = Entries'
  BY <1>1, <1>2, <1>3, <1>4, <1>5 DEF Counted
<1>7. KeepsOrder /\ (Grouping => Last(world.commands.undo) = <<>>) =>
        SceneSteps(redo)' <= Redos(world)'
  BY <1>1, <1>2, <1>3, <1>4, <1>5 DEF Counted
<1>8. QED
  BY <1>5, <1>6, <1>7 DEF Counted

\* And clearing, which leaves the stack as it is.
LEMMA ClearCounts ==
    ASSUME Typed, Clear
    PROVE  Counted'
<1>1. /\ world' = world /\ steps' = <<>> /\ redo' = <<>> /\ dropped' = 0 /\ depth' = 0
      /\ KeepsOrder => world.commands = EmptyStack
  BY DEF Clear, KeepsOrder
<1>2. Undos(world') = Undos(world) /\ Undos(world) \in Nat /\ Redos(world) \in Nat /\ ~Grouping'
  BY <1>1, Sizes DEF Grouping
<1>3. SceneSteps(steps') = 0 /\ SceneSteps(redo') = 0
  BY <1>1, SceneStepsOfOne
<1>4. Entries' = Undos(world)
  BY <1>1, <1>2 DEF Entries
<1>5. KeepsOrder => Undos(world) = 0
  BY <1>1 DEF EmptyStack, Undos
<1>6. /\ SceneSteps(steps') <= Entries' /\ SceneSteps(redo') <= Redos(world')
      /\ KeepsOrder => SceneSteps(steps') = Entries'
  BY <1>1, <1>2, <1>3, <1>4, <1>5
<1>7. QED
  BY <1>2, <1>6 DEF Counted

\* Each step keeps the count.
LEMMA CountedNext ==
    ASSUME ClosesFirst, Typed, BracketsAgree, Counted, [Next]_vars
    PROVE  Counted'
<1>1. Lists \in ListsType
  BY ListsOfSession
<1>2. CASE UNCHANGED <<world, steps, redo, depth, dropped>>
  BY <1>2 DEF Counted, Grouping, Entries
<1>3. ASSUME NEW limit \in Limits, SetBudget(limit) PROVE Counted'
  <2>1. CASE limit = 0 \/ Grouping
    <3>1. SetLists(Lists) /\ UNCHANGED <<world, depth>>
      BY <1>3, <2>1 DEF SetBudget
    <3>2. UNCHANGED <<world, steps, redo, depth, dropped>>
      BY <3>1, ListsOfSession DEF SetLists
    <3>3. QED
      BY <1>2, <3>2
  <2>2. CASE ~ (limit = 0 \/ Grouping)
    <3>1. SetLists(Evict(Lists, world.commands, limit)) /\ UNCHANGED <<world, depth>>
      BY <1>3, <2>2 DEF SetBudget
    <3>2. Fewer(Evict(Lists, world.commands, limit), Lists)
      BY <1>1, EvictKeeps
    <3>3. QED
      BY <3>1, <3>2, EvictionCounts
  <2>3. QED
    BY <2>1, <2>2
<1>4. ASSUME NEW limit \in Limits, TrimTo(limit) PROVE Counted'
  <2>1. SetLists(Evict(Lists, world.commands, limit)) /\ UNCHANGED <<world, depth>>
    BY <1>4 DEF TrimTo
  <2>2. Fewer(Evict(Lists, world.commands, limit), Lists)
    BY <1>1, EvictKeeps
  <2>3. QED
    BY <2>1, <2>2, EvictionCounts
<1>5. ASSUME NEW layer \in Layers, ResolverChanges(layer) PROVE Counted'
  BY <1>2, <1>5 DEF ResolverChanges
<1>6. ASSUME NoteSnapshot PROVE Counted'
  BY <1>2, <1>6 DEF NoteSnapshot
<1>7. ASSUME NEW upto \in 1..MaxEvents, TrimJournal(upto) PROVE Counted'
  BY <1>2, <1>7 DEF TrimJournal
<1>8. CASE UNCHANGED vars
  BY <1>2, <1>8 DEF vars
<1>9. ASSUME NEW cmd \in HostCommands, "strokeAcrossSteps" \notin Calls => GoesOn(cmd), Perform(cmd)
      PROVE  Counted'
  <2>1. KeepsOrder => GoesOn(cmd)
    BY <1>9 DEF KeepsOrder
  <2>2. QED
    BY <1>9, <2>1, PerformCounts
<1>10. QED
  BY <1>3, <1>4, <1>5, <1>6, <1>7, <1>8, <1>9, PayloadCounts, BeginCounts, EndCounts,
     EngineCounts, UndoCounts, RedoCounts, ClearCounts DEF Next

\* The inductive invariant of the history.
HistoryIInv == Typed /\ BracketsAgree /\ Counted

\* A session starts with nothing to count.
LEMMA HistoryStarts ==
    ASSUME Init
    PROVE  HistoryIInv
<1>1. Typed
  BY TypedInit
<1>2. BracketsAgree /\ Undos(world) = 0 /\ Redos(world) = 0 /\ ~Grouping
  BY DEF Init, BracketsAgree, EmptyStack, Undos, Redos, Grouping
<1>3. SceneSteps(steps) = 0 /\ SceneSteps(redo) = 0
  BY SceneStepsOfOne DEF Init
<1>4. Entries = 0
  <2>1. Entries = Undos(world) - 0
    BY <1>2 DEF Entries
  <2>2. QED
    BY <1>2, <2>1
<1>5. Counted
  BY <1>2, <1>3, <1>4 DEF Counted
<1>6. QED
  BY <1>1, <1>2, <1>5 DEF HistoryIInv

\* It holds for a host that undoes outside its brackets, and does not clear inside
\* one over commands.
THEOREM HistoryInvariant ==
    ASSUME ClearsSafely, ClosesFirst
    PROVE  Spec => []HistoryIInv
<1>1. Init => HistoryIInv
  BY HistoryStarts
<1>2. HistoryIInv /\ [Next]_vars => HistoryIInv'
  BY TypedNext, BracketsNext, CountedNext DEF HistoryIInv
<1>3. QED
  BY <1>1, <1>2, PTL DEF Spec

\* The list is an index over the stack (StepsNameEntries).
THEOREM StepsAlwaysName ==
    ASSUME KeepsOrder
    PROVE  Spec => []StepsNameEntries
<1>1. HistoryIInv => StepsNameEntries
  <2> SUFFICES ASSUME HistoryIInv, ~Grouping
               PROVE  /\ dropped = 0 => SceneSteps(steps) = Len(world.commands.undo)
                      /\ SceneSteps(steps) <= Len(world.commands.undo)
                      /\ SceneSteps(redo) <= Len(world.commands.redo)
    BY DEF StepsNameEntries
  <2>1. Undos(world) \in Nat
    BY Sizes DEF HistoryIInv
  <2>2. Entries = Undos(world)
    BY <2>1 DEF Entries
  <2>3. QED
    BY <2>2 DEF HistoryIInv, Counted, Undos, Redos
<1>2. ClearsSafely /\ ClosesFirst
  BY DEF KeepsOrder, ClearsSafely, ClosesFirst
<1>3. QED
  BY <1>1, <1>2, HistoryInvariant, PTL

\* The newest step of a list that offers one can be applied when every layer is in
\* place.
LEMMA OfferedStep ==
    ASSUME NEW list \in Seq(WholeStep), ReversibleDepth(list) > 0
    PROVE  list # <<>> /\ AllFree(Layers, Last(list))
<1> DEFINE T == {i \in 1..Len(list) : \A j \in i..Len(list) : Reversible(list[j])}
<1>1. T # {}
  <2>1. Cardinality(T) > 0
    BY DEF ReversibleDepth
  <2> HIDE DEF T
  <2>2. Cardinality({}) = 0
    BY FS_EmptySet
  <2>3. QED
    BY <2>1, <2>2
<1>2. PICK i \in 1..Len(list) : \A j \in i..Len(list) : Reversible(list[j])
  BY <1>1
<1>3. Len(list) \in Nat /\ Len(list) \in i..Len(list) /\ Len(list) \in 1..Len(list) /\ list # <<>>
  BY <1>2
<1>4. Last(list) \in WholeStep /\ Reversible(Last(list))
  BY <1>2, <1>3, NewestStep DEF Last
<1>5. Last(list) \in Seq(FreeLeaf)
  BY <1>4 DEF WholeStep, Reversible
<1>6. \A leaf \in FreeLeaf : Free(Layers, leaf)
  BY DEF FreeLeaf, Leaf, Free, Scene
<1>7. \A k \in 1..Len(Last(list)) : Last(list)[k] \in FreeLeaf
  BY <1>5
<1>8. QED
  BY <1>3, <1>6, <1>7 DEF AllFree

\* A depth above zero is an undo that succeeds (UndoDepthIsHonest).
THEOREM UndoAlwaysHonest ==
    ASSUME ClearsSafely, ClosesFirst
    PROVE  Spec => []UndoDepthIsHonest
<1>1. HistoryIInv => UndoDepthIsHonest
  <2> SUFFICES ASSUME HistoryIInv, ~Grouping, ReversibleDepth(steps) > 0
               PROVE  ApplyStep(Layers, world, Last(steps), FALSE).ok
    BY DEF UndoDepthIsHonest
  <2>1. /\ Undos(world) \in Nat /\ SceneSteps(steps) \in Nat /\ world \in World
        /\ steps \in Seq(WholeStep)
    BY Sizes DEF HistoryIInv
  <2>2. steps # <<>> /\ AllFree(Layers, Last(steps))
    BY <2>1, OfferedStep
  <2>3. /\ Last(steps) \in Seq(Leaf) /\ ScenesIn(Last(steps)) \in Nat
        /\ SceneSteps(steps) = SceneSteps(Front(steps)) + ScenesIn(Last(steps))
        /\ SceneSteps(Front(steps)) \in Nat
    BY <2>1, <2>2, NewestStep
  <2>4. SceneSteps(steps) <= Undos(world)
    BY <2>1 DEF HistoryIInv, Counted, Entries
  <2>5. Undos(world) >= ScenesIn(Last(steps)) /\ FALSE \in BOOLEAN
    BY <2>1, <2>3, <2>4
  <2>6. Source(world, FALSE) >= ScenesIn(Last(steps))
    BY <2>5 DEF Source
  <2>7. QED
    BY <2>1, <2>2, <2>3, <2>5, <2>6, StepMoves
<1>2. QED
  BY <1>1, HistoryInvariant, PTL

\* So is a redo (RedoDepthIsHonest).
THEOREM RedoAlwaysHonest ==
    ASSUME KeepsOrder
    PROVE  Spec => []RedoDepthIsHonest
<1>1. HistoryIInv => RedoDepthIsHonest
  <2> SUFFICES ASSUME HistoryIInv, ~Grouping, ReversibleDepth(redo) > 0
               PROVE  ApplyStep(Layers, world, Last(redo), TRUE).ok
    BY DEF RedoDepthIsHonest
  <2>1. /\ Redos(world) \in Nat /\ SceneSteps(redo) \in Nat /\ world \in World
        /\ redo \in Seq(WholeStep)
    BY Sizes DEF HistoryIInv
  <2>2. redo # <<>> /\ AllFree(Layers, Last(redo))
    BY <2>1, OfferedStep
  <2>3. /\ Last(redo) \in Seq(Leaf) /\ ScenesIn(Last(redo)) \in Nat
        /\ SceneSteps(redo) = SceneSteps(Front(redo)) + ScenesIn(Last(redo))
        /\ SceneSteps(Front(redo)) \in Nat
    BY <2>1, <2>2, NewestStep
  <2>4. SceneSteps(redo) <= Redos(world)
    BY DEF HistoryIInv, Counted
  <2>5. Redos(world) >= ScenesIn(Last(redo)) /\ TRUE \in BOOLEAN
    BY <2>1, <2>3, <2>4
  <2>6. Source(world, TRUE) >= ScenesIn(Last(redo))
    BY <2>5 DEF Source
  <2>7. QED
    BY <2>1, <2>2, <2>3, <2>5, <2>6, StepMoves
<1>2. ClearsSafely /\ ClosesFirst
  BY DEF KeepsOrder, ClearsSafely, ClosesFirst
<1>3. QED
  BY <1>1, <1>2, HistoryInvariant, PTL

-----------------------------------------------------------------------------
\* Action properties: the newest step and the journal that is trimmed.

\* Whatever the budget or the trim, the newest step is the next to be undone
\* (NewestStepSurvives), whatever the host calls.
THEOREM NewestAlwaysSurvives == Spec => NewestStepSurvives
<1>1. Init => Typed
  BY TypedInit
<1>2. Typed /\ [Next]_vars => Typed'
  BY TypedNext
<1>3. Typed /\ [Next]_vars =>
        [\A limit \in Limits : (SetBudget(limit) \/ TrimTo(limit)) /\ steps # <<>>
            => steps' # <<>> /\ Last(steps') = Last(steps)]_vars
  <2> SUFFICES ASSUME Typed, NEW limit \in Limits, SetBudget(limit) \/ TrimTo(limit), steps # <<>>
               PROVE  steps' # <<>> /\ Last(steps') = Last(steps)
    OBVIOUS
  <2>1. PICK lists : SetLists(lists) /\ (lists = Lists \/ lists = Evict(Lists, world.commands, limit))
    BY DEF SetBudget, TrimTo
  <2>2. Lists \in ListsType /\ Lists.steps = steps
    BY ListsOfSession
  <2>3. CASE lists = Lists
    BY <2>1, <2>2, <2>3 DEF SetLists
  <2>4. CASE lists = Evict(Lists, world.commands, limit)
    <3>1. Fewer(lists, Lists)
      BY <2>2, <2>4, EvictKeeps
    <3>2. lists.steps # <<>> /\ Last(lists.steps) = Last(steps)
      BY <2>2, <3>1 DEF Fewer
    <3>3. QED
      BY <2>1, <3>2 DEF SetLists
  <2>5. QED
    BY <2>1, <2>3, <2>4
<1>4. QED
  BY <1>1, <1>2, <1>3, PTL DEF Spec, NewestStepSurvives

\* A set of indices within a bound has a greatest.
LEMMA GreatestOf ==
    ASSUME NEW n \in Nat, NEW s \in SUBSET (0..n), s # {}
    PROVE  \E x \in s : \A y \in s : y <= x
<1> DEFINE T == {n - x : x \in s}
<1>1. T \in SUBSET Nat /\ T # {}
  <2>1. \A x \in 0..n : n - x \in Nat
    OBVIOUS
  <2>2. QED
    BY <2>1
<1>2. PICK m \in T : \A t \in T : m <= t
  <2> HIDE DEF T
  <2>1. QED
    BY <1>1, LeastNat
<1>3. PICK x \in s : m = n - x
  BY <1>2
<1>4. \A y \in s : y <= x
  <2> SUFFICES ASSUME NEW y \in s PROVE y <= x
    OBVIOUS
  <2>1. m <= n - y
    BY <1>2
  <2>2. x \in Nat /\ y \in Nat
    OBVIOUS
  <2>3. QED
    BY <1>3, <2>1, <2>2
<1>5. QED
  BY <1>4

\* The snapshot an index continues from is among those a trim below it keeps.
LEMMA SnapshotKept ==
    ASSUME Typed, NEW floor \in Nat, NEW from \in Nat, floor <= from,
           snapshots' = [i \in SnapshotsKept(floor) |-> snapshots[i]]
    PROVE  SnapshotFor(from)' = SnapshotFor(from)
<1> DEFINE before == {i \in DOMAIN snapshots : i <= from}
           after  == {i \in DOMAIN snapshots' : i <= from}
           Newest(s) == CHOOSE i \in s : \A j \in s : j <= i
<1>1. MaxEvents \in Nat /\ before \in SUBSET (0..MaxEvents)
  BY HistoryAssumption DEF Typed, RecordTyped
<1>2. DOMAIN snapshots' = SnapshotsKept(floor)
      /\ \A i \in SnapshotsKept(floor) : snapshots'[i] = snapshots[i]
  OBVIOUS
<1>3. SnapshotsKept(floor) = {k \in DOMAIN snapshots : \A j \in DOMAIN snapshots : j <= floor => j <= k}
  BY DEF SnapshotsKept
<1>4. SnapshotFor(from) = IF before = {} THEN NoSnapshot ELSE snapshots[Newest(before)]
  BY DEF SnapshotFor
<1>5. SnapshotFor(from)' = IF after = {} THEN NoSnapshot ELSE snapshots'[Newest(after)]
  BY DEF SnapshotFor
<1>6. after \subseteq before
  BY <1>2, <1>3
<1>7. DOMAIN snapshots \subseteq Nat
  BY DEF Typed, RecordTyped
<1>8. CASE before = {}
  BY <1>4, <1>5, <1>6, <1>8
<1>9. CASE before # {}
  <2>1. PICK x \in before : \A y \in before : y <= x
    <3> HIDE DEF before
    <3>1. QED
      BY <1>1, <1>9, GreatestOf
  <2>2. x \in after
    <3>1. \A j \in DOMAIN snapshots : j <= floor => j <= x
      BY <1>7, <2>1
    <3>2. QED
      BY <1>2, <1>3, <2>1, <3>1
  <2>3. before \subseteq Nat
    BY <1>7
  <2> HIDE DEF before, after
  <2>4. Newest(before) = x
    <3>1. \A i \in before : (\A j \in before : j <= i) => i = x
      BY <2>1, <2>3
    <3>2. QED
      BY <2>1, <3>1
  <2>5. Newest(after) = x
    <3>1. \A i \in after : (\A j \in after : j <= i) => i = x
      BY <1>6, <2>1, <2>2, <2>3
    <3>2. \A j \in after : j <= x
      BY <1>6, <2>1
    <3>3. QED
      BY <2>2, <3>1, <3>2
  <2> HIDE DEF Newest
  <2>6. snapshots'[x] = snapshots[x]
    <3>1. x \in SnapshotsKept(floor)
      BY <1>2, <2>2 DEF after
    <3>2. QED
      BY <1>2, <3>1
  <2>7. QED
    BY <1>4, <1>5, <1>9, <2>2, <2>4, <2>5, <2>6
<1>10. QED
  BY <1>8, <1>9

\* The entries of what is left after a prefix is dropped.
LEMMA WithoutAt ==
    ASSUME NEW S, NEW s \in Seq(S), NEW n \in 0..Len(s)
    PROVE  \A i \in 1..Len(Without(s, n)) : Without(s, n)[i] = s[n + i]
<1> DEFINE v == Without(s, n)
<1>1. v = SubSeq(s, n + 1, Len(s))
  BY DEF Without
<1>2. v \in Seq(S) /\ Len(v) = Len(s) - n
  BY WithoutLen
<1> HIDE DEF v
<1>3. \A i \in 1..Len(v) : v[i] = s[n + i]
  BY <1>1, <1>2
<1>4. QED
  BY <1>3 DEF v

\* What is left of what is left.
LEMMA WithoutTwice ==
    ASSUME NEW S, NEW s \in Seq(S), NEW a \in 0..Len(s), NEW b \in 0..(Len(s) - a)
    PROVE  Without(Without(s, a), b) = Without(s, a + b)
<1> DEFINE t == Without(s, a)
           u == Without(t, b)
           v == Without(s, a + b)
<1>1. Len(s) \in Nat /\ a \in Nat /\ b \in Nat /\ a + b \in 0..Len(s)
  OBVIOUS
<1>2. t \in Seq(S) /\ Len(t) = Len(s) - a
  BY WithoutLen
<1>3. v \in Seq(S) /\ Len(v) = Len(s) - (a + b)
  BY <1>1, WithoutLen
<1>4. \A i \in 1..Len(t) : t[i] = s[a + i]
  BY <1>1, WithoutAt
<1>5. \A i \in 1..Len(v) : v[i] = s[(a + b) + i]
  BY <1>1, WithoutAt
<1>6. u \in Seq(S) /\ Len(u) = Len(t) - b
  BY <1>1, <1>2, WithoutLen
<1>7. \A i \in 1..Len(u) : u[i] = t[b + i]
  <2>1. b \in 0..Len(t)
    BY <1>1, <1>2
  <2> HIDE DEF t
  <2>2. QED
    BY <1>2, <2>1, WithoutAt
<1> HIDE DEF t, u, v
<1>8. Len(u) = Len(v)
  BY <1>1, <1>2, <1>3, <1>6
<1>9. ASSUME NEW i \in 1..Len(u) PROVE u[i] = v[i]
  <2>1. i \in 1..Len(v) /\ b + i \in 1..Len(t) /\ a + (b + i) = (a + b) + i
    BY <1>1, <1>2, <1>6, <1>8
  <2>2. QED
    BY <1>4, <1>5, <1>7, <2>1
<1>10. u = v
  BY <1>3, <1>6, <1>8, <1>9, SeqEqual
<1>11. QED
  BY <1>10 DEF u, t, v

\* Trimming the journal changes no answer still given (TrimKeepsSegments), whatever
\* the host calls.
THEOREM TrimAlwaysKeeps == Spec => TrimKeepsSegments
<1>1. Init => Typed
  BY TypedInit
<1>2. Typed /\ [Next]_vars => Typed'
  BY TypedNext
<1>3. Typed /\ [Next]_vars =>
        [\A upto \in 1..MaxEvents : TrimJournal(upto) =>
            \A from \in base'..MaxEvents : JournalSince(from)' = JournalSince(from)]_vars
  <2> SUFFICES ASSUME Typed, NEW upto \in 1..MaxEvents, TrimJournal(upto),
                      NEW from \in base'..MaxEvents
               PROVE  JournalSince(from)' = JournalSince(from)
    OBVIOUS
  <2> DEFINE floor == IF upto > JournalNext THEN JournalNext ELSE upto
             n == Len(journal)
  <2>1. /\ upto > base /\ journal' = Without(journal, floor - base) /\ base' = floor
        /\ snapshots' = [i \in SnapshotsKept(floor) |-> snapshots[i]]
    BY DEF TrimJournal
  <2>2. journal \in Seq(Event) /\ base \in Nat /\ MaxEvents \in Nat
    BY HistoryAssumption DEF Typed, RecordTyped
  <2>3. n \in Nat
    BY <2>2
  <2>4. floor \in Nat /\ floor - base \in 0..n /\ JournalNext = base + n
    BY <2>1, <2>2, <2>3 DEF JournalNext
  <2> HIDE DEF floor
  <2>5. from \in Nat /\ floor <= from /\ base <= from
    BY <2>1, <2>2, <2>3, <2>4
  <2>6. Len(journal') = n - (floor - base)
    BY <2>1, <2>2, <2>4, WithoutLen
  <2>7. JournalNext' = JournalNext
    BY <2>1, <2>2, <2>3, <2>4, <2>6 DEF JournalNext
  <2>8. SnapshotFor(from)' = SnapshotFor(from)
    BY <2>1, <2>4, <2>5, SnapshotKept
  <2>9. CASE from >= JournalNext
    BY <2>7, <2>9 DEF JournalSince
  <2>10. CASE ~ (from >= JournalNext)
    <3>1. from - base' \in 0..(n - (floor - base)) /\ (floor - base) + (from - base') = from - base
      BY <2>1, <2>2, <2>3, <2>4, <2>5, <2>10
    <3>2. Without(journal, floor - base) \in Seq(Event)
      BY <2>2, <2>4, WithoutLen
    <3>3. Without(journal', from - base') = Without(journal, from - base)
      BY <2>1, <2>2, <2>4, <3>1, WithoutTwice
    <3>4. JournalSince(from) = [stamp |-> SnapshotFor(from), events |-> Without(journal, from - base)]
      <4>1. ~ (from < base)
        BY <2>2, <2>5
      <4>2. QED
        BY <2>10, <4>1 DEF JournalSince
    <3>5. JournalSince(from)' = [stamp |-> SnapshotFor(from)', events |-> Without(journal', from - base')]
      <4>1. ~ (from < base')
        BY <2>1, <2>4, <2>5
      <4>2. ~ (from >= JournalNext')
        BY <2>7, <2>10
      <4>3. QED
        BY <4>1, <4>2 DEF JournalSince
    <3>6. QED
      BY <2>8, <3>3, <3>4, <3>5
  <2>11. QED
    BY <2>9, <2>10
<1>4. QED
  BY <1>1, <1>2, <1>3, PTL DEF Spec, TrimKeepsSegments

-----------------------------------------------------------------------------
\* The stack as a line of documents.

\* What it is for the inverse of a command to be one: it applies, it gives the
\* document back, and its own inverse is the command.
Inverted(d, cmd) ==
    LET after == Applied(d, cmd)
        inverse == InverseOf(d, cmd)
    IN  /\ Applicable(after, inverse)
        /\ Applied(after, inverse) = d
        /\ InverseOf(after, inverse) = cmd

\* A list cut in two, and joined again.
LEMMA CutAndJoined ==
    ASSUME NEW S, NEW a \in Seq(S), NEW b \in Seq(S), NEW n \in 0..Len(a)
    PROVE  /\ SubSeq(a, 1, Len(a) - n) \o SubSeq(a, Len(a) - n + 1, Len(a)) = a
           /\ Len(SubSeq(a, Len(a) - n + 1, Len(a))) = n
           /\ SubSeq(a \o b, 1, Len(a \o b) - Len(b)) = a
           /\ SubSeq(a \o b, Len(a \o b) - Len(b) + 1, Len(a \o b)) = b
<1>1. /\ Len(a) \in Nat /\ Len(b) \in Nat /\ n \in Nat /\ n <= Len(a)
      /\ \A i \in 1..Len(a) : a[i] \in S
  OBVIOUS
<1> DEFINE m == Len(a) - n
           x == SubSeq(a, 1, m)
           y == SubSeq(a, m + 1, Len(a))
           c == a \o b
           u == SubSeq(c, 1, Len(a))
           v == SubSeq(c, Len(a) + 1, Len(c))
<1>2. m \in Nat /\ m <= Len(a) /\ Len(a) = m + n
  BY <1>1
<1>3. c \in Seq(S) /\ Len(c) = Len(a) + Len(b)
      /\ (\A k \in 1..Len(a) : c[k] = a[k]) /\ (\A k \in 1..Len(b) : c[Len(a) + k] = b[k])
  BY ConcatProperties
<1>4. Len(c) - Len(b) = Len(a)
  BY <1>1, <1>3
<1> HIDE DEF m, c
<1>5. x \in Seq(S) /\ Len(x) = m /\ \A k \in 1..m : x[k] = a[k]
  <2>1. \A i \in 1..m : a[i] \in S
    BY <1>1, <1>2
  <2>2. 1 \in Int /\ m \in Int
    BY <1>2
  <2>3. /\ x \in Seq(S) /\ Len(x) = IF 1 <= m THEN m - 1 + 1 ELSE 0
        /\ \A i \in 1..(m - 1 + 1) : x[i] = a[1 + i - 1]
    BY <2>1, <2>2, SubSeqProperties
  <2> HIDE DEF x
  <2>4. QED
    BY <1>2, <2>3
<1>6. y \in Seq(S) /\ Len(y) = n /\ \A k \in 1..n : y[k] = a[m + k]
  <2>1. \A i \in (m + 1)..Len(a) : a[i] \in S
    BY <1>1, <1>2
  <2>2. m + 1 \in Int /\ Len(a) \in Int
    BY <1>1, <1>2
  <2>3. /\ y \in Seq(S) /\ Len(y) = IF m + 1 <= Len(a) THEN Len(a) - (m + 1) + 1 ELSE 0
        /\ \A i \in 1..(Len(a) - (m + 1) + 1) : y[i] = a[m + 1 + i - 1]
    BY <2>1, <2>2, SubSeqProperties
  <2> HIDE DEF y
  <2>4. Len(a) - (m + 1) + 1 = n
    BY <1>1, <1>2
  <2>5. Len(y) = n
    <3>1. CASE n = 0
      <4>1. ~ (m + 1 <= Len(a))
        BY <1>1, <1>2, <3>1
      <4>2. QED
        BY <2>3, <3>1, <4>1
    <3>2. CASE n # 0
      <4>1. m + 1 <= Len(a)
        BY <1>1, <1>2, <3>2
      <4>2. Len(y) = Len(a) - (m + 1) + 1
        BY <2>3, <4>1
      <4>3. QED
        BY <2>4, <4>2
    <3>3. QED
      BY <3>1, <3>2
  <2>6. ASSUME NEW k \in 1..n PROVE y[k] = a[m + k]
    <3>1. y[k] = a[m + 1 + k - 1]
      BY <2>3, <2>4
    <3>2. m + 1 + k - 1 = m + k
      BY <1>1, <1>2
    <3>3. QED
      BY <3>1, <3>2
  <2>7. QED
    BY <2>3, <2>5, <2>6
<1>7. x \o y = a
  <2> DEFINE z == x \o y
  <2> HIDE DEF x, y
  <2>0. x \in Seq(S) /\ y \in Seq(S)
    BY <1>5, <1>6
  <2>1. z \in Seq(S) /\ Len(z) = Len(x) + Len(y)
        /\ (\A k \in 1..Len(x) : z[k] = x[k]) /\ (\A k \in 1..Len(y) : z[Len(x) + k] = y[k])
    BY <2>0, ConcatProperties
  <2> HIDE DEF z
  <2>2. Len(z) = Len(a)
    BY <1>2, <1>5, <1>6, <2>1
  <2>3. ASSUME NEW k \in 1..Len(a) PROVE z[k] = a[k]
    <3>1. CASE k <= m
      BY <1>2, <1>5, <2>1, <3>1
    <3>2. CASE k > m
      <4>1. k - m \in 1..n /\ m + (k - m) = k
        BY <1>1, <1>2, <3>2
      <4>2. z[m + (k - m)] = y[k - m] /\ y[k - m] = a[m + (k - m)]
        BY <1>5, <1>6, <2>1, <4>1
      <4>3. QED
        BY <4>1, <4>2
    <3>3. QED
      BY <1>1, <1>2, <3>1, <3>2
  <2>4. z = a
    BY <2>1, <2>2, <2>3, SeqEqual
  <2>5. QED
    BY <2>4 DEF z
<1>8. u = a
  <2>1. \A i \in 1..Len(a) : c[i] \in S
    BY <1>1, <1>3
  <2>2. 1 \in Int /\ Len(a) \in Int
    BY <1>1
  <2>3. /\ u \in Seq(S) /\ Len(u) = IF 1 <= Len(a) THEN Len(a) - 1 + 1 ELSE 0
        /\ \A i \in 1..(Len(a) - 1 + 1) : u[i] = c[1 + i - 1]
    BY <2>1, <2>2, SubSeqProperties
  <2> HIDE DEF u
  <2>4. Len(u) = Len(a) /\ \A i \in 1..Len(a) : u[i] = a[i]
    BY <1>1, <1>3, <2>3
  <2>5. QED
    BY <2>3, <2>4, SeqEqual
<1>9. v = b
  <2>1. \A i \in (Len(a) + 1)..Len(c) : c[i] \in S
    BY <1>1, <1>3
  <2>2. Len(a) + 1 \in Int /\ Len(c) \in Int
    BY <1>1, <1>3
  <2>3. /\ v \in Seq(S) /\ Len(v) = IF Len(a) + 1 <= Len(c) THEN Len(c) - (Len(a) + 1) + 1 ELSE 0
        /\ \A i \in 1..(Len(c) - (Len(a) + 1) + 1) : v[i] = c[Len(a) + 1 + i - 1]
    BY <2>1, <2>2, SubSeqProperties
  <2> HIDE DEF v
  <2>6. Len(c) - (Len(a) + 1) + 1 = Len(b) /\ (Len(a) + 1 <= Len(c) <=> Len(b) > 0)
    BY <1>1, <1>3
  <2>7. Len(v) = Len(b)
    BY <1>1, <2>3, <2>6
  <2>8. ASSUME NEW i \in 1..Len(b) PROVE v[i] = b[i]
    <3>1. v[i] = c[Len(a) + 1 + i - 1] /\ Len(a) + 1 + i - 1 = Len(a) + i
      BY <1>1, <2>3, <2>6
    <3>2. QED
      BY <1>3, <3>1
  <2>4. Len(v) = Len(b) /\ \A i \in 1..Len(b) : v[i] = b[i]
    BY <2>7, <2>8
  <2>5. QED
    BY <2>3, <2>4, SeqEqual
<1>10. QED
  BY <1>4, <1>6, <1>7, <1>8, <1>9 DEF m, c

\* An item written over a node and then the old one again leaves the document.
LEMMA WrittenTwice ==
    ASSUME NEW d \in Document, NEW n \in Nodes, NEW x
    PROVE  [d EXCEPT ![n] = x][n] = x /\ [[d EXCEPT ![n] = x] EXCEPT ![n] = d[n]] = d
  BY DEF Document

\* The inverse apply() answers is one (commands.h, "a computable inverse").
LEMMA CommandInverts ==
    ASSUME NEW d \in Document, NEW cmd \in Command, Applicable(d, cmd)
    PROVE  Inverted(d, cmd)
<1> DEFINE n == cmd.node
           item == d[n]
           inv == InverseOf(d, cmd)
<1>1. n \in Nodes
  BY DEF Command
<1>2. item \in Item \cup {NoItem}
  BY <1>1 DEF Document
<1>3. \A x : [d EXCEPT ![n] = x][n] = x /\ [[d EXCEPT ![n] = x] EXCEPT ![n] = item] = d
  BY <1>1, WrittenTwice
<1>4. NoItem \notin Item
  BY NoItemAssumption DEF Item
<1> HIDE DEF n
<1>5. CASE cmd.op = "AddNode"
  <2> DEFINE x == cmd.item
             e == [d EXCEPT ![n] = x]
  <2>1. x \in Item /\ cmd = [op |-> "AddNode", node |-> n, item |-> x]
    BY <1>5 DEF Command, n
  <2>2. item = NoItem
    BY <1>5 DEF Applicable, n
  <2>3. Applied(d, cmd) = e
    BY <1>5 DEF Applied, n
  <2>4. inv = [op |-> "RemoveNode", node |-> n]
    BY <1>5 DEF InverseOf, n
  <2>5. e[n] = x /\ [e EXCEPT ![n] = item] = d
    BY <1>3
  <2> HIDE DEF x, e, item, inv
  <2>6. inv.op = "RemoveNode" /\ inv.node = n
    BY <2>4
  <2>7. Applicable(e, inv)
    BY <1>4, <2>1, <2>5, <2>6 DEF Applicable
  <2>8. Applied(e, inv) = d
    BY <2>2, <2>5, <2>6 DEF Applied
  <2>9. InverseOf(e, inv) = cmd
    BY <2>1, <2>5, <2>6 DEF InverseOf
  <2>10. QED
    BY <2>3, <2>7, <2>8, <2>9 DEF Inverted, inv
<1>6. CASE cmd.op = "RemoveNode"
  <2> DEFINE e == [d EXCEPT ![n] = NoItem]
  <2>1. item \in Item /\ cmd = [op |-> "RemoveNode", node |-> n]
    BY <1>2, <1>6 DEF Command, Applicable, n
  <2>3. Applied(d, cmd) = e
    BY <1>6 DEF Applied, n
  <2>4. inv = [op |-> "AddNode", node |-> n, item |-> item]
    BY <1>6 DEF InverseOf, n
  <2>5. e[n] = NoItem /\ [e EXCEPT ![n] = item] = d
    BY <1>3
  <2> HIDE DEF e, item, inv
  <2>6. inv.op = "AddNode" /\ inv.node = n /\ inv.item = item
    BY <2>4
  <2>7. Applicable(e, inv)
    BY <2>5, <2>6 DEF Applicable
  <2>8. Applied(e, inv) = d
    BY <2>5, <2>6 DEF Applied
  <2>9. InverseOf(e, inv) = cmd
    BY <2>1, <2>5, <2>6 DEF InverseOf
  <2>10. QED
    BY <2>3, <2>7, <2>8, <2>9 DEF Inverted, inv
<1>7. CASE cmd.op = "SetColor"
  <2> DEFINE x == [item EXCEPT !.color = cmd.color]
             e == [d EXCEPT ![n] = x]
             was == item.color
  <2>1. item \in Item /\ cmd.color \in Colors
        /\ cmd = [op |-> "SetColor", node |-> n, color |-> cmd.color]
    BY <1>2, <1>7 DEF Command, Applicable, n
  <2>2. Applied(d, cmd) = e
    BY <1>7 DEF Applied, n
  <2>3. inv = [op |-> "SetColor", node |-> n, color |-> was]
    BY <1>7 DEF InverseOf, n
  <2>4. e[n] = x /\ [e EXCEPT ![n] = item] = d
    BY <1>3
  <2> HIDE DEF item, inv, e
  <2>5. x.color = cmd.color /\ [x EXCEPT !.color = was] = item /\ x \in Item
    BY <2>1 DEF Item
  <2> HIDE DEF x, was
  <2>6. inv.op = "SetColor" /\ inv.node = n /\ inv.color = was
    BY <2>3
  <2>7. Applicable(e, inv)
    BY <1>4, <2>4, <2>5, <2>6 DEF Applicable
  <2>8. Applied(e, inv) = d
    BY <2>4, <2>5, <2>6 DEF Applied
  <2>9. InverseOf(e, inv) = cmd
    BY <2>1, <2>4, <2>5, <2>6 DEF InverseOf
  <2>10. QED
    BY <2>2, <2>7, <2>8, <2>9 DEF Inverted, inv
<1>8. CASE cmd.op = "AppendStroke"
  <2> DEFINE longer == item.stroke \o cmd.points
             x == [item EXCEPT !.stroke = longer]
             e == [d EXCEPT ![n] = x]
             size == Len(cmd.points)
  <2>1. item \in Item /\ cmd.points \in Seq(Points)
        /\ cmd = [op |-> "AppendStroke", node |-> n, points |-> cmd.points]
    BY <1>2, <1>8 DEF Command, Applicable, n
  <2>2. Applied(d, cmd) = e
    BY <1>8 DEF Applied, n
  <2>3. inv = [op |-> "TrimStroke", node |-> n, count |-> size]
    BY <1>8 DEF InverseOf, n
  <2>4. e[n] = x /\ [e EXCEPT ![n] = item] = d
    BY <1>3
  <2> HIDE DEF item, inv, e
  <2>5. item.stroke \in Seq(Points) /\ size \in Nat /\ 0 \in 0..Len(item.stroke)
    BY <2>1 DEF Item
  <2>6. /\ SubSeq(longer, 1, Len(longer) - size) = item.stroke
        /\ SubSeq(longer, Len(longer) - size + 1, Len(longer)) = cmd.points
    BY <2>1, <2>5, CutAndJoined
  <2>7. longer \in Seq(Points) /\ Len(longer) = Len(item.stroke) + size /\ size <= Len(longer)
    BY <2>1, <2>5, ConcatProperties
  <2> HIDE DEF longer, size
  <2>8. x.stroke = longer /\ x \in Item
    BY <2>1, <2>7 DEF Item
  <2>9. [x EXCEPT !.stroke = item.stroke] = item
    BY <2>1 DEF Item
  <2> HIDE DEF x
  <2>10. inv.op = "TrimStroke" /\ inv.node = n /\ inv.count = size
    BY <2>3
  <2>11. Applicable(e, inv)
    BY <1>4, <2>4, <2>7, <2>8, <2>10 DEF Applicable
  <2>12. Applied(e, inv) = d
    BY <2>4, <2>6, <2>8, <2>9, <2>10 DEF Applied
  <2>13. InverseOf(e, inv) = cmd
    BY <2>1, <2>4, <2>6, <2>8, <2>10 DEF InverseOf
  <2>14. QED
    BY <2>2, <2>11, <2>12, <2>13 DEF Inverted, inv
<1>9. CASE cmd.op = "TrimStroke"
  <2> DEFINE stroke == item.stroke
             gone == SubSeq(stroke, Len(stroke) - cmd.count + 1, Len(stroke))
             shorter == SubSeq(stroke, 1, Len(stroke) - cmd.count)
             x == [item EXCEPT !.stroke = shorter]
             e == [d EXCEPT ![n] = x]
  <2>1. item \in Item /\ cmd.count \in Nat /\ cmd.count <= Len(stroke)
        /\ cmd = [op |-> "TrimStroke", node |-> n, count |-> cmd.count]
    BY <1>2, <1>9 DEF Command, Applicable, n
  <2>2. Applied(d, cmd) = e
    BY <1>9 DEF Applied, n
  <2>3. inv = [op |-> "AppendStroke", node |-> n, points |-> gone]
    BY <1>9 DEF InverseOf, n
  <2>4. e[n] = x /\ [e EXCEPT ![n] = item] = d
    BY <1>3
  <2> HIDE DEF inv, e
  <2>5. stroke \in Seq(Points)
    BY <2>1 DEF Item
  <2>6. [item EXCEPT !.stroke = stroke] = item
    BY <2>1 DEF Item
  <2> HIDE DEF item, stroke
  <2>7. cmd.count \in 0..Len(stroke)
    BY <2>1, <2>5
  <2>8. shorter \o gone = stroke /\ Len(gone) = cmd.count
    BY <2>5, <2>7, CutAndJoined
  <2>9. shorter \in Seq(Points)
    BY <2>1, <2>5
  <2> HIDE DEF shorter, gone
  <2>10. x.stroke = shorter /\ x \in Item /\ [x EXCEPT !.stroke = stroke] = item
    BY <2>1, <2>6, <2>9 DEF Item
  <2> HIDE DEF x
  <2>11. inv.op = "AppendStroke" /\ inv.node = n /\ inv.points = gone
    BY <2>3
  <2>12. Applicable(e, inv)
    BY <1>4, <2>4, <2>10, <2>11 DEF Applicable
  <2>13. Applied(e, inv) = d
    BY <2>4, <2>8, <2>10, <2>11 DEF Applied
  <2>14. InverseOf(e, inv) = cmd
    BY <2>1, <2>8, <2>11 DEF InverseOf
  <2>15. QED
    BY <2>2, <2>12, <2>13, <2>14 DEF Inverted, inv
<1>10. QED
  BY <1>5, <1>6, <1>7, <1>8, <1>9 DEF Command

\* The documents an entry leads through, taken back newest inverse first: from
\* d, and to e.
TakesBy(f, entry, d, e) ==
    /\ f \in [0..Len(entry) -> Document]
    /\ f[Len(entry)] = d /\ f[0] = e
    /\ \A i \in 1..Len(entry) : Applicable(f[i], entry[i]) /\ f[i - 1] = Applied(f[i], entry[i])

Takes(entry, d, e) == \E f : TakesBy(f, entry, d, e)

\* A list of entries, each of which can be taken back where the one after it
\* leads to.
LineBy(g, entries, d) ==
    /\ g \in [0..Len(entries) -> Document]
    /\ g[Len(entries)] = d
    /\ \A i \in 1..Len(entries) : Takes(entries[i], g[i], g[i - 1])

Line(entries, d) == \E g : LineBy(g, entries, d)

\* What a replay collects: the inverses of the inverses, in the other order.
Collects(opposite, f, entry) ==
    /\ Len(opposite) = Len(entry)
    /\ \A j \in 1..Len(entry) :
           opposite[j] = InverseOf(f[Len(entry) - j + 1], entry[Len(entry) - j + 1])

\* A replay of an entry that applies skips nothing.
LEMMA ReplayFollows ==
    ASSUME NEW entry \in Entry, NEW d \in Document, NEW e, NEW f, TakesBy(f, entry, d, e)
    PROVE  Replay(d, entry).doc = e /\ Collects(Replay(d, entry).opposite, f, entry)
<1> DEFINE n == Len(entry)
           rev == NewestFirst(entry)
           r == Replay(d, entry)
<1>1. entry \in Seq(Command) /\ n \in Nat /\ \A i \in 1..n : entry[i] \in Command
  BY DEF Entry
<1>2. rev \in Seq(Command) /\ Len(rev) = n /\ \A k \in 1..n : rev[k] = entry[n - k + 1]
  BY <1>1, ScenesInReverse DEF NewestFirst
<1>3. PICK P : Replays(P, d, entry)
  BY ReplayRuns
<1> HIDE DEF r
<1>4. /\ P \in [0..n -> ReplayType] /\ P[0] = Fresh(d) /\ P[n] = r
      /\ \A k \in 1..n : P[k] = Reapplied(P[k - 1], rev[k])
  BY <1>2, <1>3 DEF Replays, r
<1>5. /\ f \in [0..n -> Document] /\ f[n] = d /\ f[0] = e
      /\ \A i \in 1..n : Applicable(f[i], entry[i]) /\ f[i - 1] = Applied(f[i], entry[i])
  BY DEF TakesBy
<1> HIDE DEF n, rev
<1> DEFINE Back(k) == InverseOf(f[n - k + 1], entry[n - k + 1])
           Holds(k) == /\ P[k].doc = f[n - k]
                       /\ Len(P[k].opposite) = k
                       /\ \A j \in 1..k : P[k].opposite[j] = Back(j)
           Good == {k \in Nat : k <= n => Holds(k)}
<1>6. 0 \in Good
  <2>1. P[0].doc = d /\ P[0].opposite = <<>>
    BY <1>4 DEF Fresh
  <2>2. n - 0 = n
    BY <1>1
  <2>3. Holds(0)
    BY <1>5, <2>1, <2>2
  <2>4. QED
    BY <2>3
<1>7. ASSUME NEW k \in Nat, k \in Good PROVE k + 1 \in Good
  <2> SUFFICES ASSUME k + 1 <= n PROVE Holds(k + 1)
    OBVIOUS
  <2> DEFINE m == n - k
  <2>1. /\ m \in 1..n /\ n - (k + 1) = m - 1 /\ n - (k + 1) + 1 = m
        /\ k + 1 \in 1..n /\ (k + 1) - 1 = k /\ k \in 0..n
    BY <1>1
  <2>2. rev[k + 1] = entry[m]
    BY <1>2, <2>1
  <2>3. Holds(k)
    BY <1>7, <2>1
  <2>4. P[k].doc = f[m] /\ P[k] \in ReplayType
    BY <1>4, <2>1, <2>3
  <2>5. Applicable(f[m], entry[m]) /\ f[m - 1] = Applied(f[m], entry[m])
    BY <1>5, <2>1
  <2> DEFINE opp == P[k].opposite
             inv == InverseOf(f[m], entry[m])
  <2>6. P[k + 1] = [doc |-> f[m - 1], opposite |-> Append(opp, inv)]
    <3>1. P[k + 1] = Reapplied(P[k], entry[m])
      BY <1>4, <2>1, <2>2
    <3>2. QED
      BY <2>4, <2>5, <3>1 DEF Reapplied
  <2>7. opp \in Seq(Command) /\ Len(opp) = k /\ \A j \in 1..k : opp[j] = Back(j)
    BY <2>3, <2>4 DEF ReplayType
  <2>8. Back(k + 1) = inv
    BY <2>1
  <2>10. inv \in Command
    <3>1. f[m] \in Document /\ entry[m] \in Command
      BY <1>1, <1>5, <2>1
    <3>2. QED
      BY <2>5, <3>1, EditTypes
  <2> HIDE DEF Back, inv, opp
  <2> DEFINE more == Append(opp, inv)
  <2>9. Len(more) = k + 1 /\ \A j \in 1..(k + 1) : more[j] = Back(j)
    <3>1. /\ Len(more) = Len(opp) + 1 /\ more[Len(opp) + 1] = inv
          /\ \A j \in 1..Len(opp) : more[j] = opp[j]
      BY <2>7, <2>10, AppendProperties
    <3> HIDE DEF more
    <3>2. QED
      BY <2>7, <2>8, <3>1
  <2>11. P[k + 1].doc = f[n - (k + 1)] /\ P[k + 1].opposite = more
    BY <2>1, <2>6
  <2> HIDE DEF more, m
  <2>12. QED
    BY <2>9, <2>11
<1>8. Holds(n)
  <2>1. Nat \subseteq Good
    <3> HIDE DEF Good
    <3>1. QED
      BY <1>6, <1>7, NatSetInduction
  <2>2. QED
    BY <1>1, <2>1
<1>9. n - n = 0
  BY <1>1
<1>10. r.doc = e /\ Len(r.opposite) = n /\ \A j \in 1..n : r.opposite[j] = Back(j)
  BY <1>4, <1>5, <1>8, <1>9
<1>11. QED
  BY <1>10 DEF Collects, n, r

\* What it collects is the entry that leads back.
LEMMA OppositeLeads ==
    ASSUME NEW entry \in Entry, NEW d, NEW e, NEW f, TakesBy(f, entry, d, e),
           NEW opposite \in Entry, Collects(opposite, f, entry)
    PROVE  TakesBy([j \in 0..Len(entry) |-> f[Len(entry) - j]], opposite, e, d)
<1> DEFINE n == Len(entry)
           g == [j \in 0..n |-> f[n - j]]
<1>1. n \in Nat /\ \A i \in 1..n : entry[i] \in Command
  BY DEF Entry
<1>2. /\ f \in [0..n -> Document] /\ f[n] = d /\ f[0] = e
      /\ \A i \in 1..n : Applicable(f[i], entry[i]) /\ f[i - 1] = Applied(f[i], entry[i])
  BY DEF TakesBy
<1>3. Len(opposite) = n /\ \A j \in 1..n : opposite[j] = InverseOf(f[n - j + 1], entry[n - j + 1])
  BY DEF Collects
<1> HIDE DEF n
<1>4. g \in [0..n -> Document] /\ g[n] = e /\ g[0] = d
  <2>1. n - n = 0 /\ n - 0 = n /\ \A j \in 0..n : n - j \in 0..n
    BY <1>1
  <2>2. 0 \in 0..n /\ n \in 0..n
    BY <1>1
  <2>3. QED
    BY <1>2, <2>1, <2>2
<1>5. ASSUME NEW j \in 1..n
      PROVE  Applicable(g[j], opposite[j]) /\ g[j - 1] = Applied(g[j], opposite[j])
  <2> DEFINE m == n - j + 1
  <2>1. m \in 1..n /\ n - j = m - 1 /\ n - (j - 1) = m /\ j \in 0..n /\ j - 1 \in 0..n
    BY <1>1
  <2>2. g[j] = f[m - 1] /\ g[j - 1] = f[m] /\ opposite[j] = InverseOf(f[m], entry[m])
    BY <1>3, <2>1
  <2>3. Applicable(f[m], entry[m]) /\ f[m - 1] = Applied(f[m], entry[m])
    BY <1>2, <2>1
  <2>4. f[m] \in Document /\ entry[m] \in Command
    BY <1>1, <1>2, <2>1
  <2>5. Inverted(f[m], entry[m])
    BY <2>3, <2>4, CommandInverts
  <2> HIDE DEF m, g
  <2>6. QED
    BY <2>2, <2>3, <2>5 DEF Inverted
<1>6. QED
  BY <1>3, <1>4, <1>5 DEF TakesBy, n

\* What it is to replay an entry and what it left, and be back.
Exact(d, e, entry) ==
    /\ Replay(d, entry).doc = e
    /\ Takes(Replay(d, entry).opposite, e, d)
    /\ Replay(e, Replay(d, entry).opposite) = [doc |-> d, opposite |-> entry]

\* An entry that applies is taken back and brought again exactly.
LEMMA ReplayExact ==
    ASSUME NEW entry \in Entry, NEW d \in Document, NEW e, Takes(entry, d, e)
    PROVE  Exact(d, e, entry)
<1> DEFINE n == Len(entry)
           r == Replay(d, entry)
           opp == r.opposite
           s == Replay(e, opp)
<1>1. PICK f : TakesBy(f, entry, d, e)
  BY DEF Takes
<1>2. r.doc = e /\ Collects(opp, f, entry)
  BY <1>1, ReplayFollows
<1>3. e \in Document /\ opp \in Entry
  BY <1>2, ReplayTypes
<1> HIDE DEF r
<1> DEFINE g == [j \in 0..n |-> f[n - j]]
<1>4. TakesBy(g, opp, e, d)
  BY <1>1, <1>2, <1>3, OppositeLeads
<1> HIDE DEF g
<1>5. s.doc = d /\ Collects(s.opposite, g, opp)
  BY <1>3, <1>4, ReplayFollows
<1>6. s \in ReplayType
  <2>1. PICK P : Replays(P, e, opp)
    BY <1>3, ReplayRuns
  <2>2. NewestFirst(opp) \in Seq(Command)
    BY <1>3, ScenesInReverse DEF NewestFirst, Entry
  <2>3. Len(NewestFirst(opp)) \in Nat
    BY <2>2
  <2>4. QED
    BY <2>1, <2>3 DEF Replays
<1> HIDE DEF s
<1>7. n \in Nat /\ Len(opp) = n /\ entry \in Seq(Command) /\ \A i \in 1..n : entry[i] \in Command
  BY <1>2 DEF Collects, Entry
<1>8. ASSUME NEW j \in 1..n PROVE s.opposite[j] = entry[j]
  <2> DEFINE m == n - j + 1
  <2>1. m \in 1..n /\ n - m + 1 = j /\ n - m = j - 1 /\ m \in 0..n
    BY <1>7
  <2>2. s.opposite[j] = InverseOf(g[m], opp[m])
    BY <1>5, <1>7 DEF Collects
  <2>3. opp[m] = InverseOf(f[j], entry[j])
    BY <1>2, <2>1 DEF Collects
  <2>4. g[m] = f[j - 1]
    BY <2>1 DEF g
  <2> HIDE DEF m
  <2>5. /\ f[j] \in Document /\ Applicable(f[j], entry[j])
        /\ f[j - 1] = Applied(f[j], entry[j])
    <3>1. j \in 0..n
      BY <1>7
    <3>2. QED
      BY <1>1, <3>1 DEF TakesBy
  <2>6. Inverted(f[j], entry[j])
    BY <1>7, <2>5, CommandInverts
  <2>7. QED
    BY <2>2, <2>3, <2>4, <2>5, <2>6 DEF Inverted
<1>9. s.opposite = entry
  <2>1. s.opposite \in Seq(Command) /\ Len(s.opposite) = n
    BY <1>5, <1>6, <1>7 DEF ReplayType, Collects
  <2>2. QED
    BY <1>7, <1>8, <2>1, SeqEqual
<1>10. s = [doc |-> d, opposite |-> entry]
  BY <1>5, <1>6, <1>9 DEF ReplayType
<1>11. Takes(opp, e, d)
  BY <1>4 DEF Takes
<1>12. QED
  BY <1>2, <1>10, <1>11 DEF Exact, r, s

-----------------------------------------------------------------------------
\* Entries and lines of them.

\* An entry with nothing in it leads nowhere.
LEMMA TakesNothing ==
    ASSUME NEW d \in Document, NEW e
    PROVE  Takes(<<>>, d, e) <=> d = e
<1>1. Len(<<>>) = 0 /\ 0..0 = {0} /\ 1..0 = {}
  OBVIOUS
<1>2. ASSUME Takes(<<>>, d, e) PROVE d = e
  BY <1>1, <1>2 DEF Takes, TakesBy
<1>3. ASSUME d = e PROVE Takes(<<>>, d, e)
  <2> DEFINE f == [i \in {0} |-> d]
  <2>1. f \in [0..0 -> Document] /\ f[0] = d
    BY <1>1
  <2> HIDE DEF f
  <2>2. TakesBy(f, <<>>, d, e)
    BY <1>1, <1>3, <2>1 DEF TakesBy
  <2>3. QED
    BY <2>2 DEF Takes
<1>4. QED
  BY <1>2, <1>3

\* An inverse collected on top of an entry.
LEMMA TakesMore ==
    ASSUME NEW entry \in Entry, NEW d, NEW e, Takes(entry, d, e), NEW c \in Document,
           NEW cmd \in Command, Applicable(c, cmd), Applied(c, cmd) = d
    PROVE  Append(entry, cmd) \in Entry /\ Takes(Append(entry, cmd), c, e)
<1> DEFINE n == Len(entry)
           more == Append(entry, cmd)
<1>1. entry \in Seq(Command) /\ n \in Nat
  BY DEF Entry
<1>2. /\ more \in Seq(Command) /\ Len(more) = n + 1 /\ more[n + 1] = cmd
      /\ \A i \in 1..n : more[i] = entry[i]
  BY <1>1, AppendProperties
<1>3. PICK f : TakesBy(f, entry, d, e)
  BY DEF Takes
<1>4. /\ f \in [0..n -> Document] /\ f[n] = d /\ f[0] = e
      /\ \A i \in 1..n : Applicable(f[i], entry[i]) /\ f[i - 1] = Applied(f[i], entry[i])
  BY <1>3 DEF TakesBy
<1> DEFINE g == [i \in 0..(n + 1) |-> IF i = n + 1 THEN c ELSE f[i]]
<1> HIDE DEF n, more
<1>5. g \in [0..(n + 1) -> Document] /\ g[n + 1] = c /\ \A i \in 0..n : g[i] = f[i]
  BY <1>1, <1>4
<1> HIDE DEF g
<1>6. ASSUME NEW i \in 1..(n + 1)
      PROVE  Applicable(g[i], more[i]) /\ g[i - 1] = Applied(g[i], more[i])
  <2>1. CASE i = n + 1
    <3>1. i - 1 = n /\ n \in 0..n
      BY <1>1, <2>1
    <3>2. g[i - 1] = d /\ g[i] = c /\ more[i] = cmd
      BY <1>2, <1>4, <1>5, <2>1, <3>1
    <3>3. QED
      BY <3>2
  <2>2. CASE i # n + 1
    <3>1. i \in 1..n /\ i \in 0..n /\ i - 1 \in 0..n
      BY <1>1, <2>2
    <3>2. QED
      BY <1>2, <1>4, <1>5, <3>1
  <2>3. QED
    BY <2>1, <2>2
<1>7. g[0] = e
  <2>1. 0 \in 0..n
    BY <1>1
  <2>2. QED
    BY <1>4, <1>5, <2>1
<1>8. TakesBy(g, more, c, e)
  BY <1>2, <1>5, <1>6, <1>7 DEF TakesBy
<1>9. QED
  BY <1>2, <1>8 DEF Takes, Entry, more

\* An entry of one inverse.
LEMMA TakesOne ==
    ASSUME NEW c \in Document, NEW cmd \in Command, Applicable(c, cmd)
    PROVE  <<cmd>> \in Entry /\ Takes(<<cmd>>, c, Applied(c, cmd))
<1> DEFINE d == Applied(c, cmd)
<1>1. d \in Document
  BY EditTypes
<1> HIDE DEF d
<1>2. <<>> \in Entry /\ Takes(<<>>, d, d) /\ Append(<<>>, cmd) = <<cmd>>
  BY <1>1, TakesNothing DEF Entry
<1>3. Applied(c, cmd) = d
  BY DEF d
<1>4. Append(<<>>, cmd) \in Entry /\ Takes(Append(<<>>, cmd), c, d)
  BY <1>2, <1>3, TakesMore
<1>5. QED
  BY <1>2, <1>4 DEF d

\* A line grows by an entry that leads back to where it was.
LEMMA LineGrows ==
    ASSUME NEW entries \in Seq(Entry), NEW d, Line(entries, d), NEW c \in Document,
           NEW entry \in Entry, Takes(entry, c, d)
    PROVE  Line(Append(entries, entry), c)
<1> DEFINE n == Len(entries)
           more == Append(entries, entry)
<1>1. n \in Nat
  OBVIOUS
<1>2. /\ Len(more) = n + 1 /\ more[n + 1] = entry
      /\ \A i \in 1..n : more[i] = entries[i]
  BY <1>1, AppendProperties
<1>3. PICK f : LineBy(f, entries, d)
  BY DEF Line
<1>4. /\ f \in [0..n -> Document] /\ f[n] = d
      /\ \A i \in 1..n : Takes(entries[i], f[i], f[i - 1])
  BY <1>3 DEF LineBy
<1> DEFINE g == [i \in 0..(n + 1) |-> IF i = n + 1 THEN c ELSE f[i]]
<1> HIDE DEF n, more
<1>5. g \in [0..(n + 1) -> Document] /\ g[n + 1] = c /\ \A i \in 0..n : g[i] = f[i]
  BY <1>1, <1>4
<1> HIDE DEF g
<1>6. ASSUME NEW i \in 1..(n + 1) PROVE Takes(more[i], g[i], g[i - 1])
  <2>1. CASE i = n + 1
    <3>1. i - 1 = n /\ n \in 0..n
      BY <1>1, <2>1
    <3>2. g[i - 1] = d /\ g[i] = c /\ more[i] = entry
      BY <1>2, <1>4, <1>5, <2>1, <3>1
    <3>3. QED
      BY <3>2
  <2>2. CASE i # n + 1
    <3>1. i \in 1..n /\ i \in 0..n /\ i - 1 \in 0..n
      BY <1>1, <2>2
    <3>2. QED
      BY <1>2, <1>4, <1>5, <3>1
  <2>3. QED
    BY <2>1, <2>2
<1>7. LineBy(g, more, c)
  BY <1>2, <1>5, <1>6 DEF LineBy
<1>8. QED
  BY <1>7 DEF Line, more

\* Its newest entry leads from where it is to where the rest of the line is.
LEMMA LineBack ==
    ASSUME NEW entries \in Seq(Entry), entries # <<>>, NEW d, Line(entries, d)
    PROVE  \E c \in Document : Takes(Last(entries), d, c) /\ Line(Front(entries), c)
<1> DEFINE n == Len(entries)
           less == Front(entries)
<1>1. n \in Nat /\ n >= 1
  OBVIOUS
<1>2. Len(less) = n - 1 /\ (\A i \in 1..(n - 1) : less[i] = entries[i])
  BY FrontLen
<1>3. Last(entries) = entries[n]
  BY DEF Last
<1>4. PICK g : LineBy(g, entries, d)
  BY DEF Line
<1>5. /\ g \in [0..n -> Document] /\ g[n] = d
      /\ \A i \in 1..n : Takes(entries[i], g[i], g[i - 1])
  BY <1>4 DEF LineBy
<1> HIDE DEF n, less
<1> DEFINE h == [i \in 0..(n - 1) |-> g[i]]
<1>6. n - 1 \in 0..n /\ n \in 1..n /\ n - 1 \in 0..(n - 1)
  BY <1>1
<1>7. g[n - 1] \in Document /\ Takes(entries[n], d, g[n - 1])
  BY <1>5, <1>6
<1>8. h \in [0..(n - 1) -> Document] /\ \A i \in 0..(n - 1) : h[i] = g[i]
  BY <1>1, <1>5
<1> HIDE DEF h
<1>9. \A i \in 1..(n - 1) : Takes(less[i], h[i], h[i - 1])
  BY <1>1, <1>2, <1>5, <1>8
<1>10. LineBy(h, less, g[n - 1])
  BY <1>2, <1>6, <1>8, <1>9 DEF LineBy
<1>11. QED
  BY <1>3, <1>7, <1>10 DEF Line, less

\* An empty line.
LEMMA LineOfNone ==
    ASSUME NEW d \in Document
    PROVE  Line(<<>>, d)
<1> DEFINE g == [i \in {0} |-> d]
<1>1. Len(<<>>) = 0 /\ 0..0 = {0} /\ 1..0 = {}
  OBVIOUS
<1>2. g \in [0..0 -> Document] /\ g[0] = d
  BY <1>1
<1> HIDE DEF g
<1>3. LineBy(g, <<>>, d)
  BY <1>1, <1>2 DEF LineBy
<1>4. QED
  BY <1>3 DEF Line

-----------------------------------------------------------------------------
\* What keeps the stack a line.

\* Both sides of the stack are lines from the document as it is.
StackLine(w) == Line(w.commands.undo, w.doc) /\ Line(w.commands.redo, w.doc)

\* A sequence without its last element, and with it again.
LEMMA FrontAndLast ==
    ASSUME NEW S, NEW s \in Seq(S)
    PROVE  s # <<>> => Front(s) \in Seq(S) /\ Last(s) \in S /\ Append(Front(s), Last(s)) = s
<1>1. ASSUME s # <<>>
      PROVE  Front(s) \in Seq(S) /\ Last(s) \in S /\ Append(Front(s), Last(s)) = s
  <2> DEFINE f == Front(s)
             n == Len(s)
             x == Last(s)
  <2>1. n \in Nat /\ n >= 1 /\ x = s[n]
    BY <1>1 DEF Last
  <2>2. /\ f \in Seq(S) /\ Len(f) = n - 1 /\ (\A k \in 1..(n - 1) : f[k] = s[k]) /\ x \in S
    BY <1>1, FrontLen
  <2> HIDE DEF f, n, x
  <2> DEFINE g == Append(f, x)
  <2>3. /\ g \in Seq(S) /\ Len(g) = Len(f) + 1 /\ g[Len(f) + 1] = x
        /\ \A k \in 1..Len(f) : g[k] = f[k]
    BY <2>2, AppendProperties
  <2> HIDE DEF g
  <2>4. Len(g) = n /\ \A k \in 1..n : g[k] = s[k]
    <3>1. Len(f) + 1 = n /\ Len(g) = n
      BY <2>1, <2>2, <2>3
    <3>2. g[n] = s[n]
      BY <2>1, <2>3, <3>1
    <3>3. \A k \in 1..(n - 1) : g[k] = s[k]
      BY <2>2, <2>3
    <3>4. \A k \in 1..n : k = n \/ k \in 1..(n - 1)
      BY <2>1
    <3>5. QED
      BY <3>1, <3>2, <3>3, <3>4
  <2>5. g = s
    BY <2>3, <2>4, SeqEqual DEF n
  <2>6. QED
    BY <2>2, <2>5 DEF f, x, g
<1>2. QED
  BY <1>1

\* What an append adds is its last element, and what it was is the rest.
LEMMA AppendLast ==
    ASSUME NEW S, NEW s \in Seq(S), NEW x \in S
    PROVE  /\ Append(s, x) \in Seq(S) /\ Append(s, x) # <<>>
           /\ Last(Append(s, x)) = x /\ Front(Append(s, x)) = s
<1> DEFINE g == Append(s, x)
           n == Len(s)
           f == Front(g)
<1>1. /\ n \in Nat /\ g \in Seq(S) /\ Len(g) = n + 1 /\ g[n + 1] = x
      /\ \A k \in 1..n : g[k] = s[k]
  BY AppendProperties
<1> HIDE DEF g
<1>2. g # <<>> /\ Last(g) = x
  BY <1>1 DEF Last
<1>3. f \in Seq(S) /\ Len(f) = Len(g) - 1 /\ \A k \in 1..(Len(g) - 1) : f[k] = g[k]
  BY <1>1, <1>2, FrontLen
<1> HIDE DEF f
<1>4. Len(f) = n /\ \A k \in 1..n : f[k] = s[k]
  BY <1>1, <1>3
<1>5. f = s
  BY <1>3, <1>4, SeqEqual DEF n
<1>6. QED
  BY <1>1, <1>2, <1>5 DEF f, g

\* An entry that crosses from one side to the other, and can cross again.
Crosses(from, to, d, e, less, more, opposite) ==
    /\ e \in Document /\ less \in Seq(Entry) /\ more \in Seq(Entry)
    /\ Line(less, e) /\ Line(more, e)
    /\ more # <<>> /\ Last(more) = opposite /\ Front(more) = to
    /\ Replay(e, opposite) = [doc |-> d, opposite |-> Last(from)]
    /\ Append(less, Last(from)) = from

\* Every entry of a line is one.
LEMMA EntryCrosses ==
    ASSUME NEW from \in Seq(Entry), from # <<>>, NEW to \in Seq(Entry), NEW d \in Document,
           Line(from, d), Line(to, d)
    PROVE  LET r == Replay(d, Last(from))
           IN  Crosses(from, to, d, r.doc, Front(from), Append(to, r.opposite), r.opposite)
<1> DEFINE top == Last(from)
           r == Replay(d, top)
           opp == r.opposite
           less == Front(from)
           more == Append(to, opp)
<1>1. less \in Seq(Entry) /\ top \in Entry /\ Append(less, top) = from
  BY FrontAndLast
<1>2. PICK c \in Document : Takes(top, d, c) /\ Line(less, c)
  BY LineBack
<1> HIDE DEF top
<1>3. Exact(d, c, top)
  BY <1>1, <1>2, ReplayExact
<1>4. r.doc = c /\ opp \in Entry /\ Takes(opp, c, d)
      /\ Replay(c, opp) = [doc |-> d, opposite |-> top]
  BY <1>1, <1>3, ReplayTypes DEF Exact
<1> HIDE DEF r
<1> HIDE DEF opp
<1>5. more \in Seq(Entry) /\ more # <<>> /\ Last(more) = opp /\ Front(more) = to
  <2>1. opp \in Entry
    BY <1>4
  <2>2. QED
    BY <2>1, AppendLast
<1>6. Line(more, c)
  BY <1>2, <1>4, LineGrows
<1> HIDE DEF less, more
<1>7. QED
  BY <1>1, <1>2, <1>4, <1>5, <1>6 DEF Crosses, top, r, opp, less, more

\* The stack's undo is taken back exactly by its redo.
LEMMA UndoExact ==
    ASSUME NEW w \in World, StackLine(w), w.commands.undo # <<>>
    PROVE  LET v == StackUndo(w)
           IN  v \in World /\ StackLine(v) /\ v.commands.redo # <<>> /\ StackRedo(v) = w
               /\ v.content = w.content
<1> DEFINE old == w.commands
           top == Last(old.undo)
           r == Replay(w.doc, top)
           less == Front(old.undo)
           opp == r.opposite
           more == Append(old.redo, opp)
           d == r.doc
           c == [old EXCEPT !.undo = less, !.redo = more]
           v == StackUndo(w)
<1>1. v = [w EXCEPT !.doc = d, !.commands = c]
  BY DEF StackUndo
<1>2. old \in UndoStackType /\ w.doc \in Document
  BY DEF World
<1>3. old.undo \in Seq(Entry) /\ old.redo \in Seq(Entry) /\ old.undo # <<>>
      /\ Line(old.undo, w.doc) /\ Line(old.redo, w.doc)
  BY <1>2 DEF UndoStackType, StackLine
<1> HIDE DEF v, old
<1>4. Crosses(old.undo, old.redo, w.doc, d, less, more, opp)
  BY <1>2, <1>3, EntryCrosses
<1> HIDE DEF less, more, opp, d
<1>5. c \in UndoStackType /\ c.undo = less /\ c.redo = more /\ c.depth = old.depth
  BY <1>2, <1>4 DEF UndoStackType, Crosses
<1>6. [c EXCEPT !.redo = old.redo, !.undo = old.undo] = old
  BY <1>2 DEF UndoStackType
<1> HIDE DEF c
<1>7. v \in World /\ v.commands = c /\ v.doc = d /\ v.content = w.content
  BY <1>1, <1>4, <1>5 DEF World, Crosses
<1>8. StackLine(v) /\ v.commands.redo # <<>>
  BY <1>4, <1>5, <1>7 DEF StackLine, Crosses
<1>9. StackRedo(v) = w
  <2>1. Last(c.redo) = opp /\ Front(c.redo) = old.redo
    BY <1>4, <1>5 DEF Crosses
  <2>2. Replay(v.doc, Last(c.redo)) = [doc |-> w.doc, opposite |-> top]
    BY <1>4, <1>7, <2>1 DEF Crosses
  <2>3. Append(c.undo, top) = old.undo
    BY <1>4, <1>5 DEF Crosses
  <2> HIDE DEF top
  <2> DEFINE back == Replay(v.doc, Last(v.commands.redo))
             rest == Front(v.commands.redo)
             grown == Append(v.commands.undo, back.opposite)
  <2>4. StackRedo(v) = [v EXCEPT !.doc = back.doc,
                               !.commands = [v.commands EXCEPT !.redo = rest, !.undo = grown]]
    BY DEF StackRedo
  <2>5. back.doc = w.doc /\ back.opposite = top
    BY <1>7, <2>2
  <2> HIDE DEF back
  <2>6. rest = old.redo /\ grown = old.undo
    BY <1>7, <2>1, <2>3, <2>5
  <2> HIDE DEF rest, grown
  <2>7. [v.commands EXCEPT !.redo = rest, !.undo = grown] = old
    BY <1>6, <1>7, <2>6
  <2>8. StackRedo(v) = [v EXCEPT !.doc = w.doc, !.commands = old]
    BY <2>4, <2>5, <2>7
  <2>9. [[w EXCEPT !.doc = d, !.commands = c] EXCEPT !.doc = w.doc, !.commands = old] = w
    BY DEF World, old
  <2>10. QED
    BY <1>1, <2>8, <2>9
<1>10. QED
  BY <1>7, <1>8, <1>9 DEF v

\* Its redo by its undo.
LEMMA RedoExact ==
    ASSUME NEW w \in World, StackLine(w), w.commands.redo # <<>>
    PROVE  LET v == StackRedo(w)
           IN  v \in World /\ StackLine(v) /\ v.commands.undo # <<>> /\ StackUndo(v) = w
               /\ v.content = w.content
<1> DEFINE old == w.commands
           top == Last(old.redo)
           r == Replay(w.doc, top)
           less == Front(old.redo)
           opp == r.opposite
           more == Append(old.undo, opp)
           d == r.doc
           c == [old EXCEPT !.redo = less, !.undo = more]
           v == StackRedo(w)
<1>1. v = [w EXCEPT !.doc = d, !.commands = c]
  BY DEF StackRedo
<1>2. old \in UndoStackType /\ w.doc \in Document
  BY DEF World
<1>3. old.undo \in Seq(Entry) /\ old.redo \in Seq(Entry) /\ old.redo # <<>>
      /\ Line(old.undo, w.doc) /\ Line(old.redo, w.doc)
  BY <1>2 DEF UndoStackType, StackLine
<1> HIDE DEF v, old
<1>4. Crosses(old.redo, old.undo, w.doc, d, less, more, opp)
  BY <1>2, <1>3, EntryCrosses
<1> HIDE DEF less, more, opp, d
<1>5. c \in UndoStackType /\ c.redo = less /\ c.undo = more /\ c.depth = old.depth
  BY <1>2, <1>4 DEF UndoStackType, Crosses
<1>6. [c EXCEPT !.undo = old.undo, !.redo = old.redo] = old
  BY <1>2 DEF UndoStackType
<1> HIDE DEF c
<1>7. v \in World /\ v.commands = c /\ v.doc = d /\ v.content = w.content
  BY <1>1, <1>4, <1>5 DEF World, Crosses
<1>8. StackLine(v) /\ v.commands.undo # <<>>
  BY <1>4, <1>5, <1>7 DEF StackLine, Crosses
<1>9. StackUndo(v) = w
  <2>1. Last(c.undo) = opp /\ Front(c.undo) = old.undo
    BY <1>4, <1>5 DEF Crosses
  <2>2. Replay(v.doc, Last(c.undo)) = [doc |-> w.doc, opposite |-> top]
    BY <1>4, <1>7, <2>1 DEF Crosses
  <2>3. Append(c.redo, top) = old.redo
    BY <1>4, <1>5 DEF Crosses
  <2> HIDE DEF top
  <2> DEFINE back == Replay(v.doc, Last(v.commands.undo))
             rest == Front(v.commands.undo)
             grown == Append(v.commands.redo, back.opposite)
  <2>4. StackUndo(v) = [v EXCEPT !.doc = back.doc,
                               !.commands = [v.commands EXCEPT !.undo = rest, !.redo = grown]]
    BY DEF StackUndo
  <2>5. back.doc = w.doc /\ back.opposite = top
    BY <1>7, <2>2
  <2> HIDE DEF back
  <2>6. rest = old.undo /\ grown = old.redo
    BY <1>7, <2>1, <2>3, <2>5
  <2> HIDE DEF rest, grown
  <2>7. [v.commands EXCEPT !.undo = rest, !.redo = grown] = old
    BY <1>6, <1>7, <2>6
  <2>8. StackUndo(v) = [v EXCEPT !.doc = w.doc, !.commands = old]
    BY <2>4, <2>5, <2>7
  <2>9. [[w EXCEPT !.doc = d, !.commands = c] EXCEPT !.doc = w.doc, !.commands = old] = w
    BY DEF World, old
  <2>10. QED
    BY <1>1, <2>8, <2>9
<1>10. QED
  BY <1>7, <1>8, <1>9 DEF v

\* The one inverse of an entry applies, and leads where the entry does.
LEMMA TakesSingle ==
    ASSUME NEW cmd, NEW d, NEW e, Takes(<<cmd>>, d, e)
    PROVE  Applicable(d, cmd) /\ e = Applied(d, cmd)
<1>1. PICK f : TakesBy(f, <<cmd>>, d, e)
  BY DEF Takes
<1>2. Len(<<cmd>>) = 1 /\ <<cmd>>[1] = cmd /\ 1 \in 1..1 /\ 1 - 1 = 0
  OBVIOUS
<1>3. QED
  BY <1>1, <1>2 DEF TakesBy

\* What it is for a trim to take back an append and the append before it.
Merges(d, cmd, trim, merged) ==
    /\ Applicable(Applied(d, cmd), merged)
    /\ Applied(Applied(d, cmd), merged) = Applied(d, trim)

\* try_coalesce: the count of the trim on top grows by the points appended.
LEMMA TrimsMerge ==
    ASSUME NEW d \in Document, NEW cmd \in Command, NEW trim \in Command, Applicable(d, cmd),
           Applicable(d, trim), cmd.op = "AppendStroke", trim.op = "TrimStroke", trim.node = cmd.node
    PROVE  LET merged == [trim EXCEPT !.count = @ + Len(cmd.points)]
           IN  merged \in Command /\ Merges(d, cmd, trim, merged)
<1> DEFINE n == cmd.node
           item == d[n]
           k == trim.count
           size == Len(cmd.points)
           sum == k + size
           merged == [trim EXCEPT !.count = @ + Len(cmd.points)]
           longer == item.stroke \o cmd.points
           x == [item EXCEPT !.stroke = longer]
           e == [d EXCEPT ![n] = x]
           left == SubSeq(item.stroke, 1, Len(item.stroke) - k)
<1>1. /\ n \in Nodes /\ item \in Item /\ cmd.points \in Seq(Points)
      /\ k \in Nat /\ k <= Len(item.stroke)
      /\ trim \in [op: {"TrimStroke"}, node: Nodes, count: Nat]
  BY DEF Command, Applicable, Document
<1>2. /\ Applied(d, cmd) = e /\ Applied(d, trim) = [d EXCEPT ![n] = [item EXCEPT !.stroke = left]]
  BY DEF Applied
<1>3. merged = [trim EXCEPT !.count = sum]
  OBVIOUS
<1>4. item.stroke \in Seq(Points) /\ size \in Nat /\ sum \in Nat
  BY <1>1 DEF Item
<1>5. /\ longer \in Seq(Points) /\ Len(longer) = Len(item.stroke) + size
      /\ \A i \in 1..Len(item.stroke) : longer[i] = item.stroke[i]
  <2> DEFINE a == item.stroke
             b == cmd.points
  <2>1. a \in Seq(Points) /\ b \in Seq(Points)
    BY <1>1, <1>4
  <2> HIDE DEF a, b
  <2> DEFINE ab == a \o b
  <2>2. ab \in Seq(Points) /\ Len(ab) = Len(a) + Len(b) /\ \A i \in 1..Len(a) : ab[i] = a[i]
    BY <2>1, ConcatProperties
  <2> HIDE DEF ab
  <2>3. QED
    BY <2>2 DEF ab, a, b
<1>6. trim.node = n
  OBVIOUS
<1> HIDE DEF n, item, merged, e
<1>7. /\ merged.op = "TrimStroke" /\ merged.node = n /\ merged.count = sum
      /\ merged \in Command
  BY <1>1, <1>3, <1>4, <1>6 DEF Command
<1> HIDE DEF k, size, sum, longer
<1> DEFINE cut == SubSeq(longer, 1, Len(longer) - sum)
<1>8. cut = left
  <2> DEFINE m == Len(item.stroke) - k
  <2>1. m \in Nat /\ m <= Len(item.stroke) /\ Len(longer) - sum = m /\ Len(item.stroke) \in Nat
    BY <1>1, <1>4, <1>5 DEF sum
  <2> HIDE DEF m
  <2>2. \A i \in 1..m : longer[i] = item.stroke[i] /\ item.stroke[i] \in Points
    BY <1>4, <1>5, <2>1
  <2>3. 1 \in Int /\ m \in Int
    BY <2>1
  <2> DEFINE a == SubSeq(longer, 1, m)
             b == SubSeq(item.stroke, 1, m)
  <2>4. /\ a \in Seq(Points) /\ Len(a) = IF 1 <= m THEN m - 1 + 1 ELSE 0
        /\ \A i \in 1..(m - 1 + 1) : a[i] = longer[1 + i - 1]
    BY <2>2, <2>3, SubSeqProperties
  <2>5. /\ b \in Seq(Points) /\ Len(b) = IF 1 <= m THEN m - 1 + 1 ELSE 0
        /\ \A i \in 1..(m - 1 + 1) : b[i] = item.stroke[1 + i - 1]
    BY <2>2, <2>3, SubSeqProperties
  <2> HIDE DEF a, b
  <2>6. Len(a) = m /\ Len(b) = m /\ \A i \in 1..m : a[i] = longer[i] /\ b[i] = item.stroke[i]
    BY <2>1, <2>4, <2>5
  <2>7. a = b
    BY <2>2, <2>4, <2>5, <2>6, SeqEqual
  <2>8. QED
    BY <2>1, <2>7 DEF a, b, m
<1>9. x.stroke = longer /\ x \in Item /\ [x EXCEPT !.stroke = left] = [item EXCEPT !.stroke = left]
  BY <1>1, <1>5 DEF Item
<1>10. e[n] = x /\ \A y : [e EXCEPT ![n] = y] = [d EXCEPT ![n] = y]
  BY <1>1 DEF Document, e
<1>11. sum <= Len(longer)
  BY <1>1, <1>4, <1>5 DEF sum
<1>12. NoItem \notin Item
  BY NoItemAssumption DEF Item
<1> HIDE DEF x, left
<1>13. Applicable(e, merged)
  BY <1>7, <1>9, <1>10, <1>11, <1>12 DEF Applicable
<1>14. Applied(e, merged) = [d EXCEPT ![n] = [x EXCEPT !.stroke = cut]]
  BY <1>7, <1>9, <1>10 DEF Applied
<1>15. Applied(e, merged) = Applied(d, trim)
  BY <1>2, <1>8, <1>9, <1>14
<1>16. QED
  BY <1>2, <1>7, <1>13, <1>15 DEF Merges, merged

\* A command leaves the undo side a line, and no redo side.
LEMMA CommandKeepsLine ==
    ASSUME NEW stack \in UndoStackType, NEW d \in Document, NEW cmd \in Command,
           Applicable(d, cmd), Line(stack.undo, d)
    PROVE  /\ Line(StackAfter(stack, d, cmd).undo, Applied(d, cmd))
           /\ Line(StackAfter(stack, d, cmd).redo, Applied(d, cmd))
<1> DEFINE inverse == InverseOf(d, cmd)
           undo == stack.undo
           top == Last(undo)
           less == Front(undo)
           merged == [top[1] EXCEPT !.count = @ + Len(cmd.points)]
           inGroup == stack.depth > 0 /\ undo # <<>>
           co == Coalesces(stack, cmd)
           newUndo == IF inGroup THEN Retop(undo, Append(top, inverse))
                      ELSE IF co THEN Retop(undo, <<merged>>)
                      ELSE Append(undo, <<inverse>>)
           r == StackAfter(stack, d, cmd)
           e == Applied(d, cmd)
           none == <<>>
<1>1. r = [stack EXCEPT !.redo = none, !.undo = newUndo]
  BY DEF StackAfter
<1>2. undo \in Seq(Entry) /\ stack.depth \in Nat /\ stack.redo \in Seq(Entry)
  BY DEF UndoStackType
<1>3. inverse \in Command /\ e \in Document
  BY EditTypes
<1>4. Applicable(e, inverse) /\ Applied(e, inverse) = d
  BY CommandInverts DEF Inverted
<1>5. undo # <<>> => top \in Entry /\ less \in Seq(Entry)
  BY <1>2, FrontAndLast
<1>6. undo # <<>> => \E c \in Document : Takes(top, d, c) /\ Line(less, c)
  BY <1>2, LineBack
<1> HIDE DEF r, inverse, undo, top, less, e
<1>7. Line(newUndo, e)
  <2>1. CASE inGroup
    <3>1. PICK c \in Document : Takes(top, d, c) /\ Line(less, c)
      BY <1>6, <2>1
    <3>2. Append(top, inverse) \in Entry /\ Takes(Append(top, inverse), e, c)
      BY <1>3, <1>4, <1>5, <2>1, <3>1, TakesMore
    <3>3. Line(Append(less, Append(top, inverse)), e)
      BY <1>3, <1>5, <2>1, <3>1, <3>2, LineGrows
    <3>4. QED
      BY <2>1, <3>3 DEF Retop, less
  <2>2. CASE ~inGroup /\ co
    <3> DEFINE trim == top[1]
    <3>1. /\ cmd.op = "AppendStroke" /\ undo # <<>> /\ Len(top) = 1 /\ trim.op = "TrimStroke"
          /\ trim.node = cmd.node
      BY <2>2 DEF Coalesces, undo, top
    <3>2. trim \in Command /\ top = <<trim>>
      <4>1. top \in Seq(Command) /\ 1 \in 1..Len(top)
        BY <1>5, <3>1 DEF Entry
      <4>2. trim \in Command
        BY <4>1, ElementOfSeq
      <4>3. QED
        BY <3>1, <4>1, <4>2
    <3>3. PICK c \in Document : Takes(top, d, c) /\ Line(less, c)
      BY <1>6, <3>1
    <3> HIDE DEF trim
    <3>4. Applicable(d, trim) /\ c = Applied(d, trim)
      BY <3>2, <3>3, TakesSingle
    <3> DEFINE sum == [trim EXCEPT !.count = @ + Len(cmd.points)]
    <3>5. sum \in Command /\ Merges(d, cmd, trim, sum)
      BY <3>1, <3>2, <3>4, TrimsMerge
    <3>6. merged = sum
      BY DEF trim
    <3> HIDE DEF sum
    <3>7. Applicable(e, sum) /\ Applied(e, sum) = c
      BY <3>4, <3>5 DEF Merges, e
    <3>8. <<sum>> \in Entry /\ Takes(<<sum>>, e, c)
      BY <1>3, <3>5, <3>7, TakesOne
    <3>9. Line(Append(less, <<sum>>), e)
      BY <1>3, <1>5, <3>1, <3>3, <3>8, LineGrows
    <3>10. QED
      BY <2>2, <3>6, <3>9 DEF Retop, less
  <2>3. CASE ~inGroup /\ ~co
    <3>1. <<inverse>> \in Entry /\ Takes(<<inverse>>, e, d)
      BY <1>3, <1>4, TakesOne
    <3>2. Line(undo, d)
      BY DEF undo
    <3>3. Line(Append(undo, <<inverse>>), e)
      BY <1>2, <1>3, <3>1, <3>2, LineGrows
    <3>4. QED
      BY <2>3, <3>3
  <2>4. QED
    BY <2>1, <2>2, <2>3
<1>8. Line(none, e)
  BY <1>3, LineOfNone
<1> HIDE DEF newUndo, none
<1>9. r.undo = newUndo /\ r.redo = none
  BY <1>1 DEF UndoStackType
<1>10. QED
  BY <1>7, <1>8, <1>9 DEF r, e

\* What leaves the payloads alone and keeps the stack a line.
Retains(v, w) == v \in World /\ v.content = w.content /\ StackLine(v)

\* Performing a command.
LEMMA PerformRetains ==
    ASSUME NEW w \in World, StackLine(w), NEW cmd \in Command
    PROVE  Retains(StackPerform(w, cmd), w)
<1> DEFINE v == StackPerform(w, cmd)
           d == Applied(w.doc, cmd)
           c == StackAfter(w.commands, w.doc, cmd)
<1>1. v \in World
  BY PerformMoves
<1>2. CASE ~ Applicable(w.doc, cmd)
  <2>1. v = w
    BY <1>2 DEF StackPerform
  <2>2. QED
    BY <2>1 DEF Retains
<1>3. CASE Applicable(w.doc, cmd)
  <2>1. w.doc \in Document /\ w.commands \in UndoStackType /\ Line(w.commands.undo, w.doc)
    BY DEF World, StackLine
  <2>2. Line(c.undo, d) /\ Line(c.redo, d)
    BY <1>3, <2>1, CommandKeepsLine
  <2>3. v = [w EXCEPT !.doc = d, !.commands = c]
    BY <1>3 DEF StackPerform
  <2> HIDE DEF d, c, v
  <2>4. v.doc = d /\ v.commands = c /\ v.content = w.content
    BY <2>3 DEF World
  <2>5. QED
    BY <1>1, <2>2, <2>4 DEF Retains, StackLine, v
<1>4. QED
  BY <1>2, <1>3

\* Opening a bracket of the stack: the entry it pushes leads nowhere.
LEMMA BeginRetains ==
    ASSUME NEW w \in World, StackLine(w)
    PROVE  Retains([w EXCEPT !.commands = StackBeginGroup(@)], w)
<1> DEFINE old == w.commands
           deeper == old.depth + 1
           none == <<>>
           undo == IF old.depth = 0 THEN Append(old.undo, none) ELSE old.undo
           c == [old EXCEPT !.depth = deeper, !.undo = undo]
           b == [w EXCEPT !.commands = StackBeginGroup(@)]
<1>1. b = [w EXCEPT !.commands = c]
  BY DEF StackBeginGroup
<1>2. b \in World
  BY BeginMoves
<1>3. old \in UndoStackType /\ w.doc \in Document
  BY DEF World
<1>4. old.undo \in Seq(Entry) /\ Line(old.undo, w.doc) /\ Line(old.redo, w.doc)
  BY <1>3 DEF UndoStackType, StackLine
<1> HIDE DEF b, old
<1>5. none \in Entry /\ Takes(none, w.doc, w.doc)
  BY <1>3, TakesNothing DEF Entry
<1> HIDE DEF none
<1>6. Line(undo, w.doc)
  BY <1>3, <1>4, <1>5, LineGrows
<1> HIDE DEF deeper, undo
<1>7. c.undo = undo /\ c.redo = old.redo
  BY <1>3 DEF UndoStackType
<1> HIDE DEF c
<1>8. b.doc = w.doc /\ b.content = w.content /\ b.commands = c
  BY <1>1 DEF World
<1>9. QED
  BY <1>2, <1>4, <1>6, <1>7, <1>8 DEF Retains, StackLine, b

\* Closing one: the entry it drops led nowhere.
LEMMA EndRetains ==
    ASSUME NEW w \in World, StackLine(w)
    PROVE  Retains([w EXCEPT !.commands = StackEndGroup(@)], w)
<1> DEFINE old == w.commands
           drops == old.depth = 1 /\ old.undo # <<>> /\ Last(old.undo) = <<>>
           undo == IF drops THEN Front(old.undo) ELSE old.undo
           out == old.depth - 1
           c == [old EXCEPT !.depth = out, !.undo = undo]
           b == [w EXCEPT !.commands = StackEndGroup(@)]
<1>1. b = [w EXCEPT !.commands = IF old.depth = 0 THEN old ELSE c]
  BY DEF StackEndGroup
<1>2. b \in World
  BY EndMoves
<1>3. old \in UndoStackType /\ w.doc \in Document
  BY DEF World
<1>4. old.undo \in Seq(Entry) /\ Line(old.undo, w.doc) /\ Line(old.redo, w.doc)
  BY <1>3 DEF UndoStackType, StackLine
<1> HIDE DEF b, old
<1>5. Line(undo, w.doc)
  <2>1. CASE drops
    <3>1. PICK d \in Document : Takes(Last(old.undo), w.doc, d) /\ Line(Front(old.undo), d)
      BY <1>4, <2>1, LineBack
    <3>2. w.doc = d
      BY <1>3, <2>1, <3>1, TakesNothing
    <3>3. QED
      BY <2>1, <3>1, <3>2
  <2>2. CASE ~drops
    BY <1>4, <2>2
  <2>3. QED
    BY <2>1, <2>2
<1> HIDE DEF undo, out
<1>6. c.undo = undo /\ c.redo = old.redo
  BY <1>3 DEF UndoStackType
<1> HIDE DEF c
<1>7. b.doc = w.doc /\ b.content = w.content /\ (b.commands = old \/ b.commands = c)
  BY <1>1 DEF World
<1>8. QED
  BY <1>2, <1>4, <1>5, <1>6, <1>7 DEF Retains, StackLine, b

\* An engine call's commands, one after the other.
LEMMA EngineRetains ==
    ASSUME NEW w \in World, StackLine(w), NEW cmds \in Seq(Command)
    PROVE  Retains(EngineEdited(w, cmds), w)
<1> DEFINE e == EngineEdited(w, cmds)
           n == Len(cmds)
<1>1. PICK P : Performs(P, w, cmds)
  BY PerformRuns
<1>2. n \in Nat /\ \A k \in 1..n : cmds[k] \in Command
  OBVIOUS
<1> HIDE DEF e
<1>3. /\ P \in [0..n -> World] /\ P[0] = w /\ P[n] = e
      /\ \A k \in 1..n : P[k] = StackPerform(P[k - 1], cmds[k])
  BY <1>1 DEF Performs, e
<1> HIDE DEF n
<1> DEFINE Good == {k \in Nat : k <= n => Retains(P[k], w)}
<1>4. 0 \in Good
  BY <1>2, <1>3 DEF Retains
<1>5. ASSUME NEW k \in Nat, k \in Good PROVE k + 1 \in Good
  <2> SUFFICES ASSUME k + 1 <= n PROVE Retains(P[k + 1], w)
    OBVIOUS
  <2>1. k + 1 \in 1..n /\ (k + 1) - 1 = k /\ k \in 0..n /\ Retains(P[k], w)
    BY <1>2, <1>5
  <2>2. P[k] \in World /\ cmds[k + 1] \in Command /\ StackLine(P[k])
    BY <1>2, <1>3, <2>1 DEF Retains
  <2>3. P[k + 1] = StackPerform(P[k], cmds[k + 1])
    BY <1>3, <2>1
  <2>4. Retains(P[k + 1], P[k])
    BY <2>2, <2>3, PerformRetains
  <2>5. QED
    BY <2>1, <2>4 DEF Retains
<1>6. Nat \subseteq Good
  <2> HIDE DEF Good
  <2>1. QED
    BY <1>4, <1>5, NatSetInduction
<1>7. QED
  BY <1>2, <1>3, <1>6 DEF e

-----------------------------------------------------------------------------
\* What a step does to the payloads, and what refusing it does to everything.

Contents == [Layers -> Values]

\* What a leaf makes of the payloads: a payload leaf changes its layer from the
\* one value to the other, a Scene leaf nothing; a barrier does not say.
Fits(leaf, a, b) ==
    /\ leaf = Scene => a = b
    /\ leaf.kind = "Payload" => a[leaf.layer] = leaf.before /\ b = [a EXCEPT ![leaf.layer] = leaf.after]

\* The same in the direction in which the leaf is applied.
Leads(leaf, from, to, forward) == IF forward THEN Fits(leaf, from, to) ELSE Fits(leaf, to, from)

\* A leaf applied where the payloads fit can be taken back exactly.
LEMMA LeafExact ==
    ASSUME NEW found, NEW w \in World, StackLine(w), NEW leaf \in Leaf, NEW forward \in BOOLEAN,
           NEW to \in Contents, Leads(leaf, w.content, to, forward),
           ApplyLeaf(found, w, leaf, forward).ok
    PROVE  LET v == ApplyLeaf(found, w, leaf, forward).world
           IN  /\ v \in World /\ StackLine(v) /\ v.content = to
               /\ MovedBack(found, forward, v, leaf) = w
<1> DEFINE r == ApplyLeaf(found, w, leaf, forward)
           v == r.world
           back == ApplyLeaf(found, v, leaf, ~forward)
<1>1. SUFFICES v \in World /\ StackLine(v) /\ v.content = to /\ back.world = w
  BY DEF MovedBack
<1>2. CASE leaf = Barrier
  <2>1. r.ok = FALSE
    BY <1>2 DEF ApplyLeaf, Barrier
  <2>2. QED
    BY <2>1
<1>3. CASE leaf = Scene /\ forward
  <2>1. leaf.kind = "Scene" /\ forward = TRUE /\ to = w.content
    BY <1>3 DEF Scene, Leads, Fits
  <2>2. r = IF w.commands.redo = <<>> THEN [ok |-> FALSE, world |-> w]
            ELSE [ok |-> TRUE, world |-> StackRedo(w)]
    BY <2>1 DEF ApplyLeaf
  <2>3. w.commands.redo # <<>> /\ v = StackRedo(w)
    BY <2>2
  <2> HIDE DEF v
  <2>4. v \in World /\ StackLine(v) /\ v.commands.undo # <<>> /\ StackUndo(v) = w
        /\ v.content = w.content
    BY <2>3, RedoExact
  <2>5. back = [ok |-> TRUE, world |-> StackUndo(v)]
    BY <2>1, <2>4 DEF ApplyLeaf
  <2>6. back.world = w
    BY <2>4, <2>5
  <2> HIDE DEF back
  <2>7. QED
    BY <2>1, <2>4, <2>6 DEF v
<1>4. CASE leaf = Scene /\ ~forward
  <2>1. leaf.kind = "Scene" /\ forward = FALSE /\ to = w.content
    BY <1>4 DEF Scene, Leads, Fits
  <2>2. r = IF w.commands.undo = <<>> THEN [ok |-> FALSE, world |-> w]
            ELSE [ok |-> TRUE, world |-> StackUndo(w)]
    BY <2>1 DEF ApplyLeaf
  <2>3. w.commands.undo # <<>> /\ v = StackUndo(w)
    BY <2>2
  <2> HIDE DEF v
  <2>4. v \in World /\ StackLine(v) /\ v.commands.redo # <<>> /\ StackRedo(v) = w
        /\ v.content = w.content
    BY <2>3, UndoExact
  <2>5. back = [ok |-> TRUE, world |-> StackRedo(v)]
    BY <2>1, <2>4 DEF ApplyLeaf
  <2>6. back.world = w
    BY <2>4, <2>5
  <2> HIDE DEF back
  <2>7. QED
    BY <2>1, <2>4, <2>6 DEF v
<1>5. CASE leaf \in [kind: {"Payload"}, layer: Layers, before: Values, after: Values]
  <2> DEFINE new == IF forward THEN leaf.after ELSE leaf.before
             old == IF forward THEN leaf.before ELSE leaf.after
             layer == leaf.layer
             c == w.content
             there == [c EXCEPT ![layer] = new]
             u == [w EXCEPT !.content = there]
  <2>1. leaf.kind = "Payload" /\ layer \in Layers /\ new \in Values /\ old \in Values
    BY <1>5
  <2>2. c \in [Layers -> Values]
    BY DEF World
  <2>3. r = IF layer \notin found THEN [ok |-> FALSE, world |-> w] ELSE [ok |-> TRUE, world |-> u]
    BY <2>1 DEF ApplyLeaf
  <2>4. layer \in found /\ v = u
    BY <2>3
  <2>5. c[layer] = old /\ to = there
    <3>1. to \in [Layers -> Values]
      BY DEF Contents
    <3>2. CASE forward
      BY <2>1, <3>2 DEF Leads, Fits
    <3>3. CASE ~forward
      <4>1. to[layer] = new /\ c = [to EXCEPT ![layer] = old]
        BY <2>1, <3>3 DEF Leads, Fits
      <4> HIDE DEF new, old, layer, c
      <4>2. c[layer] = old /\ to = [c EXCEPT ![layer] = new]
        BY <2>1, <2>2, <3>1, <4>1
      <4>3. QED
        BY <4>2
    <3>4. QED
      BY <3>2, <3>3
  <2>6. [there EXCEPT ![layer] = old] = c
    BY <2>1, <2>2, <2>5
  <2>7. there \in [Layers -> Values]
    BY <2>1, <2>2
  <2>8. u \in World /\ u.content = there /\ u.commands = w.commands /\ u.doc = w.doc
    <3> HIDE DEF there
    <3>1. QED
      BY <2>7 DEF World
  <2>9. back.world = [v EXCEPT !.content[layer] = old]
    <3>1. (IF ~forward THEN leaf.after ELSE leaf.before) = old
      OBVIOUS
    <3>2. back = [ok |-> TRUE, world |-> [v EXCEPT !.content[layer] =
                                             IF ~forward THEN leaf.after ELSE leaf.before]]
      <4> HIDE DEF v
      <4>1. QED
        BY <2>1, <2>4 DEF ApplyLeaf
    <3> HIDE DEF v, old, back
    <3>3. QED
      BY <3>1, <3>2
  <2>10. StackLine(u)
    <3> HIDE DEF u
    <3>1. QED
      BY <2>8 DEF StackLine
  <2>11. [u EXCEPT !.content[layer] = old] = w
    <3>1. [u EXCEPT !.content[layer] = old] = [u EXCEPT !.content = [there EXCEPT ![layer] = old]]
      BY <2>8
    <3>2. [u EXCEPT !.content = c] = w
      BY DEF World
    <3>3. QED
      BY <2>6, <3>1, <3>2
  <2> HIDE DEF u, v, there, old, back
  <2>12. QED
    BY <2>4, <2>5, <2>8, <2>9, <2>10, <2>11
<1>6. QED
  BY <1>2, <1>3, <1>4, <1>5 DEF Leaf

\* The payloads a sequence of leaves leads through when it is applied in order.
Ways(f, order, from, to, forward) ==
    /\ f \in [0..Len(order) -> Contents]
    /\ f[0] = from /\ f[Len(order)] = to
    /\ \A k \in 1..Len(order) : Leads(order[k], f[k - 1], f[k], forward)

\* What a step makes of the payloads, from before it to after it.
Spans(step, before, after) == \E f : Ways(f, step, before, after, TRUE)

\* The same from where it is applied.
Links(step, near, far, forward) ==
    IF forward THEN Spans(step, near, far) ELSE Spans(step, far, near)

\* A step is walked through the payloads it spans, from either end.
LEMMA OrderWays ==
    ASSUME NEW step \in Seq(Leaf), NEW near, NEW far, NEW forward \in BOOLEAN,
           Links(step, near, far, forward)
    PROVE  \E f : Ways(f, Order(step, forward), near, far, forward)
<1>1. CASE forward
  BY <1>1 DEF Links, Spans, Order
<1>2. CASE ~forward
  <2> DEFINE n == Len(step)
             rev == Reverse(step)
  <2>1. PICK f : Ways(f, step, far, near, TRUE)
    BY <1>2 DEF Links, Spans
  <2>2. n \in Nat /\ Len(rev) = n /\ \A k \in 1..n : rev[k] = step[n - k + 1]
    BY ScenesInReverse
  <2> HIDE DEF rev
  <2>3. /\ f \in [0..n -> Contents] /\ f[0] = far /\ f[n] = near
        /\ \A k \in 1..n : Fits(step[k], f[k - 1], f[k])
    BY <2>1 DEF Ways, Leads
  <2> HIDE DEF n
  <2> DEFINE g == [j \in 0..n |-> f[n - j]]
  <2>4. g \in [0..n -> Contents] /\ g[0] = near /\ g[n] = far
    <3>1. \A j \in 0..n : n - j \in 0..n
      BY <2>2
    <3>2. 0 \in 0..n /\ n \in 0..n /\ n - 0 = n /\ n - n = 0
      BY <2>2
    <3>3. QED
      BY <2>3, <3>1, <3>2
  <2>5. ASSUME NEW k \in 1..n PROVE Leads(rev[k], g[k - 1], g[k], FALSE)
    <3> DEFINE m == n - k + 1
    <3>1. m \in 1..n /\ n - k = m - 1 /\ n - (k - 1) = m /\ k \in 0..n /\ k - 1 \in 0..n
      BY <2>2
    <3>2. g[k] = f[m - 1] /\ g[k - 1] = f[m] /\ rev[k] = step[m]
      BY <2>2, <3>1
    <3>3. Fits(step[m], f[m - 1], f[m])
      BY <2>3, <3>1
    <3> HIDE DEF m, g
    <3>4. QED
      BY <3>2, <3>3 DEF Leads
  <2> HIDE DEF g
  <2>6. Ways(g, rev, near, far, FALSE)
    BY <2>2, <2>4, <2>5 DEF Ways
  <2>7. Order(step, forward) = rev /\ forward = FALSE
    BY <1>2 DEF Order, rev
  <2>8. QED
    BY <2>6, <2>7
<1>3. QED
  BY <1>1, <1>2

\* Leaves each of which can be taken back are put back all the way.
LEMMA PutBackExact ==
    ASSUME NEW found, NEW moved \in Seq(Leaf), NEW forward \in BOOLEAN,
           NEW W \in [0..Len(moved) -> World],
           \A k \in 1..Len(moved) : MovedBack(found, forward, W[k], moved[k]) = W[k - 1]
    PROVE  PutBack(found, W[Len(moved)], moved, forward) = W[0]
<1> DEFINE m == Len(moved)
           back == Reverse(moved)
           v == PutBack(found, W[m], moved, forward)
<1>1. m \in Nat /\ Len(back) = m /\ \A k \in 1..m : back[k] = moved[m - k + 1]
  BY ScenesInReverse
<1>2. W[m] \in World
  BY <1>1
<1>3. PICK P : PutsBack(P, found, W[m], moved, forward)
  BY <1>2, PutBackRuns
<1> HIDE DEF v, back
<1>4. /\ P \in [0..m -> World] /\ P[0] = W[m] /\ P[m] = v
      /\ \A k \in 1..m : P[k] = MovedBack(found, forward, P[k - 1], back[k])
  BY <1>1, <1>3 DEF PutsBack, v, back
<1>5. \A k \in 1..m : MovedBack(found, forward, W[k], moved[k]) = W[k - 1]
  OBVIOUS
<1> HIDE DEF m
<1> DEFINE Good == {k \in Nat : k <= m => P[k] = W[m - k]}
<1>6. 0 \in Good
  <2>1. m - 0 = m
    BY <1>1
  <2>2. QED
    BY <1>4, <2>1
<1>7. ASSUME NEW k \in Nat, k \in Good PROVE k + 1 \in Good
  <2> SUFFICES ASSUME k + 1 <= m PROVE P[k + 1] = W[m - (k + 1)]
    OBVIOUS
  <2> DEFINE i == m - k
  <2>1. /\ i \in 1..m /\ m - (k + 1) + 1 = i /\ m - (k + 1) = i - 1
        /\ k + 1 \in 1..m /\ (k + 1) - 1 = k /\ k <= m
    BY <1>1
  <2>2. P[k] = W[i]
    BY <1>7, <2>1
  <2>3. back[k + 1] = moved[i]
    BY <1>1, <2>1
  <2>4. P[k + 1] = MovedBack(found, forward, W[i], moved[i])
    BY <1>4, <2>1, <2>2, <2>3
  <2> HIDE DEF i
  <2>5. W[i - 1] = MovedBack(found, forward, W[i], moved[i])
    BY <1>5, <2>1
  <2>6. QED
    BY <2>1, <2>4, <2>5
<1>8. Nat \subseteq Good
  <2> HIDE DEF Good
  <2>1. QED
    BY <1>6, <1>7, NatSetInduction
<1>9. P[m] = W[0]
  <2>1. m - m = 0 /\ m <= m /\ m \in Nat
    BY <1>1
  <2>2. P[m] = W[m - m]
    BY <1>8, <2>1
  <2>3. QED
    BY <2>1, <2>2
<1>10. v = W[0]
  BY <1>4, <1>9
<1>11. QED
  BY <1>10 DEF v, m

\* Applying a step leads where it says, or changes nothing.
LEMMA StepExact ==
    ASSUME NEW found, NEW w \in World, StackLine(w), NEW step \in Seq(Leaf),
           NEW forward \in BOOLEAN, NEW far, Links(step, w.content, far, forward)
    PROVE  LET r == ApplyStep(found, w, step, forward)
           IN  /\ r \in StepResult
               /\ r.ok => StackLine(r.world) /\ r.world.content = far
               /\ ~r.ok => r.world = w
<1> DEFINE order == Order(step, forward)
           n == Len(order)
           r == ApplyStep(found, w, step, forward)
<1>1. PICK P : Walks(P, found, w, step, forward)
  BY WalkRuns
<1>2. PICK f : Ways(f, order, w.content, far, forward)
  BY OrderWays
<1>3. order \in Seq(Leaf) /\ n \in Nat /\ \A k \in 1..n : order[k] \in Leaf
  <2>1. order \in Seq(Leaf)
    BY OrderLeaves
  <2>2. QED
    BY <2>1
<1>4. Len(Indices(order)) = n /\ \A k \in 1..n : Indices(order)[k] = k
  BY <1>3 DEF Indices
<1> HIDE DEF r, order
<1>5. /\ P \in [0..n -> StepResult] /\ P[0] = Started(w) /\ P[n] = r
      /\ \A k \in 1..n : P[k] = Walked(found, order, forward, P[k - 1], k)
  BY <1>1, <1>4 DEF Walks, r, order
<1>6. /\ f \in [0..n -> Contents] /\ f[0] = w.content /\ f[n] = far
      /\ \A k \in 1..n : Leads(order[k], f[k - 1], f[k], forward)
  BY <1>2 DEF Ways
<1> DEFINE Undone(k) == \A j \in 1..k : MovedBack(found, forward, P[j].world, order[j]) = P[j - 1].world
           Holds(k) == /\ P[k].ok => StackLine(P[k].world) /\ P[k].world.content = f[k] /\ Undone(k)
                       /\ ~P[k].ok => P[k].world = w
           Good == {k \in Nat : k <= n => Holds(k)}
<1> HIDE DEF n
<1>7. P[0].ok = TRUE /\ P[0].world = w
  BY <1>5 DEF Started
<1>8. 0 \in Good
  BY <1>6, <1>7
<1>9. ASSUME NEW k \in Nat, k \in Good PROVE k + 1 \in Good
  <2> SUFFICES ASSUME k + 1 <= n PROVE Holds(k + 1)
    OBVIOUS
  <2> DEFINE acc == P[k]
             next == P[k + 1]
             u == acc.world
             leaf == order[k + 1]
             moved == SubSeq(order, 1, k)
             l == ApplyLeaf(found, u, leaf, forward)
  <2>1. k + 1 \in 1..n /\ (k + 1) - 1 = k /\ k \in 0..n /\ k + 1 \in 0..n /\ Holds(k)
    BY <1>3, <1>9
  <2>2. acc \in StepResult /\ leaf \in Leaf
    BY <1>3, <1>5, <2>1
  <2>3. next = IF ~acc.ok THEN acc ELSE IF l.ok THEN l
               ELSE [ok |-> FALSE, world |-> PutBack(found, l.world, moved, forward)]
    BY <1>5, <2>1 DEF Walked
  <2>4. u \in World
    BY <2>2 DEF StepResult
  <2>5. CASE ~acc.ok
    <3>1. next = acc
      BY <2>3, <2>5
    <3>2. next.world = w /\ ~next.ok
      BY <2>1, <2>5, <3>1
    <3> HIDE DEF Undone, next
    <3>3. QED
      BY <3>2 DEF next
  <2>6. CASE acc.ok
    <3>1. StackLine(u) /\ u.content = f[k] /\ Undone(k)
      BY <2>1, <2>6
    <3>2. Leads(leaf, u.content, f[k + 1], forward) /\ f[k + 1] \in Contents
      BY <1>6, <2>1, <3>1
    <3>3. CASE l.ok
      <4>1. next = l
        BY <2>3, <2>6, <3>3
      <4>2. /\ StackLine(l.world) /\ l.world.content = f[k + 1]
            /\ MovedBack(found, forward, l.world, leaf) = u
        <5> HIDE DEF leaf, u
        <5>1. QED
          BY <2>2, <2>4, <3>1, <3>2, <3>3, LeafExact
      <4> HIDE DEF l
      <4>3. Undone(k + 1)
        <5> SUFFICES ASSUME NEW j \in 1..(k + 1)
                     PROVE  MovedBack(found, forward, P[j].world, order[j]) = P[j - 1].world
          OBVIOUS
        <5>1. CASE j = k + 1
          BY <2>1, <4>1, <4>2, <5>1
        <5>2. CASE j # k + 1
          <6>1. j \in 1..k
            BY <5>2
          <6>2. QED
            BY <3>1, <6>1
        <5>3. QED
          BY <5>1, <5>2
      <4> HIDE DEF Undone
      <4>4. QED
        BY <3>3, <4>1, <4>2, <4>3
    <3>4. CASE ~l.ok
      <4>1. l.world = u
        <5> HIDE DEF leaf, u
        <5>1. QED
          BY <2>2, <2>4, <3>4, LeafMoves
      <4>2. moved \in Seq(Leaf) /\ Len(moved) = k /\ \A j \in 1..k : moved[j] = order[j]
        <5>1. order \in Seq(Leaf) /\ k \in Nat /\ k <= Len(order) /\ Len(order) \in Nat
          BY <1>3, <2>1 DEF n
        <5>2. moved \in Seq(Leaf)
          BY <5>1
        <5>3. \A i \in 1..k : order[i] \in Leaf
          BY <5>1
        <5>4. 1 \in Int /\ k \in Int
          BY <5>1
        <5>5. /\ Len(moved) = IF 1 <= k THEN k - 1 + 1 ELSE 0
              /\ \A i \in 1..(k - 1 + 1) : moved[i] = order[1 + i - 1]
          BY <5>3, <5>4, SubSeqProperties
        <5> HIDE DEF moved
        <5>6. QED
          BY <5>1, <5>2, <5>5
      <4> DEFINE W == [j \in 0..k |-> P[j].world]
      <4>3. W \in [0..k -> World] /\ W[k] = u /\ W[0] = w
            /\ \A j \in 1..k : W[j] = P[j].world /\ W[j - 1] = P[j - 1].world
        <5>1. \A j \in 0..k : P[j].world \in World
          <6> SUFFICES ASSUME NEW j \in 0..k PROVE P[j].world \in World
            OBVIOUS
          <6>1. j \in 0..n
            BY <1>3, <2>1
          <6>2. P[j] \in StepResult
            BY <1>5, <6>1
          <6>3. QED
            BY <6>2 DEF StepResult
        <5>2. k \in 0..k /\ 0 \in 0..k /\ \A j \in 1..k : j \in 0..k /\ j - 1 \in 0..k
          OBVIOUS
        <5>3. QED
          BY <1>7, <5>1, <5>2
      <4> HIDE DEF W, moved, l, u, leaf
      <4>4. \A j \in 1..Len(moved) : MovedBack(found, forward, W[j], moved[j]) = W[j - 1]
        BY <3>1, <4>2, <4>3
      <4>5. PutBack(found, W[Len(moved)], moved, forward) = W[0]
        BY <4>2, <4>3, <4>4, PutBackExact
      <4>6. next.ok = FALSE /\ next.world = w
        BY <2>3, <2>6, <3>4, <4>1, <4>2, <4>3, <4>5
      <4> HIDE DEF Undone, next
      <4>7. QED
        BY <4>6 DEF next
    <3>5. QED
      BY <3>3, <3>4
  <2>7. QED
    BY <2>5, <2>6
<1>10. Holds(n)
  <2>1. Nat \subseteq Good
    <3> HIDE DEF Good
    <3>1. QED
      BY <1>8, <1>9, NatSetInduction
  <2>2. QED
    BY <1>3, <2>1
<1>11. r \in StepResult
  BY StepMoves DEF r
<1>12. /\ r.ok => StackLine(r.world) /\ r.world.content = far
       /\ ~r.ok => r.world = w
  BY <1>5, <1>6, <1>10
<1>13. QED
  BY <1>11, <1>12 DEF r

\* A step of one leaf.
LEMMA SpansOne ==
    ASSUME NEW leaf, NEW a \in Contents, NEW b \in Contents
    PROVE  Spans(<<leaf>>, a, b) <=> Fits(leaf, a, b)
<1>1. Len(<<leaf>>) = 1 /\ <<leaf>>[1] = leaf /\ 1..1 = {1} /\ 0..1 = {0, 1} /\ 1 - 1 = 0
  OBVIOUS
<1> DEFINE s == <<leaf>>
<1> HIDE DEF s
<1>2. Len(s) = 1 /\ s[1] = leaf
  BY <1>1 DEF s
<1>3. ASSUME Spans(s, a, b) PROVE Fits(leaf, a, b)
  <2>1. PICK f : Ways(f, s, a, b, TRUE)
    BY <1>3 DEF Spans
  <2>2. QED
    BY <1>1, <1>2, <2>1 DEF Ways, Leads
<1>4. ASSUME Fits(leaf, a, b) PROVE Spans(s, a, b)
  <2> DEFINE f == [k \in 0..1 |-> IF k = 0 THEN a ELSE b]
  <2>1. f \in [0..1 -> Contents] /\ f[0] = a /\ f[1] = b
    BY <1>1
  <2> HIDE DEF f
  <2>2. Ways(f, s, a, b, TRUE)
    BY <1>1, <1>2, <1>4, <2>1 DEF Ways, Leads
  <2>3. QED
    BY <2>2 DEF Spans
<1>5. QED
  BY <1>3, <1>4 DEF s

\* A Scene step leaves the payloads alone.
LEMMA SpansScene ==
    ASSUME NEW a \in Contents, NEW b \in Contents
    PROVE  Spans(<<Scene>>, a, b) <=> a = b
<1>1. Fits(Scene, a, b) <=> a = b
  BY DEF Fits, Scene
<1>2. QED
  BY <1>1, SpansOne

\* So does a step with nothing in it.
LEMMA SpansNothing ==
    ASSUME NEW a \in Contents
    PROVE  Spans(<<>>, a, a)
<1> DEFINE f == [k \in {0} |-> a]
           none == <<>>
<1>1. Len(none) = 0 /\ 0..0 = {0} /\ 1..0 = {}
  OBVIOUS
<1>2. f \in [0..0 -> Contents] /\ f[0] = a
  BY <1>1
<1> HIDE DEF f, none
<1>3. Ways(f, none, a, a, TRUE)
  BY <1>1, <1>2 DEF Ways
<1>4. QED
  BY <1>3 DEF Spans, none

\* One step after another.
LEMMA SpansConcat ==
    ASSUME NEW s \in Seq(Leaf), NEW t \in Seq(Leaf), NEW a, NEW b, NEW c,
           Spans(s, a, b), Spans(t, b, c)
    PROVE  s \o t \in Seq(Leaf) /\ Spans(s \o t, a, c)
<1> DEFINE m == Len(s)
           n == Len(t)
           u == s \o t
<1>1. /\ m \in Nat /\ n \in Nat /\ u \in Seq(Leaf) /\ Len(u) = m + n
      /\ (\A k \in 1..m : u[k] = s[k]) /\ (\A k \in 1..n : u[m + k] = t[k])
  BY ConcatProperties
<1>2. PICK f : Ways(f, s, a, b, TRUE)
  BY DEF Spans
<1>3. PICK g : Ways(g, t, b, c, TRUE)
  BY DEF Spans
<1>4. /\ f \in [0..m -> Contents] /\ f[0] = a /\ f[m] = b
      /\ \A k \in 1..m : Fits(s[k], f[k - 1], f[k])
  BY <1>2 DEF Ways, Leads
<1>5. /\ g \in [0..n -> Contents] /\ g[0] = b /\ g[n] = c
      /\ \A k \in 1..n : Fits(t[k], g[k - 1], g[k])
  BY <1>3 DEF Ways, Leads
<1> HIDE DEF m, n, u
<1> DEFINE h == [k \in 0..(m + n) |-> IF k <= m THEN f[k] ELSE g[k - m]]
<1>6. h \in [0..(m + n) -> Contents]
  <2>1. \A k \in 0..(m + n) : IF k <= m THEN k \in 0..m ELSE k - m \in 0..n
    BY <1>1
  <2>2. QED
    BY <1>4, <1>5, <2>1
<1>7. (\A k \in 0..m : h[k] = f[k]) /\ (\A k \in 0..n : h[m + k] = g[k])
  <2>1. ASSUME NEW k \in 0..m PROVE h[k] = f[k]
    <3>1. k \in 0..(m + n) /\ k <= m
      BY <1>1
    <3>2. QED
      BY <3>1
  <2>2. ASSUME NEW k \in 0..n PROVE h[m + k] = g[k]
    <3>1. m + k \in 0..(m + n) /\ (m + k) - m = k /\ (m + k <= m => k = 0 /\ m + k = m)
      BY <1>1
    <3>2. CASE k = 0
      BY <1>4, <1>5, <3>1, <3>2
    <3>3. CASE k # 0
      BY <3>1, <3>3
    <3>4. QED
      BY <3>2, <3>3
  <2>3. QED
    BY <2>1, <2>2
<1> HIDE DEF h
<1>8. ASSUME NEW k \in 1..(m + n) PROVE Fits(u[k], h[k - 1], h[k])
  <2>1. CASE k <= m
    <3>1. k \in 1..m /\ k \in 0..m /\ k - 1 \in 0..m
      BY <1>1, <2>1
    <3>2. QED
      BY <1>1, <1>4, <1>7, <3>1
  <2>2. CASE ~ (k <= m)
    <3> DEFINE j == k - m
    <3>1. j \in 1..n /\ j \in 0..n /\ j - 1 \in 0..n /\ m + j = k /\ m + (j - 1) = k - 1
      BY <1>1, <2>2
    <3> HIDE DEF j
    <3>2. u[m + j] = t[j] /\ h[m + j] = g[j] /\ h[m + (j - 1)] = g[j - 1]
      BY <1>1, <1>7, <3>1
    <3>3. QED
      BY <1>5, <3>1, <3>2
  <2>3. QED
    BY <2>1, <2>2
<1>9. h[0] = a /\ h[m + n] = c
  <2>1. 0 \in 0..m /\ n \in 0..n
    BY <1>1
  <2>2. QED
    BY <1>4, <1>5, <1>7, <2>1
<1>10. Ways(h, u, a, c, TRUE)
  BY <1>1, <1>6, <1>8, <1>9 DEF Ways, Leads
<1>11. QED
  BY <1>1, <1>10 DEF Spans, u

\* The payloads at the end of each of a list of steps that lead from one to the next.
Stages(g, list) ==
    /\ g \in [0..Len(list) -> Contents]
    /\ \A i \in 1..Len(list) : Spans(list[i], g[i - 1], g[i])

\* Folded into one, they lead from the first to the last.
LEMMA GatheredSpans ==
    ASSUME NEW list \in Seq(Seq(Leaf)), NEW g, Stages(g, list)
    PROVE  Spans(Gathered(list, TRUE) \o Gathered(list, FALSE), g[0], g[Len(list)])
<1> DEFINE n == Len(list)
           first == Gathered(list, TRUE)
           then == Gathered(list, FALSE)
<1>1. n \in Nat /\ \A i \in 1..n : list[i] \in Seq(Leaf)
  OBVIOUS
<1>2. PICK P : Gathers(P, Leaf, list, TRUE)
  BY Gatherings
<1>3. PICK Q : Gathers(Q, Leaf, list, FALSE)
  BY Gatherings
<1> HIDE DEF first, then
<1>4. /\ P \in [0..n -> Seq(Leaf)] /\ P[0] = <<>> /\ P[n] = first
      /\ \A k \in 1..n : P[k] = Grown(P[k - 1], list[k], TRUE)
  BY <1>2 DEF Gathers, first
<1>5. /\ Q \in [0..n -> Seq(Leaf)] /\ Q[0] = <<>> /\ Q[n] = then
      /\ \A k \in 1..n : Q[k] = Grown(Q[k - 1], list[k], FALSE)
  BY <1>3 DEF Gathers, then
<1>6. /\ g \in [0..n -> Contents]
      /\ \A i \in 1..n : Spans(list[i], g[i - 1], g[i])
  BY DEF Stages
<1> HIDE DEF n
<1>7. 0 \in 0..n /\ n \in 0..n /\ g[0] \in Contents
  BY <1>1, <1>6
<1> DEFINE Good == {k \in Nat : k <= n => Spans(P[k], g[0], g[0]) /\ Spans(Q[k], g[0], g[k])}
<1>8. 0 \in Good
  BY <1>4, <1>5, <1>7, SpansNothing
<1>9. ASSUME NEW k \in Nat, k \in Good PROVE k + 1 \in Good
  <2> SUFFICES ASSUME k + 1 <= n
               PROVE  Spans(P[k + 1], g[0], g[0]) /\ Spans(Q[k + 1], g[0], g[k + 1])
    OBVIOUS
  <2> DEFINE step == list[k + 1]
             here == g[k]
             there == g[k + 1]
  <2>1. k + 1 \in 1..n /\ (k + 1) - 1 = k /\ k \in 0..n /\ k + 1 \in 0..n /\ k <= n
    BY <1>1
  <2>2. Spans(P[k], g[0], g[0]) /\ Spans(Q[k], g[0], here)
    BY <1>9, <2>1
  <2>3. step \in Seq(Leaf) /\ P[k] \in Seq(Leaf) /\ Q[k] \in Seq(Leaf)
    BY <1>1, <1>4, <1>5, <2>1
  <2>4. Spans(step, here, there) /\ here \in Contents /\ there \in Contents
    BY <1>6, <2>1
  <2>5. P[k + 1] = Grown(P[k], step, TRUE) /\ Q[k + 1] = Grown(Q[k], step, FALSE)
    BY <1>4, <1>5, <2>1
  <2> HIDE DEF step, here, there
  <2>6. CASE step = <<Scene>>
    <3>1. here = there
      BY <2>4, <2>6, SpansScene
    <3>2. P[k + 1] = P[k] \o step /\ Q[k + 1] = Q[k]
      BY <2>5, <2>6 DEF Grown
    <3>3. Spans(step, g[0], g[0])
      BY <1>7, <2>6, SpansScene
    <3>4. Spans(P[k] \o step, g[0], g[0])
      BY <2>2, <2>3, <3>3, SpansConcat
    <3>5. QED
      BY <2>2, <3>1, <3>2, <3>4 DEF there
  <2>7. CASE step # <<Scene>>
    <3>1. P[k + 1] = P[k] /\ Q[k + 1] = Q[k] \o step
      BY <2>5, <2>7 DEF Grown
    <3>2. Spans(Q[k] \o step, g[0], there)
      BY <2>2, <2>3, <2>4, SpansConcat
    <3>3. QED
      BY <2>2, <3>1, <3>2 DEF there
  <2>8. QED
    BY <2>6, <2>7
<1>10. Nat \subseteq Good
  <2> HIDE DEF Good
  <2>1. QED
    BY <1>8, <1>9, NatSetInduction
<1>11. Spans(first, g[0], g[0]) /\ Spans(then, g[0], g[n])
  <2>1. n \in Nat /\ n <= n
    BY <1>1
  <2>2. QED
    BY <1>4, <1>5, <1>10, <2>1
<1>12. first \in Seq(Leaf) /\ then \in Seq(Leaf)
  BY <1>4, <1>5, <1>7
<1>13. Spans(first \o then, g[0], g[n])
  BY <1>11, <1>12, SpansConcat
<1>14. QED
  BY <1>13 DEF first, then, n

\* A list of steps, each of which can be applied, as far as the payloads go, where
\* the one after it leads to; the newest from where they are.
TrailBy(g, list, c, forward) ==
    /\ g \in [0..Len(list) -> Contents] /\ g[Len(list)] = c
    /\ \A i \in 1..Len(list) : Links(list[i], g[i], g[i - 1], forward)

Trail(list, c, forward) == \E g : TrailBy(g, list, c, forward)

\* An empty one.
LEMMA TrailOfNone ==
    ASSUME NEW c \in Contents, NEW forward
    PROVE  Trail(<<>>, c, forward)
<1> DEFINE g == [i \in {0} |-> c]
           none == <<>>
<1>1. Len(none) = 0 /\ 0..0 = {0} /\ 1..0 = {}
  OBVIOUS
<1>2. g \in [0..0 -> Contents] /\ g[0] = c
  BY <1>1
<1> HIDE DEF g, none
<1>3. TrailBy(g, none, c, forward)
  BY <1>1, <1>2 DEF TrailBy
<1>4. QED
  BY <1>3 DEF Trail, none

\* One more step.
LEMMA TrailGrows ==
    ASSUME NEW S, NEW list \in Seq(S), NEW forward, NEW d, Trail(list, d, forward),
           NEW c \in Contents, NEW step \in S, Links(step, c, d, forward)
    PROVE  Trail(Append(list, step), c, forward)
<1> DEFINE n == Len(list)
           more == Append(list, step)
<1>1. n \in Nat
  OBVIOUS
<1>2. Len(more) = n + 1 /\ more[n + 1] = step /\ \A i \in 1..n : more[i] = list[i]
  BY <1>1, AppendProperties
<1>3. PICK f : TrailBy(f, list, d, forward)
  BY DEF Trail
<1>4. /\ f \in [0..n -> Contents] /\ f[n] = d
      /\ \A i \in 1..n : Links(list[i], f[i], f[i - 1], forward)
  BY <1>3 DEF TrailBy
<1> DEFINE g == [i \in 0..(n + 1) |-> IF i = n + 1 THEN c ELSE f[i]]
<1> HIDE DEF n, more
<1>5. g \in [0..(n + 1) -> Contents] /\ g[n + 1] = c /\ \A i \in 0..n : g[i] = f[i]
  BY <1>1, <1>4
<1> HIDE DEF g
<1>6. ASSUME NEW i \in 1..(n + 1) PROVE Links(more[i], g[i], g[i - 1], forward)
  <2>1. CASE i = n + 1
    <3>1. i - 1 = n /\ n \in 0..n
      BY <1>1, <2>1
    <3>2. g[i - 1] = d /\ g[i] = c /\ more[i] = step
      BY <1>2, <1>4, <1>5, <2>1, <3>1
    <3>3. QED
      BY <3>2
  <2>2. CASE i # n + 1
    <3>1. i \in 1..n /\ i \in 0..n /\ i - 1 \in 0..n
      BY <1>1, <2>2
    <3>2. QED
      BY <1>2, <1>4, <1>5, <3>1
  <2>3. QED
    BY <2>1, <2>2
<1>7. TrailBy(g, more, c, forward)
  BY <1>2, <1>5, <1>6 DEF TrailBy
<1>8. QED
  BY <1>7 DEF Trail, more

\* The newest step leads to where the rest leads from.
LEMMA TrailBack ==
    ASSUME NEW S, NEW list \in Seq(S), list # <<>>, NEW forward, NEW d, Trail(list, d, forward)
    PROVE  d \in Contents /\ \E c \in Contents : Links(Last(list), d, c, forward) /\ Trail(Front(list), c, forward)
<1> DEFINE n == Len(list)
           less == Front(list)
<1>1. n \in Nat /\ n >= 1
  OBVIOUS
<1>2. Len(less) = n - 1 /\ (\A i \in 1..(n - 1) : less[i] = list[i])
  BY FrontLen
<1>3. Last(list) = list[n]
  BY DEF Last
<1>4. PICK g : TrailBy(g, list, d, forward)
  BY DEF Trail
<1>5. /\ g \in [0..n -> Contents] /\ g[n] = d
      /\ \A i \in 1..n : Links(list[i], g[i], g[i - 1], forward)
  BY <1>4 DEF TrailBy
<1> HIDE DEF n, less
<1> DEFINE h == [i \in 0..(n - 1) |-> g[i]]
<1>6. n - 1 \in 0..n /\ n \in 1..n /\ n \in 0..n /\ n - 1 \in 0..(n - 1)
  BY <1>1
<1>7. d \in Contents /\ g[n - 1] \in Contents /\ Links(list[n], d, g[n - 1], forward)
  BY <1>5, <1>6
<1>8. h \in [0..(n - 1) -> Contents] /\ \A i \in 0..(n - 1) : h[i] = g[i]
  BY <1>1, <1>5
<1> HIDE DEF h
<1>9. \A i \in 1..(n - 1) : Links(less[i], h[i], h[i - 1], forward)
  BY <1>1, <1>2, <1>5, <1>8
<1>10. TrailBy(h, less, g[n - 1], forward)
  BY <1>2, <1>6, <1>8, <1>9 DEF TrailBy
<1>11. QED
  BY <1>3, <1>7, <1>10 DEF Trail, less

\* Its newest steps.
LEMMA TrailWithout ==
    ASSUME NEW S, NEW list \in Seq(S), NEW forward, NEW c, Trail(list, c, forward),
           NEW k \in 0..Len(list)
    PROVE  Trail(Without(list, k), c, forward)
<1> DEFINE n == Len(list)
           w == SubSeq(list, k + 1, Len(list))
<1>1. n \in Nat /\ k \in Nat /\ k <= n
  OBVIOUS
<1>2. Len(w) = n - k
  BY <1>1
<1>3. \A i \in 1..Len(w) : w[i] = list[k + i]
  BY <1>1
<1>4. PICK g : TrailBy(g, list, c, forward)
  BY DEF Trail
<1>5. /\ g \in [0..n -> Contents] /\ g[n] = c
      /\ \A i \in 1..n : Links(list[i], g[i], g[i - 1], forward)
  BY <1>4 DEF TrailBy
<1>6. Without(list, k) = w
  BY DEF Without
<1> HIDE DEF n, w
<1> DEFINE m == n - k
           h == [i \in 0..m |-> g[k + i]]
<1>7. m \in Nat /\ k + m = n /\ \A i \in 0..m : k + i \in 0..n
  BY <1>1
<1> HIDE DEF m
<1>8. h \in [0..m -> Contents] /\ \A i \in 0..m : h[i] = g[k + i]
  BY <1>5, <1>7
<1> HIDE DEF h
<1>9. ASSUME NEW i \in 1..m PROVE Links(w[i], h[i], h[i - 1], forward)
  <2>1. i \in 0..m /\ i - 1 \in 0..m /\ k + i \in 1..n /\ k + (i - 1) = (k + i) - 1
    BY <1>1, <1>7
  <2>2. w[i] = list[k + i] /\ h[i] = g[k + i] /\ h[i - 1] = g[(k + i) - 1]
    BY <1>2, <1>3, <1>8, <2>1 DEF m
  <2> DEFINE j == k + i
  <2>3. j \in 1..n /\ w[i] = list[j] /\ h[i] = g[j] /\ h[i - 1] = g[j - 1]
    BY <2>1, <2>2
  <2> HIDE DEF j
  <2>4. QED
    BY <1>5, <2>3
<1>10. h[m] = c
  <2>1. m \in 0..m
    BY <1>7
  <2>2. QED
    BY <1>5, <1>7, <1>8, <2>1
<1>11. TrailBy(h, w, c, forward)
  BY <1>2, <1>8, <1>9, <1>10 DEF TrailBy, m
<1>12. QED
  BY <1>6, <1>11 DEF Trail

\* The two halves of a list that leads from payloads, and those between them.
Halves(older, newer, b, g, c) ==
    /\ b \in Contents /\ Trail(older, b, FALSE)
    /\ Stages(g, newer) /\ g[0] = b /\ g[Len(newer)] = c

\* A list cut in two.
LEMMA TrailCut ==
    ASSUME NEW S, NEW list \in Seq(S), NEW c, Trail(list, c, FALSE), NEW k \in 0..Len(list)
    PROVE  \E b, g : Halves(SubSeq(list, 1, k), Without(list, k), b, g, c)
<1> DEFINE n == Len(list)
           f == SubSeq(list, 1, k)
           w == SubSeq(list, k + 1, Len(list))
<1>1. n \in Nat /\ k \in Nat /\ k <= n /\ \A i \in 1..n : list[i] \in S
  OBVIOUS
<1>2. Len(w) = n - k
  BY <1>1
<1>3. \A i \in 1..Len(w) : w[i] = list[k + i]
  BY <1>1
<1>4. Len(f) = k /\ \A i \in 1..k : f[i] = list[i]
  <2>1. \A i \in 1..k : list[i] \in S
    BY <1>1
  <2>2. 1 \in Int /\ k \in Int
    BY <1>1
  <2>3. /\ Len(f) = IF 1 <= k THEN k - 1 + 1 ELSE 0
        /\ \A i \in 1..(k - 1 + 1) : f[i] = list[1 + i - 1]
    BY <2>1, <2>2, SubSeqProperties
  <2> HIDE DEF f
  <2>4. QED
    BY <1>1, <2>3
<1>5. PICK g : TrailBy(g, list, c, FALSE)
  BY DEF Trail
<1>6. /\ g \in [0..n -> Contents] /\ g[n] = c
      /\ \A i \in 1..n : Spans(list[i], g[i - 1], g[i])
  BY <1>5 DEF TrailBy, Links
<1>7. Without(list, k) = w
  BY DEF Without
<1> HIDE DEF n, w, f
<1> DEFINE m == n - k
           h == [i \in 0..m |-> g[k + i]]
           e == [i \in 0..k |-> g[i]]
<1>8. m \in Nat /\ k + m = n /\ k + 0 = k /\ \A i \in 0..m : k + i \in 0..n
  BY <1>1
<1> HIDE DEF m
<1>9. h \in [0..m -> Contents] /\ \A i \in 0..m : h[i] = g[k + i]
  BY <1>6, <1>8
<1> HIDE DEF h
<1>10. ASSUME NEW i \in 1..m PROVE Spans(w[i], h[i - 1], h[i])
  <2>1. i \in 0..m /\ i - 1 \in 0..m /\ k + i \in 1..n /\ k + (i - 1) = (k + i) - 1
    BY <1>1, <1>8
  <2>2. w[i] = list[k + i] /\ h[i] = g[k + i] /\ h[i - 1] = g[(k + i) - 1]
    BY <1>2, <1>3, <1>9, <2>1 DEF m
  <2> DEFINE j == k + i
  <2>3. j \in 1..n /\ w[i] = list[j] /\ h[i] = g[j] /\ h[i - 1] = g[j - 1]
    BY <2>1, <2>2
  <2> HIDE DEF j
  <2>4. QED
    BY <1>6, <2>3
<1>11. h[0] = g[k] /\ h[m] = c
  <2>1. m \in 0..m /\ 0 \in 0..m
    BY <1>8
  <2>2. QED
    BY <1>6, <1>8, <1>9, <2>1
<1>12. Len(w) = m /\ Stages(h, w)
  <2>1. Len(w) = m
    BY <1>2 DEF m
  <2>2. QED
    BY <1>9, <1>10, <2>1 DEF Stages
<1>13. e \in [0..k -> Contents] /\ \A i \in 0..k : e[i] = g[i]
  BY <1>1, <1>6
<1> HIDE DEF e
<1>14. ASSUME NEW i \in 1..k PROVE Spans(f[i], e[i - 1], e[i])
  <2>1. i \in 0..k /\ i - 1 \in 0..k /\ i \in 1..n
    BY <1>1
  <2>2. QED
    BY <1>4, <1>6, <1>13, <2>1
<1>15. e[k] = g[k] /\ g[k] \in Contents
  BY <1>1, <1>6, <1>13
<1>16. TrailBy(e, f, g[k], FALSE)
  BY <1>4, <1>13, <1>14, <1>15 DEF TrailBy, Links
<1>17. Halves(f, w, g[k], h, c)
  BY <1>11, <1>12, <1>15, <1>16 DEF Trail, Halves
<1>18. QED
  BY <1>7, <1>17 DEF f

\* A step that leaves the payloads alone is not missed.
LEMMA TrailForgets ==
    ASSUME NEW list \in Seq(WholeStep), NEW c, Trail(list, c, FALSE)
    PROVE  Trail(WithoutNewestScene(list), c, FALSE)
<1> DEFINE n == Len(list)
           at == {i \in 1..n : list[i] = <<Scene>>}
           i == CHOOSE i \in at : \A j \in at : j <= i
<1>1. n \in Nat /\ \A k \in 1..n : list[k] \in WholeStep
  OBVIOUS
<1>2. CASE at = {}
  BY <1>2 DEF WithoutNewestScene
<1>3. CASE at # {}
  <2>1. at \in SUBSET (1..n)
    OBVIOUS
  <2>2. WithoutNewestScene(list) = RemoveAt(list, i)
    BY <1>3 DEF WithoutNewestScene
  <2>3. \E x \in at : \A j \in at : j <= x
    <3>1. Max(at) \in at /\ \A x \in at : Max(at) >= x
      <4> HIDE DEF at, n
      <4>1. QED
        BY <1>1, <1>3, <2>1, GreatestIndex
    <3>2. \A x \in at : x <= Max(at)
      BY <2>1, <3>1
    <3>3. QED
      BY <3>1, <3>2
  <2>4. i \in at
    <3> HIDE DEF at
    <3>1. QED
      BY <2>3
  <2>5. i \in 1..n /\ list[i] = <<Scene>>
    BY <2>4
  <2> HIDE DEF at, i
  <2> DEFINE a == SubSeq(list, 1, i - 1)
             b == SubSeq(list, i + 1, n)
             less == a \o b
  <2>6. RemoveAt(list, i) = less
    BY DEF RemoveAt
  <2>7. a \in Seq(WholeStep) /\ Len(a) = i - 1 /\ \A k \in 1..(i - 1) : a[k] = list[k]
    <3>1. a \in Seq(WholeStep)
      BY <1>1, <2>5
    <3>2. \A k \in 1..(i - 1) : list[k] \in WholeStep
      BY <1>1, <2>5
    <3>3. 1 \in Int /\ i - 1 \in Int
      BY <2>5
    <3>4. /\ Len(a) = IF 1 <= i - 1 THEN i - 1 - 1 + 1 ELSE 0
          /\ \A k \in 1..(i - 1 - 1 + 1) : a[k] = list[1 + k - 1]
      BY <3>2, <3>3, SubSeqProperties
    <3> HIDE DEF a
    <3>5. QED
      BY <2>5, <3>1, <3>4
  <2>8. b \in Seq(WholeStep) /\ Len(b) = n - i /\ \A k \in 1..(n - i) : b[k] = list[i + k]
    <3>1. b \in Seq(WholeStep)
      BY <1>1, <2>5
    <3>2. Len(b) = n - i
      BY <1>1, <2>5
    <3>3. \A k \in 1..Len(b) : b[k] = list[i + k]
      BY <1>1, <2>5
    <3> HIDE DEF b
    <3>4. QED
      BY <3>1, <3>2, <3>3
  <2> HIDE DEF a, b
  <2>9. /\ less \in Seq(WholeStep) /\ Len(less) = Len(a) + Len(b)
        /\ \A k \in 1..Len(a) : less[k] = a[k]
        /\ \A k \in 1..Len(b) : less[Len(a) + k] = b[k]
    <3>1. a \in Seq(WholeStep) /\ b \in Seq(WholeStep)
      BY <2>7, <2>8
    <3>2. QED
      BY <3>1, ConcatProperties
  <2> HIDE DEF less
  <2>10. Len(less) = n - 1
    BY <1>1, <2>5, <2>7, <2>8, <2>9
  <2>11. \A k \in 1..(i - 1) : less[k] = list[k]
    BY <2>7, <2>9
  <2>12. \A k \in i..(n - 1) : less[k] = list[k + 1]
    <3> SUFFICES ASSUME NEW k \in i..(n - 1) PROVE less[k] = list[k + 1]
      OBVIOUS
    <3> DEFINE j == k - (i - 1)
    <3>1. j \in 1..(n - i) /\ (i - 1) + j = k /\ i + j = k + 1
      BY <1>1, <2>5
    <3> HIDE DEF j
    <3>2. less[(i - 1) + j] = list[i + j]
      BY <2>7, <2>8, <2>9, <3>1
    <3>3. QED
      BY <3>1, <3>2
  <2>13. PICK g : TrailBy(g, list, c, FALSE)
    BY DEF Trail
  <2>14. /\ g \in [0..n -> Contents] /\ g[n] = c
         /\ \A k \in 1..n : Spans(list[k], g[k - 1], g[k])
    BY <2>13 DEF TrailBy, Links
  <2> HIDE DEF n
  <2>15. g[i - 1] = g[i]
    <3>1. i - 1 \in 0..n /\ i \in 0..n
      BY <1>1, <2>5
    <3>2. Spans(<<Scene>>, g[i - 1], g[i]) /\ g[i - 1] \in Contents /\ g[i] \in Contents
      BY <2>5, <2>14, <3>1
    <3>3. QED
      BY <3>2, SpansScene
  <2> DEFINE h == [k \in 0..(n - 1) |-> IF k < i THEN g[k] ELSE g[k + 1]]
  <2>16. h \in [0..(n - 1) -> Contents] /\ (\A k \in 0..(n - 1) : k < i => h[k] = g[k])
         /\ (\A k \in 0..(n - 1) : k >= i - 1 => h[k] = g[k + 1])
    <3>1. \A k \in 0..(n - 1) : k \in 0..n /\ k + 1 \in 0..n
      BY <1>1
    <3>2. h \in [0..(n - 1) -> Contents]
      BY <2>14, <3>1
    <3>3. ASSUME NEW k \in 0..(n - 1), k >= i - 1 PROVE h[k] = g[k + 1]
      <4>1. CASE k = i - 1
        <5>1. h[k] = g[i - 1] /\ k + 1 = i
          BY <2>5, <4>1
        <5>2. QED
          BY <2>15, <5>1
      <4>2. CASE k # i - 1
        <5>1. ~ (k < i)
          BY <2>5, <3>3, <4>2
        <5>2. QED
          BY <5>1
      <4>3. QED
        BY <4>1, <4>2
    <3>4. QED
      BY <3>2, <3>3
  <2> HIDE DEF h
  <2>17. ASSUME NEW k \in 1..(n - 1) PROVE Spans(less[k], h[k - 1], h[k])
    <3>1. CASE k < i
      <4>1. k \in 1..(i - 1) /\ k \in 1..n /\ k \in 0..(n - 1) /\ k - 1 \in 0..(n - 1) /\ k - 1 < i
        BY <1>1, <2>5, <3>1
      <4>2. QED
        BY <2>11, <2>14, <2>16, <3>1, <4>1
    <3>2. CASE ~ (k < i)
      <4> DEFINE j == k + 1
      <4>1. /\ k \in i..(n - 1) /\ j \in 1..n /\ k \in 0..(n - 1) /\ k - 1 \in 0..(n - 1)
            /\ k >= i - 1 /\ k - 1 >= i - 1 /\ (k - 1) + 1 = k /\ j - 1 = k
        BY <1>1, <2>5, <3>2
      <4>2. less[k] = list[j] /\ h[k] = g[j] /\ h[k - 1] = g[j - 1]
        BY <2>12, <2>16, <4>1
      <4> HIDE DEF j
      <4>3. QED
        BY <2>14, <4>1, <4>2
    <3>3. QED
      BY <3>1, <3>2
  <2>18. h[n - 1] = c
    <3>1. n - 1 \in 0..(n - 1) /\ n - 1 >= i - 1 /\ (n - 1) + 1 = n
      BY <1>1, <2>5
    <3>2. QED
      BY <2>14, <2>16, <3>1
  <2>19. TrailBy(h, less, c, FALSE)
    BY <2>10, <2>16, <2>17, <2>18 DEF TrailBy, Links
  <2>20. QED
    BY <2>2, <2>6, <2>19 DEF Trail
<1>4. QED
  BY <1>2, <1>3

\* Both lists lead from where the payloads are.
Follows(lists, c) == Trail(lists.steps, c, FALSE) /\ Trail(lists.redo, c, TRUE)

\* What an eviction leaves leads as before.
LEMMA EvictFollows ==
    ASSUME NEW lists \in ListsType, NEW commands, NEW limit, NEW c
    PROVE  LET e == Evict(lists, commands, limit)
           IN  /\ Trail(lists.steps, c, FALSE) => Trail(e.steps, c, FALSE)
               /\ Trail(lists.redo, c, TRUE) => Trail(e.redo, c, TRUE)
<1>1. PICK r \in 0..Len(lists.redo), s \in 0..Evictable(lists.steps) :
              Evict(lists, commands, limit) = Evicted(lists, r, s)
  BY EvictTakes
<1>2. lists.steps \in Seq(WholeStep) /\ lists.redo \in Seq(WholeStep)
  BY DEF ListsType
<1>3. s \in 0..Len(lists.steps)
  BY <1>2 DEF Evictable
<1> DEFINE e == Evict(lists, commands, limit)
<1>4. e.steps = Without(lists.steps, s) /\ e.redo = Without(lists.redo, r)
  BY <1>1 DEF Evicted
<1> HIDE DEF e
<1>5. Trail(lists.steps, c, FALSE) => Trail(e.steps, c, FALSE)
  BY <1>2, <1>3, <1>4, TrailWithout
<1>6. Trail(lists.redo, c, TRUE) => Trail(e.redo, c, TRUE)
  BY <1>2, <1>4, TrailWithout
<1>7. QED
  BY <1>5, <1>6 DEF e

\* And what the budget leaves.
LEMMA BudgetFollows ==
    ASSUME NEW lists \in ListsType, NEW commands, NEW grouping, NEW c
    PROVE  LET e == EnforceBudget(lists, commands, grouping)
           IN  /\ Trail(lists.steps, c, FALSE) => Trail(e.steps, c, FALSE)
               /\ Trail(lists.redo, c, TRUE) => Trail(e.redo, c, TRUE)
BY EvictFollows DEF EnforceBudget

\* A step pushed from where the payloads are to where they were.
LEMMA PushFollows ==
    ASSUME NEW lists \in ListsType, NEW commands, NEW grouping \in BOOLEAN,
           NEW step \in WholeStep, NEW b \in Contents, NEW c \in Contents,
           Trail(lists.steps, b, FALSE), Spans(step, b, c)
    PROVE  Follows(Push(lists, commands, grouping, step), c)
<1> DEFINE longer == Append(lists.steps, step)
           more == [lists EXCEPT !.steps = Append(@, step)]
           kept == EnforceBudget(more, commands, grouping)
           none == <<>>
           r == [kept EXCEPT !.redo = none]
<1>1. Push(lists, commands, grouping, step) = r
  BY DEF Push
<1>2. lists.steps \in Seq(WholeStep)
  BY DEF ListsType
<1>3. longer \in Seq(WholeStep)
  BY <1>2
<1>4. Links(step, c, b, FALSE)
  BY DEF Links
<1>5. Trail(longer, c, FALSE)
  BY <1>2, <1>4, TrailGrows
<1>6. more = [lists EXCEPT !.steps = longer]
  OBVIOUS
<1> HIDE DEF longer, more
<1>7. more \in ListsType /\ more.steps = longer
  BY <1>3, <1>6 DEF ListsType
<1>8. Fewer(kept, more) /\ Trail(kept.steps, c, FALSE)
  <2>1. Trail(more.steps, c, FALSE)
    BY <1>5, <1>7
  <2>2. QED
    BY <1>7, <2>1, BudgetFollows, EnforceBudgetKeeps
<1> HIDE DEF kept
<1>9. kept \in ListsType
  BY <1>8 DEF Fewer
<1>10. Trail(none, c, TRUE)
  BY TrailOfNone
<1> HIDE DEF none
<1>11. r.steps = kept.steps /\ r.redo = none
  BY <1>9 DEF ListsType
<1>12. QED
  BY <1>1, <1>8, <1>10, <1>11 DEF Follows

\* Reconciling adds and forgets only steps that leave the payloads alone.
LEMMA SyncFollows ==
    ASSUME NEW lists \in ListsType, NEW commands, NEW grouping \in BOOLEAN,
           Len(commands.undo) \in Nat, NEW c \in Contents, Follows(lists, c)
    PROVE  Follows(SyncSceneSteps(lists, commands, grouping), c)
<1>1. CASE grouping
  BY <1>1 DEF SyncSceneSteps
<1>2. CASE grouping = FALSE /\ SceneSteps(lists.steps) < Len(commands.undo)
  <2> DEFINE n == Len(commands.undo) - SceneSteps(lists.steps)
             r == SyncSceneSteps(lists, commands, FALSE)
  <2>1. SceneSteps(lists.steps) \in Nat
    BY SceneStepsNat DEF ListsType
  <2>2. n \in Nat /\ n > 0
    BY <1>2, <2>1
  <2>3. PICK P : Adds(P, lists, commands, n, r)
    BY <2>2, SyncAdds
  <2> HIDE DEF n, r
  <2>4. /\ P \in [0..n -> ListsType] /\ P[0] = lists /\ P[n] = r
        /\ \A k \in 1..n : P[k] = Push(P[k - 1], commands, FALSE, <<Scene>>)
    BY <2>3 DEF Adds
  <2>5. <<Scene>> \in WholeStep /\ Spans(<<Scene>>, c, c)
    BY StepTypes, SpansScene
  <2> DEFINE Good == {k \in Nat : k <= n => Follows(P[k], c)}
  <2>6. 0 \in Good
    BY <2>4
  <2>7. ASSUME NEW k \in Nat, k \in Good PROVE k + 1 \in Good
    <3> SUFFICES ASSUME k + 1 <= n PROVE Follows(P[k + 1], c)
      OBVIOUS
    <3>1. k + 1 \in 1..n /\ (k + 1) - 1 = k /\ k \in 0..n /\ k <= n
      BY <2>2
    <3>2. P[k] \in ListsType /\ Trail(P[k].steps, c, FALSE)
      BY <2>4, <2>7, <3>1 DEF Follows
    <3>3. P[k + 1] = Push(P[k], commands, FALSE, <<Scene>>)
      BY <2>4, <3>1
    <3>4. Follows(Push(P[k], commands, FALSE, <<Scene>>), c)
      BY <2>5, <3>2, PushFollows
    <3>5. QED
      BY <3>3, <3>4
  <2>8. Nat \subseteq Good
    <3> HIDE DEF Good
    <3>1. QED
      BY <2>6, <2>7, NatSetInduction
  <2>9. Follows(P[n], c)
    <3>1. n \in Nat /\ n <= n
      BY <2>2
    <3>2. QED
      BY <2>8, <3>1
  <2>10. QED
    BY <1>2, <2>4, <2>9 DEF r
<1>3. CASE grouping = FALSE /\ ~ (SceneSteps(lists.steps) < Len(commands.undo))
  <2> DEFINE n == SceneSteps(lists.steps) - Len(commands.undo)
             r == SyncSceneSteps(lists, commands, FALSE)
  <2>1. SceneSteps(lists.steps) \in Nat
    BY SceneStepsNat DEF ListsType
  <2>2. n \in Nat
    BY <1>3, <2>1
  <2>3. PICK P : Removes(P, lists, n, r)
    BY <2>2, SyncRemoves
  <2> HIDE DEF n, r
  <2>4. /\ P \in [0..n -> ListsType] /\ P[0] = lists /\ P[n] = r
        /\ \A k \in 1..n : P[k] = Removal(P[k - 1])
    BY <2>3 DEF Removes
  <2> DEFINE Good == {k \in Nat : k <= n => Follows(P[k], c)}
  <2>5. 0 \in Good
    BY <2>4
  <2>6. ASSUME NEW k \in Nat, k \in Good PROVE k + 1 \in Good
    <3> SUFFICES ASSUME k + 1 <= n PROVE Follows(P[k + 1], c)
      OBVIOUS
    <3> DEFINE was == P[k]
               list == was.steps
               shorter == WithoutNewestScene(list)
    <3>1. k + 1 \in 1..n /\ (k + 1) - 1 = k /\ k \in 0..n /\ k <= n
      BY <2>2
    <3>2. was \in ListsType /\ Follows(was, c)
      BY <2>4, <2>6, <3>1
    <3>3. P[k + 1] = [was EXCEPT !.steps = shorter]
      BY <2>4, <3>1 DEF Removal
    <3> HIDE DEF was
    <3>4. list \in Seq(WholeStep) /\ Trail(list, c, FALSE)
      BY <3>2 DEF ListsType, Follows
    <3>5. Trail(shorter, c, FALSE)
      <4> HIDE DEF list
      <4>1. QED
        BY <3>4, TrailForgets
    <3> HIDE DEF shorter
    <3>6. P[k + 1].steps = shorter /\ P[k + 1].redo = was.redo
      BY <3>2, <3>3 DEF ListsType
    <3>7. QED
      BY <3>2, <3>5, <3>6 DEF Follows
  <2>7. Nat \subseteq Good
    <3> HIDE DEF Good
    <3>1. QED
      BY <2>5, <2>6, NatSetInduction
  <2>8. Follows(P[n], c)
    <3>1. n \in Nat /\ n <= n
      BY <2>2
    <3>2. QED
      BY <2>7, <3>1
  <2>9. QED
    BY <1>3, <2>4, <2>8 DEF r
<1>4. QED
  BY <1>1, <1>2, <1>3

\* Folding a bracket keeps where its steps lead.
LEMMA CollapseFollows ==
    ASSUME NEW lists \in ListsType, NEW commands, start \in Nat, NEW c \in Contents,
           Follows(lists, c)
    PROVE  Follows(CollapseGroup(lists, commands), c)
<1> DEFINE list     == lists.steps
           from     == IF start > Len(list) THEN Len(list) ELSE start
           produced == Without(list, from)
           compound == Gathered(produced, TRUE) \o Gathered(produced, FALSE)
           first    == SubSeq(list, 1, from)
           whole    == Append(first, compound)
           folded   == [lists EXCEPT !.steps = Append(SubSeq(@, 1, from), compound)]
           r        == CollapseGroup(lists, commands)
<1>1. r = IF FoldsIntoOne(produced) THEN EnforceBudget(folded, commands, FALSE) ELSE lists
  BY DEF CollapseGroup
<1>2. folded = [lists EXCEPT !.steps = whole]
  OBVIOUS
<1> HIDE DEF r
<1>3. list \in Seq(WholeStep) /\ Trail(list, c, FALSE) /\ Trail(lists.redo, c, TRUE)
  BY DEF ListsType, Follows
<1>4. from \in 0..Len(list)
  BY <1>3
<1>5. CASE ~ FoldsIntoOne(produced)
  BY <1>1, <1>5 DEF r
<1>6. CASE FoldsIntoOne(produced)
  <2>1. produced \in Seq(WholeStep) /\ Len(produced) >= 2
        /\ \A i \in 1..Len(produced) : Reversible(produced[i])
    BY <1>3, <1>4, <1>6, WithoutKeeps DEF FoldsIntoOne
  <2>2. first \in Seq(WholeStep)
    BY <1>3, <1>4
  <2> HIDE DEF list, from
  <2>3. PICK b, g : Halves(first, produced, b, g, c)
    BY <1>3, <1>4, TrailCut
  <2> HIDE DEF produced, first
  <2>14. /\ b \in Contents /\ Trail(first, b, FALSE) /\ Stages(g, produced)
         /\ g[0] = b /\ g[Len(produced)] = c
    BY <2>3 DEF Halves
  <2>4. produced \in Seq(Seq(FreeLeaf) \ {<<>>}) /\ produced \in Seq(Seq(Leaf)) /\ produced # <<>>
    <3>1. \A i \in 1..Len(produced) : produced[i] \in Seq(FreeLeaf) \ {<<>>}
      BY <2>1 DEF Reversible, WholeStep
    <3>2. produced \in [1..Len(produced) -> Seq(FreeLeaf) \ {<<>>}] /\ Len(produced) \in Nat
      BY <2>1, <3>1
    <3>3. \A S : \A m \in Nat : [1..m -> S] \subseteq Seq(S)
      OBVIOUS
    <3>4. produced # <<>>
      BY <2>1
    <3>5. Seq(WholeStep) \subseteq Seq(Seq(Leaf))
      <4>1. WholeStep \subseteq Seq(Leaf)
        BY StepTypes DEF Step
      <4>2. QED
        BY <4>1, SeqMonotonic
    <3>6. QED
      BY <2>1, <3>2, <3>3, <3>4, <3>5
  <2>5. compound \in WholeStep
    <3>1. FreeLeaf \in SUBSET Leaf
      BY DEF FreeLeaf
    <3>2. compound \in Seq(FreeLeaf) \ {<<>>}
      BY <2>4, <3>1, GatheredAll
    <3>3. QED
      BY <3>2 DEF WholeStep
  <2>6. Spans(compound, b, c)
    BY <2>14, <2>4, GatheredSpans
  <2> HIDE DEF compound
  <2>7. Links(compound, c, b, FALSE)
    BY <2>6 DEF Links
  <2>8. whole \in Seq(WholeStep) /\ Trail(whole, c, FALSE)
    <3>1. whole \in Seq(WholeStep)
      BY <2>2, <2>5
    <3>2. QED
      BY <2>2, <2>14, <2>5, <2>7, <3>1, TrailGrows
  <2> HIDE DEF whole, folded
  <2>9. folded \in ListsType /\ folded.steps = whole /\ folded.redo = lists.redo
    BY <1>2, <2>8 DEF ListsType
  <2>10. Trail(folded.steps, c, FALSE) /\ Trail(folded.redo, c, TRUE)
    BY <1>3, <2>8, <2>9
  <2>11. r = EnforceBudget(folded, commands, FALSE)
    BY <1>1, <1>6
  <2>12. Trail(r.steps, c, FALSE) /\ Trail(r.redo, c, TRUE)
    BY <2>9, <2>10, <2>11, BudgetFollows
  <2>13. QED
    BY <2>12 DEF Follows, r
<1>7. QED
  BY <1>5, <1>6

\* The stack and the lists lead back from where the session is, exactly: every entry
\* and every step can be applied where the one above it leads to.
Retraced ==
    /\ StackLine(world)
    /\ Trail(steps, world.content, FALSE)
    /\ Trail(redo, world.content, TRUE)

\* What a step that sets the lists has to show.
LEMMA RetracedBy ==
    ASSUME NEW lists, SetLists(lists), StackLine(world'), Follows(lists, world'.content)
    PROVE  Retraced'
<1>1. steps' = lists.steps /\ redo' = lists.redo
  BY DEF SetLists
<1>2. Trail(steps', world'.content, FALSE) /\ Trail(redo', world'.content, TRUE)
  BY <1>1 DEF Follows
<1>3. QED
  BY <1>2 DEF Retraced

\* What a step that leaves the lists alone has to show.
LEMMA RetracedAlone ==
    ASSUME Typed, Retraced, Retains(world', world), UNCHANGED <<steps, redo>>
    PROVE  Retraced'
<1>1. StackLine(world') /\ world'.content = world.content
  BY DEF Retains
<1>2. Trail(steps', world'.content, FALSE) /\ Trail(redo', world'.content, TRUE)
  BY <1>1 DEF Retraced
<1>3. QED
  BY <1>1, <1>2 DEF Retraced

\* A session starts with nothing to lead back.
LEMMA RetracedInit ==
    ASSUME Init
    PROVE  Retraced
<1>1. Typed
  BY TypedInit
<1>2. world.doc \in Document /\ world.content \in Contents
  BY <1>1 DEF Typed, World, Contents
<1>3. world.commands.undo = <<>> /\ world.commands.redo = <<>> /\ steps = <<>> /\ redo = <<>>
  BY DEF Init, EmptyStack
<1>4. StackLine(world)
  BY <1>2, <1>3, LineOfNone DEF StackLine
<1>5. Trail(steps, world.content, FALSE) /\ Trail(redo, world.content, TRUE)
  BY <1>2, <1>3, TrailOfNone
<1>6. QED
  BY <1>4, <1>5 DEF Retraced

\* An undo or a redo moves the newest step of its list onto the other one, and the
\* session to where that step leads; refused, it leaves the session where it was.
LEMMA UndoRetraces ==
    ASSUME Typed, Retraced, Undo
    PROVE  /\ Retraced'
           /\ steps' = steps => world' = world
<1> DEFINE top == Last(steps)
           r == ApplyStep(present, world, top, FALSE)
<1>1. /\ steps # <<>> /\ world' = r.world
      /\ IF r.ok
         THEN /\ steps' = Front(steps)
              /\ redo' = Append(redo, top)
         ELSE UNCHANGED <<steps, redo>>
  BY DEF Undo, CanUndo, TakeBack
<1>2. /\ world \in World /\ StackLine(world) /\ steps \in Seq(WholeStep) /\ redo \in Seq(WholeStep)
      /\ Trail(steps, world.content, FALSE) /\ Trail(redo, world.content, TRUE)
  BY DEF Typed, Retraced
<1>3. top \in WholeStep /\ top \in Seq(Leaf) /\ FALSE \in BOOLEAN
  BY <1>1, <1>2, NewestStep
<1>4. PICK c \in Contents : Links(top, world.content, c, FALSE) /\ Trail(Front(steps), c, FALSE)
  BY <1>1, <1>2, TrailBack
<1>5. /\ r.ok => StackLine(r.world) /\ r.world.content = c
      /\ ~r.ok => r.world = world
  <2> DEFINE way == FALSE
             there == ApplyStep(present, world, top, way)
  <2>1. way \in BOOLEAN /\ Links(top, world.content, c, way)
    BY <1>3, <1>4
  <2>2. r = there
    OBVIOUS
  <2> HIDE DEF way, r, top
  <2>3. LET q == ApplyStep(present, world, top, way)
        IN  /\ q \in StepResult
            /\ q.ok => StackLine(q.world) /\ q.world.content = c
            /\ ~q.ok => q.world = world
    <3>1. world \in World /\ StackLine(world) /\ top \in Seq(Leaf)
      BY <1>2, <1>3
    <3>2. QED
      BY <2>1, <3>1, StepExact
  <2>4. QED
    BY <2>2, <2>3
<1>6. world.content \in Contents
  BY <1>2 DEF World, Contents
<1>7. Links(top, c, world.content, TRUE)
  BY <1>4 DEF Links
<1>8. Len(Front(steps)) # Len(steps)
  <2>1. Len(steps) \in Nat /\ Len(Front(steps)) = Len(steps) - 1
    BY <1>1, <1>2, FrontLen
  <2>2. QED
    BY <2>1
<1>9. Trail(Append(redo, top), c, TRUE)
  BY <1>2, <1>3, <1>4, <1>7, TrailGrows
<1> HIDE DEF top, r
<1>10. CASE r.ok
  <2>1. StackLine(world') /\ world'.content = c
    BY <1>1, <1>5, <1>10
  <2>2. Trail(steps', world'.content, FALSE) /\ Trail(redo', world'.content, TRUE)
    BY <1>1, <1>4, <1>7, <1>9, <1>10, <2>1
  <2>3. steps' # steps
    BY <1>1, <1>8, <1>10
  <2>4. QED
    BY <2>1, <2>2, <2>3 DEF Retraced
<1>11. CASE ~r.ok
  <2>1. world' = world /\ steps' = steps /\ redo' = redo
    BY <1>1, <1>5, <1>11
  <2>2. StackLine(world') /\ Trail(steps', world'.content, FALSE) /\ Trail(redo', world'.content, TRUE)
    BY <1>2, <2>1
  <2>3. QED
    BY <2>1, <2>2 DEF Retraced
<1>12. QED
  BY <1>10, <1>11

\* The same, the other way.
LEMMA RedoRetraces ==
    ASSUME Typed, Retraced, Redo
    PROVE  /\ Retraced'
           /\ steps' = steps => world' = world
<1> DEFINE top == Last(redo)
           r == ApplyStep(present, world, top, TRUE)
           more == Append(steps, top)
<1>1. /\ redo # <<>> /\ world' = r.world
      /\ IF r.ok
         THEN /\ redo' = Front(redo)
              /\ steps' = more
         ELSE UNCHANGED <<steps, redo>>
  BY DEF Redo, CanRedo, BringBack
<1>2. /\ world \in World /\ StackLine(world) /\ steps \in Seq(WholeStep) /\ redo \in Seq(WholeStep)
      /\ Trail(steps, world.content, FALSE) /\ Trail(redo, world.content, TRUE)
  BY DEF Typed, Retraced
<1>3. top \in WholeStep /\ top \in Seq(Leaf) /\ TRUE \in BOOLEAN
  BY <1>1, <1>2, NewestStep
<1>4. PICK c \in Contents : Links(top, world.content, c, TRUE) /\ Trail(Front(redo), c, TRUE)
  BY <1>1, <1>2, TrailBack
<1>5. /\ r.ok => StackLine(r.world) /\ r.world.content = c
      /\ ~r.ok => r.world = world
  <2> DEFINE way == TRUE
             there == ApplyStep(present, world, top, way)
  <2>1. way \in BOOLEAN /\ Links(top, world.content, c, way)
    BY <1>3, <1>4
  <2>2. r = there
    OBVIOUS
  <2> HIDE DEF way, r, top
  <2>3. LET q == ApplyStep(present, world, top, way)
        IN  /\ q \in StepResult
            /\ q.ok => StackLine(q.world) /\ q.world.content = c
            /\ ~q.ok => q.world = world
    <3>1. world \in World /\ StackLine(world) /\ top \in Seq(Leaf)
      BY <1>2, <1>3
    <3>2. QED
      BY <2>1, <3>1, StepExact
  <2>4. QED
    BY <2>2, <2>3
<1>6. world.content \in Contents
  BY <1>2 DEF World, Contents
<1>7. Links(top, c, world.content, FALSE)
  BY <1>4 DEF Links
<1>8. Len(more) # Len(steps)
  <2>1. Len(steps) \in Nat /\ Len(more) = Len(steps) + 1
    BY <1>2, <1>3, AppendProperties
  <2>2. QED
    BY <2>1
<1>9. Trail(more, c, FALSE)
  BY <1>2, <1>3, <1>4, <1>7, TrailGrows
<1> HIDE DEF top, r, more
<1>10. CASE r.ok
  <2>1. StackLine(world') /\ world'.content = c
    BY <1>1, <1>5, <1>10
  <2>2. Trail(steps', world'.content, FALSE) /\ Trail(redo', world'.content, TRUE)
    BY <1>1, <1>4, <1>9, <1>10, <2>1
  <2>3. steps' # steps
    BY <1>1, <1>8, <1>10
  <2>4. QED
    BY <2>1, <2>2, <2>3 DEF Retraced
<1>11. CASE ~r.ok
  <2>1. world' = world /\ steps' = steps /\ redo' = redo
    BY <1>1, <1>5, <1>11
  <2>2. StackLine(world') /\ Trail(steps', world'.content, FALSE) /\ Trail(redo', world'.content, TRUE)
    BY <1>2, <2>1
  <2>3. QED
    BY <2>1, <2>2 DEF Retraced
<1>12. QED
  BY <1>10, <1>11

\* Every step of the session leaves it one that can be retraced.
LEMMA RetracedNext ==
    ASSUME Typed, Retraced, [Next]_vars
    PROVE  Retraced'
<1>1. /\ world \in World /\ world.content \in Contents /\ StackLine(world) /\ start \in Nat
      /\ steps \in Seq(WholeStep) /\ redo \in Seq(WholeStep)
  BY DEF Typed, Retraced, World, Contents
<1>2. Lists \in ListsType /\ Grouping \in BOOLEAN /\ Follows(Lists, world.content)
  <2>1. Grouping \in BOOLEAN
    BY DEF Grouping
  <2>2. Lists \in ListsType /\ Lists.steps = steps /\ Lists.redo = redo
    BY ListsOfSession
  <2>3. Follows(Lists, world.content)
    BY <2>2 DEF Retraced, Follows
  <2>4. QED
    BY <2>1, <2>2, <2>3
<1>3. ASSUME NEW cmd \in HostCommands, Perform(cmd) PROVE Retraced'
  <2> DEFINE after == StackPerform(world, cmd)
             pushed == Push(Lists, after.commands, Grouping, <<Scene>>)
             lists == IF Len(after.commands.undo) > Len(world.commands.undo)
                      THEN pushed ELSE Lists
  <2>1. world' = after /\ SetLists(lists)
    BY <1>3 DEF Perform
  <2>2. cmd \in Command
    BY HistoryAssumption
  <2>3. Retains(after, world)
    BY <1>1, <2>2, PerformRetains
  <2>4. <<Scene>> \in WholeStep /\ Spans(<<Scene>>, world.content, world.content)
    BY <1>1, StepTypes, SpansScene
  <2>5. Trail(Lists.steps, world.content, FALSE)
    BY <1>2 DEF Follows
  <2> HIDE DEF after
  <2>6. Follows(pushed, world.content)
    BY <1>1, <1>2, <2>4, <2>5, PushFollows
  <2>7. Follows(lists, world.content)
    BY <1>2, <2>6
  <2> HIDE DEF lists
  <2>8. StackLine(world') /\ Follows(lists, world'.content)
    BY <2>1, <2>3, <2>7 DEF Retains
  <2>9. QED
    BY <2>1, <2>8, RetracedBy
<1>4. ASSUME NEW layer \in Layers, NEW value \in Values, EditPayload(layer, value) PROVE Retraced'
  <2> DEFINE was == world.content[layer]
             leaf == Payload(layer, was, value)
             content == [world.content EXCEPT ![layer] = value]
             lists == Push(Lists, world.commands, Grouping, <<leaf>>)
  <2>1. world' = [world EXCEPT !.content = content] /\ SetLists(lists)
    BY <1>4 DEF EditPayload
  <2>2. was \in Values /\ content \in Contents
    BY <1>1 DEF Contents
  <2>3. Fits(leaf, world.content, content)
    BY DEF Fits, Payload, Scene
  <2>4. <<leaf>> \in WholeStep
    BY <2>2, PayloadStep
  <2> HIDE DEF was, leaf, content
  <2>5. Spans(<<leaf>>, world.content, content)
    BY <1>1, <2>2, <2>3, SpansOne
  <2>6. Trail(Lists.steps, world.content, FALSE)
    BY <1>2 DEF Follows
  <2>7. Follows(lists, content)
    BY <1>1, <1>2, <2>2, <2>4, <2>5, <2>6, PushFollows
  <2> HIDE DEF lists
  <2>8. world'.content = content /\ world'.doc = world.doc /\ world'.commands = world.commands
    BY <1>1, <2>1 DEF World
  <2>9. StackLine(world')
    BY <1>1, <2>8 DEF StackLine
  <2>10. QED
    BY <2>1, <2>7, <2>8, <2>9, RetracedBy
<1>5. ASSUME NEW layer \in Layers, NEW value \in Values, Unrecorded(layer, value) PROVE Retraced'
  <2> DEFINE content == [world.content EXCEPT ![layer] = value]
             lists == Push(Lists, world.commands, Grouping, <<Barrier>>)
  <2>1. world' = [world EXCEPT !.content = content] /\ SetLists(lists)
    BY <1>5 DEF Unrecorded
  <2>2. content \in Contents
    BY <1>1 DEF Contents
  <2>3. Fits(Barrier, world.content, content)
    BY DEF Fits, Barrier, Scene
  <2>4. <<Barrier>> \in WholeStep
    BY StepTypes
  <2> HIDE DEF content
  <2>5. Spans(<<Barrier>>, world.content, content)
    BY <1>1, <2>2, <2>3, SpansOne
  <2>6. Trail(Lists.steps, world.content, FALSE)
    BY <1>2 DEF Follows
  <2>7. Follows(lists, content)
    BY <1>1, <1>2, <2>2, <2>4, <2>5, <2>6, PushFollows
  <2> HIDE DEF lists
  <2>8. world'.content = content /\ world'.doc = world.doc /\ world'.commands = world.commands
    BY <1>1, <2>1 DEF World
  <2>9. StackLine(world')
    BY <1>1, <2>8 DEF StackLine
  <2>10. QED
    BY <2>1, <2>7, <2>8, <2>9, RetracedBy
<1>6. ASSUME BeginGroup PROVE Retraced'
  <2>1. world' = [world EXCEPT !.commands = StackBeginGroup(@)] /\ UNCHANGED <<steps, redo>>
    BY <1>6 DEF BeginGroup
  <2>2. Retains(world', world)
    BY <1>1, <2>1, BeginRetains
  <2>3. QED
    BY <2>1, <2>2, RetracedAlone
<1>7. ASSUME EndGroup PROVE Retraced'
  <2> DEFINE commands == StackEndGroup(world.commands)
             synced == SyncSceneSteps(Lists, commands, FALSE)
             folded == CollapseGroup(synced, commands)
  <2>1. world' = [world EXCEPT !.commands = StackEndGroup(@)]
    BY <1>7 DEF EndGroup
  <2>2. Retains(world', world)
    BY <1>1, <2>1, EndRetains
  <2>3. CASE depth > 1
    <3>1. UNCHANGED <<steps, redo>>
      BY <1>7, <2>3 DEF EndGroup
    <3>2. QED
      BY <2>2, <3>1, RetracedAlone
  <2>4. CASE ~ (depth > 1)
    <3>1. SetLists(folded)
      BY <1>7, <2>4 DEF EndGroup
    <3>2. Len(commands.undo) \in Nat
      <4>1. world'.commands = commands
        BY <1>1, <2>1 DEF World
      <4>2. world'.commands.undo \in Seq(Entry)
        BY <2>2 DEF Retains, World, UndoStackType
      <4>3. QED
        BY <4>1, <4>2
    <3>3. FALSE \in BOOLEAN
      OBVIOUS
    <3> HIDE DEF commands
    <3>4. synced \in ListsType
      BY <1>2, <3>2, <3>3, SyncSettles
    <3>5. Follows(synced, world.content)
      BY <1>1, <1>2, <3>2, <3>3, SyncFollows
    <3> HIDE DEF synced
    <3>6. Follows(folded, world.content)
      BY <1>1, <3>4, <3>5, CollapseFollows
    <3> HIDE DEF folded
    <3>7. StackLine(world') /\ Follows(folded, world'.content)
      BY <2>2, <3>6 DEF Retains
    <3>8. QED
      BY <3>1, <3>7, RetracedBy
  <2>5. QED
    BY <2>3, <2>4
<1>8. ASSUME NEW cmds \in EngineEdits, EngineEdit(cmds) PROVE Retraced'
  <2> DEFINE o == Opened(world)
             e == EngineEdited(o, cmds)
             lists == SyncSceneSteps(Lists, world'.commands, Grouping)
  <2>1. cmds \in Seq(Command) /\ world' = Closed(e) /\ SetLists(lists)
    BY <1>8, EngineEditIs
  <2>2. Retains(o, world)
    BY <1>1, BeginRetains DEF Opened
  <2> HIDE DEF o
  <2>3. Retains(e, o)
    <3>1. o \in World /\ StackLine(o)
      BY <2>2 DEF Retains
    <3>2. QED
      BY <2>1, <3>1, EngineRetains
  <2> HIDE DEF e
  <2>4. Retains(Closed(e), e)
    <3>1. e \in World /\ StackLine(e)
      BY <2>3 DEF Retains
    <3>2. QED
      BY <3>1, EndRetains DEF Closed
  <2>5. world' \in World /\ StackLine(world') /\ world'.content = world.content
    BY <2>1, <2>2, <2>3, <2>4 DEF Retains
  <2>6. Len(world'.commands.undo) \in Nat
    <3>1. world'.commands.undo \in Seq(Entry)
      BY <2>5 DEF World, UndoStackType
    <3>2. QED
      BY <3>1
  <2>7. Follows(lists, world.content)
    BY <1>1, <1>2, <2>6, SyncFollows
  <2> HIDE DEF lists
  <2>8. Follows(lists, world'.content)
    BY <2>5, <2>7
  <2>9. QED
    BY <2>1, <2>5, <2>8, RetracedBy
<1>9. ASSUME Undo PROVE Retraced'
  BY <1>9, UndoRetraces
<1>10. ASSUME Redo PROVE Retraced'
  BY <1>10, RedoRetraces
<1>11. ASSUME NEW limit \in Limits, SetBudget(limit) \/ TrimTo(limit) PROVE Retraced'
  <2> DEFINE evicted == Evict(Lists, world.commands, limit)
  <2>1. PICK lists : SetLists(lists) /\ (lists = Lists \/ lists = evicted)
    BY <1>11 DEF SetBudget, TrimTo
  <2>2. world' = world
    BY <1>11 DEF SetBudget, TrimTo
  <2>3. /\ Trail(Lists.steps, world.content, FALSE) => Trail(evicted.steps, world.content, FALSE)
        /\ Trail(Lists.redo, world.content, TRUE) => Trail(evicted.redo, world.content, TRUE)
    BY <1>2, EvictFollows
  <2> HIDE DEF evicted
  <2>4. Follows(lists, world.content)
    BY <1>2, <2>1, <2>3 DEF Follows
  <2>5. StackLine(world') /\ Follows(lists, world'.content)
    BY <1>1, <2>2, <2>4
  <2>6. QED
    BY <2>1, <2>5, RetracedBy
<1>12. ASSUME Clear PROVE Retraced'
  <2>1. steps' = <<>> /\ redo' = <<>> /\ world' = world
    BY <1>12 DEF Clear
  <2>2. Trail(steps', world'.content, FALSE) /\ Trail(redo', world'.content, TRUE)
    BY <1>1, <2>1, TrailOfNone
  <2>3. StackLine(world')
    BY <1>1, <2>1
  <2>4. QED
    BY <2>2, <2>3 DEF Retraced
<1>13. ASSUME UNCHANGED <<world, steps, redo>> PROVE Retraced'
  <2>1. Retains(world', world)
    BY <1>1, <1>13 DEF Retains
  <2>2. QED
    BY <1>13, <2>1, RetracedAlone
<1>14. ASSUME NEW layer \in Layers, ResolverChanges(layer) PROVE Retraced'
  BY <1>13, <1>14 DEF ResolverChanges
<1>15. ASSUME NoteSnapshot PROVE Retraced'
  BY <1>13, <1>15 DEF NoteSnapshot
<1>16. ASSUME NEW upto \in 1..MaxEvents, TrimJournal(upto) PROVE Retraced'
  BY <1>13, <1>16 DEF TrimJournal
<1>17. CASE UNCHANGED vars
  BY <1>13, <1>17 DEF vars
<1>18. QED
  BY <1>3, <1>4, <1>5, <1>6, <1>7, <1>8, <1>9, <1>10, <1>11, <1>12, <1>14,
     <1>15, <1>16, <1>17 DEF Next

\* An undo or a redo that is refused leaves the document, the payloads and the
\* wrapped stack exactly as they were (RefusalChangesNothing), whatever the host calls
\* and however many leaves the step had moved before the one that refused.
THEOREM RefusalsChangeNothing == Spec => RefusalChangesNothing
<1> DEFINE Whole == Typed /\ Retraced
<1>1. Init => Whole
  BY TypedInit, RetracedInit
<1>2. Whole /\ [Next]_vars => Whole'
  BY TypedNext, RetracedNext
<1>3. Whole /\ [Next]_vars => [(Undo \/ Redo) /\ steps' = steps => world' = world]_vars
  BY UndoRetraces, RedoRetraces
<1> HIDE DEF Whole
<1>4. QED
  BY <1>1, <1>2, <1>3, PTL DEF Spec, RefusalChangesNothing

-----------------------------------------------------------------------------
(* Lists without their oldest elements. *)

\* Nothing less is the whole list, and all less is nothing.
LEMMA WithoutNone ==
    ASSUME NEW S, NEW s \in Seq(S)
    PROVE  Without(s, 0) = s /\ Without(s, Len(s)) = <<>>
<1> DEFINE v == Without(s, 0)
           n == Len(s)
<1>1. n \in Nat /\ 0 \in 0..Len(s) /\ n \in 0..Len(s)
  OBVIOUS
<1>2. v \in Seq(S) /\ Len(v) = n - 0
  BY <1>1, WithoutLen
<1>3. \A i \in 1..Len(v) : v[i] = s[0 + i]
  BY <1>1, WithoutAt
<1> HIDE DEF v
<1>4. v = s
  <2>1. Len(v) = Len(s)
    BY <1>1, <1>2
  <2>2. \A i \in 1..Len(v) : v[i] = s[i]
    BY <1>1, <1>2, <1>3
  <2>3. QED
    BY <1>2, <2>1, <2>2, SeqEqual
<1>5. Without(s, n) \in Seq(S) /\ Len(Without(s, n)) = n - n
  BY <1>1, WithoutLen
<1>6. Without(s, n) = <<>>
  <2>1. Len(Without(s, n)) = 0
    BY <1>1, <1>5
  <2>2. QED
    BY <1>5, <2>1
<1>7. QED
  BY <1>4, <1>6 DEF v, n

\* One more at the end is one more at the end of what is left.
LEMMA WithoutAppend ==
    ASSUME NEW S, NEW s \in Seq(S), NEW e \in S, NEW k \in 0..Len(s)
    PROVE  /\ Append(s, e) \in Seq(S) /\ Len(Append(s, e)) = Len(s) + 1
           /\ k \in 0..Len(Append(s, e))
           /\ Without(Append(s, e), k) = Append(Without(s, k), e)
<1> DEFINE n == Len(s)
           g == Append(s, e)
           v == Without(s, k)
           w == Without(g, k)
           t == Append(v, e)
<1>1. /\ n \in Nat /\ k \in Nat /\ k <= n
      /\ g \in Seq(S) /\ Len(g) = n + 1 /\ g[n + 1] = e /\ \A i \in 1..n : g[i] = s[i]
  BY AppendProperties
<1> HIDE DEF g
<1>2. k \in 0..Len(g)
  BY <1>1
<1>3. v \in Seq(S) /\ Len(v) = n - k /\ \A i \in 1..Len(v) : v[i] = s[k + i]
  BY WithoutLen, WithoutAt
<1>4. w \in Seq(S) /\ Len(w) = (n + 1) - k /\ \A i \in 1..Len(w) : w[i] = g[k + i]
  BY <1>1, <1>2, WithoutLen, WithoutAt
<1> HIDE DEF v, w, n
<1>5. /\ t \in Seq(S) /\ Len(t) = Len(v) + 1 /\ t[Len(v) + 1] = e
      /\ \A i \in 1..Len(v) : t[i] = v[i]
  BY <1>3, AppendProperties
<1> HIDE DEF t
<1>6. Len(w) = Len(t)
  BY <1>1, <1>3, <1>4, <1>5
<1>7. ASSUME NEW i \in 1..Len(w) PROVE w[i] = t[i]
  <2>1. CASE i \in 1..(n - k)
    <3>1. i \in 1..Len(v) /\ k + i \in 1..n
      BY <1>1, <1>3, <2>1
    <3>2. QED
      BY <1>1, <1>3, <1>4, <1>5, <3>1
  <2>2. CASE i = (n - k) + 1
    <3>1. i = Len(v) + 1 /\ k + i = n + 1
      BY <1>1, <1>3, <2>2
    <3>2. QED
      BY <1>1, <1>4, <1>5, <3>1
  <2>3. QED
    BY <1>1, <1>4, <2>1, <2>2
<1>8. w = t
  BY <1>4, <1>5, <1>6, <1>7, SeqEqual
<1>9. QED
  BY <1>1, <1>2, <1>8 DEF g, t, v, w, n

\* One less at the end is one less at the end of what is left, if anything is.
LEMMA WithoutFront ==
    ASSUME NEW S, NEW s \in Seq(S), NEW k \in 0..Len(s), Without(s, k) # <<>>
    PROVE  /\ s # <<>> /\ Front(s) \in Seq(S) /\ Last(s) \in S
           /\ k \in 0..Len(Front(s)) /\ Len(Front(s)) = Len(s) - 1
           /\ Last(s) = Last(Without(s, k)) /\ Without(Front(s), k) = Front(Without(s, k))
<1> DEFINE v == Without(s, k)
           f == Front(s)
           e == Last(s)
<1>1. v \in Seq(S) /\ Len(v) = Len(s) - k /\ Len(s) \in Nat /\ k \in Nat /\ k <= Len(s)
  BY WithoutLen
<1>2. Len(v) # 0
  BY <1>1
<1>3. s # <<>>
  BY <1>1, <1>2
<1>4. f \in Seq(S) /\ e \in S /\ Append(f, e) = s
  BY <1>3, FrontAndLast
<1>5. Len(f) = Len(s) - 1
  BY <1>3, FrontLen
<1>6. k \in 0..Len(f)
  BY <1>1, <1>2, <1>5
<1> HIDE DEF f, e
<1>7. v = Append(Without(f, k), e)
  <2>1. f \in Seq(S) /\ e \in S
    BY <1>4
  <2>2. Without(Append(f, e), k) = Append(Without(f, k), e)
    BY <1>6, <2>1, WithoutAppend
  <2>3. QED
    BY <1>4, <2>2
<1>8. Without(f, k) \in Seq(S)
  BY <1>4, <1>6, WithoutLen
<1>9. Last(v) = e /\ Front(v) = Without(f, k)
  BY <1>4, <1>7, <1>8, AppendLast
<1>10. QED
  BY <1>3, <1>4, <1>5, <1>6, <1>9 DEF f, e, v

-----------------------------------------------------------------------------
(* Two sessions, one of which is without the oldest of the other: the recovered one *)
(* knows nothing of what was done before the snapshot it started from.             *)

\* The documents and the payloads are the same, and the stacks but for their oldest.
Alike(v, w, m, n) ==
    /\ v.doc = w.doc /\ v.content = w.content
    /\ m \in 0..Len(w.commands.undo) /\ v.commands.undo = Without(w.commands.undo, m)
    /\ n \in 0..Len(w.commands.redo) /\ v.commands.redo = Without(w.commands.redo, n)

\* The newest replaced is the newest replaced of what is left, if anything is.
LEMMA WithoutRetop ==
    ASSUME NEW s \in Seq(Entry), NEW e \in Entry, NEW k \in 0..Len(s), Without(s, k) # <<>>
    PROVE  /\ s # <<>> /\ Last(s) = Last(Without(s, k))
           /\ k \in 0..Len(Retop(s, e)) /\ Without(Retop(s, e), k) = Retop(Without(s, k), e)
<1> DEFINE f == Front(s)
<1>1. /\ s # <<>> /\ f \in Seq(Entry) /\ k \in 0..Len(f)
      /\ Last(s) = Last(Without(s, k)) /\ Without(f, k) = Front(Without(s, k))
  BY WithoutFront
<1> HIDE DEF f
<1>2. k \in 0..Len(Append(f, e)) /\ Without(Append(f, e), k) = Append(Without(f, k), e)
  BY <1>1, WithoutAppend
<1>3. Retop(s, e) = Append(f, e) /\ Retop(Without(s, k), e) = Append(Without(f, k), e)
  BY <1>1 DEF Retop, f
<1>4. QED
  BY <1>1, <1>2, <1>3

\* What performing a command does to the undo side of a stack.
UndoAfter(stack, d, cmd) ==
    LET undo == stack.undo
        top == Last(undo)
    IN  IF stack.depth > 0 /\ undo # <<>> THEN Retop(undo, Append(top, InverseOf(d, cmd)))
        ELSE IF Coalesces(stack, cmd)
        THEN Retop(undo, <<[top[1] EXCEPT !.count = @ + Len(cmd.points)]>>)
        ELSE Append(undo, <<InverseOf(d, cmd)>>)

\* Both stacks take a command in the same way: it joins the open entry of both, or is
\* an entry of its own on both.  The entry it would coalesce with has to be there on
\* both, though.
StackTakes(r, q, s, t, m) ==
    /\ m \in 0..Len(q.undo) /\ r.undo = Without(q.undo, m)
    /\ r.redo = <<>> /\ q.redo = <<>>
    /\ r.depth = s.depth /\ q.depth = t.depth
    /\ s.depth > 0 => r.undo # <<>>
    /\ Len(r.undo) > Len(s.undo) <=> Len(q.undo) > Len(t.undo)

\* What it does to the whole stack.
LEMMA StackAfterIs ==
    ASSUME NEW stack \in UndoStackType, NEW d \in Document, NEW cmd \in Command,
           Applicable(d, cmd)
    PROVE  LET r == StackAfter(stack, d, cmd)
           IN  /\ r \in UndoStackType /\ r.redo = <<>> /\ r.depth = stack.depth
               /\ r.undo = UndoAfter(stack, d, cmd)
               /\ stack.depth > 0 /\ stack.undo # <<>> => r.undo # <<>>
<1> DEFINE r == StackAfter(stack, d, cmd)
           undo == UndoAfter(stack, d, cmd)
           none == <<>>
<1>1. r = [stack EXCEPT !.redo = none, !.undo = undo]
  BY DEF StackAfter, UndoAfter
<1>2. StackMoves(r, stack, Coalesces(stack, cmd))
  BY StackAfterMoves
<1> HIDE DEF r, undo, none
<1>3. r.undo = undo
  BY <1>1 DEF UndoStackType
<1>4. QED
  BY <1>2, <1>3 DEF StackMoves, r, undo

\* Two stacks that take it in the same way go on without the same oldest entries.
LEMMA StackAfterAlike ==
    ASSUME NEW s \in UndoStackType, NEW t \in UndoStackType, NEW m \in 0..Len(t.undo),
           s.undo = Without(t.undo, m), s.depth > 0 <=> t.depth > 0,
           s.depth > 0 => s.undo # <<>>,
           NEW d \in Document, NEW cmd \in Command, Applicable(d, cmd),
           m = 0 \/ cmd.op # "AppendStroke"
    PROVE  StackTakes(StackAfter(s, d, cmd), StackAfter(t, d, cmd), s, t, m)
<1> DEFINE r == StackAfter(s, d, cmd)
           q == StackAfter(t, d, cmd)
           inverse == InverseOf(d, cmd)
<1>1. /\ s.undo \in Seq(Entry) /\ t.undo \in Seq(Entry) /\ m \in Nat /\ m <= Len(t.undo)
      /\ Len(s.undo) \in Nat /\ Len(t.undo) \in Nat
  BY DEF UndoStackType
<1>2. /\ r \in UndoStackType /\ r.redo = <<>> /\ r.depth = s.depth /\ r.undo = UndoAfter(s, d, cmd)
      /\ s.depth > 0 /\ s.undo # <<>> => r.undo # <<>>
  BY StackAfterIs
<1>3. /\ q \in UndoStackType /\ q.redo = <<>> /\ q.depth = t.depth /\ q.undo = UndoAfter(t, d, cmd)
  BY StackAfterIs
<1>4. inverse \in Command
  BY EditTypes
<1>5. r.undo \in Seq(Entry) /\ q.undo \in Seq(Entry)
  BY <1>2, <1>3 DEF UndoStackType
<1> HIDE DEF r, q, inverse
<1>6. CASE m = 0
  <2>1. s.undo = t.undo
    BY <1>1, <1>6, WithoutNone
  <2>2. Coalesces(s, cmd) = Coalesces(t, cmd)
    BY <2>1 DEF Coalesces
  <2>3. UndoAfter(s, d, cmd) = UndoAfter(t, d, cmd)
    BY <2>1, <2>2 DEF UndoAfter
  <2>4. Without(q.undo, m) = q.undo /\ m \in 0..Len(q.undo)
    BY <1>5, <1>6, WithoutNone
  <2>5. QED
    BY <1>2, <1>3, <2>1, <2>3, <2>4 DEF StackTakes, r, q
<1>7. CASE cmd.op # "AppendStroke"
  <2>1. ~Coalesces(s, cmd) /\ ~Coalesces(t, cmd)
    BY <1>7 DEF Coalesces
  <2>2. CASE s.depth > 0
    <3>1. s.undo # <<>> /\ t.depth > 0 /\ Without(t.undo, m) # <<>>
      BY <2>2
    <3>2. t.undo # <<>> /\ Last(t.undo) = Last(s.undo) /\ Last(t.undo) \in Entry
      <4>1. t.undo \in Seq(Entry)
        BY <1>1
      <4>2. t.undo # <<>> /\ Last(t.undo) = Last(Without(t.undo, m))
        <5> DEFINE all == t.undo
        <5>1. all \in Seq(Entry) /\ m \in 0..Len(all) /\ Without(all, m) # <<>>
          BY <3>1, <4>1
        <5> HIDE DEF all
        <5>2. /\ all # <<>> /\ Front(all) \in Seq(Entry) /\ m \in 0..Len(Front(all))
              /\ Last(all) = Last(Without(all, m)) /\ Without(Front(all), m) = Front(Without(all, m))
          BY <5>1, WithoutFront
        <5>3. QED
          BY <5>2 DEF all
      <4>3. Last(t.undo) = Last(s.undo)
        BY <4>2
      <4>4. QED
        BY <4>1, <4>2, <4>3, FrontAndLast
    <3> DEFINE entry == Append(Last(t.undo), inverse)
    <3>3. entry \in Entry
      BY <1>4, <3>2, AppendProperties DEF Entry
    <3>4. r.undo = Retop(s.undo, entry)
      BY <1>2, <2>2, <3>1, <3>2 DEF UndoAfter, inverse
    <3>5. q.undo = Retop(t.undo, entry)
      BY <1>3, <3>1, <3>2 DEF UndoAfter, inverse
    <3> HIDE DEF entry
    <3>6. m \in 0..Len(q.undo) /\ r.undo = Without(q.undo, m)
      BY <1>1, <3>1, <3>3, <3>4, <3>5, WithoutRetop
    <3>7. Len(r.undo) = Len(s.undo) /\ Len(q.undo) = Len(t.undo)
      BY <1>1, <3>1, <3>2, <3>3, <3>4, <3>5, RetopKeeps
    <3>8. QED
      BY <1>1, <1>2, <1>3, <3>1, <3>6, <3>7 DEF StackTakes, r, q
  <2>3. CASE ~(s.depth > 0)
    <3> DEFINE entry == <<inverse>>
    <3>1. entry \in Entry /\ ~(t.depth > 0)
      BY <1>4, <2>3 DEF Entry
    <3>2. r.undo = Append(s.undo, entry)
      BY <1>2, <2>1, <2>3 DEF UndoAfter, inverse
    <3>3. q.undo = Append(t.undo, entry)
      BY <1>3, <2>1, <3>1 DEF UndoAfter, inverse
    <3> HIDE DEF entry
    <3>4. m \in 0..Len(q.undo) /\ r.undo = Without(q.undo, m)
      BY <1>1, <3>1, <3>2, <3>3, WithoutAppend
    <3>5. Len(r.undo) = Len(s.undo) + 1 /\ Len(q.undo) = Len(t.undo) + 1
      BY <1>1, <3>1, <3>2, <3>3, AppendProperties
    <3>6. QED
      BY <1>1, <1>2, <1>3, <2>3, <3>4, <3>5 DEF StackTakes, r, q
  <2>4. QED
    BY <2>2, <2>3
<1>8. QED
  BY <1>6, <1>7

\* Performing a command on both.
BothTake(r, q, v, w, m) ==
    /\ r \in World /\ q \in World /\ Alike(r, q, m, 0)
    /\ r.commands.depth = v.commands.depth /\ q.commands.depth = w.commands.depth
    /\ v.commands.depth > 0 => r.commands.undo # <<>>
    /\ Undos(r) > Undos(v) <=> Undos(q) > Undos(w)

\* The documents it leaves are the same, and both stacks grew or neither did.
LEMMA PerformAlike ==
    ASSUME NEW v \in World, NEW w \in World, NEW m, NEW n, Alike(v, w, m, n),
           v.commands.depth > 0 <=> w.commands.depth > 0,
           v.commands.depth > 0 => v.commands.undo # <<>>,
           NEW cmd \in Command, Applicable(w.doc, cmd), m = 0 \/ cmd.op # "AppendStroke"
    PROVE  BothTake(StackPerform(v, cmd), StackPerform(w, cmd), v, w, m)
<1> DEFINE s == v.commands
           t == w.commands
           d == w.doc
           r == StackPerform(v, cmd)
           q == StackPerform(w, cmd)
           e == Applied(d, cmd)
           sa == StackAfter(s, d, cmd)
           ta == StackAfter(t, d, cmd)
<1>1. s \in UndoStackType /\ t \in UndoStackType /\ d \in Document
  BY DEF World
<1>2. v.doc = d /\ v.content = w.content /\ m \in 0..Len(t.undo) /\ s.undo = Without(t.undo, m)
  BY DEF Alike
<1>3. r = [v EXCEPT !.doc = e, !.commands = sa] /\ q = [w EXCEPT !.doc = e, !.commands = ta]
  BY <1>2 DEF StackPerform
<1>4. r \in World /\ q \in World
  BY PerformMoves
<1>5. StackTakes(sa, ta, s, t, m)
  BY <1>1, <1>2, StackAfterAlike
<1> HIDE DEF r, q, e, sa, ta
<1>6. r.doc = e /\ q.doc = e /\ r.content = w.content /\ q.content = w.content
      /\ r.commands = sa /\ q.commands = ta
  BY <1>2, <1>3 DEF World
<1>7. 0 \in 0..Len(ta.redo) /\ sa.redo = Without(ta.redo, 0)
  <2>1. ta.redo = <<>> /\ sa.redo = <<>>
    BY <1>5 DEF StackTakes
  <2> DEFINE none == <<>>
  <2>2. none \in Seq(Entry) /\ Len(none) = 0
    OBVIOUS
  <2> HIDE DEF none
  <2>3. Without(none, 0) = none
    BY <2>2, WithoutNone
  <2>4. ta.redo = none /\ sa.redo = none
    BY <2>1 DEF none
  <2>5. QED
    BY <2>2, <2>3, <2>4
<1>8. Alike(r, q, m, 0)
  BY <1>5, <1>6, <1>7 DEF Alike, StackTakes
<1>9. QED
  BY <1>4, <1>5, <1>6, <1>8 DEF BothTake, StackTakes, Undos, r, q

-----------------------------------------------------------------------------
(* Brackets, on both sessions or inside the bracket of the one. *)

\* What opening and closing a bracket leave.
LEMMA BeginIs ==
    ASSUME NEW w \in World
    PROVE  LET b == Opened(w)
           IN  /\ b \in World /\ b.doc = w.doc /\ b.content = w.content
               /\ b.commands.depth = w.commands.depth + 1 /\ b.commands.redo = w.commands.redo
               /\ b.commands.undo = IF w.commands.depth = 0 THEN Append(w.commands.undo, <<>>)
                                    ELSE w.commands.undo
<1> DEFINE old == w.commands
           deeper == old.depth + 1
           undo == IF old.depth = 0 THEN Append(old.undo, <<>>) ELSE old.undo
           c == [old EXCEPT !.depth = deeper, !.undo = undo]
           b == Opened(w)
<1>1. b = [w EXCEPT !.commands = c]
  BY DEF Opened, StackBeginGroup
<1>2. b \in World
  BY BeginMoves DEF Opened
<1>3. old \in UndoStackType
  BY DEF World
<1> HIDE DEF old, deeper, undo, b
<1>4. c.depth = deeper /\ c.undo = undo /\ c.redo = old.redo
  BY <1>3 DEF UndoStackType
<1> HIDE DEF c
<1>5. b.commands = c /\ b.doc = w.doc /\ b.content = w.content
  BY <1>1 DEF World
<1>6. QED
  BY <1>2, <1>4, <1>5 DEF b, deeper, undo, old

\* Closing drops the entry the bracket opened when nothing was collected into it.
LEMMA EndIs ==
    ASSUME NEW w \in World, w.commands.depth # 0
    PROVE  LET b == Closed(w)
           IN  /\ b \in World /\ b.doc = w.doc /\ b.content = w.content
               /\ b.commands.depth = w.commands.depth - 1 /\ b.commands.redo = w.commands.redo
               /\ b.commands.undo = IF /\ w.commands.depth = 1 /\ w.commands.undo # <<>>
                                       /\ Last(w.commands.undo) = <<>>
                                    THEN Front(w.commands.undo) ELSE w.commands.undo
<1> DEFINE old == w.commands
           out == old.depth - 1
           undo == IF old.depth = 1 /\ old.undo # <<>> /\ Last(old.undo) = <<>>
                   THEN Front(old.undo) ELSE old.undo
           c == [old EXCEPT !.depth = out, !.undo = undo]
           b == Closed(w)
<1>1. b = [w EXCEPT !.commands = c]
  BY DEF Closed, StackEndGroup
<1>2. b \in World
  BY EndMoves DEF Closed
<1>3. old \in UndoStackType
  BY DEF World
<1> HIDE DEF old, out, undo, b
<1>4. c.depth = out /\ c.undo = undo /\ c.redo = old.redo
  BY <1>3 DEF UndoStackType
<1> HIDE DEF c
<1>5. b.commands = c /\ b.doc = w.doc /\ b.content = w.content
  BY <1>1 DEF World
<1>6. QED
  BY <1>2, <1>4, <1>5 DEF b, out, undo, old

\* Opening the outermost bracket of both.
LEMMA BeginAlike ==
    ASSUME NEW v \in World, NEW w \in World, NEW m, NEW n, Alike(v, w, m, n),
           v.commands.depth = 0, w.commands.depth = 0
    PROVE  Alike(Opened(v), Opened(w), m, n) /\ Opened(v).commands.undo # <<>>
<1> DEFINE a == Opened(v)
           b == Opened(w)
           all == w.commands.undo
           left == v.commands.undo
           none == <<>>
<1>1. a.doc = v.doc /\ a.content = v.content /\ a.commands.redo = v.commands.redo
      /\ a.commands.undo = Append(left, none)
  BY BeginIs
<1>2. b.doc = w.doc /\ b.content = w.content /\ b.commands.redo = w.commands.redo
      /\ b.commands.undo = Append(all, none)
  BY BeginIs
<1>3. all \in Seq(Entry) /\ left \in Seq(Entry) /\ none \in Entry
  BY DEF World, UndoStackType, Entry
<1>4. /\ v.doc = w.doc /\ v.content = w.content /\ m \in 0..Len(all) /\ left = Without(all, m)
      /\ n \in 0..Len(w.commands.redo) /\ v.commands.redo = Without(w.commands.redo, n)
  BY DEF Alike
<1> HIDE DEF a, b, all, left, none
<1>5. m \in 0..Len(Append(all, none)) /\ Without(Append(all, none), m) = Append(left, none)
  BY <1>3, <1>4, WithoutAppend
<1>6. Append(left, none) # <<>>
  BY <1>3, AppendProperties
<1>7. QED
  BY <1>1, <1>2, <1>4, <1>5, <1>6 DEF Alike, a, b

\* Closing it.
LEMMA EndAlike ==
    ASSUME NEW v \in World, NEW w \in World, NEW m, NEW n, Alike(v, w, m, n),
           v.commands.depth = 1, w.commands.depth = 1, v.commands.undo # <<>>
    PROVE  Alike(Closed(v), Closed(w), m, n)
<1> DEFINE a == Closed(v)
           b == Closed(w)
           all == w.commands.undo
           left == v.commands.undo
<1>1. a.doc = v.doc /\ a.content = v.content /\ a.commands.redo = v.commands.redo
      /\ a.commands.undo = IF left # <<>> /\ Last(left) = <<>> THEN Front(left) ELSE left
  BY EndIs
<1>2. b.doc = w.doc /\ b.content = w.content /\ b.commands.redo = w.commands.redo
      /\ b.commands.undo = IF all # <<>> /\ Last(all) = <<>> THEN Front(all) ELSE all
  BY EndIs
<1>3. all \in Seq(Entry) /\ left # <<>>
  BY DEF World, UndoStackType
<1>4. /\ v.doc = w.doc /\ v.content = w.content /\ m \in 0..Len(all) /\ left = Without(all, m)
      /\ n \in 0..Len(w.commands.redo) /\ v.commands.redo = Without(w.commands.redo, n)
  BY DEF Alike
<1> HIDE DEF a, b, all, left
<1>5. Without(all, m) # <<>>
  BY <1>3, <1>4
<1>6. /\ all # <<>> /\ Front(all) \in Seq(Entry) /\ m \in 0..Len(Front(all))
      /\ Last(all) = Last(Without(all, m)) /\ Without(Front(all), m) = Front(Without(all, m))
  BY <1>3, <1>4, <1>5, WithoutFront
<1>7. m \in 0..Len(b.commands.undo) /\ a.commands.undo = Without(b.commands.undo, m)
  <2>1. CASE Last(left) = <<>>
    BY <1>1, <1>2, <1>3, <1>4, <1>6, <2>1
  <2>2. CASE Last(left) # <<>>
    BY <1>1, <1>2, <1>3, <1>4, <1>6, <2>2
  <2>3. QED
    BY <2>1, <2>2
<1>8. QED
  BY <1>1, <1>2, <1>4, <1>7 DEF Alike, a, b

\* A bracket inside the bracket moves nothing the other session sees.
LEMMA InnerAlike ==
    ASSUME NEW v \in World, NEW w \in World, NEW m, NEW n, Alike(v, w, m, n),
           w.commands.depth \in Nat, w.commands.depth > 0
    PROVE  /\ Alike(v, Opened(w), m, n)
           /\ w.commands.depth > 1 => Alike(v, Closed(w), m, n)
<1>1. Alike(v, Opened(w), m, n)
  <2> DEFINE b == Opened(w)
  <2>1. b.doc = w.doc /\ b.content = w.content /\ b.commands.redo = w.commands.redo
        /\ b.commands.undo = w.commands.undo
    BY BeginIs
  <2> HIDE DEF b
  <2>2. QED
    BY <2>1 DEF Alike, b
<1>2. ASSUME w.commands.depth > 1 PROVE Alike(v, Closed(w), m, n)
  <2> DEFINE b == Closed(w)
  <2>1. b.doc = w.doc /\ b.content = w.content /\ b.commands.redo = w.commands.redo
        /\ b.commands.undo = w.commands.undo
    BY <1>2, EndIs
  <2> HIDE DEF b
  <2>2. QED
    BY <2>1 DEF Alike, b
<1>3. QED
  BY <1>1, <1>2

-----------------------------------------------------------------------------
(* Moving a step on both sessions. *)

\* An entry that crosses the stacks of both.
LEMMA CrossesAlike ==
    ASSUME NEW from \in Seq(Entry), NEW to \in Seq(Entry), NEW m \in 0..Len(from), NEW n \in 0..Len(to),
           Without(from, m) # <<>>, NEW e \in Entry
    PROVE  /\ from # <<>> /\ Last(from) = Last(Without(from, m))
           /\ m \in 0..Len(Front(from)) /\ Without(Front(from), m) = Front(Without(from, m))
           /\ n \in 0..Len(Append(to, e)) /\ Without(Append(to, e), n) = Append(Without(to, n), e)
<1>1. /\ from # <<>> /\ Front(from) \in Seq(Entry) /\ m \in 0..Len(Front(from))
      /\ Last(from) = Last(Without(from, m)) /\ Without(Front(from), m) = Front(Without(from, m))
  BY WithoutFront
<1>2. n \in 0..Len(Append(to, e)) /\ Without(Append(to, e), n) = Append(Without(to, n), e)
  BY WithoutAppend
<1>3. QED
  BY <1>1, <1>2

\* The newest entry, moved to the other side of the stack of both.
LEMMA UndoAlike ==
    ASSUME NEW v \in World, NEW w \in World, NEW m, NEW n, Alike(v, w, m, n),
           v.commands.undo # <<>>
    PROVE  Alike(StackUndo(v), StackUndo(w), m, n)
<1> DEFINE from == w.commands.undo
           to == w.commands.redo
           less == v.commands.undo
           more == v.commands.redo
           d == w.doc
           r == Replay(d, Last(from))
           a == StackUndo(v)
           b == StackUndo(w)
<1>1. from \in Seq(Entry) /\ to \in Seq(Entry) /\ d \in Document /\ less # <<>>
  BY DEF World, UndoStackType
<1>2. /\ v.doc = d /\ v.content = w.content /\ m \in 0..Len(from) /\ less = Without(from, m)
      /\ n \in 0..Len(to) /\ more = Without(to, n)
  BY DEF Alike
<1>3. v.commands \in UndoStackType /\ w.commands \in UndoStackType
  BY DEF World
<1> HIDE DEF from, to, less, more, d
<1>4. from # <<>> /\ Last(from) = Last(less)
  <2>1. Without(from, m) # <<>>
    BY <1>1, <1>2
  <2>2. /\ from # <<>> /\ Front(from) \in Seq(Entry) /\ m \in 0..Len(Front(from))
        /\ Last(from) = Last(Without(from, m)) /\ Without(Front(from), m) = Front(Without(from, m))
    BY <1>1, <1>2, <2>1, WithoutFront
  <2>3. QED
    BY <1>2, <2>2
<1>5. Last(from) \in Entry
  BY <1>1, <1>4, FrontAndLast
<1>6. r.doc \in Document /\ r.opposite \in Entry
  BY <1>1, <1>5, ReplayTypes
<1> DEFINE e == r.doc
           opp == r.opposite
           va == Front(less)
           vb == Append(more, opp)
           wa == Front(from)
           wb == Append(to, opp)
<1>7. a = [v EXCEPT !.doc = e, !.commands = [v.commands EXCEPT !.undo = va, !.redo = vb]]
  BY <1>2, <1>4 DEF StackUndo, less, more
<1>8. b = [w EXCEPT !.doc = e, !.commands = [w.commands EXCEPT !.undo = wa, !.redo = wb]]
  BY DEF StackUndo, from, to, d
<1> HIDE DEF r, a, b
<1>9. /\ m \in 0..Len(wa) /\ va = Without(wa, m) /\ n \in 0..Len(wb) /\ vb = Without(wb, n)
  <2>1. Without(from, m) # <<>>
    BY <1>1, <1>2
  <2> HIDE DEF opp
  <2>2. opp \in Entry
    BY <1>6 DEF opp
  <2>3. /\ from # <<>> /\ Last(from) = Last(Without(from, m))
        /\ m \in 0..Len(Front(from)) /\ Without(Front(from), m) = Front(Without(from, m))
        /\ n \in 0..Len(Append(to, opp)) /\ Without(Append(to, opp), n) = Append(Without(to, n), opp)
    BY <1>1, <1>2, <2>1, <2>2, CrossesAlike
  <2>4. QED
    BY <1>2, <2>3
<1> HIDE DEF e, opp, va, vb, wa, wb
<1>10. a.doc = e /\ a.content = v.content /\ a.commands.undo = va /\ a.commands.redo = vb
  BY <1>3, <1>7 DEF World, UndoStackType
<1>11. b.doc = e /\ b.content = w.content /\ b.commands.undo = wa /\ b.commands.redo = wb
  BY <1>3, <1>8 DEF World, UndoStackType
<1>12. QED
  BY <1>2, <1>9, <1>10, <1>11 DEF Alike, a, b

\* The same, the other way.
LEMMA RedoAlike ==
    ASSUME NEW v \in World, NEW w \in World, NEW m, NEW n, Alike(v, w, m, n),
           v.commands.redo # <<>>
    PROVE  Alike(StackRedo(v), StackRedo(w), m, n)
<1> DEFINE from == w.commands.redo
           to == w.commands.undo
           less == v.commands.redo
           more == v.commands.undo
           d == w.doc
           r == Replay(d, Last(from))
           a == StackRedo(v)
           b == StackRedo(w)
<1>1. from \in Seq(Entry) /\ to \in Seq(Entry) /\ d \in Document /\ less # <<>>
  BY DEF World, UndoStackType
<1>2. /\ v.doc = d /\ v.content = w.content /\ n \in 0..Len(from) /\ less = Without(from, n)
      /\ m \in 0..Len(to) /\ more = Without(to, m)
  BY DEF Alike
<1>3. v.commands \in UndoStackType /\ w.commands \in UndoStackType
  BY DEF World
<1> HIDE DEF from, to, less, more, d
<1>4. from # <<>> /\ Last(from) = Last(less)
  <2>1. Without(from, n) # <<>>
    BY <1>1, <1>2
  <2>2. /\ from # <<>> /\ Front(from) \in Seq(Entry) /\ n \in 0..Len(Front(from))
        /\ Last(from) = Last(Without(from, n)) /\ Without(Front(from), n) = Front(Without(from, n))
    BY <1>1, <1>2, <2>1, WithoutFront
  <2>3. QED
    BY <1>2, <2>2
<1>5. Last(from) \in Entry
  BY <1>1, <1>4, FrontAndLast
<1>6. r.doc \in Document /\ r.opposite \in Entry
  BY <1>1, <1>5, ReplayTypes
<1> DEFINE e == r.doc
           opp == r.opposite
           va == Front(less)
           vb == Append(more, opp)
           wa == Front(from)
           wb == Append(to, opp)
<1>7. a = [v EXCEPT !.doc = e, !.commands = [v.commands EXCEPT !.redo = va, !.undo = vb]]
  BY <1>2, <1>4 DEF StackRedo, less, more
<1>8. b = [w EXCEPT !.doc = e, !.commands = [w.commands EXCEPT !.redo = wa, !.undo = wb]]
  BY DEF StackRedo, from, to, d
<1> HIDE DEF r, a, b
<1>9. /\ n \in 0..Len(wa) /\ va = Without(wa, n) /\ m \in 0..Len(wb) /\ vb = Without(wb, m)
  <2>1. Without(from, n) # <<>>
    BY <1>1, <1>2
  <2> HIDE DEF opp
  <2>2. opp \in Entry
    BY <1>6 DEF opp
  <2>3. /\ from # <<>> /\ Last(from) = Last(Without(from, n))
        /\ n \in 0..Len(Front(from)) /\ Without(Front(from), n) = Front(Without(from, n))
        /\ m \in 0..Len(Append(to, opp)) /\ Without(Append(to, opp), m) = Append(Without(to, m), opp)
    BY <1>1, <1>2, <2>1, <2>2, CrossesAlike
  <2>4. QED
    BY <1>2, <2>3
<1> HIDE DEF e, opp, va, vb, wa, wb
<1>10. a.doc = e /\ a.content = v.content /\ a.commands.redo = va /\ a.commands.undo = vb
  BY <1>3, <1>7 DEF World, UndoStackType
<1>11. b.doc = e /\ b.content = w.content /\ b.commands.redo = wa /\ b.commands.undo = wb
  BY <1>3, <1>8 DEF World, UndoStackType
<1>12. QED
  BY <1>2, <1>9, <1>10, <1>11 DEF Alike, a, b

\* One leaf, on two sessions whose resolvers need not find the same layers.
LEMMA LeafAlike ==
    ASSUME NEW v \in World, NEW w \in World, NEW m, NEW n, Alike(v, w, m, n),
           NEW f, NEW g, NEW leaf \in Leaf, NEW forward \in BOOLEAN,
           ApplyLeaf(f, v, leaf, forward).ok, ApplyLeaf(g, w, leaf, forward).ok
    PROVE  Alike(ApplyLeaf(f, v, leaf, forward).world, ApplyLeaf(g, w, leaf, forward).world, m, n)
<1> DEFINE r == ApplyLeaf(f, v, leaf, forward)
           q == ApplyLeaf(g, w, leaf, forward)
<1>1. CASE leaf = Barrier
  <2>1. r = [ok |-> FALSE, world |-> v]
    BY <1>1 DEF ApplyLeaf, Barrier
  <2>2. ~r.ok
    BY <2>1
  <2>3. QED
    BY <2>2
<1>2. CASE leaf = Scene /\ forward
  <2>1. r = IF v.commands.redo = <<>> THEN [ok |-> FALSE, world |-> v] ELSE [ok |-> TRUE, world |-> StackRedo(v)]
    BY <1>2 DEF ApplyLeaf, Scene
  <2>2. q = IF w.commands.redo = <<>> THEN [ok |-> FALSE, world |-> w] ELSE [ok |-> TRUE, world |-> StackRedo(w)]
    BY <1>2 DEF ApplyLeaf, Scene
  <2> HIDE DEF r, q
  <2>3. r.ok /\ q.ok
    BY DEF r, q
  <2>4. v.commands.redo # <<>> /\ r.world = StackRedo(v) /\ q.world = StackRedo(w)
    BY <2>1, <2>2, <2>3
  <2>5. QED
    BY <2>4, RedoAlike DEF r, q
<1>3. CASE leaf = Scene /\ ~forward
  <2>1. r = IF v.commands.undo = <<>> THEN [ok |-> FALSE, world |-> v] ELSE [ok |-> TRUE, world |-> StackUndo(v)]
    BY <1>3 DEF ApplyLeaf, Scene
  <2>2. q = IF w.commands.undo = <<>> THEN [ok |-> FALSE, world |-> w] ELSE [ok |-> TRUE, world |-> StackUndo(w)]
    BY <1>3 DEF ApplyLeaf, Scene
  <2> HIDE DEF r, q
  <2>3. r.ok /\ q.ok
    BY DEF r, q
  <2>4. v.commands.undo # <<>> /\ r.world = StackUndo(v) /\ q.world = StackUndo(w)
    BY <2>1, <2>2, <2>3
  <2>5. QED
    BY <2>4, UndoAlike DEF r, q
<1>4. CASE leaf \in [kind: {"Payload"}, layer: Layers, before: Values, after: Values]
  <2> DEFINE value == IF forward THEN leaf.after ELSE leaf.before
             content == [w.content EXCEPT ![leaf.layer] = value]
             a == [v EXCEPT !.content = content]
             b == [w EXCEPT !.content = content]
  <2>1. leaf.kind = "Payload" /\ v.content = w.content
    BY <1>4 DEF Alike
  <2>2. r = IF leaf.layer \notin f THEN [ok |-> FALSE, world |-> v] ELSE [ok |-> TRUE, world |-> a]
    BY <2>1 DEF ApplyLeaf
  <2>3. q = IF leaf.layer \notin g THEN [ok |-> FALSE, world |-> w] ELSE [ok |-> TRUE, world |-> b]
    BY <2>1 DEF ApplyLeaf
  <2>4. /\ a.doc = v.doc /\ a.commands = v.commands /\ a.content = content
        /\ b.doc = w.doc /\ b.commands = w.commands /\ b.content = content
    BY DEF World
  <2>5. Alike(a, b, m, n)
    BY <2>4 DEF Alike
  <2> HIDE DEF a, b, r, q
  <2>6. r.ok /\ q.ok
    BY DEF r, q
  <2>7. r.world = a /\ q.world = b
    BY <2>2, <2>3, <2>6
  <2>8. QED
    BY <2>5, <2>7 DEF r, q
<1>5. QED
  BY <1>1, <1>2, <1>3, <1>4 DEF Leaf

\* A walk that has not been refused went through the leaf it is at.
LEMMA WalkedOn ==
    ASSUME NEW found, NEW order, NEW forward, NEW acc \in StepResult, NEW k,
           Walked(found, order, forward, acc, k).ok
    PROVE  /\ acc.ok
           /\ Walked(found, order, forward, acc, k) = ApplyLeaf(found, acc.world, order[k], forward)
           /\ ApplyLeaf(found, acc.world, order[k], forward).ok
<1> DEFINE r == ApplyLeaf(found, acc.world, order[k], forward)
           v == PutBack(found, r.world, SubSeq(order, 1, k - 1), forward)
           z == Walked(found, order, forward, acc, k)
<1>1. z = IF ~acc.ok THEN acc ELSE IF r.ok THEN r ELSE [ok |-> FALSE, world |-> v]
  BY DEF Walked
<1>2. z.ok
  OBVIOUS
<1> HIDE DEF r, v, z
<1>3. acc.ok
  BY <1>1, <1>2
<1>4. r.ok
  BY <1>1, <1>2, <1>3
<1>5. z = r
  BY <1>1, <1>3, <1>4
<1>6. QED
  BY <1>3, <1>4, <1>5 DEF r, z

\* A whole step, moved on both.
LEMMA StepAlike ==
    ASSUME NEW v \in World, NEW w \in World, NEW m, NEW n, Alike(v, w, m, n),
           NEW f, NEW g, NEW step \in Seq(Leaf), NEW forward \in BOOLEAN,
           ApplyStep(f, v, step, forward).ok, ApplyStep(g, w, step, forward).ok
    PROVE  Alike(ApplyStep(f, v, step, forward).world, ApplyStep(g, w, step, forward).world, m, n)
<1> DEFINE order == Order(step, forward)
           len == Len(Indices(order))
<1>1. PICK P : Walks(P, f, v, step, forward)
  BY WalkRuns
<1>2. PICK Q : Walks(Q, g, w, step, forward)
  BY WalkRuns
<1>3. order \in Seq(Leaf) /\ Len(order) \in Nat
  BY OrderLeaves
<1>4. len = Len(order) /\ \A k \in 1..len : Indices(order)[k] = k /\ order[k] \in Leaf
  BY <1>3 DEF Indices
<1>5. /\ P \in [0..len -> StepResult] /\ P[0] = Started(v)
      /\ \A k \in 1..len : P[k] = Walked(f, order, forward, P[k - 1], k)
      /\ P[len] = ApplyStep(f, v, step, forward)
  BY <1>1, <1>4 DEF Walks
<1>6. /\ Q \in [0..len -> StepResult] /\ Q[0] = Started(w)
      /\ \A k \in 1..len : Q[k] = Walked(g, order, forward, Q[k - 1], k)
      /\ Q[len] = ApplyStep(g, w, step, forward)
  BY <1>2, <1>4 DEF Walks
<1>7. len \in Nat
  BY <1>3, <1>4
<1> HIDE DEF order, len
<1> DEFINE Good(k) == P[k].ok /\ Q[k].ok => Alike(P[k].world, Q[k].world, m, n)
           T == {k \in Nat : k <= len => Good(k)}
<1>8. 0 \in T
  <2>1. P[0].world = v /\ Q[0].world = w
    BY <1>5, <1>6 DEF Started
  <2>2. QED
    BY <2>1
<1>9. \A k \in Nat : k \in T => k + 1 \in T
  <2> SUFFICES ASSUME NEW k \in Nat, k \in T, k + 1 <= len, P[k + 1].ok, Q[k + 1].ok
               PROVE  Alike(P[k + 1].world, Q[k + 1].world, m, n)
    OBVIOUS
  <2>1. k + 1 \in 1..len /\ (k + 1) - 1 = k /\ k \in 0..len /\ k <= len
    BY <1>7
  <2>2. P[k] \in StepResult /\ Q[k] \in StepResult
    BY <1>5, <1>6, <2>1
  <2>3. P[k + 1] = Walked(f, order, forward, P[k], k + 1)
        /\ Q[k + 1] = Walked(g, order, forward, Q[k], k + 1)
    BY <1>5, <1>6, <2>1
  <2>4. /\ P[k].ok /\ P[k + 1] = ApplyLeaf(f, P[k].world, order[k + 1], forward)
        /\ ApplyLeaf(f, P[k].world, order[k + 1], forward).ok
    BY <2>2, <2>3, WalkedOn
  <2>5. /\ Q[k].ok /\ Q[k + 1] = ApplyLeaf(g, Q[k].world, order[k + 1], forward)
        /\ ApplyLeaf(g, Q[k].world, order[k + 1], forward).ok
    BY <2>2, <2>3, WalkedOn
  <2>6. Alike(P[k].world, Q[k].world, m, n)
    BY <2>1, <2>4, <2>5
  <2>7. order[k + 1] \in Leaf /\ P[k].world \in World /\ Q[k].world \in World
    BY <1>4, <2>1, <2>2 DEF StepResult
  <2>8. Alike(ApplyLeaf(f, P[k].world, order[k + 1], forward).world,
              ApplyLeaf(g, Q[k].world, order[k + 1], forward).world, m, n)
    BY <2>4, <2>5, <2>6, <2>7, LeafAlike
  <2>9. QED
    BY <2>4, <2>5, <2>8
<1> HIDE DEF T
<1>10. Nat \subseteq T
  BY <1>8, <1>9, NatSetInduction
<1>11. len \in T /\ len <= len
  BY <1>7, <1>10
<1>12. Good(len)
  BY <1>11 DEF T
<1>13. QED
  BY <1>5, <1>6, <1>12

-----------------------------------------------------------------------------
(* The states a list of steps leads through. *)

\* The worlds passed through from w by applying a list newest first.
Passes(W, w, list, forward) ==
    /\ W \in [0..Len(list) -> World] /\ W[0] = w
    /\ \A k \in 1..Len(list) :
           W[k] = ApplyStep(Layers, W[k - 1], list[Len(list) - k + 1], forward).world

\* There are such worlds, and the trajectory is made of them.
LEMMA TrajectoryRuns ==
    ASSUME NEW w \in World, NEW list \in Seq(AnyStep), NEW forward \in BOOLEAN
    PROVE  \E W : /\ Passes(W, w, list, forward)
                  /\ Trajectory(w, list, forward) \in Seq(World)
                  /\ Len(Trajectory(w, list, forward)) = Len(list) + 1
                  /\ \A k \in 0..Len(list) : Trajectory(w, list, forward)[k + 1] = W[k]
<1> DEFINE turned == Reverse(list)
           n == Len(turned)
           D == Seq(World) \ {<<>>}
           grown(t, k) == Append(t, ApplyStep(Layers, Last(t), turned[k], forward).world)
           U == [k \in 1..n |-> [t \in D |-> grown(t, k)]]
           Iter(it) == it = [s \in SUBSET DOMAIN turned |->
                               IF s = {} THEN <<w>>
                               ELSE Append(it[s \ {Max(s)}],
                                           ApplyStep(Layers, Last(it[s \ {Max(s)}]), turned[Max(s)], forward).world)]
           iter == CHOOSE it : Iter(it)
<1>1. Trajectory(w, list, forward) = iter[DOMAIN turned]
  BY DEF Trajectory, FoldLeft, MapThenFoldSet
<1>2. /\ turned \in Seq(AnyStep) /\ n = Len(list) /\ n \in Nat /\ DOMAIN turned = 1..n
      /\ \A k \in 1..n : turned[k] = list[n - k + 1] /\ turned[k] \in Seq(Leaf)
  <2>1. /\ turned \in Seq(AnyStep) /\ n = Len(list)
        /\ \A k \in 1..Len(list) : turned[k] = list[Len(list) - k + 1]
    BY ScenesInReverse
  <2>2. n \in Nat /\ DOMAIN turned = 1..n /\ \A k \in 1..n : turned[k] \in AnyStep
    BY <2>1
  <2>3. QED
    BY <2>1, <2>2 DEF AnyStep
<1> HIDE DEF turned
<1>3. \A k \in 1..n, t \in D : grown(t, k) \in D /\ Last(t) \in World
  <2> SUFFICES ASSUME NEW k \in 1..n, NEW t \in D PROVE grown(t, k) \in D /\ Last(t) \in World
    OBVIOUS
  <2>1. Last(t) \in World
    BY FrontAndLast
  <2>2. ApplyStep(Layers, Last(t), turned[k], forward).world \in World
    BY <1>2, <2>1, StepMoves DEF StepResult
  <2>3. QED
    BY <2>1, <2>2, AppendLast
<1>4. /\ U \in [1..n -> [D -> D]]
      /\ \A k \in 1..n, t \in D : U[k][t] = grown(t, k)
  BY <1>3
<1>5. <<w>> \in D
  OBVIOUS
<1> HIDE DEF n, U, D
<1>6. \E it : Iter(it)
  <2>1. PICK h : FoldsUp(h, n, D, <<w>>, U)
    BY <1>2, <1>4, <1>5, FoldLeftExists
  <2>2. ASSUME NEW s \in SUBSET (1..n), s # {}
        PROVE  h[s] = grown(h[s \ {Max(s)}], Max(s))
    <3>1. Max(s) \in 1..n /\ s \ {Max(s)} \in SUBSET (1..n)
      BY <1>2, <2>2, GreatestIndex
    <3>2. h[s] = U[Max(s)][h[s \ {Max(s)}]] /\ h[s \ {Max(s)}] \in D
      BY <2>1, <2>2, <3>1 DEF FoldsUp
    <3> HIDE DEF grown
    <3>3. QED
      BY <1>4, <3>1, <3>2
  <2>3. /\ h = [s \in SUBSET (1..n) |-> h[s]]
        /\ h[{}] = <<w>>
    BY <2>1 DEF FoldsUp
  <2>4. Iter(h)
    BY <1>2, <2>2, <2>3
  <2>5. QED
    BY <2>4
<1>7. Iter(iter)
  <2> HIDE DEF Iter
  <2>1. QED
    BY <1>6
<1> HIDE DEF iter
<1>8. iter[{}] = <<w>> /\ \A s \in SUBSET (1..n) : s # {} =>
             iter[s] = grown(iter[s \ {Max(s)}], Max(s))
  BY <1>2, <1>7
<1>9. ASSUME NEW k \in 1..n
      PROVE  iter[1..k] = grown(iter[1..(k - 1)], k)
  <2>1. /\ 1..k \in SUBSET (1..n) /\ 1..k # {}
        /\ Max(1..k) = k /\ (1..k) \ {k} = 1..(k - 1)
    BY <1>2, FirstIndices
  <2>2. iter[1..k] = grown(iter[(1..k) \ {Max(1..k)}], Max(1..k))
    BY <1>8, <2>1
  <2> HIDE DEF grown
  <2>3. QED
    BY <2>1, <2>2
<1>10. PICK P : Runs(P, n, D, <<w>>, U) /\ P[n] = iter[1..n]
  <2> HIDE DEF grown
  <2>1. \A k \in 1..n : iter[1..(k - 1)] \in D => iter[1..k] = U[k][iter[1..(k - 1)]]
    BY <1>4, <1>9
  <2>2. iter[{}] = <<w>> /\ <<w>> \in D /\ n \in Nat
    BY <1>2, <1>5, <1>8
  <2>3. StepsThrough(iter, n, D, <<w>>, U)
    BY <1>4, <2>1, <2>2 DEF StepsThrough
  <2>4. QED
    BY <1>2, <1>4, <2>3, FoldLeftRuns
<1>11. /\ P \in [0..n -> D] /\ P[0] = <<w>> /\ P[n] = Trajectory(w, list, forward)
       /\ \A k \in 1..n : P[k] = grown(P[k - 1], k)
  <2> HIDE DEF grown
  <2>1. /\ P \in [0..n -> D] /\ P[0] = <<w>>
        /\ \A k \in 1..n : P[k] = U[k][P[k - 1]]
    BY <1>10 DEF Runs
  <2>2. \A k \in 1..n : P[k - 1] \in D
    BY <1>2, <2>1
  <2>3. \A k \in 1..n : P[k] = grown(P[k - 1], k)
    BY <1>4, <2>1, <2>2
  <2>4. QED
    BY <1>1, <1>2, <1>10, <2>1, <2>3
<1> DEFINE W == [k \in 0..n |-> Last(P[k])]
           Kept(k) == Len(P[k]) = k + 1 /\ \A j \in 0..k : P[k][j + 1] = W[j]
<1>12. W \in [0..n -> World] /\ \A k \in 0..n : W[k] = Last(P[k])
  <2>1. \A k \in 0..n : Last(P[k]) \in World
    <3> SUFFICES ASSUME NEW k \in 0..n PROVE Last(P[k]) \in World
      OBVIOUS
    <3>1. P[k] \in Seq(World) /\ P[k] # <<>>
      BY <1>11 DEF D
    <3>2. QED
      BY <3>1, FrontAndLast
  <2>2. QED
    BY <2>1
<1>13. W[0] = w
  <2>1. 0 \in 0..n /\ Last(<<w>>) = w
    BY <1>2 DEF Last
  <2> HIDE DEF W
  <2>2. QED
    BY <1>11, <1>12, <2>1
<1>14. \A k \in 1..n : W[k] = ApplyStep(Layers, W[k - 1], turned[k], forward).world
  <2> SUFFICES ASSUME NEW k \in 1..n
               PROVE  W[k] = ApplyStep(Layers, W[k - 1], turned[k], forward).world
    OBVIOUS
  <2> DEFINE x == ApplyStep(Layers, Last(P[k - 1]), turned[k], forward).world
  <2>1. k \in 0..n /\ k - 1 \in 0..n
    BY <1>2
  <2>2. P[k] = Append(P[k - 1], x) /\ P[k - 1] \in Seq(World) /\ Last(P[k - 1]) \in World
    BY <1>11, <1>12, <2>1 DEF D
  <2>3. x \in World
    BY <1>2, <2>2, StepMoves DEF StepResult
  <2> HIDE DEF x
  <2>4. Last(P[k]) = x
    BY <2>2, <2>3, AppendLast
  <2> HIDE DEF W
  <2>5. QED
    BY <1>12, <2>1, <2>4 DEF x
<1>15. Kept(0)
  BY <1>11, <1>13
<1>16. ASSUME NEW k \in Nat, k + 1 <= n, Kept(k) PROVE Kept(k + 1)
  <2>1. k + 1 \in 1..n /\ (k + 1) - 1 = k /\ k \in 0..n /\ k + 1 \in 0..n
    BY <1>2, <1>16
  <2> HIDE DEF W
  <2>2. /\ Len(P[k]) = k + 1 /\ \A j \in 0..k : P[k][j + 1] = W[j]
        /\ P[k] \in Seq(World) /\ P[k + 1] \in Seq(World)
    <3>1. P[k] \in D /\ P[k + 1] \in D
      BY <1>11, <2>1
    <3>2. QED
      BY <1>16, <3>1 DEF D
  <2> DEFINE x == ApplyStep(Layers, Last(P[k]), turned[k + 1], forward).world
  <2>3. P[k + 1] = Append(P[k], x)
    <3> HIDE DEF D
    <3>1. P[k + 1] = grown(P[(k + 1) - 1], k + 1)
      BY <1>11, <2>1
    <3>2. QED
      BY <2>1, <3>1
  <2>4. x \in World
    <3>1. Last(P[k]) \in World /\ turned[k + 1] \in Seq(Leaf)
      BY <1>2, <1>12, <2>1
    <3>2. QED
      BY <3>1, StepMoves DEF StepResult
  <2> HIDE DEF x
  <2>5. /\ Len(P[k + 1]) = k + 1 + 1 /\ P[k + 1][k + 1 + 1] = x
        /\ \A j \in 0..k : P[k + 1][j + 1] = P[k][j + 1]
    BY <2>2, <2>3, <2>4
  <2>6. W[k + 1] = x
    <3>1. Last(P[k + 1]) = x
      BY <2>2, <2>3, <2>4, AppendLast
    <3>2. QED
      BY <1>12, <2>1, <3>1
  <2>7. \A j \in 0..k : P[k + 1][j + 1] = W[j]
    BY <2>2, <2>5
  <2>8. \A j \in 0..(k + 1) : j \in 0..k \/ j = k + 1
    OBVIOUS
  <2>9. QED
    BY <2>5, <2>6, <2>7, <2>8
<1> HIDE DEF W, Kept
<1>17. Kept(n)
  <2> DEFINE Good == {k \in Nat : k <= n => Kept(k)}
  <2>1. 0 \in Good
    BY <1>15
  <2>2. ASSUME NEW k \in Nat, k \in Good PROVE k + 1 \in Good
    BY <1>2, <1>16, <2>2
  <2>3. n \in Good
    <3> HIDE DEF Good
    <3>1. QED
      BY <1>2, <2>1, <2>2, NatSetInduction
  <2>4. QED
    BY <1>2, <2>3
<1>18. Passes(W, w, list, forward)
  <2>1. \A k \in 1..n : turned[k] = list[Len(list) - k + 1]
    BY <1>2
  <2>2. QED
    BY <1>2, <1>12, <1>13, <1>14, <2>1 DEF Passes
<1>19. P[n] \in Seq(World)
  BY <1>2, <1>11 DEF D
<1>20. QED
  BY <1>2, <1>11, <1>17, <1>18, <1>19 DEF Kept

\* What a save writes.
Images == [doc: Document, content: Contents]

\* Two runs from the same world are the same.
LEMMA PassesOnce ==
    ASSUME NEW S, NEW list \in Seq(S), NEW forward, NEW w, NEW V, NEW W,
           Passes(V, w, list, forward), Passes(W, w, list, forward)
    PROVE  V = W
<1> DEFINE n == Len(list)
           Good == {k \in Nat : k <= n => V[k] = W[k]}
<1>1. /\ V \in [0..n -> World] /\ W \in [0..n -> World] /\ V[0] = W[0]
      /\ \A k \in 1..n : V[k] = ApplyStep(Layers, V[k - 1], list[Len(list) - k + 1], forward).world
      /\ \A k \in 1..n : W[k] = ApplyStep(Layers, W[k - 1], list[Len(list) - k + 1], forward).world
  BY DEF Passes
<1>2. n \in Nat
  OBVIOUS
<1> HIDE DEF n
<1>3. 0 \in Good
  BY <1>1
<1>4. ASSUME NEW k \in Nat, k \in Good PROVE k + 1 \in Good
  <2>1. CASE k + 1 <= n
    <3>1. k + 1 \in 1..n /\ (k + 1) - 1 = k /\ V[k] = W[k]
      BY <1>2, <1>4, <2>1
    <3>2. V[k + 1] = W[k + 1]
      BY <1>1, <3>1
    <3>3. QED
      BY <3>2
  <2>2. QED
    BY <2>1
<1>5. Nat \subseteq Good
  <2> HIDE DEF Good
  <2>1. QED
    BY <1>3, <1>4, NatSetInduction
<1>6. \A k \in 0..n : V[k] = W[k]
  BY <1>2, <1>5
<1>7. QED
  <2>1. V \in [0..n -> World] /\ W \in [0..n -> World]
    BY <1>1
  <2>2. V = [k \in 0..n |-> V[k]] /\ W = [k \in 0..n |-> W[k]]
    BY <2>1
  <2>3. QED
    BY <1>6, <2>2

\* The states beyond w, from the worlds passed through.
LEMMA BeyondIs ==
    ASSUME NEW w \in World, NEW list \in Seq(AnyStep), NEW forward \in BOOLEAN, NEW W,
           Passes(W, w, list, forward)
    PROVE  /\ Beyond(w, list, forward) \in Seq(Images)
           /\ Len(Beyond(w, list, forward)) = Len(list)
           /\ \A i \in 1..Len(list) : Beyond(w, list, forward)[i] = Image(W[Len(list) - i + 1])
<1> DEFINE t == Trajectory(w, list, forward)
           n == Len(list)
           worlds == Reverse(Tail(t))
<1>1. PICK V : /\ Passes(V, w, list, forward)
               /\ t \in Seq(World) /\ Len(t) = n + 1
               /\ \A k \in 0..n : t[k + 1] = V[k]
  BY TrajectoryRuns
<1>2. V = W
  BY <1>1, PassesOnce
<1>3. n \in Nat /\ t # <<>>
  BY <1>1
<1>4. Beyond(w, list, forward) = [i \in 1..Len(worlds) |-> Image(worlds[i])]
  BY DEF Beyond
<1>5. Tail(t) \in Seq(World) /\ Len(Tail(t)) = n /\ \A k \in 1..n : Tail(t)[k] = W[k]
  <2> HIDE DEF t
  <2>1. Tail(t) \in Seq(World) /\ Len(Tail(t)) = n /\ \A k \in 1..n : Tail(t)[k] = t[k + 1]
    BY <1>1, <1>3
  <2>2. \A k \in 1..n : k \in 0..n
    OBVIOUS
  <2>3. QED
    BY <1>1, <1>2, <2>1, <2>2
<1> HIDE DEF t, n
<1>6. /\ worlds \in Seq(World) /\ Len(worlds) = n
      /\ \A k \in 1..n : worlds[k] = W[n - k + 1]
  <2>1. /\ worlds \in Seq(World) /\ Len(worlds) = Len(Tail(t))
        /\ \A k \in 1..Len(Tail(t)) : worlds[k] = Tail(t)[Len(Tail(t)) - k + 1]
    BY <1>5, ScenesInReverse
  <2>2. \A k \in 1..n : n - k + 1 \in 1..n
    BY <1>3
  <2> HIDE DEF worlds
  <2>3. QED
    BY <1>5, <2>1, <2>2
<1> HIDE DEF worlds
<1>7. \A k \in 1..n : Image(worlds[k]) \in Images
  <2>1. \A k \in 1..n : worlds[k] \in World
    BY <1>6
  <2>2. QED
    BY <2>1 DEF Image, Images, World, Contents
<1>8. [i \in 1..Len(worlds) |-> Image(worlds[i])] \in Seq(Images)
  BY <1>3, <1>6, <1>7
<1>9. QED
  BY <1>3, <1>4, <1>6, <1>8 DEF n

\* An empty list leads nowhere.
LEMMA BeyondNone ==
    ASSUME NEW w \in World, NEW forward \in BOOLEAN
    PROVE  Beyond(w, <<>>, forward) = <<>>
<1>1. <<>> \in Seq(AnyStep) /\ Len(<<>>) = 0
  OBVIOUS
<1>2. PICK W : Passes(W, w, <<>>, forward)
  BY <1>1, TrajectoryRuns
<1>3. Beyond(w, <<>>, forward) \in Seq(Images) /\ Len(Beyond(w, <<>>, forward)) = Len(<<>>)
  BY <1>1, <1>2, BeyondIs
<1>4. QED
  BY <1>1, <1>3

\* One step more on top is one state more, and the rest is beyond that one.
LEMMA BeyondMore ==
    ASSUME NEW w \in World, NEW list \in Seq(AnyStep), NEW step \in AnyStep,
           NEW forward \in BOOLEAN, NEW v, v = ApplyStep(Layers, w, step, forward).world
    PROVE  /\ v \in World
           /\ Beyond(w, Append(list, step), forward) = Append(Beyond(v, list, forward), Image(v))
<1> DEFINE n == Len(list)
           more == Append(list, step)
<1>1. v \in World
  BY StepMoves DEF StepResult, AnyStep
<1>2. /\ n \in Nat /\ more \in Seq(AnyStep) /\ Len(more) = n + 1
      /\ \A k \in 1..n : more[k] = list[k]
      /\ more[n + 1] = step
  OBVIOUS
<1> HIDE DEF more
<1>3. PICK W : Passes(W, w, more, forward)
  BY <1>2, TrajectoryRuns
<1> DEFINE V == [k \in 0..n |-> W[k + 1]]
<1>4. /\ W \in [0..(n + 1) -> World] /\ W[0] = w
      /\ \A k \in 1..(n + 1) :
             W[k] = ApplyStep(Layers, W[k - 1], more[(n + 1) - k + 1], forward).world
  BY <1>2, <1>3 DEF Passes
<1> HIDE DEF n
<1>5. W[1] = v
  <2>1. 1 \in 1..(n + 1) /\ (n + 1) - 1 + 1 = n + 1 /\ 1 - 1 = 0
    BY <1>2
  <2>2. W[1] = ApplyStep(Layers, W[1 - 1], more[(n + 1) - 1 + 1], forward).world
    BY <1>4, <2>1
  <2>3. QED
    BY <1>2, <1>4, <2>1, <2>2
<1>6. Passes(V, v, list, forward)
  <2>1. V \in [0..n -> World] /\ V[0] = v
    BY <1>2, <1>4, <1>5
  <2>2. ASSUME NEW k \in 1..n
        PROVE  V[k] = ApplyStep(Layers, V[k - 1], list[n - k + 1], forward).world
    <3>1. /\ k + 1 \in 1..(n + 1) /\ (n + 1) - (k + 1) + 1 = n - k + 1 /\ (k + 1) - 1 = k
          /\ n - k + 1 \in 1..n /\ k \in 0..n /\ k - 1 \in 0..n /\ (k - 1) + 1 = k
      BY <1>2
    <3>2. W[k + 1] = ApplyStep(Layers, W[(k + 1) - 1], more[(n + 1) - (k + 1) + 1], forward).world
      BY <1>4, <3>1
    <3>3. V[k] = W[k + 1] /\ V[k - 1] = W[k]
      BY <3>1
    <3> HIDE DEF V
    <3>4. QED
      BY <1>2, <3>1, <3>2, <3>3
  <2> HIDE DEF V
  <2>3. QED
    BY <2>1, <2>2 DEF Passes, n
<1> DEFINE a == Beyond(w, more, forward)
           b == Beyond(v, list, forward)
<1>7. /\ a \in Seq(Images) /\ Len(a) = n + 1
      /\ \A i \in 1..(n + 1) : a[i] = Image(W[(n + 1) - i + 1])
  BY <1>2, <1>3, BeyondIs
<1>8. /\ b \in Seq(Images) /\ Len(b) = n
      /\ \A i \in 1..n : b[i] = Image(V[n - i + 1])
  BY <1>1, <1>6, BeyondIs DEF n
<1> HIDE DEF a, b
<1>9. \A i \in 1..n : a[i] = b[i]
  <2> SUFFICES ASSUME NEW i \in 1..n PROVE a[i] = b[i]
    OBVIOUS
  <2>1. i \in 1..(n + 1) /\ n - i + 1 \in 0..n /\ (n + 1) - i + 1 = (n - i + 1) + 1
    BY <1>2
  <2>2. V[n - i + 1] = W[(n + 1) - i + 1]
    BY <2>1
  <2> HIDE DEF V
  <2>3. QED
    BY <1>7, <1>8, <2>1, <2>2
<1>10. a[n + 1] = Image(v) /\ Image(v) \in Images
  <2>1. n + 1 \in 1..(n + 1) /\ (n + 1) - (n + 1) + 1 = 1
    BY <1>2
  <2>2. a[n + 1] = Image(W[(n + 1) - (n + 1) + 1]) /\ a[n + 1] \in Images
    BY <1>7, <2>1
  <2>3. QED
    BY <1>5, <2>1, <2>2
<1>11. a = Append(b, Image(v))
  <2>1. /\ Append(b, Image(v)) \in Seq(Images) /\ Len(Append(b, Image(v))) = n + 1
        /\ \A i \in 1..n : Append(b, Image(v))[i] = b[i]
        /\ Append(b, Image(v))[n + 1] = Image(v)
    BY <1>8, <1>10
  <2>2. \A i \in 1..(n + 1) : a[i] = Append(b, Image(v))[i]
    BY <1>2, <1>9, <1>10, <2>1
  <2> DEFINE c == Append(b, Image(v))
  <2> HIDE DEF c
  <2>3. a \in Seq(Images) /\ c \in Seq(Images) /\ Len(a) = Len(c) /\ \A i \in 1..Len(a) : a[i] = c[i]
    BY <1>7, <2>1, <2>2 DEF c
  <2>4. a = c
    BY <2>3
  <2>5. QED
    BY <2>4 DEF c
<1>12. QED
  BY <1>1, <1>11 DEF a, b, more

\* A leaf that is applied, and where it leads.
Taken(found, v, leaf, forward, u) ==
    ApplyLeaf(found, v, leaf, forward).ok /\ ApplyLeaf(found, v, leaf, forward).world = u

\* The worlds a whole step that is applied leads through, one leaf after the other.
Strides(W, found, w, step, forward) ==
    /\ W \in [0..Len(step) -> World] /\ W[0] = w
    /\ \A k \in 1..Len(step) : Taken(found, W[k - 1], Order(step, forward)[k], forward, W[k])

\* A step that succeeds went through the worlds its leaves lead to, one leaf after
\* the other.
LEMMA StridesOf ==
    ASSUME NEW found, NEW w \in World, NEW step \in Seq(Leaf), NEW forward \in BOOLEAN,
           ApplyStep(found, w, step, forward).ok
    PROVE  \E W : /\ Strides(W, found, w, step, forward)
                  /\ W[Len(step)] = ApplyStep(found, w, step, forward).world
<1> DEFINE order == Order(step, forward)
           n == Len(step)
           r == ApplyStep(found, w, step, forward)
<1>1. PICK P : Walks(P, found, w, step, forward)
  BY WalkRuns
<1>2. order \in Seq(Leaf) /\ Len(order) = n
  BY OrderLeaves
<1>3. n \in Nat /\ Len(Indices(order)) = n /\ \A k \in 1..n : Indices(order)[k] = k
  BY <1>2 DEF Indices
<1> HIDE DEF order, r
<1>4. /\ P \in [0..n -> StepResult] /\ P[0] = Started(w) /\ P[n] = r
      /\ \A k \in 1..n : P[k] = Walked(found, order, forward, P[k - 1], k)
  BY <1>1, <1>3 DEF Walks, r, order
<1> HIDE DEF n
<1>5. r.ok
  BY DEF r
<1> DEFINE Bad == {k \in Nat : k <= n /\ \E j \in 0..n : j = n - k /\ ~P[j].ok}
           Good == {k \in Nat : k <= n => P[n - k].ok}
<1>6. \A k \in 0..n : P[k].ok
  <2>1. 0 \in Good
    BY <1>3, <1>4, <1>5
  <2>2. ASSUME NEW k \in Nat, k \in Good PROVE k + 1 \in Good
    <3>1. CASE k + 1 <= n
      <4>1. n - k \in 1..n /\ (n - k) - 1 = n - (k + 1) /\ n - (k + 1) \in 0..n /\ P[n - k].ok
        BY <1>3, <2>2, <3>1
      <4>2. P[n - k] = Walked(found, order, forward, P[n - (k + 1)], n - k) /\ P[n - (k + 1)] \in StepResult
        BY <1>4, <4>1
      <4>3. P[n - (k + 1)].ok
        BY <4>1, <4>2, WalkedOn
      <4>4. QED
        BY <4>3
    <3>2. QED
      BY <3>1
  <2>3. Nat \subseteq Good
    <3> HIDE DEF Good
    <3>1. QED
      BY <2>1, <2>2, NatSetInduction
  <2>4. SUFFICES ASSUME NEW k \in 0..n PROVE P[k].ok
    OBVIOUS
  <2>5. n - k \in Nat /\ n - k <= n /\ n - (n - k) = k
    BY <1>3
  <2>6. QED
    BY <2>3, <2>5
<1> DEFINE W == [k \in 0..n |-> P[k].world]
<1>7. W \in [0..n -> World] /\ W[0] = w /\ W[n] = r.world
  <2>1. \A k \in 0..n : P[k].world \in World
    BY <1>4 DEF StepResult
  <2>2. 0 \in 0..n /\ n \in 0..n /\ P[0].world = w
    BY <1>3, <1>4 DEF Started
  <2>3. QED
    BY <1>4, <2>1, <2>2
<1>8. ASSUME NEW k \in 1..n PROVE Taken(found, W[k - 1], order[k], forward, W[k])
  <2>1. k \in 0..n /\ k - 1 \in 0..n
    BY <1>3
  <2>2. P[k - 1] \in StepResult /\ P[k] = Walked(found, order, forward, P[k - 1], k) /\ P[k].ok
    BY <1>4, <1>6, <2>1
  <2>3. P[k] = ApplyLeaf(found, P[k - 1].world, order[k], forward)
    BY <2>2, WalkedOn
  <2>4. W[k] = P[k].world /\ W[k - 1] = P[k - 1].world
    BY <2>1
  <2> HIDE DEF W
  <2>5. QED
    BY <2>2, <2>3, <2>4 DEF Taken
<1> HIDE DEF W
<1>9. Strides(W, found, w, step, forward)
  BY <1>7, <1>8 DEF Strides, n, order
<1>10. QED
  BY <1>7, <1>9 DEF n, r

\* Worlds that lead from leaf to leaf are those the step goes through, and it succeeds.
LEMMA StridesTo ==
    ASSUME NEW found, NEW w \in World, NEW step \in Seq(Leaf), NEW forward \in BOOLEAN, NEW W,
           Strides(W, found, w, step, forward)
    PROVE  /\ ApplyStep(found, w, step, forward).ok
           /\ ApplyStep(found, w, step, forward).world = W[Len(step)]
<1> DEFINE order == Order(step, forward)
           n == Len(step)
           r == ApplyStep(found, w, step, forward)
<1>1. PICK P : Walks(P, found, w, step, forward)
  BY WalkRuns
<1>2. order \in Seq(Leaf) /\ Len(order) = n
  BY OrderLeaves
<1>3. n \in Nat /\ Len(Indices(order)) = n /\ \A k \in 1..n : Indices(order)[k] = k
  BY <1>2 DEF Indices
<1> HIDE DEF order, r
<1>4. /\ P \in [0..n -> StepResult] /\ P[0] = Started(w) /\ P[n] = r
      /\ \A k \in 1..n : P[k] = Walked(found, order, forward, P[k - 1], k)
  BY <1>1, <1>3 DEF Walks, r, order
<1>5. /\ W[0] = w
      /\ \A k \in 1..n : Taken(found, W[k - 1], order[k], forward, W[k])
  BY DEF Strides, order
<1> HIDE DEF n
<1> DEFINE Good == {k \in Nat : k <= n => P[k].ok /\ P[k].world = W[k]}
<1>6. 0 \in Good
  BY <1>4, <1>5 DEF Started
<1>7. ASSUME NEW k \in Nat, k \in Good PROVE k + 1 \in Good
  <2>1. CASE k + 1 <= n
    <3>1. k + 1 \in 1..n /\ (k + 1) - 1 = k /\ P[k].ok /\ P[k].world = W[k]
      BY <1>3, <1>7, <2>1
    <3>2. P[k + 1] = Walked(found, order, forward, P[k], k + 1)
          /\ Taken(found, W[k], order[k + 1], forward, W[k + 1])
      BY <1>4, <1>5, <3>1
    <3>3. P[k + 1] = ApplyLeaf(found, P[k].world, order[k + 1], forward)
      <4> DEFINE a == ApplyLeaf(found, P[k].world, order[k + 1], forward)
                 b == [ok |-> FALSE,
                       world |-> PutBack(found, a.world, SubSeq(order, 1, (k + 1) - 1), forward)]
      <4>1. P[k + 1] = IF ~P[k].ok THEN P[k] ELSE IF a.ok THEN a ELSE b
        BY <3>2 DEF Walked
      <4>2. a.ok
        BY <3>1, <3>2 DEF Taken
      <4> HIDE DEF a, b
      <4>3. P[k + 1] = a
        BY <3>1, <4>1, <4>2
      <4>4. QED
        BY <4>3 DEF a
    <3>4. QED
      BY <3>1, <3>2, <3>3 DEF Taken
  <2>2. QED
    BY <2>1
<1>8. n \in Good
  <2> HIDE DEF Good
  <2>1. QED
    BY <1>3, <1>6, <1>7, NatSetInduction
<1>9. r.ok /\ r.world = W[n]
  BY <1>3, <1>4, <1>8
<1>10. QED
  BY <1>9 DEF n, r

\* With every layer found a step leads where it does when fewer are.
LEMMA FoundMore ==
    ASSUME NEW found \in SUBSET Layers, NEW w \in World, NEW step \in Seq(Leaf),
           NEW forward \in BOOLEAN, ApplyStep(found, w, step, forward).ok
    PROVE  /\ ApplyStep(Layers, w, step, forward).ok
           /\ ApplyStep(Layers, w, step, forward).world = ApplyStep(found, w, step, forward).world
<1>1. PICK W : /\ Strides(W, found, w, step, forward)
               /\ W[Len(step)] = ApplyStep(found, w, step, forward).world
  BY StridesOf
<1>2. \A v, leaf, u : Taken(found, v, leaf, forward, u) => Taken(Layers, v, leaf, forward, u)
  <2> SUFFICES ASSUME NEW v, NEW leaf, NEW u, Taken(found, v, leaf, forward, u)
               PROVE  Taken(Layers, v, leaf, forward, u)
    OBVIOUS
  <2>1. ApplyLeaf(found, v, leaf, forward).ok => ApplyLeaf(Layers, v, leaf, forward) = ApplyLeaf(found, v, leaf, forward)
    BY DEF ApplyLeaf
  <2>2. QED
    BY <2>1 DEF Taken
<1>3. Strides(W, Layers, w, step, forward)
  BY <1>1, <1>2 DEF Strides
<1>4. QED
  BY <1>1, <1>3, StridesTo

\* A step of one leaf.
LEMMA StepOfOne ==
    ASSUME NEW w \in World, NEW leaf \in Leaf, NEW forward \in BOOLEAN,
           ApplyLeaf(Layers, w, leaf, forward).ok
    PROVE  /\ ApplyStep(Layers, w, <<leaf>>, forward).ok
           /\ ApplyStep(Layers, w, <<leaf>>, forward).world = ApplyLeaf(Layers, w, leaf, forward).world
<1> DEFINE v == ApplyLeaf(Layers, w, leaf, forward).world
           W == [k \in 0..1 |-> IF k = 0 THEN w ELSE v]
<1>1. v \in World
  BY LeafMoves DEF StepResult
<1>2. W \in [0..1 -> World] /\ W[0] = w /\ W[1] = v
  BY <1>1
<1>3. <<leaf>> \in Seq(Leaf) /\ Len(<<leaf>>) = 1
  OBVIOUS
<1>4. Order(<<leaf>>, forward)[1] = leaf
  <2> DEFINE one == <<leaf>>
  <2>1. one \in Seq(Leaf) /\ Len(one) = 1 /\ one[1] = leaf /\ 1 \in 1..1 /\ 1 - 1 + 1 = 1
    BY <1>3
  <2> HIDE DEF one
  <2>2. Reverse(one)[1] = leaf
    <3>1. \A k \in 1..Len(one) : Reverse(one)[k] = one[Len(one) - k + 1]
      BY <2>1, ScenesInReverse
    <3>2. QED
      BY <2>1, <3>1
  <2>3. QED
    BY <2>1, <2>2 DEF Order, one
<1>5. Taken(Layers, w, leaf, forward, v)
  BY DEF Taken
<1> HIDE DEF v, W
<1>6. Strides(W, Layers, w, <<leaf>>, forward)
  <2>1. \A k \in 1..1 : k = 1 /\ k - 1 = 0
    OBVIOUS
  <2>2. QED
    BY <1>2, <1>3, <1>4, <1>5, <2>1 DEF Strides
<1>7. ApplyStep(Layers, w, <<leaf>>, forward).ok /\ ApplyStep(Layers, w, <<leaf>>, forward).world = W[1]
  <2> DEFINE one == <<leaf>>
  <2>1. one \in Seq(Leaf) /\ Len(one) = 1 /\ Strides(W, Layers, w, one, forward)
    BY <1>3, <1>6
  <2> HIDE DEF one
  <2>2. ApplyStep(Layers, w, one, forward).ok /\ ApplyStep(Layers, w, one, forward).world = W[Len(one)]
    BY <2>1, StridesTo
  <2>3. QED
    BY <2>1, <2>2 DEF one
<1>8. QED
  BY <1>2, <1>7 DEF v

\* A leaf just applied can be applied the other way, and leads back.
LEMMA LeafUndone ==
    ASSUME NEW w \in World, StackLine(w), NEW leaf \in Leaf, NEW forward \in BOOLEAN,
           NEW to \in Contents, Leads(leaf, w.content, to, forward), NEW v,
           Taken(Layers, w, leaf, forward, v)
    PROVE  v \in World /\ StackLine(v) /\ v.content = to /\ Taken(Layers, v, leaf, ~forward, w)
<1>1. ApplyLeaf(Layers, w, leaf, forward).ok /\ v = ApplyLeaf(Layers, w, leaf, forward).world
  BY DEF Taken
<1>2. /\ v \in World /\ StackLine(v) /\ v.content = to
      /\ MovedBack(Layers, forward, v, leaf) = w
  BY <1>1, LeafExact
<1>3. ApplyLeaf(Layers, v, leaf, ~forward).world = w
  BY <1>2 DEF MovedBack
<1>4. ApplyLeaf(Layers, v, leaf, ~forward).ok
  <2>1. Free(Layers, leaf)
    <3>1. leaf # Barrier
      <4>1. leaf = Barrier => ApplyLeaf(Layers, w, leaf, forward) = [ok |-> FALSE, world |-> w]
        BY DEF ApplyLeaf, Barrier
      <4>2. QED
        BY <1>1, <4>1
    <3>2. leaf.kind = "Payload" => leaf.layer \in Layers
      BY DEF Leaf, Scene, Barrier
    <3>3. QED
      BY <3>1, <3>2 DEF Free
  <2>2. Source(v, ~forward) >= ScenesIn(<<leaf>>)
    <3>1. Moved(v, w, ScenesIn(<<leaf>>), forward)
      BY <1>1, LeafMoves
    <3>2. Undos(w) \in Nat /\ Redos(w) \in Nat /\ ScenesIn(<<leaf>>) \in Nat
      <4>1. ScenesIn(<<leaf>>) \in Nat
        <5>1. Len(<<leaf>>) \in Nat
          OBVIOUS
        <5>2. QED
          BY <5>1, ScenesInNat
      <4>2. QED
        BY <4>1, SizesAreNat
    <3> DEFINE n == ScenesIn(<<leaf>>)
    <3> HIDE DEF n
    <3>3. forward => Undos(v) = Undos(w) + n
      BY <3>1 DEF Moved, n
    <3>4. ~forward => Redos(v) = Redos(w) + n
      BY <3>1 DEF Moved, n
    <3>5. n \in Nat
      BY <3>2 DEF n
    <3>6. CASE forward
      BY <3>2, <3>3, <3>5, <3>6 DEF Source, n
    <3>7. CASE ~forward
      BY <3>2, <3>4, <3>5, <3>7 DEF Source, n
    <3>8. QED
      BY <3>6, <3>7
  <2>3. QED
    BY <1>2, <2>1, <2>2, LeafMoves
<1>5. QED
  BY <1>2, <1>3, <1>4 DEF Taken

\* A step just applied can be applied the other way, and leads back.
Returns(w, step, forward, v) ==
    /\ v \in World
    /\ ApplyStep(Layers, v, step, ~forward).ok
    /\ ApplyStep(Layers, v, step, ~forward).world = w

\* A step that succeeds goes back the way it came: as a whole, what holds of its leaves.
LEMMA StepUndone ==
    ASSUME NEW w \in World, StackLine(w), NEW step \in Seq(Leaf), NEW forward \in BOOLEAN,
           NEW far, Links(step, w.content, far, forward), NEW v,
           ApplyStep(Layers, w, step, forward).ok, v = ApplyStep(Layers, w, step, forward).world
    PROVE  Returns(w, step, forward, v) /\ v.content = far
<1> DEFINE n == Len(step)
           order == Order(step, forward)
           back == Order(step, ~forward)
<1>1. PICK W : Strides(W, Layers, w, step, forward) /\ W[n] = v
  BY StridesOf
<1>2. PICK f : Ways(f, order, w.content, far, forward)
  BY OrderWays
<1>3. n \in Nat /\ Len(order) = n /\ \A k \in 1..n : order[k] \in Leaf
  <2>1. order \in Seq(Leaf) /\ Len(order) = n
    BY OrderLeaves
  <2>2. QED
    BY <2>1
<1>4. \A k \in 1..n : back[k] = order[n - k + 1]
  <2>1. /\ Len(Reverse(step)) = n
        /\ \A k \in 1..n : Reverse(step)[k] = step[n - k + 1]
    BY ScenesInReverse
  <2>2. \A k \in 1..n : n - k + 1 \in 1..n /\ n - (n - k + 1) + 1 = k
    BY <1>3
  <2>3. CASE forward
    BY <2>1, <2>3 DEF Order
  <2>4. CASE ~forward
    <3>1. back = step /\ order = Reverse(step)
      BY <2>4 DEF Order
    <3>2. QED
      BY <2>1, <2>2, <3>1
  <2>5. QED
    BY <2>3, <2>4
<1> HIDE DEF order, back
<1>5. /\ W \in [0..n -> World] /\ W[0] = w
      /\ \A k \in 1..n : Taken(Layers, W[k - 1], order[k], forward, W[k])
  BY <1>1 DEF Strides, order
<1>6. /\ f \in [0..n -> Contents] /\ f[0] = w.content /\ f[n] = far
      /\ \A k \in 1..n : Leads(order[k], f[k - 1], f[k], forward)
  BY <1>2, <1>3 DEF Ways
<1> HIDE DEF n
<1> DEFINE Holds(k) == StackLine(W[k]) /\ W[k].content = f[k]
           Good == {k \in Nat : k <= n => Holds(k)}
<1>7. ASSUME NEW k \in 1..n, Holds(k - 1)
      PROVE  Holds(k) /\ Taken(Layers, W[k], order[k], ~forward, W[k - 1])
  <2>1. k \in 0..n /\ k - 1 \in 0..n
    BY <1>3
  <2>2. /\ W[k - 1] \in World /\ f[k] \in Contents /\ order[k] \in Leaf
        /\ Leads(order[k], W[k - 1].content, f[k], forward)
        /\ Taken(Layers, W[k - 1], order[k], forward, W[k])
    BY <1>3, <1>5, <1>6, <1>7, <2>1
  <2>3. /\ StackLine(W[k]) /\ W[k].content = f[k]
        /\ Taken(Layers, W[k], order[k], ~forward, W[k - 1])
    BY <1>7, <2>2, LeafUndone
  <2>4. QED
    BY <2>3
<1>8. 0 \in Good
  BY <1>5, <1>6
<1>9. ASSUME NEW k \in Nat, k \in Good PROVE k + 1 \in Good
  <2>1. CASE k + 1 <= n
    <3>1. k + 1 \in 1..n /\ (k + 1) - 1 = k /\ Holds(k)
      BY <1>3, <1>9, <2>1
    <3> HIDE DEF Holds
    <3>2. Holds(k + 1)
      BY <1>7, <3>1
    <3>3. QED
      BY <3>2
  <2>2. QED
    BY <2>1
<1>10. Nat \subseteq Good
  <2> HIDE DEF Good
  <2>1. QED
    BY <1>8, <1>9, NatSetInduction
<1> HIDE DEF Holds
<1>11. \A k \in 0..n : Holds(k)
  BY <1>3, <1>10
<1> DEFINE V == [k \in 0..n |-> W[n - k]]
<1>12. V \in [0..n -> World] /\ V[0] = v /\ V[n] = w
  <2>1. \A k \in 0..n : n - k \in 0..n
    BY <1>3
  <2>2. 0 \in 0..n /\ n \in 0..n /\ n - 0 = n /\ n - n = 0
    BY <1>3
  <2>3. W[n] = v
    BY <1>1 DEF n
  <2>4. QED
    BY <1>5, <2>1, <2>2, <2>3
<1>13. ASSUME NEW k \in 1..n PROVE Taken(Layers, V[k - 1], back[k], ~forward, V[k])
  <2>1. /\ n - k + 1 \in 1..n /\ (n - k + 1) - 1 = n - k /\ n - (k - 1) = n - k + 1
        /\ k \in 0..n /\ k - 1 \in 0..n /\ n - k \in 0..n
    BY <1>3
  <2>2. Taken(Layers, W[n - k + 1], order[n - k + 1], ~forward, W[n - k])
    BY <1>7, <1>11, <2>1
  <2>3. V[k - 1] = W[n - k + 1] /\ V[k] = W[n - k]
    BY <2>1
  <2> HIDE DEF V
  <2>4. QED
    BY <1>4, <2>2, <2>3
<1> HIDE DEF V
<1>14. Strides(V, Layers, v, step, ~forward)
  BY <1>12, <1>13 DEF Strides, n, back
<1>15. v \in World /\ v.content = far
  <2>1. n \in 0..n
    BY <1>3
  <2>2. QED
    BY <1>1, <1>5, <1>6, <1>11, <2>1 DEF Holds, n
<1>16. /\ ApplyStep(Layers, v, step, ~forward).ok
       /\ ApplyStep(Layers, v, step, ~forward).world = V[n]
  <2>1. CASE forward = TRUE
    BY <1>14, <1>15, <2>1, StridesTo DEF n
  <2>2. CASE forward = FALSE
    BY <1>14, <1>15, <2>2, StridesTo DEF n
  <2>3. QED
    BY <2>1, <2>2
<1>17. QED
  BY <1>12, <1>15, <1>16 DEF Returns

\* The document and the stack behind a step: as they were when it names no
\* entry, and those of the entry it names when it names one.
LEMMA StepScenes ==
    ASSUME NEW w \in World, NEW step \in Seq(Leaf), NEW back \in BOOLEAN, ~back, NEW r,
           r = ApplyStep(Layers, w, step, back), r.ok, NEW v, v = r.world
    PROVE  /\ ScenesIn(step) = 0 => v.doc = w.doc /\ v.commands = w.commands
           /\ ScenesIn(step) = 1 => v.doc = StackUndo(w).doc /\ v.commands = StackUndo(w).commands
<1> DEFINE n == Len(step)
           order == Order(step, FALSE)
           c(k) == FirstScenes(order, k)
<1>1. PICK W : Strides(W, Layers, w, step, FALSE) /\ W[n] = v
  <2>1. PICK W : /\ Strides(W, Layers, w, step, back)
                 /\ W[n] = ApplyStep(Layers, w, step, back).world
    BY StridesOf
  <2>2. back = FALSE
    OBVIOUS
  <2>3. QED
    BY <2>1, <2>2
<1>2. order \in Seq(Leaf) /\ Len(order) = n /\ n \in Nat /\ ScenesIn(order) = ScenesIn(step)
  <2>1. FALSE \in BOOLEAN /\ n \in Nat
    OBVIOUS
  <2>2. order \in Seq(Leaf) /\ Len(order) = n /\ ScenesIn(order) = ScenesIn(step)
    BY <2>1, OrderLeaves
  <2>3. QED
    BY <2>1, <2>2
<1>3. \A k \in 1..n : order[k] \in Leaf
  <2> HIDE DEF order
  <2>1. QED
    BY <1>2
<1>4. /\ \A k \in 0..n : c(k) \in Nat
      /\ \A k \in 1..n : c(k) = c(k - 1) + ScenesIn(<<order[k]>>)
      /\ c(0) = 0 /\ c(n) = ScenesIn(step)
  BY <1>2, FirstScenesGrow
<1> HIDE DEF order, c
<1>5. /\ W \in [0..n -> World] /\ W[0] = w
      /\ \A k \in 1..n : Taken(Layers, W[k - 1], order[k], FALSE, W[k])
  BY <1>1 DEF Strides, order
<1> HIDE DEF n
<1> DEFINE Holds(k) == /\ c(k) = 0 => W[k].doc = w.doc /\ W[k].commands = w.commands
                       /\ c(k) = 1 => /\ W[k].doc = StackUndo(w).doc
                                      /\ W[k].commands = StackUndo(w).commands
           Good == {k \in Nat : k <= n => Holds(k)}
<1>6. 0 \in Good
  BY <1>4, <1>5
<1>7. ASSUME NEW k \in Nat, k \in Good PROVE k + 1 \in Good
  <2>1. CASE k + 1 <= n
    <3>1. k + 1 \in 1..n /\ (k + 1) - 1 = k /\ k \in 0..n /\ k + 1 \in 0..n /\ Holds(k)
      BY <1>2, <1>7, <2>1
    <3>2. /\ Taken(Layers, W[k], order[k + 1], FALSE, W[k + 1]) /\ order[k + 1] \in Leaf
          /\ c(k + 1) = c(k) + ScenesIn(<<order[k + 1]>>) /\ c(k) \in Nat /\ c(k + 1) \in Nat
          /\ W[k] \in World
      BY <1>3, <1>4, <1>5, <3>1
    <3>3. CASE order[k + 1] = Scene
      <4>1. c(k + 1) = c(k) + 1
        BY <3>2, <3>3, ScenesInPlain
      <4>2. W[k + 1] = StackUndo(W[k])
        BY <3>2, <3>3 DEF Taken, ApplyLeaf, Scene
      <4>3. c(k + 1) # 0 /\ (c(k + 1) = 1 => c(k) = 0)
        BY <3>2, <4>1
      <4>4. c(k) = 0 => /\ StackUndo(W[k]).doc = StackUndo(w).doc
                        /\ StackUndo(W[k]).commands = StackUndo(w).commands
        <5> DEFINE D(d, stack) == Replay(d, Last(stack.undo)).doc
                   S(d, stack) == [stack EXCEPT !.undo = Front(@),
                                       !.redo = Append(@, Replay(d, Last(stack.undo)).opposite)]
        <5>1. \A u \in World : /\ StackUndo(u).doc = D(u.doc, u.commands)
                               /\ StackUndo(u).commands = S(u.doc, u.commands)
          BY DEF StackUndo, World
        <5> HIDE DEF D, S
        <5>2. SUFFICES ASSUME c(k) = 0
                       PROVE  /\ StackUndo(W[k]).doc = StackUndo(w).doc
                              /\ StackUndo(W[k]).commands = StackUndo(w).commands
          OBVIOUS
        <5>3. W[k].doc = w.doc /\ W[k].commands = w.commands
          BY <3>1, <5>2
        <5> DEFINE u == W[k]
        <5>4. u \in World /\ u.doc = w.doc /\ u.commands = w.commands
          BY <3>2, <5>3
        <5> HIDE DEF u
        <5>5. /\ StackUndo(u).doc = StackUndo(w).doc
              /\ StackUndo(u).commands = StackUndo(w).commands
          BY <5>1, <5>4
        <5>6. QED
          BY <5>5 DEF u
      <4>5. Holds(k + 1)
        BY <4>2, <4>3, <4>4
      <4> HIDE DEF Holds
      <4>6. QED
        BY <4>5
    <3>4. CASE order[k + 1] # Scene
      <4>1. c(k + 1) = c(k)
        BY <3>2, <3>4, ScenesInPlain
      <4>2. W[k + 1].doc = W[k].doc /\ W[k + 1].commands = W[k].commands
        <5>1. order[k + 1].kind = "Barrier" \/ order[k + 1].kind = "Payload"
          BY <3>2, <3>4 DEF Leaf, Barrier
        <5>2. QED
          BY <3>2, <5>1 DEF Taken, ApplyLeaf, World
      <4>3. Holds(k + 1)
        BY <3>1, <4>1, <4>2
      <4> HIDE DEF Holds
      <4>4. QED
        BY <4>3
    <3>5. QED
      BY <3>3, <3>4
  <2>2. QED
    BY <2>1
<1>8. n \in Good
  <2> HIDE DEF Good
  <2>1. QED
    BY <1>2, <1>6, <1>7, NatSetInduction
<1>9. Holds(n)
  BY <1>2, <1>8
<1>10. QED
  BY <1>1, <1>4, <1>9 DEF n

\* A list leads through as many states as it has steps.
LEMMA BeyondSeq ==
    ASSUME NEW w \in World, NEW list \in Seq(AnyStep), NEW forward \in BOOLEAN
    PROVE  /\ Beyond(w, list, forward) \in Seq(Images)
           /\ Len(Beyond(w, list, forward)) = Len(list)
  BY TrajectoryRuns, BeyondIs

\* The oldest steps lead to the farthest states.
LEMMA BeyondWithout ==
    ASSUME NEW w \in World, NEW list \in Seq(AnyStep), NEW forward \in BOOLEAN, NEW k \in 0..Len(list)
    PROVE  Beyond(w, Without(list, k), forward) = Without(Beyond(w, list, forward), k)
<1> DEFINE Good == {n \in Nat : \A u \in World : \A l \in Seq(AnyStep) : \A j \in 0..Len(l) :
                        Len(l) = n => Beyond(u, Without(l, j), forward) = Without(Beyond(u, l, forward), j)}
<1>1. ASSUME NEW u \in World, NEW l \in Seq(AnyStep)
      PROVE  Beyond(u, Without(l, Len(l)), forward) = Without(Beyond(u, l, forward), Len(l))
  <2>1. Beyond(u, l, forward) \in Seq(Images) /\ Len(Beyond(u, l, forward)) = Len(l)
    BY BeyondSeq
  <2>2. Without(l, Len(l)) = <<>> /\ Without(Beyond(u, l, forward), Len(Beyond(u, l, forward))) = <<>>
    BY <2>1, WithoutNone
  <2>3. QED
    BY <2>1, <2>2, BeyondNone
<1>2. 0 \in Good
  <2> SUFFICES ASSUME NEW u \in World, NEW l \in Seq(AnyStep), NEW j \in 0..Len(l), Len(l) = 0
               PROVE  Beyond(u, Without(l, j), forward) = Without(Beyond(u, l, forward), j)
    OBVIOUS
  <2>1. j = Len(l)
    OBVIOUS
  <2>2. QED
    BY <1>1, <2>1
<1>3. ASSUME NEW n \in Nat, n \in Good PROVE n + 1 \in Good
  <2> SUFFICES ASSUME NEW u \in World, NEW l \in Seq(AnyStep), NEW j \in 0..Len(l), Len(l) = n + 1
               PROVE  Beyond(u, Without(l, j), forward) = Without(Beyond(u, l, forward), j)
    OBVIOUS
  <2>1. CASE j = Len(l)
    BY <1>1, <2>1
  <2>2. CASE j # Len(l)
    <3> DEFINE s == Last(l)
               f == Front(l)
               v == ApplyStep(Layers, u, s, forward).world
    <3>1. f \in Seq(AnyStep) /\ s \in AnyStep /\ l = Append(f, s) /\ Len(f) = n
      <4>1. l # <<>>
        OBVIOUS
      <4>2. QED
        BY <4>1, FrontAndLast, FrontLen
    <3> HIDE DEF f, s
    <3>2. v \in World /\ Beyond(u, l, forward) = Append(Beyond(v, f, forward), Image(v))
      BY <3>1, BeyondMore
    <3>3. j \in 0..Len(f)
      BY <2>2, <3>1
    <3>4. Without(f, j) \in Seq(AnyStep) /\ Without(l, j) = Append(Without(f, j), s)
      BY <3>1, <3>3, WithoutAppend, WithoutLen
    <3>5. Beyond(u, Without(l, j), forward) = Append(Beyond(v, Without(f, j), forward), Image(v))
      <4>1. Beyond(u, Append(Without(f, j), s), forward) = Append(Beyond(v, Without(f, j), forward), Image(v))
        BY <3>1, <3>4, BeyondMore
      <4>2. QED
        BY <3>4, <4>1
    <3> HIDE DEF v
    <3>6. Beyond(v, Without(f, j), forward) = Without(Beyond(v, f, forward), j)
      BY <1>3, <3>1, <3>2, <3>3
    <3>7. /\ Beyond(v, f, forward) \in Seq(Images) /\ Len(Beyond(v, f, forward)) = Len(f)
          /\ Image(v) \in Images
      <4>1. Image(v) \in Images
        BY <3>2 DEF Image, Images, World, Contents
      <4>2. QED
        BY <3>1, <3>2, <4>1, BeyondSeq
    <3> DEFINE past == Beyond(v, f, forward)
    <3>8. Without(Append(past, Image(v)), j) = Append(Without(past, j), Image(v))
      <4>1. past \in Seq(Images) /\ j \in 0..Len(past) /\ Image(v) \in Images
        BY <3>3, <3>7
      <4> HIDE DEF past
      <4>2. QED
        BY <4>1, WithoutAppend
    <3>9. QED
      BY <3>2, <3>5, <3>6, <3>8
  <2>3. QED
    BY <2>1, <2>2
<1>4. Len(list) \in Nat
  OBVIOUS
<1> HIDE DEF Good
<1>5. Len(list) \in Good
  BY <1>2, <1>3, <1>4, NatSetInduction
<1>6. QED
  BY <1>5 DEF Good

\* The two ways to go, by name.
TakenBack(w, step) == ApplyStep(Layers, w, step, FALSE).world
BroughtBack(w, step) == ApplyStep(Layers, w, step, TRUE).world
Behind(w, list) == Beyond(w, list, FALSE)
Ahead(w, list) == Beyond(w, list, TRUE)

\* What holds of going beyond, said of undo and of redo.
LEMMA BothWays ==
    ASSUME NEW w \in World, NEW list \in Seq(AnyStep)
    PROVE  /\ Behind(w, <<>>) = <<>> /\ Ahead(w, <<>>) = <<>>
           /\ Behind(w, list) \in Seq(Images) /\ Len(Behind(w, list)) = Len(list)
           /\ Ahead(w, list) \in Seq(Images) /\ Len(Ahead(w, list)) = Len(list)
           /\ \A k \in 0..Len(list) : /\ Behind(w, Without(list, k)) = Without(Behind(w, list), k)
                                      /\ Ahead(w, Without(list, k)) = Without(Ahead(w, list), k)
<1>1. /\ Behind(w, <<>>) = <<>>
      /\ Behind(w, list) \in Seq(Images) /\ Len(Behind(w, list)) = Len(list)
      /\ \A k \in 0..Len(list) : Behind(w, Without(list, k)) = Without(Behind(w, list), k)
  BY BeyondNone, BeyondSeq, BeyondWithout DEF Behind
<1>2. /\ Ahead(w, <<>>) = <<>>
      /\ Ahead(w, list) \in Seq(Images) /\ Len(Ahead(w, list)) = Len(list)
      /\ \A k \in 0..Len(list) : Ahead(w, Without(list, k)) = Without(Ahead(w, list), k)
  BY BeyondNone, BeyondSeq, BeyondWithout DEF Ahead
<1>3. QED
  BY <1>1, <1>2

\* The newest step leads to the nearest state, and the rest on from there.
LEMMA BothMore ==
    ASSUME NEW w \in World, NEW list \in Seq(AnyStep), NEW step \in AnyStep
    PROVE  /\ TakenBack(w, step) \in World /\ BroughtBack(w, step) \in World
           /\ Behind(w, Append(list, step)) =
                 Append(Behind(TakenBack(w, step), list), Image(TakenBack(w, step)))
           /\ Ahead(w, Append(list, step)) =
                 Append(Ahead(BroughtBack(w, step), list), Image(BroughtBack(w, step)))
<1>1. ASSUME NEW way \in BOOLEAN, NEW v, v = ApplyStep(Layers, w, step, way).world
      PROVE  v \in World /\ Beyond(w, Append(list, step), way) = Append(Beyond(v, list, way), Image(v))
  BY <1>1, BeyondMore
<1>2. /\ TakenBack(w, step) \in World
      /\ Beyond(w, Append(list, step), FALSE) =
            Append(Beyond(TakenBack(w, step), list, FALSE), Image(TakenBack(w, step)))
  <2> DEFINE v == TakenBack(w, step)
  <2>1. v = ApplyStep(Layers, w, step, FALSE).world /\ FALSE \in BOOLEAN
    BY DEF TakenBack
  <2> HIDE DEF v
  <2>2. v \in World /\ Beyond(w, Append(list, step), FALSE) = Append(Beyond(v, list, FALSE), Image(v))
    BY <1>1, <2>1
  <2>3. QED
    BY <2>2 DEF v
<1>3. /\ BroughtBack(w, step) \in World
      /\ Beyond(w, Append(list, step), TRUE) =
            Append(Beyond(BroughtBack(w, step), list, TRUE), Image(BroughtBack(w, step)))
  <2> DEFINE v == BroughtBack(w, step)
  <2>1. v = ApplyStep(Layers, w, step, TRUE).world /\ TRUE \in BOOLEAN
    BY DEF BroughtBack
  <2> HIDE DEF v
  <2>2. v \in World /\ Beyond(w, Append(list, step), TRUE) = Append(Beyond(v, list, TRUE), Image(v))
    BY <1>1, <2>1
  <2>3. QED
    BY <2>2 DEF v
<1>4. QED
  BY <1>2, <1>3 DEF Behind, Ahead

\* Two worlds an undo cannot tell apart.
SamePast(v, w) ==
    v.doc = w.doc /\ v.content = w.content /\ v.commands.undo = w.commands.undo

\* A world without its redo side is like any world of the same past.
LEMMA ForgetsRedo ==
    ASSUME NEW v \in World, NEW w \in World, SamePast(v, w)
    PROVE  LET u == [w EXCEPT !.commands = [@ EXCEPT !.redo = <<>>]]
           IN  u \in World /\ u.commands.undo = w.commands.undo
               /\ Alike(u, v, 0, Len(v.commands.redo)) /\ Alike(u, w, 0, Len(w.commands.redo))
<1> DEFINE u == [w EXCEPT !.commands = [@ EXCEPT !.redo = <<>>]]
<1>1. /\ v.commands.undo \in Seq(Entry) /\ v.commands.redo \in Seq(Entry)
      /\ w.commands.undo \in Seq(Entry) /\ w.commands.redo \in Seq(Entry)
  BY DEF World, UndoStackType
<1>2. /\ u \in World /\ u.doc = w.doc /\ u.content = w.content
      /\ u.commands.undo = w.commands.undo /\ u.commands.redo = <<>>
  <2> DEFINE s == w.commands
             c == [s EXCEPT !.redo = <<>>]
  <2>1. s \in UndoStackType
    BY DEF World
  <2>2. u = [w EXCEPT !.commands = c]
    OBVIOUS
  <2> HIDE DEF u, s
  <2>3. c \in UndoStackType /\ c.undo = s.undo /\ c.redo = <<>>
    <3>1. <<>> \in Seq(Entry)
      OBVIOUS
    <3>2. c = [undo |-> s.undo, redo |-> <<>>, depth |-> s.depth]
      BY <2>1 DEF UndoStackType
    <3>3. s.undo \in Seq(Entry) /\ s.depth \in Nat
      BY <2>1 DEF UndoStackType
    <3> HIDE DEF c
    <3>4. QED
      BY <3>1, <3>2, <3>3 DEF UndoStackType
  <2> HIDE DEF c
  <2>4. u \in World /\ u.doc = w.doc /\ u.content = w.content /\ u.commands = c
    BY <2>2, <2>3 DEF World
  <2>5. QED
    BY <2>3, <2>4 DEF s
<1> HIDE DEF u
<1>3. /\ Without(v.commands.undo, 0) = v.commands.undo /\ Without(w.commands.undo, 0) = w.commands.undo
      /\ Without(v.commands.redo, Len(v.commands.redo)) = <<>>
      /\ Without(w.commands.redo, Len(w.commands.redo)) = <<>>
  BY <1>1, WithoutNone
<1>4. /\ Len(v.commands.undo) \in Nat /\ Len(v.commands.redo) \in Nat
      /\ Len(w.commands.undo) \in Nat /\ Len(w.commands.redo) \in Nat
  BY <1>1
<1>5. Alike(u, v, 0, Len(v.commands.redo)) /\ Alike(u, w, 0, Len(w.commands.redo))
  BY <1>2, <1>3, <1>4 DEF Alike, SamePast
<1>6. QED
  BY <1>2, <1>5 DEF u

\* A step taken back leads worlds of the same past to worlds of the same past.
LEMMA StepSamePast ==
    ASSUME NEW v \in World, NEW w \in World, SamePast(v, w), NEW step \in Seq(Leaf),
           AllFree(Layers, step), ScenesIn(step) <= Undos(w), NEW x, NEW y,
           x = TakenBack(v, step), y = TakenBack(w, step)
    PROVE  x \in World /\ y \in World /\ SamePast(x, y) /\ Undos(y) = Undos(w) - ScenesIn(step)
<1> DEFINE u == [w EXCEPT !.commands = [@ EXCEPT !.redo = <<>>]]
           z == ApplyStep(Layers, u, step, FALSE)
           m == Len(v.commands.redo)
           n == Len(w.commands.redo)
<1>1. u \in World /\ u.commands.undo = w.commands.undo /\ Alike(u, v, 0, m) /\ Alike(u, w, 0, n)
  BY ForgetsRedo
<1> HIDE DEF u, m, n
<1>2. ScenesIn(step) <= Undos(v) /\ ScenesIn(step) <= Undos(u) /\ Undos(v) \in Nat
      /\ Undos(w) \in Nat /\ Undos(u) \in Nat /\ ScenesIn(step) \in Nat /\ FALSE \in BOOLEAN
  <2>1. Len(step) \in Nat /\ FALSE \in BOOLEAN
    OBVIOUS
  <2>2. ScenesIn(step) \in Nat
    BY <2>1, ScenesInNat
  <2>3. QED
    BY <1>1, <2>1, <2>2, SizesAreNat DEF Undos, SamePast
<1>3. /\ Source(v, FALSE) >= ScenesIn(step) /\ Source(w, FALSE) >= ScenesIn(step)
      /\ Source(u, FALSE) >= ScenesIn(step)
  BY <1>2 DEF Source
<1>4. ApplyStep(Layers, v, step, FALSE).ok /\ x \in World /\ x = ApplyStep(Layers, v, step, FALSE).world
  BY <1>3, StepMoves DEF StepResult, TakenBack
<1>5. ApplyStep(Layers, w, step, FALSE).ok /\ y \in World /\ Undos(y) = Undos(w) - ScenesIn(step)
  <2>1. /\ ApplyStep(Layers, w, step, FALSE).ok /\ ApplyStep(Layers, w, step, FALSE) \in StepResult
        /\ Moved(y, w, ScenesIn(step), FALSE)
    BY <1>3, StepMoves DEF TakenBack
  <2>2. QED
    BY <2>1 DEF StepResult, Moved
<1>6. z.ok /\ z.world \in World
  BY <1>1, <1>3, StepMoves DEF StepResult
<1>7. Alike(z.world, x, 0, m) /\ Alike(z.world, y, 0, n)
  BY <1>1, <1>4, <1>5, <1>6, StepAlike DEF TakenBack
<1> HIDE DEF z
<1>8. SamePast(x, y)
  <2>1. /\ x.commands.undo \in Seq(Entry) /\ y.commands.undo \in Seq(Entry)
    BY <1>4, <1>5 DEF World, UndoStackType
  <2>2. Without(x.commands.undo, 0) = x.commands.undo /\ Without(y.commands.undo, 0) = y.commands.undo
    BY <2>1, WithoutNone
  <2>3. QED
    BY <1>7, <2>2 DEF Alike, SamePast
<1>9. QED
  BY <1>4, <1>5, <1>8

\* Steps undo can take: none of them is a barrier.
Takable(list) == \A i \in 1..Len(list) : AllFree(Layers, list[i])

TakenAlike(v, w, list) == SamePast(v, w) /\ Takable(list) /\ SceneSteps(list) <= Undos(w)

\* What lies behind depends on nothing an undo does not read.
LEMMA BehindSamePast ==
    ASSUME NEW v \in World, NEW w \in World, NEW list \in Seq(WholeStep), TakenAlike(v, w, list)
    PROVE  Behind(v, list) = Behind(w, list)
<1> DEFINE Good == {n \in Nat : \A x \in World : \A y \in World : \A l \in Seq(WholeStep) :
                        Len(l) = n /\ TakenAlike(x, y, l) => Behind(x, l) = Behind(y, l)}
<1>1. 0 \in Good
  <2> SUFFICES ASSUME NEW x \in World, NEW y \in World, NEW l \in Seq(WholeStep), Len(l) = 0
               PROVE  Behind(x, l) = Behind(y, l)
    OBVIOUS
  <2>1. l = <<>> /\ l \in Seq(AnyStep)
    BY StepTypes
  <2>2. Behind(x, <<>>) = <<>> /\ Behind(y, <<>>) = <<>>
    BY <2>1, BothWays
  <2>3. QED
    BY <2>1, <2>2
<1>2. ASSUME NEW n \in Nat, n \in Good PROVE n + 1 \in Good
  <2> SUFFICES ASSUME NEW x \in World, NEW y \in World, NEW l \in Seq(WholeStep),
                      Len(l) = n + 1, TakenAlike(x, y, l)
               PROVE  Behind(x, l) = Behind(y, l)
    OBVIOUS
  <2> DEFINE s == Last(l)
             f == Front(l)
             p == TakenBack(x, s)
             q == TakenBack(y, s)
  <2>1. l # <<>>
    OBVIOUS
  <2>2. f \in Seq(WholeStep) /\ s \in WholeStep /\ l = Append(f, s) /\ Len(f) = n
        /\ \A i \in 1..n : f[i] = l[i]
    <3>1. f \in Seq(WholeStep) /\ s \in WholeStep /\ l = Append(f, s)
      BY <2>1, FrontAndLast
    <3>2. Len(f) = Len(l) - 1 /\ \A i \in 1..(Len(l) - 1) : f[i] = l[i]
      BY <2>1, FrontLen
    <3>3. QED
      BY <3>1, <3>2
  <2>3. s \in Seq(Leaf) /\ SceneSteps(l) = SceneSteps(f) + ScenesIn(s) /\ ScenesIn(s) \in Nat
        /\ SceneSteps(f) \in Nat
    BY <2>1, NewestStep
  <2>4. s = l[n + 1]
    BY <2>1 DEF Last
  <2>5. f \in Seq(AnyStep) /\ s \in AnyStep
    BY <2>2, <2>3, StepTypes DEF AnyStep
  <2> HIDE DEF f, s
  <2>6. AllFree(Layers, s) /\ Takable(f)
    <3>1. \A i \in 1..(n + 1) : AllFree(Layers, l[i])
      BY DEF Takable, TakenAlike
    <3>2. n + 1 \in 1..(n + 1) /\ \A i \in 1..n : i \in 1..(n + 1)
      OBVIOUS
    <3>3. QED
      BY <2>2, <2>4, <3>1, <3>2 DEF Takable
  <2>7. ScenesIn(s) <= Undos(y) /\ SceneSteps(f) <= Undos(y) - ScenesIn(s) /\ SamePast(x, y)
    BY <2>3, SizesAreNat DEF TakenAlike
  <2>8. p \in World /\ q \in World /\ SamePast(p, q) /\ Undos(q) = Undos(y) - ScenesIn(s)
    BY <2>3, <2>6, <2>7, StepSamePast
  <2>9. /\ Behind(x, Append(f, s)) = Append(Behind(p, f), Image(p))
        /\ Behind(y, Append(f, s)) = Append(Behind(q, f), Image(q))
    BY <2>5, BothMore
  <2> HIDE DEF p, q
  <2>10. Behind(p, f) = Behind(q, f)
    <3>1. TakenAlike(p, q, f)
      BY <2>6, <2>7, <2>8 DEF TakenAlike
    <3>2. QED
      BY <1>2, <2>2, <2>8, <3>1
  <2>11. Image(p) = Image(q)
    BY <2>8 DEF Image, SamePast
  <2>12. QED
    BY <2>2, <2>9, <2>10, <2>11
<1>3. Len(list) \in Nat
  OBVIOUS
<1> HIDE DEF Good
<1>4. Len(list) \in Good
  BY <1>1, <1>2, <1>3, NatSetInduction
<1>5. QED
  BY <1>4 DEF Good

=============================================================================
