---------------------------- MODULE SessionProofs ---------------------------
(***************************************************************************)
(* What the session promises as a whole: what a crash takes and a replay   *)
(* hands back (Recovery), and the one line that undo and redo walk         *)
(* (HistoryRefinement), for every session.                                 *)
(*                                                                         *)
(* Recovery compares two sessions.  The crashed one, x, did things the     *)
(* recovered one, y, never hears of: whatever came before the snapshot y   *)
(* was loaded from.  So y is not x, but x without its oldest: y lags by    *)
(* its oldest a steps and b redo steps, and by the m undo entries and n    *)
(* redo entries of the wrapped stack those name (Lags).  Every journaled   *)
(* event moves both in the same way, and keeps y lagging by the same       *)
(* numbers (StackAfterAlike to RedoLags); that is what a replay rests on,  *)
(* and it is false of an append that coalesces with an entry from before   *)
(* the save, which is an edit of an old entry in x and a new one in y.     *)
(*                                                                         *)
(* The replay is therefore described ahead of the crash.  Of a live        *)
(* session the invariant says that from every snapshot it noted, through   *)
(* the journal since, every session the events can lead to lags behind     *)
(* the session there is now (SegmentsRecover).  A save adds a snapshot     *)
(* behind which everything lags, a trim takes events no kept segment has,  *)
(* and an event appends itself to every segment.  After the crash the same *)
(* fact is about the events still pending (Replaying), and when none is    *)
(* left about the session itself.                                          *)
(*                                                                         *)
(* The line is recomputed from the lists at every step, and the proof is   *)
(* that what is recomputed has moved as LinearHistory allows.  A step      *)
(* taken back is brought back to where it was (ThereAndBack), so an undo   *)
(* hands the state it leaves to the future and changes nothing behind; an  *)
(* edit adds a step that goes back to the state it was made in             *)
(* (GoesBackTo, NewestLine), and an eviction takes the farthest states     *)
(* (AboveMoves, PushedLine).  While a bracket is open the lists are not    *)
(* those of any state of the line.  The invariant then names the state it  *)
(* was opened in (OpenedFrom): the open entry of the stack leads back to   *)
(* its document (Collecting), the steps produced since to its payloads     *)
(* (Reaches), and the outermost end makes one step of both.                *)
(***************************************************************************)
EXTENDS Recovery, HistoryRefinement, HistoryProofs

-----------------------------------------------------------------------------
(* The lists of both sessions, one without the oldest of the other. *)

\* A list with n plain Scene steps more.
Lengthened(list, n, more) ==
    /\ more \in Seq(WholeStep) /\ Len(more) = Len(list) + n
    /\ \A i \in 1..Len(list) : more[i] = list[i]
    /\ \A i \in 1..n : more[Len(list) + i] = <<Scene>>

\* The one step a list of steps is folded into.
Compound(produced) == Gathered(produced, TRUE) \o Gathered(produced, FALSE)

\* What collapse_group makes of a list, when the bracket started at `at` and there is
\* no budget.
FoldedFrom(list, at) ==
    LET from == IF at > Len(list) THEN Len(list) ELSE at
    IN  IF FoldsIntoOne(Without(list, from))
        THEN Append(SubSeq(list, 1, from), Compound(Without(list, from)))
        ELSE list

\* What is folded is a step.
LEMMA CompoundStep ==
    ASSUME NEW produced \in Seq(WholeStep), FoldsIntoOne(produced)
    PROVE  Compound(produced) \in WholeStep
<1>1. Len(produced) >= 2 /\ \A i \in 1..Len(produced) : Reversible(produced[i])
  BY DEF FoldsIntoOne
<1>2. \A i \in 1..Len(produced) : produced[i] \in Seq(FreeLeaf) \ {<<>>}
  BY <1>1 DEF Reversible, WholeStep
<1>3. produced \in [1..Len(produced) -> Seq(FreeLeaf) \ {<<>>}] /\ Len(produced) \in Nat
  BY <1>2
<1>4. \A S : \A m \in Nat : [1..m -> S] \subseteq Seq(S)
  OBVIOUS
<1>5. produced \in Seq(Seq(FreeLeaf) \ {<<>>}) /\ produced # <<>>
  BY <1>1, <1>3, <1>4
<1>6. FreeLeaf \in SUBSET Leaf
  BY DEF FreeLeaf
<1>7. Compound(produced) \in Seq(FreeLeaf) \ {<<>>}
  BY <1>5, <1>6, GatheredAll DEF Compound
<1>8. QED
  BY <1>7 DEF WholeStep

\* How much more the whole list names depends on its oldest steps only.
LEMMA OldestCount ==
    ASSUME NEW s \in Seq(WholeStep), NEW t \in Seq(WholeStep), NEW a \in 0..Len(s), a \in 0..Len(t),
           \A i \in 1..a : t[i] = s[i],
           NEW m \in Nat, SceneSteps(s) = m + SceneSteps(Without(s, a))
    PROVE  SceneSteps(t) = m + SceneSteps(Without(t, a))
<1> DEFINE f == SubSeq(s, 1, a)
           g == SubSeq(t, 1, a)
           u == Without(s, a)
           v == Without(t, a)
<1>1. a \in Nat /\ s \in Seq(AnyStep) /\ t \in Seq(AnyStep)
  BY StepTypes
<1>2. u \in Seq(WholeStep) /\ v \in Seq(WholeStep)
  BY WithoutLen
<1>3. f \in Seq(WholeStep) /\ Len(f) = a /\ \A i \in 1..a : f[i] = s[i]
  BY <1>1, SubSeqProperties
<1>4. g \in Seq(WholeStep) /\ Len(g) = a /\ \A i \in 1..a : g[i] = t[i]
  BY <1>1, SubSeqProperties
<1>5. SceneSteps(s) = SceneSteps(f) + SceneSteps(u)
  BY <1>1, SceneStepsMoves
<1>6. SceneSteps(t) = SceneSteps(g) + SceneSteps(v)
  BY <1>1, SceneStepsMoves
<1>7. /\ SceneSteps(s) \in Nat /\ SceneSteps(t) \in Nat /\ SceneSteps(u) \in Nat
      /\ SceneSteps(v) \in Nat /\ SceneSteps(f) \in Nat
  BY <1>2, <1>3, SceneStepsNat
<1> HIDE DEF f, g, u, v
<1>8. f = g
  BY <1>3, <1>4, SeqEqual
<1>9. SceneSteps(s) = m + SceneSteps(u)
  BY DEF u
<1> DEFINE ns == SceneSteps(s)
           nt == SceneSteps(t)
           nu == SceneSteps(u)
           nv == SceneSteps(v)
           nf == SceneSteps(f)
<1>10. ns = nf + nu /\ nt = nf + nv /\ ns = m + nu /\ ns \in Nat /\ nt \in Nat /\ nu \in Nat
       /\ nv \in Nat /\ nf \in Nat
  BY <1>5, <1>6, <1>7, <1>8, <1>9
<1> HIDE DEF ns, nt, nu, nv, nf
<1>11. nt = m + nv
  BY <1>10
<1>12. QED
  BY <1>11 DEF nt, nv, v

\* The same steps added to both.
LEMMA LengthenedAlike ==
    ASSUME NEW s \in Seq(WholeStep), NEW a \in 0..Len(s), NEW n \in Nat, NEW q, NEW r,
           Lengthened(s, n, q), Lengthened(Without(s, a), n, r)
    PROVE  a \in 0..Len(q) /\ r = Without(q, a) /\ \A i \in 1..a : q[i] = s[i]
<1> DEFINE t == Without(s, a)
           w == Without(q, a)
           k == Len(s)
<1>1. k \in Nat /\ a \in Nat /\ a <= k /\ k = Len(s)
  OBVIOUS
<1>2. t \in Seq(WholeStep) /\ Len(t) = k - a /\ \A i \in 1..Len(t) : t[i] = s[a + i]
  BY WithoutLen, WithoutAt
<1> HIDE DEF k
<1>3. /\ q \in Seq(WholeStep) /\ Len(q) = k + n
      /\ \A i \in 1..k : q[i] = s[i]
      /\ \A i \in 1..n : q[k + i] = <<Scene>>
  BY <1>1 DEF Lengthened
<1> HIDE DEF t
<1>4. /\ r \in Seq(WholeStep) /\ Len(r) = Len(t) + n
      /\ \A i \in 1..Len(t) : r[i] = t[i]
      /\ \A i \in 1..n : r[Len(t) + i] = <<Scene>>
  BY DEF Lengthened, t
<1>5. a \in 0..Len(q)
  BY <1>1, <1>3
<1>6. w \in Seq(WholeStep) /\ Len(w) = (k + n) - a /\ \A i \in 1..Len(w) : w[i] = q[a + i]
  BY <1>3, <1>5, WithoutLen, WithoutAt
<1> HIDE DEF w
<1>7. Len(r) = Len(w)
  BY <1>1, <1>2, <1>4, <1>6
<1>8. ASSUME NEW i \in 1..Len(r) PROVE r[i] = w[i]
  <2>1. w[i] = q[a + i] /\ i \in Nat /\ i >= 1 /\ i <= (k - a) + n
    BY <1>1, <1>2, <1>4, <1>6, <1>7
  <2>2. CASE i <= k - a
    <3>1. i \in 1..Len(t) /\ a + i \in 1..k
      BY <1>1, <1>2, <2>1, <2>2
    <3>2. QED
      BY <1>2, <1>3, <1>4, <2>1, <3>1
  <2>3. CASE i > k - a
    <3> DEFINE j == i - (k - a)
    <3>1. j \in 1..n /\ i = Len(t) + j /\ a + i = k + j
      BY <1>1, <1>2, <2>1, <2>3
    <3> HIDE DEF j
    <3>2. q[k + j] = <<Scene>> /\ r[Len(t) + j] = <<Scene>>
      BY <1>3, <1>4, <3>1
    <3>3. QED
      BY <2>1, <3>1, <3>2
  <2>4. QED
    BY <1>1, <2>1, <2>2, <2>3
<1>9. r = w
  BY <1>4, <1>6, <1>7, <1>8, SeqEqual
<1>10. \A i \in 1..a : q[i] = s[i]
  BY <1>1, <1>3
<1>11. QED
  BY <1>5, <1>9, <1>10 DEF w

\* The same steps of both folded into one.
LEMMA FoldedAlike ==
    ASSUME NEW s \in Seq(WholeStep), NEW a \in 0..Len(s), NEW k \in Nat
    PROVE  /\ FoldedFrom(s, a + k) \in Seq(WholeStep)
           /\ a \in 0..Len(FoldedFrom(s, a + k))
           /\ FoldedFrom(Without(s, a), k) = Without(FoldedFrom(s, a + k), a)
           /\ \A i \in 1..a : FoldedFrom(s, a + k)[i] = s[i]
<1> DEFINE t == Without(s, a)
           n == Len(s)
           to == IF k > Len(t) THEN Len(t) ELSE k
           at == a + k
           from == IF at > n THEN n ELSE at
           left == Without(t, to)
           less == Without(s, from)
<1>1. n \in Nat /\ a \in Nat /\ a <= n /\ k \in Nat /\ n = Len(s)
  OBVIOUS
<1>2. t \in Seq(WholeStep) /\ Len(t) = n - a
  BY WithoutLen
<1>3. to \in 0..(n - a) /\ from = a + to /\ from \in 0..n /\ from \in Nat
  BY <1>1, <1>2
<1>4. left = less
  <2>1. to \in 0..(Len(s) - a)
    BY <1>1, <1>3
  <2> HIDE DEF to, from, n
  <2>2. Without(Without(s, a), to) = Without(s, a + to)
    BY <2>1, WithoutTwice
  <2>3. QED
    BY <1>3, <2>2
<1>5. FoldedFrom(s, at) = IF FoldsIntoOne(less) THEN Append(SubSeq(s, 1, from), Compound(less)) ELSE s
  BY DEF FoldedFrom
<1>6. FoldedFrom(t, k) = IF FoldsIntoOne(left) THEN Append(SubSeq(t, 1, to), Compound(left)) ELSE t
  BY DEF FoldedFrom
<1>7. less \in Seq(WholeStep)
  <2> HIDE DEF from
  <2>1. from \in 0..Len(s)
    BY <1>1, <1>3
  <2>2. QED
    BY <2>1, WithoutLen
<1> DEFINE g == FoldedFrom(s, at)
           h == FoldedFrom(t, k)
<1> HIDE DEF left, less, g, h, to, from, n
<1>8. CASE FoldsIntoOne(less)
  <2> DEFINE c == Compound(less)
             f == SubSeq(s, 1, from)
             e == SubSeq(t, 1, to)
             d == Without(f, a)
  <2>1. c \in WholeStep
    BY <1>7, <1>8, CompoundStep
  <2>2. f \in Seq(WholeStep) /\ Len(f) = from /\ \A i \in 1..from : f[i] = s[i]
    BY <1>1, <1>3, SubSeqProperties
  <2> HIDE DEF t
  <2>3. e \in Seq(WholeStep) /\ Len(e) = to /\ \A i \in 1..to : e[i] = t[i]
    BY <1>1, <1>2, <1>3, SubSeqProperties
  <2> HIDE DEF c, f, e
  <2>4. a \in 0..Len(f)
    BY <1>1, <1>3, <2>2
  <2>5. d \in Seq(WholeStep) /\ Len(d) = from - a /\ \A i \in 1..Len(d) : d[i] = f[a + i]
    BY <2>2, <2>4, WithoutLen, WithoutAt
  <2> HIDE DEF d
  <2>6. Len(d) = Len(e)
    BY <1>1, <1>3, <2>3, <2>5
  <2>7. ASSUME NEW i \in 1..Len(d) PROVE d[i] = e[i]
    <3>1. i \in 1..to /\ a + i \in 1..from /\ i \in 1..Len(t) /\ to \in Nat
      BY <1>1, <1>2, <1>3, <2>3, <2>6
    <3>2. t[i] = s[a + i]
      <4>1. i \in 1..Len(Without(s, a))
        BY <3>1 DEF t
      <4>2. Without(s, a)[i] = s[a + i]
        BY <4>1, WithoutAt
      <4>3. QED
        BY <4>2 DEF t
    <3>3. QED
      BY <2>2, <2>3, <2>5, <3>1, <3>2
  <2>8. d = e
    BY <2>3, <2>5, <2>6, <2>7, SeqEqual
  <2>9. /\ Append(f, c) \in Seq(WholeStep) /\ Len(Append(f, c)) = Len(f) + 1
        /\ a \in 0..Len(Append(f, c)) /\ Without(Append(f, c), a) = Append(Without(f, a), c)
    BY <2>1, <2>2, <2>4, WithoutAppend
  <2>10. \A i \in 1..Len(f) : Append(f, c)[i] = f[i]
    BY <2>1, <2>2, AppendProperties
  <2>11. g = Append(f, c)
    BY <1>5, <1>8 DEF g, f, c
  <2>12. h = Append(e, c)
    BY <1>4, <1>6, <1>8 DEF h, e, c
  <2>13. \A i \in 1..a : g[i] = s[i]
    <3>1. \A i \in 1..a : i \in 1..from /\ i \in 1..Len(f)
      BY <1>1, <1>3, <2>2
    <3>2. QED
      BY <2>2, <2>10, <2>11, <3>1
  <2>14. /\ g \in Seq(WholeStep) /\ a \in 0..Len(g) /\ h = Without(g, a)
    BY <2>8, <2>9, <2>11, <2>12 DEF d
  <2>15. QED
    BY <2>13, <2>14 DEF g, h, t, at
<1>9. CASE ~FoldsIntoOne(less)
  <2>1. g = s /\ h = t
    BY <1>4, <1>5, <1>6, <1>9 DEF g, h
  <2>2. QED
    BY <2>1 DEF g, h, t, at
<1>10. QED
  BY <1>8, <1>9

-----------------------------------------------------------------------------
(* A session as a record, so that two of them can be told apart. *)

SessionType ==
    [world: World, steps: Seq(WholeStep), redo: Seq(WholeStep), depth: Nat, start: Nat]

\* A journaled event leads a session x, whose resolvers find the layers `found`, to z.

Pushes(x, z, step) == z.steps = Append(x.steps, step) /\ z.redo = <<>>
SameLists(x, z) == z.steps = x.steps /\ z.redo = x.redo
SameBracket(x, z) == z.depth = x.depth /\ z.start = x.start

TurnsCommand(x, cmd, z) ==
    /\ Applicable(x.world.doc, cmd)
    /\ z.world = StackPerform(x.world, cmd)
    /\ IF Undos(z.world) > Undos(x.world) THEN Pushes(x, z, <<Scene>>) ELSE SameLists(x, z)
    /\ SameBracket(x, z)

TurnsPayload(x, event, z) ==
    /\ z.world = [x.world EXCEPT !.content[event.layer] = event.after]
    /\ Pushes(x, z, <<event>>)
    /\ SameBracket(x, z)

TurnsBegin(x, z) ==
    /\ z.world = Opened(x.world)
    /\ SameLists(x, z)
    /\ z.depth = x.depth + 1
    /\ z.start = IF x.depth = 0 THEN Len(x.steps) ELSE x.start

\* An outermost bracket that closes over n entries no step names yet.
Closes(x, z, n) ==
    /\ \E list : Lengthened(x.steps, n, list) /\ z.steps = FoldedFrom(list, x.start)
    /\ z.redo = IF n > 0 THEN <<>> ELSE x.redo

TurnsEnd(x, z) ==
    \/ x.depth = 0 /\ z = x
    \/ /\ x.depth > 0
       /\ z.world = Closed(x.world)
       /\ z.depth = x.depth - 1
       /\ z.start = x.start
       /\ x.depth > 1 => SameLists(x, z)
       /\ x.depth = 1 /\ SceneSteps(x.steps) <= Undos(z.world)
             => Closes(x, z, Undos(z.world) - SceneSteps(x.steps))

TurnsUndo(x, found, z) ==
    /\ x.steps # <<>>
    /\ ApplyStep(found, x.world, Last(x.steps), FALSE).ok
    /\ z.world = ApplyStep(found, x.world, Last(x.steps), FALSE).world
    /\ z.steps = Front(x.steps)
    /\ z.redo = Append(x.redo, Last(x.steps))
    /\ SameBracket(x, z)

TurnsRedo(x, found, z) ==
    /\ x.redo # <<>>
    /\ ApplyStep(found, x.world, Last(x.redo), TRUE).ok
    /\ z.world = ApplyStep(found, x.world, Last(x.redo), TRUE).world
    /\ z.redo = Front(x.redo)
    /\ z.steps = Append(x.steps, Last(x.redo))
    /\ SameBracket(x, z)

Turns(x, event, found, z) ==
    \/ event.kind = "Command" /\ TurnsCommand(x, event.command, z)
    \/ event.kind = "Payload" /\ TurnsPayload(x, event, z)
    \/ event.kind = "GroupBegin" /\ TurnsBegin(x, z)
    \/ event.kind = "GroupEnd" /\ TurnsEnd(x, z)
    \/ event.kind = "Undo" /\ TurnsUndo(x, found, z)
    \/ event.kind = "Redo" /\ TurnsRedo(x, found, z)

(***************************************************************************)
(* The session y, recovered so far, lags behind the crashed session x by   *)
(* what x knew when the snapshot was taken: a steps, b steps that could be *)
(* redone, m entries and n redo entries of the stack.  The a steps name    *)
(* the m entries.  A bracket inside a bracket is not journaled, so y knows *)
(* of the outermost one only.                                              *)
(***************************************************************************)
Lags(y, x, a, b, m, n) ==
    /\ a \in 0..Len(x.steps) /\ y.steps = Without(x.steps, a)
    /\ b \in 0..Len(x.redo) /\ y.redo = Without(x.redo, b)
    /\ Alike(y.world, x.world, m, n)
    /\ SceneSteps(x.steps) = m + SceneSteps(y.steps)
    /\ y.depth = (IF x.depth = 0 THEN 0 ELSE 1)
    /\ y.world.commands.depth = y.depth /\ x.world.commands.depth = x.depth
    /\ x.depth > 0 => y.world.commands.undo # <<>> /\ x.start = a + y.start

\* The steps the two have in common move together.
LEMMA StepsPushed ==
    ASSUME NEW s \in Seq(WholeStep), NEW a \in 0..Len(s), NEW m \in Nat, NEW step \in WholeStep,
           SceneSteps(s) = m + SceneSteps(Without(s, a))
    PROVE  /\ a \in 0..Len(Append(s, step))
           /\ Append(Without(s, a), step) = Without(Append(s, step), a)
           /\ SceneSteps(Append(s, step)) = m + SceneSteps(Append(Without(s, a), step))
<1> DEFINE t == Append(s, step)
<1>1. /\ t \in Seq(WholeStep) /\ Len(t) = Len(s) + 1 /\ a \in 0..Len(t)
      /\ Without(t, a) = Append(Without(s, a), step)
  BY WithoutAppend
<1>2. \A i \in 1..Len(s) : t[i] = s[i]
  BY AppendProperties
<1> HIDE DEF t
<1>3. \A i \in 1..a : t[i] = s[i]
  BY <1>2
<1>4. SceneSteps(t) = m + SceneSteps(Without(t, a))
  BY <1>1, <1>3, OldestCount
<1>5. QED
  BY <1>1, <1>4 DEF t

\* The newest of them is the newest of both.
LEMMA StepsPopped ==
    ASSUME NEW s \in Seq(WholeStep), NEW a \in 0..Len(s), NEW m \in Nat, Without(s, a) # <<>>,
           SceneSteps(s) = m + SceneSteps(Without(s, a))
    PROVE  /\ s # <<>> /\ Last(s) = Last(Without(s, a)) /\ Last(s) \in WholeStep
           /\ Last(s) \in Seq(Leaf)
           /\ a \in 0..Len(Front(s)) /\ Front(Without(s, a)) = Without(Front(s), a)
           /\ SceneSteps(Front(s)) = m + SceneSteps(Front(Without(s, a)))
<1> DEFINE t == Front(s)
<1>1. /\ s # <<>> /\ t \in Seq(WholeStep) /\ Last(s) \in WholeStep
      /\ a \in 0..Len(t) /\ Len(t) = Len(s) - 1
      /\ Last(s) = Last(Without(s, a)) /\ Without(t, a) = Front(Without(s, a))
  BY WithoutFront
<1>2. \A i \in 1..(Len(s) - 1) : t[i] = s[i]
  BY <1>1, FrontLen
<1> HIDE DEF t
<1>3. \A i \in 1..a : t[i] = s[i]
  BY <1>1, <1>2
<1>4. SceneSteps(t) = m + SceneSteps(Without(t, a))
  BY <1>1, <1>3, OldestCount
<1>5. Last(s) \in Seq(Leaf)
  BY <1>1, NewestStep
<1>6. QED
  BY <1>1, <1>4, <1>5 DEF t

\* The numbers by which a session lags are numbers.
LEMMA LagNumbers ==
    ASSUME NEW x \in SessionType, NEW y \in SessionType, NEW a, NEW b, NEW m, NEW n,
           Lags(y, x, a, b, m, n)
    PROVE  /\ a \in Nat /\ b \in Nat /\ m \in Nat /\ n \in Nat
           /\ x.world \in World /\ y.world \in World
           /\ x.steps \in Seq(WholeStep) /\ x.redo \in Seq(WholeStep)
           /\ x.depth \in Nat /\ x.start \in Nat /\ y.start \in Nat
           /\ x.world.commands.undo \in Seq(Entry) /\ x.world.commands.redo \in Seq(Entry)
<1>1. /\ x.world \in World /\ y.world \in World
      /\ x.steps \in Seq(WholeStep) /\ x.redo \in Seq(WholeStep)
      /\ x.depth \in Nat /\ x.start \in Nat /\ y.start \in Nat
  BY DEF SessionType
<1>2. x.world.commands.undo \in Seq(Entry) /\ x.world.commands.redo \in Seq(Entry)
  BY <1>1 DEF World, UndoStackType
<1>3. a \in 0..Len(x.steps) /\ b \in 0..Len(x.redo) /\ m \in 0..Len(x.world.commands.undo)
      /\ n \in 0..Len(x.world.commands.redo)
  BY DEF Lags, Alike
<1>4. QED
  BY <1>1, <1>2, <1>3

\* Nothing to redo is nothing less.
LEMMA NothingLess == 0 \in 0..Len(<<>>) /\ <<>> = Without(<<>>, 0)
<1> DEFINE none == <<>>
<1>1. none \in Seq(Entry) /\ Len(none) = 0
  OBVIOUS
<1> HIDE DEF none
<1>2. none = Without(none, 0)
  <2>1. none \in Seq(Entry)
    BY <1>1
  <2>2. Without(none, 0) = none /\ Without(none, Len(none)) = <<>>
    BY <2>1, WithoutNone
  <2>3. QED
    BY <2>2
<1>3. 0 \in 0..Len(none)
  BY <1>1
<1>4. QED
  BY <1>2, <1>3 DEF none

-----------------------------------------------------------------------------
(* An event that leads both sessions on leaves one lagging behind the other. *)

\* By the same steps, and by as many that can be redone, or none.
StillLags(v, u, a, b, m, n) == \E c \in {0, b}, k \in {0, n} : Lags(v, u, a, c, m, k)

\* Steps pushed on both, or on neither.
LEMMA ListsLag ==
    ASSUME NEW x \in SessionType, NEW y \in SessionType, NEW u \in SessionType, NEW v \in SessionType,
           NEW a, NEW b, NEW m, NEW n, Lags(y, x, a, b, m, n), NEW step \in WholeStep, NEW k \in {0, n},
           \/ SameLists(x, u) /\ SameLists(y, v)
           \/ Pushes(x, u, step) /\ Pushes(y, v, step),
           SameBracket(x, u), SameBracket(y, v), Alike(v.world, u.world, m, k),
           u.world.commands.depth = u.depth, v.world.commands.depth = v.depth,
           u.depth > 0 => v.world.commands.undo # <<>>
    PROVE  StillLags(v, u, a, b, m, n)
<1>1. /\ a \in Nat /\ b \in Nat /\ m \in Nat /\ n \in Nat
      /\ x.steps \in Seq(WholeStep) /\ x.redo \in Seq(WholeStep)
  BY LagNumbers
<1>2. /\ a \in 0..Len(x.steps) /\ y.steps = Without(x.steps, a)
      /\ b \in 0..Len(x.redo) /\ y.redo = Without(x.redo, b)
      /\ SceneSteps(x.steps) = m + SceneSteps(y.steps)
      /\ y.depth = (IF x.depth = 0 THEN 0 ELSE 1)
      /\ x.depth > 0 => x.start = a + y.start
  BY DEF Lags
<1>3. u.depth = x.depth /\ v.depth = y.depth /\ u.start = x.start /\ v.start = y.start
  BY DEF SameBracket
<1>4. CASE SameLists(x, u) /\ SameLists(y, v)
  <2>1. u.steps = x.steps /\ v.steps = y.steps /\ u.redo = x.redo /\ v.redo = y.redo
    BY <1>4 DEF SameLists
  <2>2. Lags(v, u, a, b, m, k)
    BY <1>2, <1>3, <2>1 DEF Lags
  <2>3. QED
    BY <2>2 DEF StillLags
<1>5. CASE Pushes(x, u, step) /\ Pushes(y, v, step)
  <2>1. u.steps = Append(x.steps, step) /\ v.steps = Append(y.steps, step) /\ u.redo = <<>> /\ v.redo = <<>>
    BY <1>5 DEF Pushes
  <2>2. /\ a \in 0..Len(u.steps) /\ v.steps = Without(u.steps, a)
        /\ SceneSteps(u.steps) = m + SceneSteps(v.steps)
    BY <1>1, <1>2, <2>1, StepsPushed
  <2>3. 0 \in 0..Len(u.redo) /\ v.redo = Without(u.redo, 0)
    BY <2>1, NothingLess
  <2>4. Lags(v, u, a, 0, m, k)
    BY <1>2, <1>3, <2>2, <2>3 DEF Lags
  <2>5. QED
    BY <2>4 DEF StillLags
<1>6. QED
  BY <1>4, <1>5

\* A command, unless it would coalesce with an entry that only the crashed session has.
LEMMA CommandLags ==
    ASSUME NEW x \in SessionType, NEW y \in SessionType, NEW u \in SessionType, NEW v \in SessionType,
           NEW a, NEW b, NEW m, NEW n, Lags(y, x, a, b, m, n),
           NEW cmd \in Command, m = 0 \/ cmd.op # "AppendStroke",
           TurnsCommand(x, cmd, u), TurnsCommand(y, cmd, v)
    PROVE  StillLags(v, u, a, b, m, n)
<1>1. /\ a \in Nat /\ b \in Nat /\ m \in Nat /\ n \in Nat /\ x.world \in World /\ y.world \in World
      /\ x.depth \in Nat
  BY LagNumbers
<1>2. /\ Alike(y.world, x.world, m, n)
      /\ y.depth = (IF x.depth = 0 THEN 0 ELSE 1)
      /\ y.world.commands.depth = y.depth /\ x.world.commands.depth = x.depth
      /\ x.depth > 0 => y.world.commands.undo # <<>>
  BY DEF Lags
<1>3. /\ Applicable(x.world.doc, cmd)
      /\ u.world = StackPerform(x.world, cmd) /\ v.world = StackPerform(y.world, cmd)
      /\ SameBracket(x, u) /\ SameBracket(y, v)
  BY DEF TurnsCommand
<1>4. /\ y.world.commands.depth > 0 <=> x.world.commands.depth > 0
      /\ y.world.commands.depth > 0 => y.world.commands.undo # <<>>
  BY <1>1, <1>2
<1>5. BothTake(v.world, u.world, y.world, x.world, m)
  <2>1. BothTake(StackPerform(y.world, cmd), StackPerform(x.world, cmd), y.world, x.world, m)
    BY <1>1, <1>2, <1>3, <1>4, PerformAlike
  <2>2. QED
    BY <1>3, <2>1
<1>6. /\ Alike(v.world, u.world, m, 0)
      /\ v.world.commands.depth = y.world.commands.depth /\ u.world.commands.depth = x.world.commands.depth
      /\ y.world.commands.depth > 0 => v.world.commands.undo # <<>>
      /\ Undos(v.world) > Undos(y.world) <=> Undos(u.world) > Undos(x.world)
  BY <1>5 DEF BothTake
<1>7. \/ SameLists(x, u) /\ SameLists(y, v)
      \/ Pushes(x, u, <<Scene>>) /\ Pushes(y, v, <<Scene>>)
  <2>1. CASE Undos(u.world) > Undos(x.world)
    BY <1>6, <2>1 DEF TurnsCommand
  <2>2. CASE ~(Undos(u.world) > Undos(x.world))
    BY <1>6, <2>2 DEF TurnsCommand
  <2>3. QED
    BY <2>1, <2>2
<1>8. u.depth = x.depth /\ v.depth = y.depth
  BY <1>3 DEF SameBracket
<1>9. /\ u.world.commands.depth = u.depth /\ v.world.commands.depth = v.depth
      /\ u.depth > 0 => v.world.commands.undo # <<>>
  BY <1>1, <1>2, <1>6, <1>8
<1>10. <<Scene>> \in WholeStep /\ 0 \in {0, n}
  BY StepTypes
<1>11. QED
  BY <1>3, <1>6, <1>7, <1>9, <1>10, ListsLag

\* A payload.
LEMMA PayloadLags ==
    ASSUME NEW x \in SessionType, NEW y \in SessionType, NEW u \in SessionType, NEW v \in SessionType,
           NEW a, NEW b, NEW m, NEW n, Lags(y, x, a, b, m, n),
           NEW event \in Event, event.kind = "Payload",
           TurnsPayload(x, event, u), TurnsPayload(y, event, v)
    PROVE  StillLags(v, u, a, b, m, n)
<1>1. /\ a \in Nat /\ b \in Nat /\ m \in Nat /\ n \in Nat /\ x.world \in World /\ y.world \in World
      /\ x.depth \in Nat
  BY LagNumbers
<1>2. /\ Alike(y.world, x.world, m, n)
      /\ y.depth = (IF x.depth = 0 THEN 0 ELSE 1)
      /\ y.world.commands.depth = y.depth /\ x.world.commands.depth = x.depth
      /\ x.depth > 0 => y.world.commands.undo # <<>>
  BY DEF Lags
<1> DEFINE content == [x.world.content EXCEPT ![event.layer] = event.after]
<1>3. /\ u.world = [x.world EXCEPT !.content = content]
      /\ v.world = [y.world EXCEPT !.content = [@ EXCEPT ![event.layer] = event.after]]
      /\ Pushes(x, u, <<event>>) /\ Pushes(y, v, <<event>>)
      /\ SameBracket(x, u) /\ SameBracket(y, v)
  BY DEF TurnsPayload
<1>4. v.world = [y.world EXCEPT !.content = content]
  BY <1>2, <1>3 DEF Alike
<1> HIDE DEF content
<1>5. /\ u.world.doc = x.world.doc /\ u.world.content = content /\ u.world.commands = x.world.commands
      /\ v.world.doc = y.world.doc /\ v.world.content = content /\ v.world.commands = y.world.commands
  BY <1>1, <1>3, <1>4 DEF World
<1>6. Alike(v.world, u.world, m, n)
  BY <1>2, <1>5 DEF Alike
<1>7. u.depth = x.depth /\ v.depth = y.depth
  BY <1>3 DEF SameBracket
<1>8. /\ u.world.commands.depth = u.depth /\ v.world.commands.depth = v.depth
      /\ u.depth > 0 => v.world.commands.undo # <<>>
  BY <1>1, <1>2, <1>5, <1>7
<1>9. <<event>> \in WholeStep
  <2>1. event \in [kind: {"Payload"}, layer: Layers, before: Values, after: Values]
    BY DEF Event
  <2>2. /\ event = Payload(event.layer, event.before, event.after)
        /\ event.layer \in Layers /\ event.before \in Values /\ event.after \in Values
    BY <2>1 DEF Payload
  <2>3. QED
    BY <2>2, PayloadStep
<1>10. n \in {0, n}
  OBVIOUS
<1>11. QED
  BY <1>3, <1>6, <1>8, <1>9, <1>10, ListsLag

\* The outermost bracket, opened.
LEMMA BeginLags ==
    ASSUME NEW x \in SessionType, NEW y \in SessionType, NEW u \in SessionType, NEW v \in SessionType,
           NEW a, NEW b, NEW m, NEW n, Lags(y, x, a, b, m, n), x.depth = 0,
           TurnsBegin(x, u), TurnsBegin(y, v)
    PROVE  Lags(v, u, a, b, m, n)
<1>1. /\ a \in Nat /\ b \in Nat /\ m \in Nat /\ n \in Nat /\ x.world \in World /\ y.world \in World
      /\ x.steps \in Seq(WholeStep)
  BY LagNumbers
<1>2. /\ Alike(y.world, x.world, m, n) /\ y.depth = 0
      /\ y.world.commands.depth = 0 /\ x.world.commands.depth = 0
      /\ a \in 0..Len(x.steps) /\ y.steps = Without(x.steps, a)
      /\ b \in 0..Len(x.redo) /\ y.redo = Without(x.redo, b)
      /\ SceneSteps(x.steps) = m + SceneSteps(y.steps)
  BY DEF Lags
<1>3. /\ u.world = Opened(x.world) /\ v.world = Opened(y.world)
      /\ u.steps = x.steps /\ u.redo = x.redo /\ v.steps = y.steps /\ v.redo = y.redo
      /\ u.depth = 1 /\ v.depth = 1 /\ u.start = Len(x.steps) /\ v.start = Len(y.steps)
  BY <1>2 DEF TurnsBegin, SameLists
<1>4. Alike(v.world, u.world, m, n) /\ v.world.commands.undo # <<>>
  BY <1>1, <1>2, <1>3, BeginAlike
<1>5. u.world.commands.depth = 1 /\ v.world.commands.depth = 1
  BY <1>1, <1>2, <1>3, BeginIs
<1>6. u.start = a + v.start
  <2>1. Len(y.steps) = Len(x.steps) - a /\ Len(x.steps) \in Nat
    BY <1>1, <1>2, WithoutLen
  <2>2. QED
    BY <1>1, <1>3, <2>1
<1>7. QED
  BY <1>2, <1>3, <1>4, <1>5, <1>6 DEF Lags

\* Closing it: both find as many entries that no step names yet, and fold the same steps.
LEMMA EndLags ==
    ASSUME NEW x \in SessionType, NEW y \in SessionType, NEW u \in SessionType, NEW v \in SessionType,
           NEW a, NEW b, NEW m, NEW n, Lags(y, x, a, b, m, n),
           x.depth = 1, SceneSteps(x.steps) <= Undos(u.world),
           TurnsEnd(x, u), TurnsEnd(y, v)
    PROVE  StillLags(v, u, a, b, m, n)
<1>1. /\ a \in Nat /\ b \in Nat /\ m \in Nat /\ n \in Nat /\ x.world \in World /\ y.world \in World
      /\ x.steps \in Seq(WholeStep) /\ x.redo \in Seq(WholeStep) /\ y.start \in Nat
  BY LagNumbers
<1>2. /\ Alike(y.world, x.world, m, n) /\ y.depth = 1
      /\ y.world.commands.depth = 1 /\ x.world.commands.depth = 1
      /\ a \in 0..Len(x.steps) /\ y.steps = Without(x.steps, a)
      /\ b \in 0..Len(x.redo) /\ y.redo = Without(x.redo, b)
      /\ SceneSteps(x.steps) = m + SceneSteps(y.steps)
      /\ y.world.commands.undo # <<>> /\ x.start = a + y.start
  BY DEF Lags
<1>3. /\ u.world = Closed(x.world) /\ v.world = Closed(y.world) /\ u.depth = 0 /\ v.depth = 0
  BY <1>2 DEF TurnsEnd
<1>4. Alike(v.world, u.world, m, n)
  BY <1>1, <1>2, <1>3, EndAlike
<1>5. u.world.commands.depth = 0 /\ v.world.commands.depth = 0
  BY <1>1, <1>2, <1>3, EndIs
<1> DEFINE p == Undos(u.world) - SceneSteps(x.steps)
           q == Undos(v.world) - SceneSteps(y.steps)
<1>6. p = q /\ p \in Nat /\ SceneSteps(y.steps) <= Undos(v.world)
  <2>1. u.world \in World
    BY DEF SessionType
  <2>2. /\ m \in 0..Undos(u.world) /\ v.world.commands.undo = Without(u.world.commands.undo, m)
    BY <1>4 DEF Alike, Undos
  <2>3. Undos(u.world) \in Nat /\ Undos(v.world) = Undos(u.world) - m
    <3> DEFINE all == u.world.commands.undo
    <3>1. all \in Seq(Entry) /\ m \in 0..Len(all)
      BY <2>1, <2>2 DEF World, UndoStackType, Undos
    <3> HIDE DEF all
    <3>2. Len(Without(all, m)) = Len(all) - m /\ Len(all) \in Nat
      BY <3>1, WithoutLen
    <3>3. QED
      BY <2>2, <3>2 DEF Undos, all
  <2>4. SceneSteps(x.steps) \in Nat /\ SceneSteps(y.steps) \in Nat
    <3>1. y.steps \in Seq(WholeStep)
      BY DEF SessionType
    <3>2. QED
      BY <1>1, <3>1, SceneStepsNat
  <2> DEFINE ux == Undos(u.world)
             uy == Undos(v.world)
             sx == SceneSteps(x.steps)
             sy == SceneSteps(y.steps)
  <2>5. ux \in Nat /\ uy = ux - m /\ sx \in Nat /\ sy \in Nat /\ sx = m + sy /\ sx <= ux
    BY <1>2, <2>3, <2>4
  <2> HIDE DEF ux, uy, sx, sy
  <2>6. ux - sx = uy - sy /\ ux - sx \in Nat /\ sy <= uy
    BY <1>1, <2>5
  <2>7. QED
    BY <2>6 DEF ux, uy, sx, sy
<1>7. Closes(x, u, p)
  BY DEF TurnsEnd
<1>8. Closes(y, v, q)
  BY <1>2, <1>6 DEF TurnsEnd
<1> HIDE DEF p, q
<1>9. PICK s : Lengthened(x.steps, p, s) /\ u.steps = FoldedFrom(s, x.start)
  BY <1>7 DEF Closes
<1>10. PICK t : Lengthened(y.steps, p, t) /\ v.steps = FoldedFrom(t, y.start)
  BY <1>6, <1>8 DEF Closes
<1>11. s \in Seq(WholeStep)
  BY <1>9 DEF Lengthened
<1>12. a \in 0..Len(s) /\ t = Without(s, a) /\ \A i \in 1..a : s[i] = x.steps[i]
  <2>1. Lengthened(Without(x.steps, a), p, t)
    BY <1>2, <1>10
  <2>2. QED
    BY <1>1, <1>2, <1>6, <1>9, <2>1, LengthenedAlike
<1> DEFINE g == FoldedFrom(s, a + y.start)
<1>13. /\ g \in Seq(WholeStep) /\ a \in 0..Len(g) /\ FoldedFrom(t, y.start) = Without(g, a)
       /\ \A i \in 1..a : g[i] = s[i]
  BY <1>1, <1>11, <1>12, FoldedAlike
<1>14. u.steps = g /\ v.steps = Without(g, a)
  BY <1>2, <1>9, <1>10, <1>13
<1> HIDE DEF g
<1>15. SceneSteps(g) = m + SceneSteps(Without(g, a))
  <2>1. \A i \in 1..a : g[i] = x.steps[i]
    BY <1>12, <1>13
  <2> DEFINE all == x.steps
  <2>2. /\ all \in Seq(WholeStep) /\ a \in 0..Len(all) /\ SceneSteps(all) = m + SceneSteps(Without(all, a))
        /\ \A i \in 1..a : g[i] = all[i]
    BY <1>1, <1>2, <2>1
  <2>3. g \in Seq(WholeStep) /\ a \in 0..Len(g) /\ m \in Nat
    BY <1>1, <1>13
  <2> HIDE DEF all
  <2>4. QED
    BY <2>2, <2>3, OldestCount
<1>16. CASE p > 0
  <2>1. u.redo = <<>> /\ v.redo = <<>>
    BY <1>6, <1>7, <1>8, <1>16 DEF Closes
  <2>2. 0 \in 0..Len(u.redo) /\ v.redo = Without(u.redo, 0)
    BY <2>1, NothingLess
  <2>3. Lags(v, u, a, 0, m, n)
    BY <1>3, <1>4, <1>5, <1>13, <1>14, <1>15, <2>2 DEF Lags
  <2>4. QED
    BY <2>3 DEF StillLags
<1>17. CASE ~(p > 0)
  <2>1. u.redo = x.redo /\ v.redo = y.redo
    BY <1>6, <1>7, <1>8, <1>17 DEF Closes
  <2>2. Lags(v, u, a, b, m, n)
    BY <1>2, <1>3, <1>4, <1>5, <1>13, <1>14, <1>15, <2>1 DEF Lags
  <2>3. QED
    BY <2>2 DEF StillLags
<1>18. QED
  BY <1>16, <1>17

\* An undo that took back a step both have.
LEMMA UndoLags ==
    ASSUME NEW x \in SessionType, NEW y \in SessionType, NEW u \in SessionType, NEW v \in SessionType,
           NEW a, NEW b, NEW m, NEW n, Lags(y, x, a, b, m, n), x.depth = 0, NEW f, NEW g,
           TurnsUndo(x, f, u), TurnsUndo(y, g, v)
    PROVE  Lags(v, u, a, b, m, n)
<1>1. /\ a \in Nat /\ b \in Nat /\ m \in Nat /\ n \in Nat /\ x.world \in World /\ y.world \in World
      /\ x.steps \in Seq(WholeStep) /\ x.redo \in Seq(WholeStep)
  BY LagNumbers
<1>2. /\ Alike(y.world, x.world, m, n) /\ y.depth = 0
      /\ y.world.commands.depth = 0 /\ x.world.commands.depth = 0
      /\ a \in 0..Len(x.steps) /\ y.steps = Without(x.steps, a)
      /\ b \in 0..Len(x.redo) /\ y.redo = Without(x.redo, b)
      /\ SceneSteps(x.steps) = m + SceneSteps(y.steps)
  BY DEF Lags
<1> DEFINE s == x.steps
           way == FALSE
           step == Last(y.steps)
           p == ApplyStep(f, x.world, Last(x.steps), FALSE)
           q == ApplyStep(g, y.world, Last(y.steps), FALSE)
<1>3. /\ p.ok /\ u.world = p.world /\ u.steps = Front(x.steps) /\ u.redo = Append(x.redo, Last(x.steps))
      /\ u.depth = 0 /\ u.start = x.start
  BY DEF TurnsUndo, SameBracket
<1>4. /\ q.ok /\ v.world = q.world /\ v.steps = Front(y.steps) /\ v.redo = Append(y.redo, Last(y.steps))
      /\ v.depth = 0 /\ v.start = y.start /\ y.steps # <<>>
  BY <1>2 DEF TurnsUndo, SameBracket
<1>5. /\ Last(s) = Last(Without(s, a)) /\ Last(s) \in WholeStep /\ Last(s) \in Seq(Leaf)
      /\ a \in 0..Len(Front(s)) /\ Front(Without(s, a)) = Without(Front(s), a)
      /\ SceneSteps(Front(s)) = m + SceneSteps(Front(Without(s, a)))
  <2>1. /\ s \in Seq(WholeStep) /\ a \in 0..Len(s) /\ Without(s, a) # <<>>
        /\ SceneSteps(s) = m + SceneSteps(Without(s, a))
    BY <1>1, <1>2, <1>4
  <2> HIDE DEF s
  <2>2. /\ s # <<>> /\ Last(s) = Last(Without(s, a)) /\ Last(s) \in WholeStep
        /\ Last(s) \in Seq(Leaf)
        /\ a \in 0..Len(Front(s)) /\ Front(Without(s, a)) = Without(Front(s), a)
        /\ SceneSteps(Front(s)) = m + SceneSteps(Front(Without(s, a)))
    BY <1>1, <2>1, StepsPopped
  <2>3. QED
    BY <2>2
<1>6. Last(x.steps) = step /\ step \in WholeStep /\ step \in Seq(Leaf) /\ way \in BOOLEAN
  BY <1>2, <1>5
<1>7. p = ApplyStep(f, x.world, step, way) /\ q = ApplyStep(g, y.world, step, way)
  BY <1>6
<1> HIDE DEF p, q, step, way
<1>8. Alike(q.world, p.world, m, n)
  <2>1. ApplyStep(g, y.world, step, way).ok /\ ApplyStep(f, x.world, step, way).ok
    BY <1>3, <1>4, <1>7
  <2>2. Alike(ApplyStep(g, y.world, step, way).world, ApplyStep(f, x.world, step, way).world, m, n)
    BY <1>1, <1>2, <1>6, <2>1, StepAlike
  <2>3. QED
    BY <1>7, <2>2
<1>9. p.world.commands.depth = 0 /\ q.world.commands.depth = 0
  <2>1. Moved(p.world, x.world, ScenesIn(step), way) /\ Moved(q.world, y.world, ScenesIn(step), way)
    BY <1>1, <1>3, <1>4, <1>6, <1>7, StepMoves
  <2>2. QED
    BY <1>2, <2>1 DEF Moved
<1>10. b \in 0..Len(Append(x.redo, step)) /\ Append(y.redo, step) = Without(Append(x.redo, step), b)
  <2> DEFINE all == x.redo
  <2>1. all \in Seq(WholeStep) /\ b \in 0..Len(all)
    BY <1>1, <1>2
  <2> HIDE DEF all
  <2>2. /\ Append(all, step) \in Seq(WholeStep) /\ Len(Append(all, step)) = Len(all) + 1
        /\ b \in 0..Len(Append(all, step)) /\ Without(Append(all, step), b) = Append(Without(all, b), step)
    BY <1>6, <2>1, WithoutAppend
  <2>3. QED
    BY <1>2, <2>2 DEF all
<1>11. /\ u.redo = Append(x.redo, step) /\ v.redo = Append(y.redo, step)
       /\ u.steps = Front(s) /\ v.steps = Front(Without(s, a))
  BY <1>2, <1>3, <1>4, <1>6 DEF step
<1> HIDE DEF s
<1>12. QED
  BY <1>3, <1>4, <1>5, <1>8, <1>9, <1>10, <1>11 DEF Lags

\* A redo of a step both have.
LEMMA RedoLags ==
    ASSUME NEW x \in SessionType, NEW y \in SessionType, NEW u \in SessionType, NEW v \in SessionType,
           NEW a, NEW b, NEW m, NEW n, Lags(y, x, a, b, m, n), x.depth = 0, NEW f, NEW g,
           TurnsRedo(x, f, u), TurnsRedo(y, g, v)
    PROVE  Lags(v, u, a, b, m, n)
<1>1. /\ a \in Nat /\ b \in Nat /\ m \in Nat /\ n \in Nat /\ x.world \in World /\ y.world \in World
      /\ x.steps \in Seq(WholeStep) /\ x.redo \in Seq(WholeStep)
  BY LagNumbers
<1>2. /\ Alike(y.world, x.world, m, n) /\ y.depth = 0
      /\ y.world.commands.depth = 0 /\ x.world.commands.depth = 0
      /\ a \in 0..Len(x.steps) /\ y.steps = Without(x.steps, a)
      /\ b \in 0..Len(x.redo) /\ y.redo = Without(x.redo, b)
      /\ SceneSteps(x.steps) = m + SceneSteps(y.steps)
  BY DEF Lags
<1> DEFINE s == x.redo
           way == TRUE
           step == Last(y.redo)
           p == ApplyStep(f, x.world, Last(x.redo), TRUE)
           q == ApplyStep(g, y.world, Last(y.redo), TRUE)
<1>3. /\ p.ok /\ u.world = p.world /\ u.redo = Front(x.redo) /\ u.steps = Append(x.steps, Last(x.redo))
      /\ u.depth = 0 /\ u.start = x.start
  BY DEF TurnsRedo, SameBracket
<1>4. /\ q.ok /\ v.world = q.world /\ v.redo = Front(y.redo) /\ v.steps = Append(y.steps, Last(y.redo))
      /\ v.depth = 0 /\ v.start = y.start /\ y.redo # <<>>
  BY <1>2 DEF TurnsRedo, SameBracket
<1>5. /\ Last(s) = Last(Without(s, b)) /\ Last(s) \in WholeStep /\ Last(s) \in Seq(Leaf)
      /\ b \in 0..Len(Front(s)) /\ Front(Without(s, b)) = Without(Front(s), b)
  <2>1. s \in Seq(WholeStep) /\ b \in 0..Len(s) /\ Without(s, b) # <<>>
    BY <1>1, <1>2, <1>4
  <2> HIDE DEF s
  <2>2. /\ s # <<>> /\ Front(s) \in Seq(WholeStep) /\ Last(s) \in WholeStep
        /\ b \in 0..Len(Front(s)) /\ Len(Front(s)) = Len(s) - 1
        /\ Last(s) = Last(Without(s, b)) /\ Without(Front(s), b) = Front(Without(s, b))
    BY <2>1, WithoutFront
  <2>3. Last(s) \in Seq(Leaf)
    BY <2>1, <2>2, NewestStep
  <2>4. QED
    BY <2>2, <2>3
<1>6. Last(x.redo) = step /\ step \in WholeStep /\ step \in Seq(Leaf) /\ way \in BOOLEAN
  BY <1>2, <1>5
<1>7. p = ApplyStep(f, x.world, step, way) /\ q = ApplyStep(g, y.world, step, way)
  BY <1>6
<1> HIDE DEF p, q, step, way
<1>8. Alike(q.world, p.world, m, n)
  <2>1. ApplyStep(g, y.world, step, way).ok /\ ApplyStep(f, x.world, step, way).ok
    BY <1>3, <1>4, <1>7
  <2>2. Alike(ApplyStep(g, y.world, step, way).world, ApplyStep(f, x.world, step, way).world, m, n)
    BY <1>1, <1>2, <1>6, <2>1, StepAlike
  <2>3. QED
    BY <1>7, <2>2
<1>9. p.world.commands.depth = 0 /\ q.world.commands.depth = 0
  <2>1. Moved(p.world, x.world, ScenesIn(step), way) /\ Moved(q.world, y.world, ScenesIn(step), way)
    BY <1>1, <1>3, <1>4, <1>6, <1>7, StepMoves
  <2>2. QED
    BY <1>2, <2>1 DEF Moved
<1>10. /\ a \in 0..Len(Append(x.steps, step)) /\ Append(y.steps, step) = Without(Append(x.steps, step), a)
       /\ SceneSteps(Append(x.steps, step)) = m + SceneSteps(Append(y.steps, step))
  <2> DEFINE all == x.steps
  <2>1. all \in Seq(WholeStep) /\ a \in 0..Len(all) /\ SceneSteps(all) = m + SceneSteps(Without(all, a))
    BY <1>1, <1>2
  <2> HIDE DEF all
  <2>2. /\ a \in 0..Len(Append(all, step))
        /\ Append(Without(all, a), step) = Without(Append(all, step), a)
        /\ SceneSteps(Append(all, step)) = m + SceneSteps(Append(Without(all, a), step))
    BY <1>1, <1>6, <2>1, StepsPushed
  <2>3. QED
    BY <1>2, <2>2 DEF all
<1>11. /\ u.steps = Append(x.steps, step) /\ v.steps = Append(y.steps, step)
       /\ u.redo = Front(s) /\ v.redo = Front(Without(s, b))
  BY <1>2, <1>3, <1>4, <1>6 DEF step
<1> HIDE DEF s
<1>12. QED
  BY <1>3, <1>4, <1>5, <1>8, <1>9, <1>10, <1>11 DEF Lags

\* The bracket a session is in when it journals an event: the outermost one is, and
\* what the host takes back is taken back outside of it.  When it closes, no step
\* names an entry the stack does not hold.
InOrder(x, event, z) ==
    /\ event.kind \in {"GroupBegin", "Undo", "Redo"} => x.depth = 0
    /\ event.kind = "GroupEnd" => x.depth = 1 /\ SceneSteps(x.steps) <= Undos(z.world)

\* No command of the host can coalesce with the one before.
NoStrokes == \A cmd \in HostCommands : cmd.op # "AppendStroke"

\* The session y recovers x: exactly, lists and all, or by as much as x has done since
\* the snapshot.
Recovers(y, x, exact) ==
    \E a, b, m, n : Lags(y, x, a, b, m, n) /\ (exact => a = 0 /\ b = 0 /\ m = 0 /\ n = 0)

\* What still lags recovers.
LEMMA StillRecovers ==
    ASSUME NEW u, NEW v, NEW a, NEW b, NEW m, NEW n, NEW exact \in BOOLEAN,
           StillLags(v, u, a, b, m, n), exact => a = 0 /\ b = 0 /\ m = 0 /\ n = 0
    PROVE  Recovers(v, u, exact)
<1>1. PICK c \in {0, b}, k \in {0, n} : Lags(v, u, a, c, m, k)
  BY DEF StillLags
<1>2. exact => a = 0 /\ c = 0 /\ m = 0 /\ k = 0
  BY <1>1
<1>3. QED
  BY <1>1, <1>2 DEF Recovers

\* An event both sessions take leaves the one recovering the other.
LEMMA TurnRecovers ==
    ASSUME NEW x \in SessionType, NEW y \in SessionType, NEW u \in SessionType, NEW v \in SessionType,
           NEW event \in Event, NEW exact \in BOOLEAN, exact \/ NoStrokes, NEW f, NEW g,
           Recovers(y, x, exact), Turns(x, event, f, u), InOrder(x, event, u), Turns(y, event, g, v)
    PROVE  Recovers(v, u, exact)
<1>1. PICK a, b, m, n : Lags(y, x, a, b, m, n) /\ (exact => a = 0 /\ b = 0 /\ m = 0 /\ n = 0)
  BY DEF Recovers
<1>2. StillLags(v, u, a, b, m, n)
  <2>1. CASE event.kind = "Command"
    <3>1. event.command \in HostCommands
      BY <2>1 DEF Event
    <3>2. event.command \in Command
      BY <3>1, HistoryAssumption
    <3>3. m = 0 \/ event.command.op # "AppendStroke"
      BY <1>1, <3>1 DEF NoStrokes
    <3>4. TurnsCommand(x, event.command, u) /\ TurnsCommand(y, event.command, v)
      BY <2>1 DEF Turns
    <3>5. QED
      BY <1>1, <3>2, <3>3, <3>4, CommandLags
  <2>2. CASE event.kind = "Payload"
    <3>1. TurnsPayload(x, event, u) /\ TurnsPayload(y, event, v)
      BY <2>2 DEF Turns
    <3>2. QED
      BY <1>1, <2>2, <3>1, PayloadLags
  <2>3. CASE event.kind = "GroupBegin"
    <3>1. TurnsBegin(x, u) /\ TurnsBegin(y, v) /\ x.depth = 0
      BY <2>3 DEF Turns, InOrder
    <3>2. Lags(v, u, a, b, m, n)
      BY <1>1, <3>1, BeginLags
    <3>3. QED
      BY <3>2 DEF StillLags
  <2>4. CASE event.kind = "GroupEnd"
    <3>1. TurnsEnd(x, u) /\ TurnsEnd(y, v) /\ x.depth = 1 /\ SceneSteps(x.steps) <= Undos(u.world)
      BY <2>4 DEF Turns, InOrder
    <3>2. QED
      BY <1>1, <3>1, EndLags
  <2>5. CASE event.kind = "Undo"
    <3>1. TurnsUndo(x, f, u) /\ TurnsUndo(y, g, v) /\ x.depth = 0
      BY <2>5 DEF Turns, InOrder
    <3>2. Lags(v, u, a, b, m, n)
      BY <1>1, <3>1, UndoLags
    <3>3. QED
      BY <3>2 DEF StillLags
  <2>6. CASE event.kind = "Redo"
    <3>1. TurnsRedo(x, f, u) /\ TurnsRedo(y, g, v) /\ x.depth = 0
      BY <2>6 DEF Turns, InOrder
    <3>2. Lags(v, u, a, b, m, n)
      BY <1>1, <3>1, RedoLags
    <3>3. QED
      BY <3>2 DEF StillLags
  <2>7. QED
    BY <2>1, <2>2, <2>3, <2>4, <2>5, <2>6 DEF Turns
<1>3. QED
  BY <1>1, <1>2, StillRecovers

-----------------------------------------------------------------------------
(* Replaying a segment, as the sessions it goes through. *)

Run(P, x, events, found) ==
    /\ P \in [0..Len(events) -> SessionType] /\ P[0] = x
    /\ \A i \in 1..Len(events) : Turns(P[i - 1], events[i], found, P[i])

\* The events can lead x to y.
Brings(x, events, found, y) == \E P : Run(P, x, events, found) /\ P[Len(events)] = y

\* No event leads a session to itself, and nowhere else.
LEMMA BringsNowhere ==
    ASSUME NEW x \in SessionType, NEW found
    PROVE  Brings(x, <<>>, found, x) /\ \A y : Brings(x, <<>>, found, y) => y = x
<1> DEFINE none == <<>>
<1>1. Len(none) = 0
  OBVIOUS
<1> HIDE DEF none
<1> DEFINE P == [i \in 0..0 |-> x]
<1>2. Run(P, x, none, found) /\ P[Len(none)] = x
  BY <1>1 DEF Run
<1>3. \A y : Brings(x, none, found, y) => y = x
  BY <1>1 DEF Brings, Run
<1>4. Brings(x, none, found, x)
  <2> HIDE DEF P
  <2>1. QED
    BY <1>2 DEF Brings
<1>5. QED
  BY <1>3, <1>4 DEF none

\* One event more leads on from where the others led.
LEMMA BringsOn ==
    ASSUME NEW events \in Seq(Event), NEW e \in Event, NEW x, NEW z, NEW found,
           Brings(x, Append(events, e), found, z)
    PROVE  z \in SessionType /\ \E y \in SessionType : Brings(x, events, found, y) /\ Turns(y, e, found, z)
<1> DEFINE n == Len(events)
           all == Append(events, e)
<1>1. n \in Nat /\ Len(all) = n + 1 /\ all[n + 1] = e /\ \A i \in 1..n : all[i] = events[i]
  BY AppendProperties
<1> HIDE DEF all
<1>2. PICK P : Run(P, x, all, found) /\ P[Len(all)] = z
  BY DEF Brings, all
<1>3. /\ P \in [0..(n + 1) -> SessionType] /\ P[0] = x /\ P[n + 1] = z
      /\ \A i \in 1..(n + 1) : Turns(P[i - 1], all[i], found, P[i])
  BY <1>1, <1>2 DEF Run
<1> DEFINE Q == [i \in 0..n |-> P[i]]
<1> HIDE DEF n
<1>4. /\ Q \in [0..n -> SessionType] /\ Q[0] = x /\ Q[n] = P[n]
      /\ \A i \in 1..n : Turns(Q[i - 1], events[i], found, Q[i])
  <2>1. \A i \in 0..n : i \in 0..(n + 1)
    BY <1>1
  <2>2. Q \in [0..n -> SessionType] /\ Q[0] = x /\ Q[n] = P[n]
    BY <1>1, <1>3, <2>1
  <2>3. ASSUME NEW i \in 1..n PROVE Turns(Q[i - 1], events[i], found, Q[i])
    <3>1. i \in 0..n /\ i - 1 \in 0..n /\ i \in 1..(n + 1)
      BY <1>1
    <3>2. Q[i] = P[i] /\ Q[i - 1] = P[i - 1]
      BY <3>1
    <3> HIDE DEF Q
    <3>3. QED
      BY <1>1, <1>3, <3>1, <3>2
  <2>4. QED
    BY <2>2, <2>3
<1> HIDE DEF Q
<1>5. Run(Q, x, events, found)
  BY <1>4 DEF Run, n
<1>6. Brings(x, events, found, P[n])
  BY <1>4, <1>5 DEF Brings, n
<1>7. P[n] \in SessionType /\ P[n + 1] \in SessionType
  BY <1>1, <1>3
<1>8. Turns(P[n], e, found, P[n + 1])
  <2>1. n + 1 \in 1..(n + 1) /\ (n + 1) - 1 = n
    BY <1>1
  <2>2. QED
    BY <1>1, <1>3, <2>1
<1>9. QED
  BY <1>3, <1>6, <1>7, <1>8

\* The first event and then the others.
LEMMA BringsFrom ==
    ASSUME NEW events \in Seq(Event), events # <<>>, NEW x \in SessionType, NEW w, NEW y, NEW found,
           Turns(x, Head(events), found, w), Brings(w, Tail(events), found, y)
    PROVE  Brings(x, events, found, y)
<1> DEFINE n == Len(events)
           rest == Tail(events)
<1>1. /\ n \in Nat /\ n >= 1 /\ Len(rest) = n - 1 /\ Head(events) = events[1]
      /\ \A i \in 1..(n - 1) : rest[i] = events[i + 1]
  BY HeadTailProperties
<1> HIDE DEF rest
<1>2. PICK P : Run(P, w, rest, found) /\ P[Len(rest)] = y
  BY DEF Brings, rest
<1>3. /\ P \in [0..(n - 1) -> SessionType] /\ P[0] = w /\ P[n - 1] = y
      /\ \A i \in 1..(n - 1) : Turns(P[i - 1], rest[i], found, P[i])
  BY <1>1, <1>2 DEF Run
<1> DEFINE Q == [i \in 0..n |-> IF i = 0 THEN x ELSE P[i - 1]]
<1> HIDE DEF n
<1>4. \A i \in 1..n : i - 1 \in 0..(n - 1) /\ i \in 0..n /\ i - 1 \in 0..n /\ i # 0
  BY <1>1
<1>5. Q \in [0..n -> SessionType] /\ Q[0] = x /\ Q[n] = y
  <2>1. ASSUME NEW i \in 0..n PROVE Q[i] \in SessionType
    <3>1. i = 0 \/ i \in 1..n
      BY <1>1
    <3>2. QED
      BY <1>3, <1>4, <3>1
  <2>2. n \in 0..n /\ n # 0 /\ 0 \in 0..n
    BY <1>1
  <2>3. QED
    BY <1>3, <2>1, <2>2
<1>6. ASSUME NEW i \in 1..n PROVE Turns(Q[i - 1], events[i], found, Q[i])
  <2>1. Q[i] = P[i - 1]
    BY <1>4
  <2>2. CASE i = 1
    <3>1. Q[i] = w /\ Q[i - 1] = x /\ events[i] = Head(events)
      BY <1>1, <1>3, <1>5, <2>1, <2>2
    <3>2. QED
      BY <3>1
  <2>3. CASE i # 1
    <3>1. i - 1 \in 1..(n - 1) /\ i - 1 # 0 /\ i - 1 \in 0..n /\ (i - 1) + 1 = i
      BY <1>1, <2>3
    <3>2. Q[i - 1] = P[(i - 1) - 1]
      BY <3>1
    <3>3. rest[i - 1] = events[i]
      BY <1>1, <3>1
    <3> HIDE DEF Q
    <3>4. QED
      BY <1>3, <2>1, <3>1, <3>2, <3>3
  <2>4. QED
    BY <2>2, <2>3
<1> HIDE DEF Q
<1>7. Run(Q, x, events, found) /\ Q[Len(events)] = y
  BY <1>5, <1>6 DEF Run, n
<1>8. QED
  BY <1>7 DEF Brings

-----------------------------------------------------------------------------
(* What a step does to the lists when there is no budget. *)

\* A push.
LEMMA PushIs ==
    ASSUME budget = 0, NEW lists \in ListsType, NEW commands, NEW grouping, NEW step \in WholeStep
    PROVE  LET r == Push(lists, commands, grouping, step)
           IN  /\ r \in ListsType /\ r.steps = Append(lists.steps, step)
               /\ r.redo = <<>> /\ r.dropped = lists.dropped
<1> DEFINE longer == Append(lists.steps, step)
           none == <<>>
           r == Push(lists, commands, grouping, step)
<1>1. r = [[lists EXCEPT !.steps = longer] EXCEPT !.redo = none]
  BY DEF Push, EnforceBudget
<1>2. longer \in Seq(WholeStep) /\ none \in Seq(WholeStep)
  BY DEF ListsType
<1> HIDE DEF longer, none, r
<1>3. r \in ListsType /\ r.steps = longer /\ r.redo = none /\ r.dropped = lists.dropped
  BY <1>1, <1>2 DEF ListsType
<1>4. QED
  BY <1>3 DEF longer, none, r

\* A reconciliation that adds.
LEMMA SyncIs ==
    ASSUME budget = 0, NEW lists \in ListsType, NEW commands, NEW n \in Nat,
           Len(commands.undo) \in Nat, n = Len(commands.undo) - SceneSteps(lists.steps)
    PROVE  LET r == SyncSceneSteps(lists, commands, FALSE)
           IN  /\ r \in ListsType /\ r.dropped = lists.dropped
               /\ Lengthened(lists.steps, n, r.steps)
               /\ r.redo = IF n > 0 THEN <<>> ELSE lists.redo
<1> DEFINE r == SyncSceneSteps(lists, commands, FALSE)
           s == lists.steps
           Holds(q, k) == /\ q.dropped = lists.dropped /\ Lengthened(s, k, q.steps)
                          /\ q.redo = IF k > 0 THEN <<>> ELSE lists.redo
<1>1. s \in Seq(WholeStep) /\ Len(s) \in Nat /\ SceneSteps(s) \in Nat
  BY SceneStepsNat DEF ListsType
<1>2. Holds(lists, 0)
  BY <1>1 DEF Lengthened
<1>3. CASE n = 0
  <2>1. SceneSteps(s) = Len(commands.undo) /\ FALSE \in BOOLEAN
    BY <1>1, <1>3
  <2>2. r = lists
    BY <2>1, SyncSettles
  <2> HIDE DEF r, Holds
  <2>3. r \in ListsType /\ Holds(r, n)
    BY <1>2, <1>3, <2>2
  <2>4. QED
    BY <2>3 DEF Holds, r
<1>4. CASE n > 0
  <2>1. PICK P : Adds(P, lists, commands, n, r)
    BY <1>4, SyncAdds
  <2> HIDE DEF r
  <2>2. /\ P \in [0..n -> ListsType] /\ P[0] = lists /\ P[n] = r
        /\ \A k \in 1..n : P[k] = Push(P[k - 1], commands, FALSE, <<Scene>>)
    BY <2>1 DEF Adds
  <2> DEFINE T == {k \in Nat : k <= n => Holds(P[k], k)}
  <2>3. 0 \in T
    BY <1>2, <2>2
  <2>4. \A k \in Nat : k \in T => k + 1 \in T
    <3> SUFFICES ASSUME NEW k \in Nat, k \in T, k + 1 <= n PROVE Holds(P[k + 1], k + 1)
      OBVIOUS
    <3> DEFINE p == P[k]
               q == P[k + 1]
    <3>1. k + 1 \in 1..n /\ (k + 1) - 1 = k /\ k \in 0..n /\ k <= n
      OBVIOUS
    <3>2. p \in ListsType /\ Holds(p, k) /\ <<Scene>> \in WholeStep
      BY <2>2, <3>1, StepTypes
    <3>3. q = Push(p, commands, FALSE, <<Scene>>)
      BY <2>2, <3>1
    <3> DEFINE way == FALSE
               one == <<Scene>>
    <3>4. q.steps = Append(p.steps, one) /\ q.redo = <<>> /\ q.dropped = p.dropped
      <4>1. q = Push(p, commands, way, one) /\ p \in ListsType /\ one \in WholeStep
        BY <3>2, <3>3
      <4> HIDE DEF p, q, way, one
      <4>2. LET z == Push(p, commands, way, one)
            IN  /\ z \in ListsType /\ z.steps = Append(p.steps, one)
                /\ z.redo = <<>> /\ z.dropped = p.dropped
        BY <4>1, PushIs
      <4>3. QED
        BY <4>1, <4>2
    <3> HIDE DEF p, q
    <3> DEFINE t == p.steps
               g == Append(t, <<Scene>>)
               m == Len(s)
    <3>0. m \in Nat
      BY <1>1
    <3>5. /\ t \in Seq(WholeStep) /\ Len(t) = m + k
          /\ \A i \in 1..m : t[i] = s[i]
          /\ \A i \in 1..k : t[m + i] = <<Scene>>
      BY <3>2 DEF Lengthened
    <3> HIDE DEF t, m
    <3>6. /\ g \in Seq(WholeStep) /\ Len(g) = Len(t) + 1 /\ g[Len(t) + 1] = <<Scene>>
          /\ \A i \in 1..Len(t) : g[i] = t[i]
      <4>1. t \in Seq(WholeStep) /\ <<Scene>> \in WholeStep
        BY <3>2, <3>5
      <4>2. QED
        BY <4>1, AppendProperties
    <3> HIDE DEF g
    <3>7. Len(g) = m + (k + 1) /\ \A i \in 1..m : i \in 1..Len(t)
      BY <3>0, <3>5, <3>6
    <3>8. ASSUME NEW i \in 1..(k + 1) PROVE g[m + i] = <<Scene>>
      <4>1. CASE i = k + 1
        <5>1. m + i = Len(t) + 1
          BY <3>0, <3>5, <4>1
        <5>2. QED
          BY <3>6, <5>1
      <4>2. CASE i # k + 1
        <5>1. i \in 1..k /\ m + i \in 1..Len(t)
          BY <3>0, <3>5, <4>2
        <5>2. QED
          BY <3>5, <3>6, <5>1
      <4>3. QED
        BY <4>1, <4>2
    <3>9. Lengthened(s, k + 1, g)
      BY <3>5, <3>6, <3>7, <3>8 DEF Lengthened, m
    <3>10. q.dropped = lists.dropped
      BY <3>2, <3>4
    <3>11. q.steps = g /\ q.redo = <<>> /\ k + 1 > 0
      BY <3>4 DEF g, t, one
    <3>12. QED
      BY <3>9, <3>10, <3>11 DEF q
  <2> HIDE DEF T
  <2>5. n \in T /\ n <= n
    BY <2>3, <2>4, NatSetInduction
  <2>6. Holds(P[n], n)
    BY <2>5 DEF T
  <2>7. r \in ListsType /\ Holds(r, n)
    BY <2>2, <2>6
  <2>8. QED
    BY <2>7 DEF r
<1>5. n = 0 \/ n > 0
  OBVIOUS
<1> HIDE DEF r, Holds
<1>6. QED
  BY <1>3, <1>4, <1>5

\* A fold.
LEMMA CollapseIs ==
    ASSUME budget = 0, NEW lists \in ListsType, NEW commands, start \in Nat
    PROVE  LET r == CollapseGroup(lists, commands)
           IN  /\ r.steps = FoldedFrom(lists.steps, start)
               /\ r.redo = lists.redo /\ r.dropped = lists.dropped
<1> DEFINE list     == lists.steps
           from     == IF start > Len(list) THEN Len(list) ELSE start
           produced == Without(list, from)
           compound == Gathered(produced, TRUE) \o Gathered(produced, FALSE)
           whole    == Append(SubSeq(list, 1, from), compound)
           folded   == [lists EXCEPT !.steps = whole]
           r        == CollapseGroup(lists, commands)
<1>1. r = IF FoldsIntoOne(produced) THEN folded ELSE lists
  BY DEF CollapseGroup, EnforceBudget
<1>2. FoldedFrom(list, start) = IF FoldsIntoOne(produced) THEN whole ELSE list
  BY DEF FoldedFrom, Compound
<1> HIDE DEF r, produced, whole
<1>3. folded.steps = whole /\ folded.redo = lists.redo /\ folded.dropped = lists.dropped
  BY DEF ListsType
<1> HIDE DEF folded
<1>4. CASE FoldsIntoOne(produced)
  BY <1>1, <1>2, <1>3, <1>4 DEF r
<1>5. CASE ~FoldsIntoOne(produced)
  BY <1>1, <1>2, <1>5 DEF r
<1>6. QED
  BY <1>4, <1>5

-----------------------------------------------------------------------------
(* The steps of the module, as turns of the session's record. *)

Session == [world |-> world, steps |-> steps, redo |-> redo, depth |-> depth, start |-> start]

\* Its fields.
LEMMA SessionFields ==
    /\ Session.world = world /\ Session.steps = steps /\ Session.redo = redo
    /\ Session.depth = depth /\ Session.start = start
BY DEF Session

\* It is one.
LEMMA SessionTyped ==
    ASSUME Typed
    PROVE  Session \in SessionType
BY HistoryAssumption DEF Session, SessionType, Typed

\* A performed command.
LEMMA PerformTurns ==
    ASSUME Typed, budget = 0, NEW cmd \in HostCommands, Perform(cmd)
    PROVE  /\ Turns(Session, [kind |-> "Command", command |-> cmd], present, Session')
           /\ dropped' = dropped
<1> DEFINE after == StackPerform(world, cmd)
           event == [kind |-> "Command", command |-> cmd]
           one == <<Scene>>
           more == Push(Lists, after.commands, Grouping, one)
<1>1. /\ Applicable(world.doc, cmd) /\ world' = after /\ depth' = depth /\ start' = start
      /\ SetLists(IF Undos(after) > Undos(world) THEN more ELSE Lists)
  BY DEF Perform, Undos
<1>2. /\ Lists \in ListsType /\ Lists.steps = steps /\ Lists.redo = redo /\ Lists.dropped = dropped
  BY ListsOfSession
<1>3. one \in WholeStep
  BY StepTypes
<1>4. more.steps = Append(steps, one) /\ more.redo = <<>> /\ more.dropped = dropped
  <2> DEFINE commands == after.commands
             way == Grouping
  <2> HIDE DEF commands, way, one
  <2>1. LET r == Push(Lists, commands, way, one)
        IN  /\ r \in ListsType /\ r.steps = Append(Lists.steps, one)
            /\ r.redo = <<>> /\ r.dropped = Lists.dropped
    BY <1>2, <1>3, PushIs
  <2>2. QED
    BY <1>2, <2>1 DEF commands, way
<1> HIDE DEF more, after
<1> DEFINE x == Session
           z == Session'
<1>5. /\ x.world = world /\ x.steps = steps /\ x.redo = redo /\ x.depth = depth /\ x.start = start
      /\ z.world = world' /\ z.steps = steps' /\ z.redo = redo' /\ z.depth = depth' /\ z.start = start'
  BY DEF Session
<1> HIDE DEF x, z
<1>6. IF Undos(z.world) > Undos(x.world) THEN Pushes(x, z, one) ELSE SameLists(x, z)
  <2>1. CASE Undos(after) > Undos(world)
    BY <1>1, <1>4, <1>5, <2>1 DEF Pushes, SetLists
  <2>2. CASE ~(Undos(after) > Undos(world))
    BY <1>1, <1>2, <1>5, <2>2 DEF SameLists, SetLists
  <2>3. QED
    BY <2>1, <2>2
<1>7. TurnsCommand(x, cmd, z)
  BY <1>1, <1>5, <1>6 DEF TurnsCommand, SameBracket, after
<1>8. Turns(x, event, present, z)
  BY <1>7 DEF Turns
<1>9. dropped' = dropped
  BY <1>1, <1>2, <1>4 DEF SetLists
<1>10. QED
  BY <1>8, <1>9 DEF x, z

\* A payload edited, or put back.
LEMMA PayloadTurns ==
    ASSUME Typed, budget = 0, NEW event \in Event, event.kind = "Payload",
           world' = [world EXCEPT !.content[event.layer] = event.after],
           SetLists(Push(Lists, world.commands, Grouping, <<event>>)),
           UNCHANGED <<depth, start>>
    PROVE  Turns(Session, event, present, Session') /\ dropped' = dropped
<1> DEFINE one == <<event>>
           commands == world.commands
           way == Grouping
           more == Push(Lists, commands, way, one)
<1>1. /\ Lists \in ListsType /\ Lists.steps = steps /\ Lists.redo = redo /\ Lists.dropped = dropped
  BY ListsOfSession
<1>2. one \in WholeStep
  <2>1. event \in [kind: {"Payload"}, layer: Layers, before: Values, after: Values]
    BY DEF Event
  <2>2. /\ event = Payload(event.layer, event.before, event.after)
        /\ event.layer \in Layers /\ event.before \in Values /\ event.after \in Values
    BY <2>1 DEF Payload
  <2>3. QED
    BY <2>2, PayloadStep
<1>3. SetLists(more)
  OBVIOUS
<1> HIDE DEF commands, way, one
<1>4. more.steps = Append(steps, one) /\ more.redo = <<>> /\ more.dropped = dropped
  <2>1. LET r == Push(Lists, commands, way, one)
        IN  /\ r \in ListsType /\ r.steps = Append(Lists.steps, one)
            /\ r.redo = <<>> /\ r.dropped = Lists.dropped
    BY <1>1, <1>2, PushIs
  <2>2. QED
    BY <1>1, <2>1
<1> HIDE DEF more
<1>5. steps' = Append(steps, one) /\ redo' = <<>> /\ dropped' = dropped
  BY <1>3, <1>4 DEF SetLists
<1> DEFINE x == Session
           z == Session'
<1>6. /\ x.world = world /\ x.steps = steps /\ x.redo = redo /\ x.depth = depth /\ x.start = start
      /\ z.world = world' /\ z.steps = steps' /\ z.redo = redo' /\ z.depth = depth' /\ z.start = start'
  BY DEF Session
<1> HIDE DEF x, z
<1>7. TurnsPayload(x, event, z)
  BY <1>5, <1>6 DEF TurnsPayload, SameBracket, Pushes, one
<1>8. Turns(x, event, present, z)
  BY <1>7 DEF Turns
<1>9. QED
  BY <1>5, <1>8 DEF x, z

\* A bracket opened.
LEMMA BeginTurns ==
    ASSUME Typed, BeginGroup
    PROVE  Turns(Session, Plain("GroupBegin"), present, Session')
<1> DEFINE x == Session
           z == Session'
           event == Plain("GroupBegin")
<1>1. /\ x.world = world /\ x.steps = steps /\ x.redo = redo /\ x.depth = depth /\ x.start = start
      /\ z.world = world' /\ z.steps = steps' /\ z.redo = redo' /\ z.depth = depth' /\ z.start = start'
  BY DEF Session
<1>2. /\ world' = Opened(world) /\ depth' = depth + 1 /\ steps' = steps /\ redo' = redo
      /\ start' = IF depth = 0 THEN Len(steps) ELSE start
  BY DEF BeginGroup, Opened
<1> HIDE DEF x, z
<1>3. TurnsBegin(x, z)
  BY <1>1, <1>2 DEF TurnsBegin, SameLists
<1>4. event.kind = "GroupBegin"
  BY DEF Plain
<1> HIDE DEF event
<1>5. Turns(x, event, present, z)
  BY <1>3, <1>4 DEF Turns
<1>6. QED
  BY <1>5 DEF x, z, event

\* A bracket closed.
LEMMA EndTurns ==
    ASSUME Typed, budget = 0, BracketsAgree, EndGroup
    PROVE  /\ Turns(Session, Plain("GroupEnd"), present, Session')
           /\ SceneSteps(steps) <= Undos(world') => dropped' = dropped
<1> DEFINE x == Session
           z == Session'
           event == Plain("GroupEnd")
           commands == StackEndGroup(world.commands)
           way == FALSE
           synced == SyncSceneSteps(Lists, commands, way)
           folded == CollapseGroup(synced, commands)
<1>1. /\ x.world = world /\ x.steps = steps /\ x.redo = redo /\ x.depth = depth /\ x.start = start
      /\ z.world = world' /\ z.steps = steps' /\ z.redo = redo' /\ z.depth = depth' /\ z.start = start'
  BY DEF Session
<1>2. /\ depth > 0 /\ world' = Closed(world) /\ depth' = depth - 1 /\ start' = start
      /\ depth > 1 => steps' = steps /\ redo' = redo /\ dropped' = dropped
      /\ ~(depth > 1) => SetLists(folded)
  BY DEF EndGroup, Closed
<1>3. /\ Lists \in ListsType /\ Lists.steps = steps /\ Lists.redo = redo /\ Lists.dropped = dropped
  BY ListsOfSession
<1>4. world \in World /\ depth \in Nat /\ start \in Nat /\ steps \in Seq(WholeStep)
  BY HistoryAssumption DEF Typed
<1>5. world'.commands = commands
  <2>1. Closed(world) = [world EXCEPT !.commands = commands]
    BY DEF Closed
  <2> HIDE DEF commands
  <2>2. QED
    BY <1>2, <1>4, <2>1 DEF World
<1>6. Undos(world') \in Nat /\ Undos(world') = Len(commands.undo)
  <2>1. Closed(world) \in World
    BY <1>4, EndMoves DEF Closed
  <2>2. QED
    BY <1>2, <1>5, <2>1, SizesAreNat DEF Undos
<1> HIDE DEF commands, way, folded, x, z
<1>7. ASSUME ~(depth > 1), SceneSteps(steps) <= Undos(world')
      PROVE  Closes(x, z, Undos(world') - SceneSteps(steps)) /\ dropped' = dropped
  <2> DEFINE n == Undos(world') - SceneSteps(steps)
  <2>1. n \in Nat /\ n = Len(commands.undo) - SceneSteps(Lists.steps) /\ Len(commands.undo) \in Nat
    <3>1. SceneSteps(steps) \in Nat
      BY <1>4, SceneStepsNat
    <3>2. QED
      BY <1>3, <1>6, <1>7, <3>1
  <2> HIDE DEF n, synced
  <2>2. /\ synced \in ListsType /\ synced.dropped = Lists.dropped
        /\ Lengthened(Lists.steps, n, synced.steps)
        /\ synced.redo = IF n > 0 THEN <<>> ELSE Lists.redo
    BY <1>3, <2>1, SyncIs DEF synced, way
  <2>3. /\ folded.steps = FoldedFrom(synced.steps, start)
        /\ folded.redo = synced.redo /\ folded.dropped = synced.dropped
    BY <1>4, <2>2, CollapseIs DEF folded
  <2>4. /\ z.steps = FoldedFrom(synced.steps, x.start) /\ z.redo = synced.redo /\ dropped' = dropped
    BY <1>1, <1>2, <1>3, <1>7, <2>2, <2>3 DEF SetLists
  <2>5. Closes(x, z, n)
    BY <1>1, <1>3, <2>2, <2>4 DEF Closes
  <2>6. QED
    BY <2>4, <2>5 DEF n
<1>8. TurnsEnd(x, z)
  BY <1>1, <1>2, <1>4, <1>7 DEF TurnsEnd, SameLists
<1>9. event.kind = "GroupEnd"
  BY DEF Plain
<1> HIDE DEF event
<1>10. Turns(x, event, present, z)
  BY <1>8, <1>9 DEF Turns
<1>11. QED
  BY <1>2, <1>7, <1>10 DEF x, z, event

\* A step taken back.
LEMMA TakeBackTurns ==
    ASSUME steps # <<>>, ApplyStep(present, world, Last(steps), FALSE).ok, TakeBack
    PROVE  Turns(Session, Plain("Undo"), present, Session') /\ dropped' = dropped
<1> DEFINE x == Session
           z == Session'
           event == Plain("Undo")
<1>1. /\ x.world = world /\ x.steps = steps /\ x.redo = redo /\ x.depth = depth /\ x.start = start
      /\ z.world = world' /\ z.steps = steps' /\ z.redo = redo' /\ z.depth = depth' /\ z.start = start'
  BY DEF Session
<1>2. /\ world' = ApplyStep(present, world, Last(steps), FALSE).world
      /\ steps' = Front(steps) /\ redo' = Append(redo, Last(steps))
      /\ depth' = depth /\ start' = start /\ dropped' = dropped
  BY DEF TakeBack
<1> HIDE DEF x, z
<1>3. TurnsUndo(x, present, z)
  BY <1>1, <1>2 DEF TurnsUndo, SameBracket
<1>4. event.kind = "Undo"
  BY DEF Plain
<1> HIDE DEF event
<1>5. Turns(x, event, present, z)
  BY <1>3, <1>4 DEF Turns
<1>6. QED
  BY <1>2, <1>5 DEF x, z, event

\* A step brought back.
LEMMA BringBackTurns ==
    ASSUME redo # <<>>, ApplyStep(present, world, Last(redo), TRUE).ok, BringBack
    PROVE  Turns(Session, Plain("Redo"), present, Session') /\ dropped' = dropped
<1> DEFINE x == Session
           z == Session'
           event == Plain("Redo")
<1>1. /\ x.world = world /\ x.steps = steps /\ x.redo = redo /\ x.depth = depth /\ x.start = start
      /\ z.world = world' /\ z.steps = steps' /\ z.redo = redo' /\ z.depth = depth' /\ z.start = start'
  BY DEF Session
<1>2. /\ world' = ApplyStep(present, world, Last(redo), TRUE).world
      /\ redo' = Front(redo) /\ steps' = Append(steps, Last(redo))
      /\ depth' = depth /\ start' = start /\ dropped' = dropped
  BY DEF BringBack
<1> HIDE DEF x, z
<1>3. TurnsRedo(x, present, z)
  BY <1>1, <1>2 DEF TurnsRedo, SameBracket
<1>4. event.kind = "Redo"
  BY DEF Plain
<1> HIDE DEF event
<1>5. Turns(x, event, present, z)
  BY <1>3, <1>4 DEF Turns
<1>6. QED
  BY <1>2, <1>5 DEF x, z, event

-----------------------------------------------------------------------------
(* While the session is alive: whichever of its snapshots and whatever of its *)
(* journal a crash would leave, they bring the session back.                  *)

\* A host that saves between steps: not inside a bracket, and without a command that
\* coalesces with one before the save.
SavesApart == NoStrokes /\ "snapshotInBracket" \notin Calls

\* What a snapshot is loaded as.
Loaded(image) ==
    [world |-> [doc |-> image.doc, content |-> image.content, commands |-> EmptyStack],
     steps |-> <<>>, redo |-> <<>>, depth |-> 0, start |-> 0]

\* The journal from a snapshot on.
Segment(from) == Without(journal, from - base)

\* The snapshots are of documents, taken at events of the session.
SnapshotsKnown ==
    /\ DOMAIN snapshots \subseteq 0..JournalNext
    /\ \A i \in DOMAIN snapshots : snapshots[i] \in [doc: Document, content: Contents]

\* Before its first event a session has nothing to undo.
Untouched ==
    JournalNext = 0 => steps = <<>> /\ redo = <<>> /\ world.commands = EmptyStack /\ depth = 0

SegmentsRecover ==
    \A from \in DOMAIN snapshots : \A found \in SUBSET Layers : \A y \in SessionType :
        /\ from >= base
        /\ from = 0 \/ SavesApart
        /\ Brings(Loaded(snapshots[from]), Segment(from), found, y)
        => Recovers(y, Session, from = 0)

\* A loaded snapshot is a session.
LEMMA LoadedTyped ==
    ASSUME NEW image \in [doc: Document, content: Contents]
    PROVE  Loaded(image) \in SessionType
<1> DEFINE none == <<>>
           w == [doc |-> image.doc, content |-> image.content, commands |-> EmptyStack]
<1>1. none \in Seq(WholeStep) /\ none \in Seq(Entry)
  OBVIOUS
<1>2. EmptyStack = [undo |-> none, redo |-> none, depth |-> 0]
  BY DEF EmptyStack
<1>3. Loaded(image) = [world |-> w, steps |-> none, redo |-> none, depth |-> 0, start |-> 0]
  BY DEF Loaded
<1> HIDE DEF none
<1>4. EmptyStack \in UndoStackType
  BY <1>1, <1>2 DEF UndoStackType
<1>5. w \in World
  BY <1>4 DEF World, Contents
<1> HIDE DEF w
<1>6. QED
  BY <1>1, <1>3, <1>5 DEF SessionType

\* So is what a step makes of a session.
LEMMA SessionTypedNext ==
    ASSUME Typed'
    PROVE  Session' \in SessionType
BY HistoryAssumption DEF Session, SessionType, Typed

\* An event recorded is one more event of every segment.
LEMMA SegmentGrows ==
    ASSUME RecordTyped, SnapshotsKnown, NEW event \in Event, Record(event),
           NEW from \in DOMAIN snapshots, from >= base
    PROVE  /\ Segment(from) \in Seq(Event) /\ Segment(from)' = Append(Segment(from), event)
           /\ snapshots'[from] = snapshots[from] /\ base' = base
<1>1. /\ journal' = Append(journal, event) /\ base' = base /\ snapshots' = snapshots
  BY DEF Record
<1>2. journal \in Seq(Event) /\ base \in Nat /\ from \in 0..(base + Len(journal))
  BY DEF RecordTyped, SnapshotsKnown, JournalNext
<1> DEFINE k == from - base
<1>3. k \in 0..Len(journal)
  BY <1>2
<1> HIDE DEF k
<1>4. Without(Append(journal, event), k) = Append(Without(journal, k), event)
  BY <1>2, <1>3, WithoutAppend
<1>5. Without(journal, k) \in Seq(Event)
  BY <1>2, <1>3, WithoutLen
<1>6. QED
  BY <1>1, <1>4, <1>5 DEF Segment, k

\* A journaled step.
LEMMA JournaledRecovers ==
    ASSUME Typed, Typed', SnapshotsKnown, SegmentsRecover, NEW event \in Event, Record(event),
           event.kind # "Barrier" => /\ Turns(Session, event, present, Session')
                                     /\ InOrder(Session, event, Session')
    PROVE  SnapshotsKnown' /\ Untouched' /\ SegmentsRecover'
<1>1. /\ RecordTyped /\ Session \in SessionType /\ Session' \in SessionType
  <2>1. Session' \in SessionType
    BY SessionTypedNext
  <2>2. QED
    BY <2>1, SessionTyped DEF Typed
<1>2. /\ journal' = Append(journal, event) /\ base' = base /\ snapshots' = snapshots
  BY DEF Record
<1>3. journal \in Seq(Event) /\ base \in Nat
  BY <1>1 DEF RecordTyped
<1>4. JournalNext \in Nat /\ JournalNext' = JournalNext + 1
  <2>1. Len(Append(journal, event)) = Len(journal) + 1 /\ Len(journal) \in Nat
    BY <1>3, AppendProperties
  <2>2. QED
    BY <1>2, <1>3, <2>1 DEF JournalNext
<1>5. SnapshotsKnown'
  BY <1>2, <1>4 DEF SnapshotsKnown
<1>6. Untouched'
  BY <1>4 DEF Untouched
<1>7. SegmentsRecover'
  <2> SUFFICES ASSUME NEW from \in DOMAIN snapshots', NEW found \in SUBSET Layers, NEW v \in SessionType,
                      from >= base', from = 0 \/ SavesApart,
                      Brings(Loaded(snapshots'[from]), Segment(from)', found, v)
               PROVE  Recovers(v, Session', from = 0)
    BY DEF SegmentsRecover
  <2>1. from \in DOMAIN snapshots /\ from >= base
    BY <1>2
  <2>2. /\ Segment(from) \in Seq(Event) /\ Segment(from)' = Append(Segment(from), event)
        /\ snapshots'[from] = snapshots[from]
    BY <1>1, <2>1, SegmentGrows
  <2> DEFINE seg == Segment(from)
             image == snapshots[from]
             exact == from = 0
  <2>3. Brings(Loaded(image), Append(seg, event), found, v) /\ seg \in Seq(Event)
    BY <2>2
  <2> HIDE DEF seg, image, exact
  <2>4. PICK y \in SessionType : Brings(Loaded(image), seg, found, y) /\ Turns(y, event, found, v)
    BY <2>3, BringsOn
  <2>5. event.kind # "Barrier"
    BY <2>4 DEF Turns
  <2>6. Turns(Session, event, present, Session') /\ InOrder(Session, event, Session')
    BY <2>5
  <2>7. Recovers(y, Session, exact)
    BY <2>1, <2>4 DEF SegmentsRecover, seg, image, exact
  <2>8. exact \in BOOLEAN /\ (exact \/ NoStrokes)
    BY DEF exact, SavesApart
  <2> DEFINE x == Session
             u == Session'
  <2>9. x \in SessionType /\ u \in SessionType /\ Recovers(y, x, exact)
        /\ Turns(x, event, present, u) /\ InOrder(x, event, u)
    BY <1>1, <2>6, <2>7
  <2> HIDE DEF x, u
  <2>10. Recovers(v, u, exact)
    BY <2>4, <2>8, <2>9, TurnRecovers
  <2>11. QED
    BY <2>10 DEF u, exact
<1>8. QED
  BY <1>5, <1>6, <1>7

\* A step that is not journaled and that the recovered session need not follow.
LEMMA UnseenRecovers ==
    ASSUME SnapshotsKnown, SegmentsRecover, UNCHANGED recordVars,
           \A y \in SessionType : \A exact \in BOOLEAN :
               Recovers(y, Session, exact) => Recovers(y, Session', exact)
    PROVE  SnapshotsKnown' /\ SegmentsRecover'
<1>1. journal' = journal /\ base' = base /\ snapshots' = snapshots
  BY DEF recordVars
<1>2. SnapshotsKnown'
  BY <1>1 DEF SnapshotsKnown, JournalNext
<1>3. SegmentsRecover'
  <2> SUFFICES ASSUME NEW from \in DOMAIN snapshots', NEW found \in SUBSET Layers, NEW v \in SessionType,
                      from >= base', from = 0 \/ SavesApart,
                      Brings(Loaded(snapshots'[from]), Segment(from)', found, v)
               PROVE  Recovers(v, Session', from = 0)
    BY DEF SegmentsRecover
  <2>1. Segment(from)' = Segment(from)
    BY <1>1 DEF Segment
  <2>2. Recovers(v, Session, from = 0)
    BY <1>1, <2>1 DEF SegmentsRecover
  <2>3. QED
    BY <2>2
<1>4. QED
  BY <1>2, <1>3

\* A bracket opened or closed inside the bracket.
LEMMA InnerRecovers ==
    ASSUME NEW x \in SessionType, NEW z, NEW y \in SessionType, NEW exact,
           Recovers(y, x, exact), x.depth > 0, z.depth > 0, SameLists(x, z), z.start = x.start,
           \/ z.world = Opened(x.world) /\ z.depth = x.depth + 1
           \/ z.world = Closed(x.world) /\ z.depth = x.depth - 1
    PROVE  Recovers(y, z, exact)
<1>1. PICK a, b, m, n : Lags(y, x, a, b, m, n) /\ (exact => a = 0 /\ b = 0 /\ m = 0 /\ n = 0)
  BY DEF Recovers
<1>2. /\ a \in Nat /\ b \in Nat /\ m \in Nat /\ n \in Nat /\ x.world \in World /\ y.world \in World
      /\ x.depth \in Nat
  BY <1>1, LagNumbers
<1>3. /\ Alike(y.world, x.world, m, n) /\ y.depth = 1
      /\ y.world.commands.depth = 1 /\ x.world.commands.depth = x.depth
      /\ a \in 0..Len(x.steps) /\ y.steps = Without(x.steps, a)
      /\ b \in 0..Len(x.redo) /\ y.redo = Without(x.redo, b)
      /\ SceneSteps(x.steps) = m + SceneSteps(y.steps)
      /\ y.world.commands.undo # <<>> /\ x.start = a + y.start
  BY <1>1, <1>2 DEF Lags
<1>4. z.steps = x.steps /\ z.redo = x.redo /\ z.start = x.start /\ z.depth # 0
  <2>1. z.depth # 0
    BY <1>2
  <2>2. QED
    BY <2>1 DEF SameLists
<1>5. Alike(y.world, z.world, m, n) /\ z.world.commands.depth = z.depth
  <2>1. CASE z.world = Opened(x.world) /\ z.depth = x.depth + 1
    <3>1. Alike(y.world, Opened(x.world), m, n)
      BY <1>2, <1>3, InnerAlike
    <3>2. Opened(x.world).commands.depth = x.world.commands.depth + 1
      BY <1>2, BeginIs
    <3>3. QED
      BY <1>3, <2>1, <3>1, <3>2
  <2>2. CASE z.world = Closed(x.world) /\ z.depth = x.depth - 1
    <3>1. x.world.commands.depth > 1 /\ x.world.commands.depth # 0
      BY <1>2, <1>3, <2>2
    <3>2. Alike(y.world, Closed(x.world), m, n)
      BY <1>2, <1>3, <3>1, InnerAlike
    <3>3. Closed(x.world).commands.depth = x.world.commands.depth - 1
      BY <1>2, <3>1, EndIs
    <3>4. QED
      BY <1>3, <2>2, <3>2, <3>3
  <2>3. QED
    BY <2>1, <2>2
<1>6. Lags(y, z, a, b, m, n)
  BY <1>3, <1>4, <1>5 DEF Lags
<1>7. QED
  BY <1>1, <1>6 DEF Recovers

\* A loaded snapshot lags behind the session that saved it by all the session has.
LEMMA LoadedRecovers ==
    ASSUME Typed, BracketsAgree, Counted, KeepsOrder, dropped = 0, Untouched, NEW exact \in BOOLEAN,
           ~Grouping, exact => JournalNext = 0
    PROVE  Recovers(Loaded(Image(world)), Session, exact)
<1>1. /\ world \in World /\ steps \in Seq(WholeStep) /\ redo \in Seq(WholeStep)
      /\ Undos(world) \in Nat /\ Redos(world) \in Nat /\ depth \in Nat
      /\ world.commands.depth = depth
  BY Sizes DEF BracketsAgree
<1> DEFINE a == Len(steps)
           b == Len(redo)
           m == Len(world.commands.undo)
           n == Len(world.commands.redo)
           y == Loaded(Image(world))
           x == Session
           none == <<>>
<1>2. /\ y.world.doc = world.doc /\ y.world.content = world.content
      /\ y.world.commands.undo = none /\ y.world.commands.redo = none /\ y.world.commands.depth = 0
      /\ y.steps = none /\ y.redo = none /\ y.depth = 0 /\ y.start = 0
  BY DEF Loaded, Image, EmptyStack
<1>3. x.world = world /\ x.steps = steps /\ x.redo = redo /\ x.depth = depth /\ x.start = start
  BY SessionFields
<1>4. depth = 0
  BY <1>1 DEF Grouping
<1>5. /\ a \in 0..Len(steps) /\ none = Without(steps, a)
      /\ b \in 0..Len(redo) /\ none = Without(redo, b)
  BY <1>1, WithoutNone
<1> HIDE DEF x, y
<1>6. Alike(y.world, x.world, m, n)
  <2> DEFINE undo == world.commands.undo
             more == world.commands.redo
  <2>1. undo \in Seq(Entry) /\ more \in Seq(Entry)
    BY <1>1 DEF World, UndoStackType
  <2> HIDE DEF undo, more
  <2>2. Without(undo, Len(undo)) = <<>> /\ Without(more, Len(more)) = <<>>
        /\ Len(undo) \in 0..Len(undo) /\ Len(more) \in 0..Len(more)
    BY <2>1, WithoutNone
  <2>3. /\ m \in 0..Len(world.commands.undo) /\ none = Without(world.commands.undo, m)
        /\ n \in 0..Len(world.commands.redo) /\ none = Without(world.commands.redo, n)
    BY <2>2 DEF undo, more
  <2> HIDE DEF m, n, none
  <2>4. QED
    BY <1>2, <1>3, <2>3 DEF Alike
<1>7. SceneSteps(steps) = m + SceneSteps(none)
  <2>1. SceneSteps(steps) = Entries
    BY DEF Counted
  <2>2. Entries = Undos(world) - 0
    BY DEF Entries
  <2>3. SceneSteps(none) = 0
    BY SceneStepsOfOne
  <2>4. m = Undos(world)
    BY DEF Undos
  <2>5. QED
    BY <1>1, <2>1, <2>2, <2>3, <2>4
<1> HIDE DEF none
<1>8. Lags(y, x, a, b, m, n)
  BY <1>1, <1>2, <1>3, <1>4, <1>5, <1>6, <1>7 DEF Lags
<1>9. exact => a = 0 /\ b = 0 /\ m = 0 /\ n = 0
  <2>1. ASSUME exact PROVE a = 0 /\ b = 0 /\ m = 0 /\ n = 0
    <3>1. steps = <<>> /\ redo = <<>> /\ world.commands = EmptyStack
      BY <2>1 DEF Untouched
    <3>2. QED
      BY <3>1 DEF EmptyStack
  <2>2. QED
    BY <2>1
<1> HIDE DEF a, b, m, n
<1>10. Recovers(y, x, exact)
  BY <1>8, <1>9 DEF Recovers
<1>11. QED
  BY <1>10 DEF x, y

\* A save.
LEMMA SaveRecovers ==
    ASSUME Typed, BracketsAgree, Counted, KeepsOrder, dropped = 0, Untouched,
           SnapshotsKnown, SegmentsRecover, NoteSnapshot
    PROVE  SnapshotsKnown' /\ Untouched' /\ SegmentsRecover'
<1>1. /\ Grouping => "snapshotInBracket" \in Calls
      /\ snapshots' = [i \in DOMAIN snapshots \cup {JournalNext} |->
                        IF i = JournalNext THEN Image(world) ELSE snapshots[i]]
      /\ UNCHANGED <<world, present, steps, redo, depth, start, budget, dropped, journal, base>>
  BY DEF NoteSnapshot
<1>2. /\ journal \in Seq(Event) /\ base \in Nat /\ world \in World /\ depth \in Nat
  BY HistoryAssumption DEF Typed, RecordTyped
<1>3. JournalNext \in Nat /\ JournalNext' = JournalNext /\ Session' = Session
  <2>1. Len(journal) \in Nat
    BY <1>2
  <2>2. QED
    BY <1>1, <1>2, <2>1 DEF JournalNext, Session
<1>4. Untouched'
  BY <1>1, <1>3 DEF Untouched
<1>5. Image(world) \in [doc: Document, content: Contents]
  BY <1>2 DEF Image, World, Contents
<1>6. SnapshotsKnown'
  <2>1. DOMAIN snapshots' = DOMAIN snapshots \cup {JournalNext}
    BY <1>1
  <2>2. \A i \in DOMAIN snapshots' : snapshots'[i] = IF i = JournalNext THEN Image(world) ELSE snapshots[i]
    BY <1>1
  <2>3. QED
    BY <1>3, <1>5, <2>1, <2>2 DEF SnapshotsKnown
<1>7. SegmentsRecover'
  <2> SUFFICES ASSUME NEW from \in DOMAIN snapshots', NEW found \in SUBSET Layers, NEW v \in SessionType,
                      from >= base', from = 0 \/ SavesApart,
                      Brings(Loaded(snapshots'[from]), Segment(from)', found, v)
               PROVE  Recovers(v, Session', from = 0)
    BY DEF SegmentsRecover
  <2>1. Segment(from)' = Segment(from) /\ base' = base
    BY <1>1 DEF Segment
  <2>2. CASE from # JournalNext
    <3>1. from \in DOMAIN snapshots /\ snapshots'[from] = snapshots[from]
      BY <1>1, <2>2
    <3>2. Recovers(v, Session, from = 0)
      BY <2>1, <3>1 DEF SegmentsRecover
    <3>3. QED
      BY <1>3, <3>2
  <2>3. CASE from = JournalNext
    <3> DEFINE exact == from = 0
    <3>1. snapshots'[from] = Image(world)
      BY <1>1, <2>3
    <3>2. Segment(from) = <<>>
      <4>1. from - base = Len(journal)
        BY <1>2, <2>3 DEF JournalNext
      <4>2. QED
        BY <1>2, <4>1, WithoutNone DEF Segment
    <3>3. Loaded(Image(world)) \in SessionType
      BY <1>5, LoadedTyped
    <3>4. v = Loaded(Image(world))
      <4> DEFINE x == Loaded(Image(world))
      <4>1. Segment(from)' = <<>>
        BY <2>1, <3>2
      <4>2. Brings(x, <<>>, found, v) /\ x \in SessionType
        BY <3>1, <3>3, <4>1
      <4> HIDE DEF x
      <4>3. Brings(x, <<>>, found, x) /\ \A y : Brings(x, <<>>, found, y) => y = x
        BY <4>2, BringsNowhere
      <4>4. v = x
        BY <4>2, <4>3
      <4>5. QED
        BY <4>4 DEF x
    <3>5. ~Grouping
      <4>1. CASE from = 0
        <5>1. depth = 0
          BY <2>3, <4>1 DEF Untouched
        <5>2. QED
          BY <5>1 DEF Grouping
      <4>2. CASE SavesApart
        BY <1>1, <4>2 DEF SavesApart
      <4>3. QED
        BY <4>1, <4>2
    <3>6. exact \in BOOLEAN /\ (exact => JournalNext = 0)
      BY <2>3
    <3> HIDE DEF exact
    <3>7. Recovers(Loaded(Image(world)), Session, exact)
      BY <3>5, <3>6, LoadedRecovers
    <3>8. QED
      BY <1>3, <3>4, <3>7 DEF exact
  <2>4. QED
    BY <2>2, <2>3
<1>8. QED
  BY <1>4, <1>6, <1>7

\* A journal cut short.
LEMMA TrimRecovers ==
    ASSUME Typed, Untouched, SnapshotsKnown, SegmentsRecover, NEW upto \in 1..MaxEvents, TrimJournal(upto)
    PROVE  SnapshotsKnown' /\ Untouched' /\ SegmentsRecover'
<1> DEFINE floor == IF upto > JournalNext THEN JournalNext ELSE upto
           k == floor - base
<1>1. /\ upto > base /\ journal' = Without(journal, k) /\ base' = floor
      /\ snapshots' = [i \in SnapshotsKept(floor) |-> snapshots[i]]
      /\ UNCHANGED <<world, present, steps, redo, depth, start, budget, dropped>>
  BY DEF TrimJournal
<1>2. journal \in Seq(Event) /\ base \in Nat /\ Len(journal) \in Nat /\ upto \in Nat
  BY HistoryAssumption DEF Typed, RecordTyped
<1>3. /\ JournalNext = base + Len(journal) /\ floor \in Nat /\ floor <= JournalNext /\ floor >= base
      /\ k \in 0..Len(journal) /\ floor = base + k
  BY <1>1, <1>2 DEF JournalNext
<1> HIDE DEF floor, k
<1>4. Without(journal, k) \in Seq(Event) /\ Len(Without(journal, k)) = Len(journal) - k
  BY <1>2, <1>3, WithoutLen
<1>5. JournalNext' = JournalNext /\ Session' = Session
  <2>1. JournalNext' = JournalNext
    BY <1>1, <1>2, <1>3, <1>4 DEF JournalNext
  <2>2. QED
    BY <1>1, <2>1 DEF Session
<1>6. \A i \in DOMAIN snapshots' : i \in DOMAIN snapshots /\ snapshots'[i] = snapshots[i]
  <2>1. DOMAIN snapshots' = SnapshotsKept(floor)
    BY <1>1
  <2>2. SnapshotsKept(floor) \subseteq DOMAIN snapshots
    BY DEF SnapshotsKept
  <2>3. QED
    BY <1>1, <2>1, <2>2
<1>7. Untouched'
  BY <1>1, <1>5 DEF Untouched
<1>8. SnapshotsKnown'
  BY <1>5, <1>6 DEF SnapshotsKnown
<1>9. SegmentsRecover'
  <2> SUFFICES ASSUME NEW from \in DOMAIN snapshots', NEW found \in SUBSET Layers, NEW v \in SessionType,
                      from >= base', from = 0 \/ SavesApart,
                      Brings(Loaded(snapshots'[from]), Segment(from)', found, v)
               PROVE  Recovers(v, Session', from = 0)
    BY DEF SegmentsRecover
  <2>1. from \in DOMAIN snapshots /\ snapshots'[from] = snapshots[from] /\ from \in 0..JournalNext
    BY <1>6 DEF SnapshotsKnown
  <2> DEFINE j == from - floor
  <2>2. j \in 0..(Len(journal) - k) /\ k + j = from - base /\ from >= base
    BY <1>1, <1>2, <1>3, <2>1
  <2>3. Segment(from)' = Without(Without(journal, k), j)
    BY <1>1 DEF Segment
  <2> HIDE DEF j
  <2>4. Without(Without(journal, k), j) = Without(journal, k + j)
    BY <1>2, <1>3, <2>2, WithoutTwice
  <2>5. Segment(from)' = Segment(from)
    BY <2>2, <2>3, <2>4 DEF Segment
  <2>6. Recovers(v, Session, from = 0)
    BY <2>1, <2>2, <2>5 DEF SegmentsRecover
  <2>7. QED
    BY <1>5, <2>6
<1>10. QED
  BY <1>7, <1>8, <1>9

\* A history emptied over an empty stack has no snapshots, and is untouched again.
LEMMA ClearRecovers ==
    ASSUME KeepsOrder, Clear
    PROVE  SnapshotsKnown' /\ Untouched' /\ SegmentsRecover'
<1>1. /\ steps' = <<>> /\ redo' = <<>> /\ depth' = 0 /\ journal' = <<>> /\ base' = 0
      /\ snapshots' = <<>> /\ world' = world
      /\ world.commands # EmptyStack => "clearOverCommands" \in Calls
  BY DEF Clear
<1>2. DOMAIN snapshots' = {}
  BY <1>1
<1>3. SnapshotsKnown' /\ SegmentsRecover'
  BY <1>2 DEF SnapshotsKnown, SegmentsRecover
<1>4. world.commands = EmptyStack
  BY <1>1 DEF KeepsOrder
<1>5. Untouched'
  BY <1>1, <1>4 DEF Untouched
<1>6. QED
  BY <1>3, <1>5

\* A host every step of which is in the journal and stays in the lists: no engine
\* call edits behind the journal, no budget or trim evicts, and the order is kept.
JournaledHost == EngineEdits = {} /\ Limits = {} /\ KeepsOrder

\* What is proved of it by induction.
Journaled ==
    /\ dropped = 0 /\ Untouched /\ SnapshotsKnown /\ SegmentsRecover

LiveIInv == HistoryIInv /\ Retraced /\ Journaled

\* When the outermost bracket closes, no step names an entry the stack does not hold.
LEMMA ClosingCount ==
    ASSUME Typed, BracketsAgree, Counted, depth = 1, world' = Closed(world)
    PROVE  SceneSteps(steps) <= Undos(world')
<1> DEFINE undo == world.commands.undo
<1>1. /\ world \in World /\ SceneSteps(steps) \in Nat /\ Undos(world) \in Nat
      /\ world.commands.depth = 1
  BY Sizes DEF BracketsAgree
<1>2. undo # <<>> /\ Entries = Undos(world) - 1 /\ SceneSteps(steps) <= Entries
  BY DEF Counted, Entries, Grouping
<1>3. Undos(world') = IF Last(undo) = <<>> THEN Undos(world) - 1 ELSE Undos(world)
  BY <1>1, <1>2, EndMoves DEF Closed
<1>4. QED
  BY <1>1, <1>2, <1>3

\* A session that a step does not change, for what its recovery sees.
LEMMA SameRecovers ==
    ASSUME SnapshotsKnown, SegmentsRecover, UNCHANGED recordVars,
           UNCHANGED <<world, steps, redo, depth, start>>
    PROVE  SnapshotsKnown' /\ SegmentsRecover'
<1>1. Session' = Session
  BY DEF Session
<1>2. \A y \in SessionType : \A exact \in BOOLEAN :
          Recovers(y, Session, exact) => Recovers(y, Session', exact)
  BY <1>1
<1>3. QED
  BY <1>2, UnseenRecovers

\* Each journaled step of the live session.
LEMMA EditsJournaled ==
    ASSUME JournaledHost, LiveIInv, Typed', budget = 0,
           \/ \E cmd \in HostCommands : Perform(cmd)
           \/ \E layer \in Layers, value \in Values : EditPayload(layer, value)
           \/ \E layer \in Layers, value \in Values : Unrecorded(layer, value)
    PROVE  Journaled'
<1>1. /\ Typed /\ BracketsAgree /\ Counted /\ dropped = 0 /\ SnapshotsKnown /\ SegmentsRecover
  BY DEF LiveIInv, HistoryIInv, Journaled
<1>2. ASSUME NEW cmd \in HostCommands, Perform(cmd) PROVE Journaled'
  <2> DEFINE event == [kind |-> "Command", command |-> cmd]
  <2>1. event \in Event /\ event.kind = "Command"
    BY EventTypes
  <2>2. Record(event)
    BY <1>2 DEF Perform
  <2>3. Turns(Session, event, present, Session') /\ dropped' = dropped
    BY <1>1, <1>2, PerformTurns
  <2> HIDE DEF event
  <2>4. InOrder(Session, event, Session')
    BY <2>1 DEF InOrder
  <2>5. SnapshotsKnown' /\ Untouched' /\ SegmentsRecover'
    BY <1>1, <2>1, <2>2, <2>3, <2>4, JournaledRecovers
  <2>6. QED
    BY <1>1, <2>3, <2>5 DEF Journaled
<1>3. ASSUME NEW layer \in Layers, NEW value \in Values, EditPayload(layer, value) PROVE Journaled'
  <2> DEFINE old == world.content[layer]
             event == Payload(layer, old, value)
  <2>1. old \in Values
    BY <1>1 DEF Typed, World
  <2>2. event \in Event /\ event.kind = "Payload" /\ event.layer = layer /\ event.after = value
    BY <2>1, EventTypes DEF Payload
  <2>3. /\ Record(event) /\ world' = [world EXCEPT !.content[layer] = value]
        /\ SetLists(Push(Lists, world.commands, Grouping, <<event>>))
        /\ UNCHANGED <<depth, start>>
    BY <1>3 DEF EditPayload
  <2> HIDE DEF event
  <2>4. Turns(Session, event, present, Session') /\ dropped' = dropped
    BY <1>1, <2>2, <2>3, PayloadTurns
  <2>5. InOrder(Session, event, Session')
    BY <2>2 DEF InOrder
  <2>6. SnapshotsKnown' /\ Untouched' /\ SegmentsRecover'
    BY <1>1, <2>2, <2>3, <2>4, <2>5, JournaledRecovers
  <2>7. QED
    BY <1>1, <2>4, <2>6 DEF Journaled
<1>4. ASSUME NEW layer \in Layers, NEW value \in Values, Unrecorded(layer, value) PROVE Journaled'
  <2> DEFINE event == Plain("Barrier")
             one == <<Barrier>>
             commands == world.commands
             way == Grouping
  <2>1. event \in Event /\ event.kind = "Barrier"
    BY EventTypes DEF Plain
  <2>2. Record(event) /\ SetLists(Push(Lists, commands, way, one))
    BY <1>4 DEF Unrecorded
  <2>3. one \in WholeStep /\ Lists \in ListsType /\ Lists.dropped = dropped
    BY <1>1, StepTypes, ListsOfSession
  <2> HIDE DEF event, one, commands, way
  <2>4. LET r == Push(Lists, commands, way, one)
        IN  /\ r \in ListsType /\ r.steps = Append(Lists.steps, one)
            /\ r.redo = <<>> /\ r.dropped = Lists.dropped
    BY <2>3, PushIs
  <2>5. dropped' = 0
    BY <1>1, <2>2, <2>3, <2>4 DEF SetLists
  <2>6. SnapshotsKnown' /\ Untouched' /\ SegmentsRecover'
    BY <1>1, <2>1, <2>2, JournaledRecovers
  <2>7. QED
    BY <2>5, <2>6 DEF Journaled
<1>5. QED
  BY <1>2, <1>3, <1>4

\* Brackets: the outermost is journaled, and one inside it is not.
LEMMA BracketsJournaled ==
    ASSUME JournaledHost, LiveIInv, Typed', budget = 0, BeginGroup \/ EndGroup
    PROVE  Journaled'
<1>1. /\ Typed /\ BracketsAgree /\ Counted /\ dropped = 0 /\ Untouched /\ SnapshotsKnown /\ SegmentsRecover
  BY DEF LiveIInv, HistoryIInv, Journaled
<1>2. depth \in Nat /\ Session \in SessionType /\ Session' \in SessionType
  BY <1>1, HistoryAssumption, SessionTyped, SessionTypedNext DEF Typed
<1> DEFINE x == Session
           z == Session'
<1>3. /\ x.world = world /\ x.steps = steps /\ x.redo = redo /\ x.depth = depth /\ x.start = start
      /\ z.world = world' /\ z.steps = steps' /\ z.redo = redo' /\ z.depth = depth' /\ z.start = start'
  BY DEF Session
<1> HIDE DEF x, z
<1>4. ASSUME depth > 0, depth' > 0, UNCHANGED <<steps, redo, start, dropped, recordVars>>,
             \/ world' = Opened(world) /\ depth' = depth + 1
             \/ world' = Closed(world) /\ depth' = depth - 1
      PROVE  Journaled'
  <2>1. \A y \in SessionType : \A exact \in BOOLEAN :
            Recovers(y, Session, exact) => Recovers(y, Session', exact)
    <3> SUFFICES ASSUME NEW y \in SessionType, NEW exact \in BOOLEAN, Recovers(y, x, exact)
                 PROVE  Recovers(y, z, exact)
      BY DEF x, z
    <3>1. /\ x.depth > 0 /\ z.depth > 0 /\ SameLists(x, z) /\ z.start = x.start
          /\ \/ z.world = Opened(x.world) /\ z.depth = x.depth + 1
             \/ z.world = Closed(x.world) /\ z.depth = x.depth - 1
      BY <1>3, <1>4 DEF SameLists
    <3>2. x \in SessionType
      BY <1>2 DEF x
    <3>3. QED
      BY <3>1, <3>2, InnerRecovers
  <2>2. UNCHANGED recordVars
    BY <1>4
  <2>3. SnapshotsKnown' /\ SegmentsRecover'
    BY <1>1, <2>1, <2>2, UnseenRecovers
  <2>4. JournalNext' = JournalNext /\ JournalNext # 0
    BY <1>1, <1>4 DEF Untouched, JournalNext, recordVars
  <2>5. QED
    BY <1>1, <1>4, <2>3, <2>4 DEF Journaled, Untouched
<1>5. CASE BeginGroup
  <2>1. /\ world' = Opened(world) /\ depth' = depth + 1
        /\ start' = IF depth = 0 THEN Len(steps) ELSE start
        /\ UNCHANGED <<steps, redo, dropped>>
        /\ IF depth = 0 THEN Record(Plain("GroupBegin")) ELSE UNCHANGED recordVars
    BY <1>5 DEF BeginGroup, Opened
  <2>2. CASE depth = 0
    <3> DEFINE event == Plain("GroupBegin")
    <3>1. event \in Event /\ event.kind = "GroupBegin"
      BY EventTypes DEF Plain
    <3>2. Turns(Session, event, present, Session')
      BY <1>1, <1>5, BeginTurns
    <3>3. Record(event)
      BY <2>1, <2>2
    <3> HIDE DEF event
    <3>4. InOrder(Session, event, Session')
      BY <1>3, <2>2, <3>1 DEF InOrder, x
    <3>5. SnapshotsKnown' /\ Untouched' /\ SegmentsRecover'
      BY <1>1, <3>1, <3>2, <3>3, <3>4, JournaledRecovers
    <3>6. QED
      BY <1>1, <2>1, <3>5 DEF Journaled
  <2>3. CASE depth # 0
    <3>1. depth > 0 /\ depth' > 0
      BY <1>2, <2>1, <2>3
    <3>2. UNCHANGED <<steps, redo, start, dropped, recordVars>>
      BY <2>1, <2>3
    <3>3. QED
      BY <1>4, <2>1, <3>1, <3>2
  <2>4. QED
    BY <2>2, <2>3
<1>6. CASE EndGroup
  <2>1. /\ depth > 0 /\ world' = Closed(world) /\ depth' = depth - 1 /\ start' = start
        /\ depth > 1 => UNCHANGED <<steps, redo, dropped, recordVars>>
        /\ ~(depth > 1) => Record(Plain("GroupEnd"))
    BY <1>6 DEF EndGroup, Closed
  <2>2. CASE depth > 1
    <3>1. depth > 0 /\ depth' > 0
      BY <1>2, <2>1, <2>2
    <3>2. UNCHANGED <<steps, redo, start, dropped, recordVars>>
      BY <2>1, <2>2
    <3>3. QED
      BY <1>4, <2>1, <3>1, <3>2
  <2>3. CASE ~(depth > 1)
    <3> DEFINE event == Plain("GroupEnd")
    <3>1. event \in Event /\ event.kind = "GroupEnd"
      BY EventTypes DEF Plain
    <3>2. depth = 1
      BY <1>2, <2>1, <2>3
    <3>3. SceneSteps(steps) <= Undos(world')
      BY <1>1, <2>1, <3>2, ClosingCount
    <3>4. Turns(Session, event, present, Session') /\ dropped' = dropped
      BY <1>1, <1>6, <3>3, EndTurns
    <3>5. Record(event)
      BY <2>1, <2>3
    <3> HIDE DEF event
    <3>6. InOrder(Session, event, Session')
      BY <1>3, <3>1, <3>2, <3>3 DEF InOrder, x, z
    <3>7. SnapshotsKnown' /\ Untouched' /\ SegmentsRecover'
      BY <1>1, <3>1, <3>4, <3>5, <3>6, JournaledRecovers
    <3>8. QED
      BY <1>1, <3>4, <3>7 DEF Journaled
  <2>4. QED
    BY <2>2, <2>3
<1>7. QED
  BY <1>5, <1>6

\* An undo: taken back and journaled, or refused and nothing at all.
LEMMA UndoJournaled ==
    ASSUME JournaledHost, LiveIInv, Typed', Undo
    PROVE  Journaled'
<1> DEFINE event == Plain("Undo")
<1>1. /\ Typed /\ dropped = 0 /\ Untouched /\ SnapshotsKnown /\ SegmentsRecover /\ Retraced
  BY DEF LiveIInv, HistoryIInv, Journaled
<1>2. /\ steps # <<>> /\ TakeBack /\ depth = 0
  <2>1. ~Grouping
    BY DEF Undo, JournaledHost, KeepsOrder
  <2>2. depth \in Nat
    BY <1>1, HistoryAssumption DEF Typed
  <2>3. QED
    BY <2>1, <2>2 DEF Undo, CanUndo, Grouping
<1>3. event \in Event /\ event.kind = "Undo"
  BY EventTypes DEF Plain
<1>4. CASE ApplyStep(present, world, Last(steps), FALSE).ok
  <2>1. Record(event)
    BY <1>2, <1>4 DEF TakeBack
  <2>2. Turns(Session, event, present, Session') /\ dropped' = dropped
    BY <1>2, <1>4, TakeBackTurns
  <2> HIDE DEF event
  <2>3. InOrder(Session, event, Session')
    BY <1>2, <1>3, SessionFields DEF InOrder
  <2>4. SnapshotsKnown' /\ Untouched' /\ SegmentsRecover'
    BY <1>1, <1>3, <2>1, <2>2, <2>3, JournaledRecovers
  <2>5. QED
    BY <1>1, <2>2, <2>4 DEF Journaled
<1>5. CASE ~ApplyStep(present, world, Last(steps), FALSE).ok
  <2>1. UNCHANGED <<steps, redo, recordVars, depth, start, dropped>>
    BY <1>2, <1>5 DEF TakeBack
  <2>2. world' = world
    BY <1>1, <2>1, UndoRetraces
  <2>3. UNCHANGED recordVars /\ UNCHANGED <<world, steps, redo, depth, start>>
    BY <2>1, <2>2
  <2>4. SnapshotsKnown' /\ SegmentsRecover'
    BY <1>1, <2>3, SameRecovers
  <2>5. QED
    BY <1>1, <2>1, <2>3, <2>4 DEF Journaled, Untouched, JournalNext, recordVars
<1>6. QED
  BY <1>4, <1>5

\* A redo.
LEMMA RedoJournaled ==
    ASSUME JournaledHost, LiveIInv, Typed', Redo
    PROVE  Journaled'
<1> DEFINE event == Plain("Redo")
<1>1. /\ Typed /\ dropped = 0 /\ Untouched /\ SnapshotsKnown /\ SegmentsRecover /\ Retraced
  BY DEF LiveIInv, HistoryIInv, Journaled
<1>2. /\ redo # <<>> /\ BringBack /\ depth = 0
  <2>1. ~Grouping
    BY DEF Redo, JournaledHost, KeepsOrder
  <2>2. depth \in Nat
    BY <1>1, HistoryAssumption DEF Typed
  <2>3. QED
    BY <2>1, <2>2 DEF Redo, CanRedo, Grouping
<1>3. event \in Event /\ event.kind = "Redo"
  BY EventTypes DEF Plain
<1>4. CASE ApplyStep(present, world, Last(redo), TRUE).ok
  <2>1. Record(event)
    BY <1>2, <1>4 DEF BringBack
  <2>2. Turns(Session, event, present, Session') /\ dropped' = dropped
    BY <1>2, <1>4, BringBackTurns
  <2> HIDE DEF event
  <2>3. InOrder(Session, event, Session')
    BY <1>2, <1>3, SessionFields DEF InOrder
  <2>4. SnapshotsKnown' /\ Untouched' /\ SegmentsRecover'
    BY <1>1, <1>3, <2>1, <2>2, <2>3, JournaledRecovers
  <2>5. QED
    BY <1>1, <2>2, <2>4 DEF Journaled
<1>5. CASE ~ApplyStep(present, world, Last(redo), TRUE).ok
  <2>1. UNCHANGED <<steps, redo, recordVars, depth, start, dropped>>
    BY <1>2, <1>5 DEF BringBack
  <2>2. world' = world
    BY <1>1, <2>1, RedoRetraces
  <2>3. UNCHANGED recordVars /\ UNCHANGED <<world, steps, redo, depth, start>>
    BY <2>1, <2>2
  <2>4. SnapshotsKnown' /\ SegmentsRecover'
    BY <1>1, <2>3, SameRecovers
  <2>5. QED
    BY <1>1, <2>1, <2>3, <2>4 DEF Journaled, Untouched, JournalNext, recordVars
<1>6. QED
  BY <1>4, <1>5

\* Every step of the live session.
LEMMA LiveNext ==
    ASSUME JournaledHost, LiveIInv, [Next]_vars
    PROVE  LiveIInv'
<1>1. /\ Typed /\ BracketsAgree /\ Counted /\ Retraced
      /\ dropped = 0 /\ Untouched /\ SnapshotsKnown /\ SegmentsRecover
  BY DEF LiveIInv, HistoryIInv, Journaled
<1>2. ClearsSafely /\ ClosesFirst /\ KeepsOrder /\ budget = 0
  BY <1>1 DEF JournaledHost, KeepsOrder, ClearsSafely, ClosesFirst, Typed
<1>3. Typed' /\ BracketsAgree' /\ Counted' /\ Retraced'
  BY <1>1, <1>2, TypedNext, BracketsNext, CountedNext, RetracedNext
<1>4. ASSUME UNCHANGED <<world, steps, redo, depth, start, dropped, recordVars>> PROVE Journaled'
  <2>1. UNCHANGED recordVars /\ UNCHANGED <<world, steps, redo, depth, start>>
    BY <1>4
  <2>2. SnapshotsKnown' /\ SegmentsRecover'
    BY <1>1, <2>1, SameRecovers
  <2>3. QED
    BY <1>1, <1>4, <2>2 DEF Journaled, Untouched, JournalNext, recordVars
<1>5. ASSUME Clear PROVE Journaled'
  <2>1. SnapshotsKnown' /\ Untouched' /\ SegmentsRecover'
    BY <1>2, <1>5, ClearRecovers
  <2>2. QED
    BY <1>5, <2>1 DEF Journaled, Clear
<1>6. ASSUME NoteSnapshot PROVE Journaled'
  <2>1. SnapshotsKnown' /\ Untouched' /\ SegmentsRecover'
    BY <1>1, <1>2, <1>6, SaveRecovers
  <2>2. QED
    BY <1>1, <1>6, <2>1 DEF Journaled, NoteSnapshot
<1>7. ASSUME NEW upto \in 1..MaxEvents, TrimJournal(upto) PROVE Journaled'
  <2>1. SnapshotsKnown' /\ Untouched' /\ SegmentsRecover'
    BY <1>1, <1>7, TrimRecovers
  <2>2. QED
    BY <1>1, <1>7, <2>1 DEF Journaled, TrimJournal
<1>8. ASSUME NEW layer \in Layers, ResolverChanges(layer) PROVE Journaled'
  BY <1>4, <1>8 DEF ResolverChanges
<1>9. ASSUME UNCHANGED vars PROVE Journaled'
  <2>1. UNCHANGED <<world, steps, redo, depth, start, dropped, recordVars>>
    BY <1>9 DEF vars
  <2>2. QED
    BY <1>4, <2>1
<1>10. ASSUME \/ \E cmd \in HostCommands : Perform(cmd)
              \/ \E layer \in Layers, value \in Values : EditPayload(layer, value)
              \/ \E layer \in Layers, value \in Values : Unrecorded(layer, value)
       PROVE  Journaled'
  BY <1>2, <1>3, <1>10, EditsJournaled
<1>11. ASSUME BeginGroup \/ EndGroup PROVE Journaled'
  BY <1>2, <1>3, <1>11, BracketsJournaled
<1>12. ASSUME Undo PROVE Journaled'
  BY <1>3, <1>12, UndoJournaled
<1>13. ASSUME Redo PROVE Journaled'
  BY <1>3, <1>13, RedoJournaled
<1>14. ~(\E cmds \in EngineEdits : EngineEdit(cmds))
       /\ ~(\E limit \in Limits : SetBudget(limit) \/ TrimTo(limit))
  BY DEF JournaledHost
<1>15. ASSUME Next PROVE Journaled'
  BY <1>5, <1>6, <1>7, <1>8, <1>10, <1>11, <1>12, <1>13, <1>14, <1>15 DEF Next
<1>16. Journaled'
  BY <1>9, <1>15
<1>17. QED
  BY <1>3, <1>16 DEF LiveIInv, HistoryIInv

-----------------------------------------------------------------------------
(* The recovery. *)

\* The typing of a replayed step the live session takes only under its own guards.
LEMMA ReplayPayloadTyped ==
    ASSUME Typed, NEW event \in Event, event.kind = "Payload", ReplayPayload(event)
    PROVE  Typed'
<1>1. /\ world \in World /\ present \subseteq Layers /\ depth \in 0..MaxDepth /\ start \in Nat
      /\ budget \in Limits \cup {0} /\ RecordTyped
  BY DEF Typed
<1> DEFINE layer == event.layer
           value == event.after
           content == [world.content EXCEPT ![layer] = value]
           one == <<event>>
           lists == Push(Lists, world.commands, Grouping, one)
<1>2. /\ world' = [world EXCEPT !.content = content] /\ Record(event) /\ SetLists(lists)
      /\ UNCHANGED <<present, depth, start, budget>>
  BY DEF ReplayPayload
<1>3. /\ event = Payload(event.layer, event.before, event.after)
      /\ layer \in Layers /\ event.before \in Values /\ value \in Values
  <2>1. event \in [kind: {"Payload"}, layer: Layers, before: Values, after: Values]
    BY DEF Event
  <2>2. QED
    BY <2>1 DEF Payload
<1>4. one \in WholeStep
  BY <1>3, PayloadStep
<1>5. content \in [Layers -> Values]
  BY <1>1, <1>3 DEF World
<1> HIDE DEF layer, value, content, one
<1>6. world' \in World
  BY <1>1, <1>2, <1>5 DEF World
<1>7. lists \in ListsType
  <2>1. Lists \in ListsType /\ Grouping \in BOOLEAN
    BY ListsOfSession DEF Grouping
  <2>2. QED
    BY <1>4, <2>1, PushPushes DEF Pushed
<1> HIDE DEF lists
<1>8. RecordTyped' /\ steps' \in Seq(WholeStep) /\ redo' \in Seq(WholeStep) /\ dropped' \in Nat
  BY <1>1, <1>2, <1>7, RecordKeeps, ListsSet
<1>9. QED
  BY <1>1, <1>2, <1>6, <1>8 DEF Typed

\* A step taken back, inside a bracket or not.
LEMMA TakeBackTyped ==
    ASSUME Typed, BracketsAgree, steps # <<>>, ApplyStep(present, world, Last(steps), FALSE).ok, TakeBack
    PROVE  Typed' /\ BracketsAgree' /\ budget' = budget
<1> DEFINE r == ApplyStep(present, world, Last(steps), FALSE)
<1>1. /\ world \in World /\ present \subseteq Layers /\ depth \in 0..MaxDepth /\ start \in Nat
      /\ budget \in Limits \cup {0} /\ RecordTyped
      /\ steps \in Seq(WholeStep) /\ redo \in Seq(WholeStep) /\ dropped \in Nat
  BY DEF Typed
<1>2. /\ r.ok /\ world' = r.world /\ steps' = Front(steps) /\ redo' = Append(redo, Last(steps))
      /\ Record(Plain("Undo")) /\ UNCHANGED <<present, depth, start, budget, dropped>>
  BY DEF TakeBack
<1>3. Front(steps) \in Seq(WholeStep) /\ Last(steps) \in WholeStep /\ Last(steps) \in Seq(Leaf)
  BY <1>1, NewestStep
<1>4. r \in StepResult /\ Moved(r.world, world, ScenesIn(Last(steps)), FALSE)
  BY <1>1, <1>2, <1>3, StepMoves
<1> HIDE DEF r
<1>5. world' \in World /\ BracketsAgree'
  BY <1>2, <1>4 DEF StepResult, Moved, BracketsAgree
<1>6. Append(redo, Last(steps)) \in Seq(WholeStep)
  BY <1>1, <1>3, AppendProperties
<1>7. RecordTyped'
  BY <1>1, <1>2, EventTypes, RecordKeeps
<1>8. QED
  BY <1>1, <1>2, <1>3, <1>5, <1>6, <1>7 DEF Typed

\* A step brought back, inside a bracket or not.
LEMMA BringBackTyped ==
    ASSUME Typed, BracketsAgree, redo # <<>>, ApplyStep(present, world, Last(redo), TRUE).ok, BringBack
    PROVE  Typed' /\ BracketsAgree' /\ budget' = budget
<1> DEFINE r == ApplyStep(present, world, Last(redo), TRUE)
<1>1. /\ world \in World /\ present \subseteq Layers /\ depth \in 0..MaxDepth /\ start \in Nat
      /\ budget \in Limits \cup {0} /\ RecordTyped
      /\ steps \in Seq(WholeStep) /\ redo \in Seq(WholeStep) /\ dropped \in Nat
  BY DEF Typed
<1>2. /\ r.ok /\ world' = r.world /\ redo' = Front(redo) /\ steps' = Append(steps, Last(redo))
      /\ Record(Plain("Redo")) /\ UNCHANGED <<present, depth, start, budget, dropped>>
  BY DEF BringBack
<1>3. Front(redo) \in Seq(WholeStep) /\ Last(redo) \in WholeStep /\ Last(redo) \in Seq(Leaf)
  BY <1>1, NewestStep
<1>4. r \in StepResult /\ Moved(r.world, world, ScenesIn(Last(redo)), TRUE)
  BY <1>1, <1>2, <1>3, StepMoves
<1> HIDE DEF r
<1>5. world' \in World /\ BracketsAgree'
  BY <1>2, <1>4 DEF StepResult, Moved, BracketsAgree
<1>6. Append(steps, Last(redo)) \in Seq(WholeStep)
  BY <1>1, <1>3, AppendProperties
<1>7. RecordTyped'
  BY <1>1, <1>2, EventTypes, RecordKeeps
<1>8. QED
  BY <1>1, <1>2, <1>3, <1>5, <1>6, <1>7 DEF Typed

\* A replayed event is a turn of the session that replays it.
LEMMA ReplayTurns ==
    ASSUME ClearsSafely, Typed, BracketsAgree, budget = 0, NEW event \in Event, ~Refused(event), Replayed(event)
    PROVE  /\ Turns(Session, event, present, Session') /\ present' = present
           /\ Typed' /\ BracketsAgree' /\ budget' = 0
<1>1. ASSUME event.kind = "Command", Perform(event.command)
      PROVE  /\ Turns(Session, event, present, Session') /\ present' = present
             /\ Typed' /\ BracketsAgree' /\ budget' = 0
  <2>1. event.command \in HostCommands /\ event = [kind |-> "Command", command |-> event.command]
    BY <1>1 DEF Event
  <2>2. Turns(Session, event, present, Session')
    BY <1>1, <2>1, PerformTurns
  <2>3. Typed' /\ BracketsAgree'
    BY <1>1, <2>1, PerformTyped, PerformKeepsBrackets
  <2>4. present' = present /\ budget' = budget
    BY <1>1 DEF Perform
  <2>5. QED
    BY <2>2, <2>3, <2>4
<1>2. ASSUME event.kind = "Payload", ReplayPayload(event)
      PROVE  /\ Turns(Session, event, present, Session') /\ present' = present
             /\ Typed' /\ BracketsAgree' /\ budget' = 0
  <2>1. /\ world' = [world EXCEPT !.content[event.layer] = event.after]
        /\ SetLists(Push(Lists, world.commands, Grouping, <<event>>))
        /\ UNCHANGED <<present, depth, start, budget>>
    BY <1>2 DEF ReplayPayload
  <2>2. Turns(Session, event, present, Session')
    BY <1>2, <2>1, PayloadTurns
  <2>3. Typed'
    BY <1>2, ReplayPayloadTyped
  <2>4. BracketsAgree'
    <3>1. world \in World
      BY DEF Typed
    <3>2. QED
      BY <2>1, <3>1 DEF BracketsAgree, World
  <2>5. QED
    BY <2>1, <2>2, <2>3, <2>4
<1>3. ASSUME event.kind = "GroupBegin", BeginGroup
      PROVE  /\ Turns(Session, event, present, Session') /\ present' = present
             /\ Typed' /\ BracketsAgree' /\ budget' = 0
  <2>1. event = Plain("GroupBegin")
    BY <1>3 DEF Event, Plain
  <2>2. Turns(Session, event, present, Session')
    BY <1>3, <2>1, BeginTurns
  <2>3. Typed' /\ BracketsAgree'
    <3>1. Next
      BY <1>3 DEF Next
    <3>2. QED
      BY <3>1, TypedNext, BracketsNext
  <2>4. present' = present /\ budget' = budget
    BY <1>3 DEF BeginGroup
  <2>5. QED
    BY <2>2, <2>3, <2>4
<1>4. ASSUME event.kind = "GroupEnd", ReplayGroupEnd
      PROVE  /\ Turns(Session, event, present, Session') /\ present' = present
             /\ Typed' /\ BracketsAgree' /\ budget' = 0
  <2>1. event = Plain("GroupEnd")
    BY <1>4 DEF Event, Plain
  <2>2. ASSUME EndGroup
        PROVE  /\ Turns(Session, event, present, Session') /\ present' = present
               /\ Typed' /\ BracketsAgree' /\ budget' = 0
    <3>1. Turns(Session, event, present, Session')
      BY <2>1, <2>2, EndTurns
    <3>2. Typed' /\ BracketsAgree'
      <4>1. Next
        BY <2>2 DEF Next
      <4>2. QED
        BY <4>1, TypedNext, BracketsNext
    <3>3. present' = present /\ budget' = budget
      BY <2>2 DEF EndGroup
    <3>4. QED
      BY <3>1, <3>2, <3>3
  <2>3. ASSUME ~Grouping, UNCHANGED vars
        PROVE  /\ Turns(Session, event, present, Session') /\ present' = present
               /\ Typed' /\ BracketsAgree' /\ budget' = 0
    <3>1. UNCHANGED <<world, steps, redo, depth, start, dropped, recordVars, present, budget>>
      BY <2>3 DEF vars
    <3>2. Session' = Session
      BY <3>1 DEF Session
    <3>3. Session.depth = 0
      <4>1. depth \in Nat
        BY HistoryAssumption DEF Typed
      <4>2. QED
        BY <2>3, <4>1 DEF Grouping, Session
    <3> DEFINE x == Session
               z == Session'
    <3>4. x.depth = 0 /\ z = x
      BY <3>2, <3>3
    <3> HIDE DEF x, z
    <3>5. TurnsEnd(x, z)
      BY <3>4 DEF TurnsEnd
    <3>6. Turns(x, event, present, z)
      BY <1>4, <3>5 DEF Turns
    <3>7. Typed' /\ BracketsAgree'
      BY <3>1, TypedNext DEF BracketsAgree, vars
    <3>8. QED
      BY <3>1, <3>6, <3>7 DEF x, z
  <2>4. QED
    BY <1>4, <2>2, <2>3 DEF ReplayGroupEnd
<1>5. ASSUME event.kind = "Undo", TakeBack
      PROVE  /\ Turns(Session, event, present, Session') /\ present' = present
             /\ Typed' /\ BracketsAgree' /\ budget' = 0
  <2>1. event = Plain("Undo")
    BY <1>5 DEF Event, Plain
  <2>2. CanUndo /\ ApplyStep(present, world, Last(steps), FALSE).ok
    BY <1>5 DEF Refused
  <2>3. steps # <<>>
    BY <2>2 DEF CanUndo
  <2>4. Turns(Session, event, present, Session')
    BY <1>5, <2>1, <2>2, <2>3, TakeBackTurns
  <2>5. Typed' /\ BracketsAgree' /\ budget' = budget
    BY <1>5, <2>2, <2>3, TakeBackTyped
  <2>6. present' = present
    BY <1>5 DEF TakeBack
  <2>7. QED
    BY <2>4, <2>5, <2>6
<1>6. ASSUME event.kind = "Redo", BringBack
      PROVE  /\ Turns(Session, event, present, Session') /\ present' = present
             /\ Typed' /\ BracketsAgree' /\ budget' = 0
  <2>1. event = Plain("Redo")
    BY <1>6 DEF Event, Plain
  <2>2. CanRedo /\ ApplyStep(present, world, Last(redo), TRUE).ok
    BY <1>6 DEF Refused
  <2>3. redo # <<>>
    BY <2>2 DEF CanRedo
  <2>4. Turns(Session, event, present, Session')
    BY <1>6, <2>1, <2>2, <2>3, BringBackTurns
  <2>5. Typed' /\ BracketsAgree' /\ budget' = budget
    BY <1>6, <2>2, <2>3, BringBackTyped
  <2>6. present' = present
    BY <1>6 DEF BringBack
  <2>7. QED
    BY <2>4, <2>5, <2>6
<1>7. QED
  BY <1>1, <1>2, <1>3, <1>4, <1>5, <1>6 DEF Replayed

\* What a recovered session owes the crashed one: its document and payloads, and, of
\* a journal kept from the first event, its lists.
HandsBack(y) ==
    /\ Image(y.world) = lost.image
    /\ lost.from = 0 => y.steps = lost.steps /\ y.redo = lost.redo

\* It owes that when the journal names its snapshot, and what was saved apart from
\* a stroke and outside a bracket, or nothing was saved but the start.
Owed == lost.named /\ (lost.from = 0 \/ SavesApart)

\* Every way the pending events can still go leads to what is owed.
Replaying ==
    /\ Typed /\ BracketsAgree /\ budget = 0 /\ pending \in Seq(Event)
    /\ Owed => \A y \in SessionType : Brings(Session, pending, present, y) => HandsBack(y)

\* The inductive invariant of a session, its crash and its recovery.
RecoveryIInv ==
    /\ phase \in {"live", "replaying", "recovered"}
    /\ phase = "live" => LiveIInv /\ outcome = "none"
    /\ phase = "replaying" => Replaying /\ outcome = "none"
    /\ phase = "recovered" => (outcome = "complete" /\ Owed => HandsBack(Session))

\* It holds at the start.
LEMMA RecoveryStarts ==
    ASSUME RecoveryInit
    PROVE  RecoveryIInv
<1>1. Init /\ phase = "live" /\ outcome = "none"
  BY DEF RecoveryInit
<1>2. Typed /\ Retraced
  BY <1>1, TypedInit, RetracedInit
<1>3. HistoryIInv
  BY <1>1, HistoryStarts
<1>4. /\ world.commands = EmptyStack /\ steps = <<>> /\ redo = <<>> /\ depth = 0 /\ dropped = 0
      /\ snapshots = <<>>
  BY <1>1 DEF Init
<1>5. DOMAIN snapshots = {}
  BY <1>4
<1>6. Journaled
  BY <1>4, <1>5 DEF Journaled, Untouched, SnapshotsKnown, SegmentsRecover
<1>7. QED
  BY <1>1, <1>2, <1>3, <1>6 DEF RecoveryIInv, LiveIInv

\* A recovered session that lags behind the crashed one has its document; one that
\* lags by nothing has its lists.
LEMMA RecoversHandsBack ==
    ASSUME NEW x \in SessionType, NEW y \in SessionType, NEW exact \in BOOLEAN, Recovers(y, x, exact)
    PROVE  /\ y.world.doc = x.world.doc /\ y.world.content = x.world.content
           /\ exact => y.steps = x.steps /\ y.redo = x.redo
<1>1. PICK a, b, m, n : Lags(y, x, a, b, m, n) /\ (exact => a = 0 /\ b = 0 /\ m = 0 /\ n = 0)
  BY DEF Recovers
<1>2. y.world.doc = x.world.doc /\ y.world.content = x.world.content
  BY <1>1 DEF Lags, Alike
<1>3. x.steps \in Seq(WholeStep) /\ x.redo \in Seq(WholeStep)
  BY DEF SessionType
<1>4. y.steps = Without(x.steps, a) /\ y.redo = Without(x.redo, b)
  BY <1>1 DEF Lags
<1>5. Without(x.steps, 0) = x.steps /\ Without(x.redo, 0) = x.redo
  BY <1>3, WithoutNone
<1>6. QED
  BY <1>1, <1>2, <1>4, <1>5

\* The snapshot a journal names is the newest at or before its start, so that a
\* segment from where one was taken names that one.
LEMMA NamedSnapshot ==
    ASSUME SnapshotsKnown, base \in Nat, journal \in Seq(Event), NEW from \in DOMAIN snapshots
    PROVE  SnapshotFor(from) = snapshots[from]
<1> DEFINE before == {i \in DOMAIN snapshots : i <= from}
<1>1. \A i \in DOMAIN snapshots : i \in Nat
  <2>1. JournalNext \in Nat
    <3>1. Len(journal) \in Nat
      OBVIOUS
    <3>2. QED
      BY <3>1 DEF JournalNext
  <2>2. QED
    BY <2>1 DEF SnapshotsKnown
<1>2. from \in before /\ \A j \in before : j <= from
  BY <1>1
<1>3. \A i \in before : (\A j \in before : j <= i) => i = from
  BY <1>1, <1>2
<1> DEFINE newest == CHOOSE i \in before : \A j \in before : j <= i
<1>4. newest \in before /\ \A j \in before : j <= newest
  <2> HIDE DEF before
  <2>1. QED
    BY <1>2
<1>5. newest = from
  BY <1>3, <1>4
<1>6. QED
  BY <1>2, <1>5 DEF SnapshotFor

\* The crash, for what the journal kept leads to.
LEMMA CrashRecovers ==
    ASSUME LiveIInv, NEW at \in DOMAIN snapshots, NEW from \in DOMAIN snapshots, Crash(at, from)
    PROVE  RecoveryIInv'
<1> DEFINE image == snapshots[at]
           segment == JournalSince(from)
<1>1. /\ Typed /\ SnapshotsKnown /\ SegmentsRecover /\ RecordTyped
      /\ journal \in Seq(Event) /\ base \in Nat /\ present \subseteq Layers
  BY DEF LiveIInv, HistoryIInv, Journaled, Typed, RecordTyped
<1>2. /\ from >= base
      /\ lost' = [image |-> Image(world), steps |-> steps, redo |-> redo, from |-> from,
                  named |-> at = from \/ segment.stamp # NoSnapshot]
      /\ world' = [doc |-> image.doc, content |-> image.content, commands |-> EmptyStack]
      /\ steps' = <<>> /\ redo' = <<>> /\ depth' = 0 /\ start' = 0 /\ budget' = 0 /\ dropped' = 0
      /\ journal' = <<>> /\ base' = 0 /\ DOMAIN snapshots' = {0} /\ present' = present
  BY DEF Crash
<1>3. CASE ~Matches(segment.stamp, image)
  <2>1. phase' = "recovered" /\ outcome' = "mismatch"
    BY <1>3 DEF Crash
  <2>2. QED
    BY <2>1 DEF RecoveryIInv
<1>4. CASE Matches(segment.stamp, image)
  <2>1. phase' = "replaying" /\ outcome' = "none" /\ pending' = segment.events
    BY <1>4 DEF Crash
  <2>2. image \in [doc: Document, content: Contents]
    BY <1>1 DEF SnapshotsKnown
  <2>3. Session' = Loaded(image) /\ Session' \in SessionType
    <3>1. Session' = Loaded(image)
      BY <1>2 DEF Session, Loaded
    <3>2. QED
      BY <2>2, <3>1, LoadedTyped
  <2>4. segment.events = Segment(from) /\ Segment(from) \in Seq(Event)
    <3>1. from \in 0..JournalNext /\ Len(journal) \in Nat
      BY <1>1 DEF SnapshotsKnown
    <3> DEFINE k == from - base
    <3>2. k \in 0..Len(journal) /\ (from < JournalNext <=> k < Len(journal))
      BY <1>1, <1>2, <3>1 DEF JournalNext
    <3> HIDE DEF k
    <3>3. Without(journal, k) \in Seq(Event) /\ Without(journal, Len(journal)) = <<>>
      BY <1>1, <3>2, WithoutLen, WithoutNone
    <3>4. CASE from >= JournalNext
      <4>1. k = Len(journal) /\ segment.events = <<>>
        BY <1>1, <3>1, <3>2, <3>4 DEF JournalSince, JournalNext
      <4>2. QED
        BY <3>3, <4>1 DEF Segment, k
    <3>5. CASE ~(from >= JournalNext)
      <4>1. ~(from < base)
        BY <1>1, <1>2, <3>1
      <4>2. segment.events = Without(journal, k)
        BY <3>5, <4>1 DEF JournalSince, k
      <4>3. QED
        BY <3>3, <4>2 DEF Segment, k
    <3>6. QED
      BY <3>4, <3>5
  <2>5. Typed' /\ BracketsAgree' /\ budget' = 0
    <3>1. world' = Session'.world /\ Session'.world \in World
      BY <2>3 DEF Session, SessionType
    <3>2. steps' \in Seq(WholeStep) /\ redo' \in Seq(WholeStep) /\ journal' \in Seq(Event)
          /\ Len(journal') = 0
      BY <1>2
    <3>3. RecordTyped'
      BY <1>2, <3>2, HistoryAssumption DEF RecordTyped
    <3>4. BracketsAgree'
      BY <1>2 DEF BracketsAgree, EmptyStack
    <3>5. QED
      BY <1>1, <1>2, <3>1, <3>2, <3>3, <3>4, HistoryAssumption DEF Typed
  <2>6. ASSUME Owed' PROVE \A y \in SessionType : Brings(Session', pending', present', y) => HandsBack(y)'
    <3>1. lost'.named /\ (lost'.from = 0 \/ SavesApart) /\ lost'.from = from
      BY <1>2, <2>6 DEF Owed
    <3>2. image = snapshots[from]
      <4>1. CASE at = from
        BY <4>1
      <4>2. CASE segment.stamp # NoSnapshot
        <5>1. segment.stamp = SnapshotFor(from)
          BY <4>2 DEF JournalSince
        <5>2. segment.stamp = image
          BY <1>4, <4>2 DEF Matches
        <5>3. QED
          BY <1>1, <5>1, <5>2, NamedSnapshot
      <4>3. QED
        BY <1>2, <3>1, <4>1, <4>2
    <3> SUFFICES ASSUME NEW y \in SessionType, Brings(Session', pending', present', y)
                 PROVE  HandsBack(y)'
      OBVIOUS
    <3>3. Brings(Loaded(snapshots[from]), Segment(from), present, y)
      BY <1>2, <2>1, <2>3, <2>4, <3>2
    <3>4. Recovers(y, Session, from = 0)
      BY <1>1, <1>2, <3>1, <3>3 DEF SegmentsRecover
    <3> DEFINE exact == from = 0
               x == Session
    <3>5. x \in SessionType /\ x.world = world /\ x.steps = steps /\ x.redo = redo
      BY <1>1, SessionTyped, SessionFields
    <3>6. exact \in BOOLEAN /\ Recovers(y, x, exact)
      BY <3>4
    <3> HIDE DEF exact, x
    <3>7. /\ y.world.doc = x.world.doc /\ y.world.content = x.world.content
          /\ exact => y.steps = x.steps /\ y.redo = x.redo
      BY <3>5, <3>6, RecoversHandsBack
    <3>8. /\ lost'.image = Image(world) /\ lost'.steps = steps /\ lost'.redo = redo
      BY <1>2
    <3>9. Image(y.world) = Image(world)
      BY <3>5, <3>7 DEF Image
    <3>10. QED
      BY <3>1, <3>5, <3>7, <3>8, <3>9 DEF HandsBack, exact
  <2>7. pending' \in Seq(Event)
    BY <2>1, <2>4
  <2>8. Replaying'
    BY <2>5, <2>6, <2>7 DEF Replaying
  <2>9. QED
    BY <2>1, <2>8 DEF RecoveryIInv
<1>5. QED
  BY <1>3, <1>4

\* An event replayed leads where the rest leads.
LEMMA ReplayRecovers ==
    ASSUME ClearsSafely, RecoveryIInv, ReplayEvent
    PROVE  RecoveryIInv'
<1> DEFINE event == Head(pending)
<1>1. /\ phase = "replaying" /\ pending # <<>> /\ ~Refused(event) /\ Replayed(event)
      /\ pending' = Tail(pending) /\ UNCHANGED <<phase, outcome, lost>>
  BY DEF ReplayEvent
<1>2. Replaying /\ outcome = "none"
  BY <1>1 DEF RecoveryIInv
<1>3. Typed /\ BracketsAgree /\ budget = 0 /\ pending \in Seq(Event)
  BY <1>2 DEF Replaying
<1>4. event \in Event /\ Tail(pending) \in Seq(Event)
  BY <1>1, <1>3, HeadTailProperties
<1>5. /\ Turns(Session, event, present, Session') /\ present' = present
      /\ Typed' /\ BracketsAgree' /\ budget' = 0
  <2> HIDE DEF event
  <2>1. QED
    BY <1>1, <1>3, <1>4, ReplayTurns
<1>6. ASSUME Owed' PROVE \A y \in SessionType : Brings(Session', pending', present', y) => HandsBack(y)'
  <2> SUFFICES ASSUME NEW y \in SessionType, Brings(Session', pending', present', y)
               PROVE  HandsBack(y)'
    OBVIOUS
  <2> DEFINE x == Session
             w == Session'
             events == pending
             found == present
  <2>1. /\ x \in SessionType /\ events \in Seq(Event) /\ events # <<>>
        /\ Turns(x, Head(events), found, w) /\ Brings(w, Tail(events), found, y)
    BY <1>1, <1>3, <1>5, SessionTyped
  <2> HIDE DEF x, w, events, found
  <2>2. Brings(x, events, found, y)
    BY <2>1, BringsFrom
  <2>3. HandsBack(y)
    BY <1>1, <1>2, <1>6, <2>2 DEF Replaying, x, events, found, Owed
  <2>4. QED
    BY <1>1, <2>3 DEF HandsBack
<1>7. Replaying'
  BY <1>1, <1>4, <1>5, <1>6 DEF Replaying
<1>8. QED
  BY <1>1, <1>2, <1>7 DEF RecoveryIInv

\* The end of the replay: when nothing is pending, the session is where they led.
LEMMA ReplayEndRecovers ==
    ASSUME RecoveryIInv, ReplayEnds
    PROVE  RecoveryIInv'
<1>1. /\ phase = "replaying" /\ phase' = "recovered" /\ UNCHANGED <<vars, pending, lost>>
      /\ outcome' = "complete" => pending = <<>>
  BY DEF ReplayEnds
<1>2. Replaying
  BY <1>1 DEF RecoveryIInv
<1>3. Session' = Session
  BY <1>1 DEF Session, vars
<1>4. ASSUME outcome' = "complete", Owed' PROVE HandsBack(Session)'
  <2>1. Session \in SessionType /\ Owed
    BY <1>1, <1>2, <1>4, SessionTyped DEF Replaying, Owed
  <2>2. Brings(Session, pending, present, Session)
    <3> DEFINE x == Session
               found == present
    <3>1. x \in SessionType
      BY <2>1
    <3> HIDE DEF x, found
    <3>2. Brings(x, <<>>, found, x)
      BY <3>1, BringsNowhere
    <3>3. QED
      BY <1>1, <1>4, <3>2 DEF x, found
  <2>3. HandsBack(Session)
    BY <1>2, <2>1, <2>2 DEF Replaying
  <2>4. QED
    BY <1>1, <1>3, <2>3 DEF HandsBack
<1>5. QED
  BY <1>1, <1>4 DEF RecoveryIInv

\* Every step of a session, its crash and its recovery.
LEMMA RecoveryNextKeeps ==
    ASSUME JournaledHost, RecoveryIInv, [RecoveryNext]_<<vars, recoveryVars>>
    PROVE  RecoveryIInv'
<1>1. ClearsSafely
  BY DEF JournaledHost, KeepsOrder, ClearsSafely
<1>2. ASSUME Live PROVE RecoveryIInv'
  <2>1. phase = "live" /\ Next /\ phase' = phase /\ outcome' = outcome
    BY <1>2 DEF Live, recoveryVars
  <2>2. LiveIInv /\ outcome = "none"
    BY <2>1 DEF RecoveryIInv
  <2>3. LiveIInv'
    BY <2>1, <2>2, LiveNext
  <2>4. QED
    BY <2>1, <2>2, <2>3 DEF RecoveryIInv
<1>3. ASSUME NEW at \in DOMAIN snapshots, NEW from \in DOMAIN snapshots, Crash(at, from)
      PROVE  RecoveryIInv'
  <2>1. phase = "live"
    BY <1>3 DEF Crash
  <2>2. LiveIInv
    BY <2>1 DEF RecoveryIInv
  <2>3. QED
    BY <1>3, <2>2, CrashRecovers
<1>4. ASSUME UNCHANGED <<vars, recoveryVars>> PROVE RecoveryIInv'
  <2>1. UNCHANGED vars /\ UNCHANGED <<phase, pending, outcome, lost>>
    BY <1>4 DEF recoveryVars
  <2>2. Session' = Session
    BY <2>1 DEF vars, Session
  <2>3. ASSUME phase = "live" PROVE LiveIInv'
    <3>1. LiveIInv
      BY <2>3 DEF RecoveryIInv
    <3>2. QED
      BY <2>1, <3>1, LiveNext
  <2>4. ASSUME Replaying PROVE Replaying'
    <3>1. Typed' /\ BracketsAgree' /\ budget' = budget /\ present' = present
      BY <2>1, <2>4, TypedNext DEF Replaying, BracketsAgree, vars
    <3>2. \A y : HandsBack(y) <=> HandsBack(y)'
      BY <2>1 DEF HandsBack
    <3>3. Owed' <=> Owed
      BY <2>1 DEF Owed
    <3>4. QED
      BY <2>1, <2>2, <2>4, <3>1, <3>2, <3>3 DEF Replaying
  <2>5. (Owed /\ HandsBack(Session) => HandsBack(Session)') /\ (Owed' <=> Owed)
    BY <2>1, <2>2 DEF HandsBack, Owed
  <2>6. QED
    BY <2>1, <2>3, <2>4, <2>5 DEF RecoveryIInv
<1>5. QED
  BY <1>1, <1>2, <1>3, <1>4, ReplayRecovers, ReplayEndRecovers DEF RecoveryNext

\* The inductive invariant holds for the host it is about.
THEOREM RecoveryInvariant ==
    ASSUME JournaledHost
    PROVE  RecoverySpec => []RecoveryIInv
<1>1. RecoveryInit => RecoveryIInv
  BY RecoveryStarts
<1>2. RecoveryIInv /\ [RecoveryNext]_<<vars, recoveryVars>> => RecoveryIInv'
  BY RecoveryNextKeeps
<1>3. QED
  BY <1>1, <1>2, PTL DEF RecoverySpec

\* A session journaled from its first event comes back with its undo
\* (UndoSurvivesTheCrash), strokes and saves inside brackets included.
THEOREM UndoAlwaysSurvives ==
    ASSUME JournaledHost
    PROVE  RecoverySpec => []UndoSurvivesTheCrash
<1>1. RecoveryIInv => UndoSurvivesTheCrash
  <2> SUFFICES ASSUME RecoveryIInv, outcome = "complete", lost.named, lost.from = 0
               PROVE  steps = lost.steps /\ redo = lost.redo
    BY DEF UndoSurvivesTheCrash
  <2>1. phase = "recovered"
    BY DEF RecoveryIInv
  <2>2. HandsBack(Session)
    BY <2>1 DEF RecoveryIInv, Owed
  <2>3. QED
    BY <2>2, SessionFields DEF HandsBack
<1>2. QED
  BY <1>1, RecoveryInvariant, PTL

\* The document and the payloads come back from any of the snapshots
\* (RecoveryIsFaithful), for a host that saves between its steps.
THEOREM RecoveryAlwaysFaithful ==
    ASSUME JournaledHost, SavesApart
    PROVE  RecoverySpec => []RecoveryIsFaithful
<1>1. RecoveryIInv => RecoveryIsFaithful
  <2> SUFFICES ASSUME RecoveryIInv, outcome = "complete", lost.named
               PROVE  Image(world) = lost.image
    BY DEF RecoveryIsFaithful
  <2>1. phase = "recovered"
    BY DEF RecoveryIInv
  <2>2. HandsBack(Session)
    BY <2>1 DEF RecoveryIInv, Owed
  <2>3. QED
    BY <2>2, SessionFields DEF HandsBack
<1>2. QED
  BY <1>1, RecoveryInvariant, PTL

-----------------------------------------------------------------------------
(* The line of states.  First what lies above the nearest barrier. *)

\* Where the steps above the nearest barrier are.
AboveAt(list) == {i \in 1..Len(list) : \A j \in i..Len(list) : Reversible(list[j])}

\* A step that can be undone makes the undo depth one more, a barrier makes it zero.
LEMMA DepthMoves ==
    ASSUME NEW S, NEW list \in Seq(S), NEW step \in S
    PROVE  /\ ReversibleDepth(list) \in 0..Len(list)
           /\ ReversibleDepth(Append(list, step)) = IF Reversible(step) THEN ReversibleDepth(list) + 1 ELSE 0
<1> DEFINE n == Len(list)
           more == Append(list, step)
           A == AboveAt(list)
           B == AboveAt(more)
<1>1. /\ n \in Nat /\ Len(more) = n + 1
      /\ \A i \in 1..n : more[i] = list[i]
      /\ more[n + 1] = step
  OBVIOUS
<1> HIDE DEF more
<1>2. ReversibleDepth(list) = Cardinality(A) /\ ReversibleDepth(more) = Cardinality(B)
  BY DEF ReversibleDepth, AboveAt
<1>3. IsFiniteSet(A) /\ Cardinality(A) \in Nat /\ Cardinality(A) <= n
  <2>1. A \subseteq 1..n
    BY DEF AboveAt
  <2> HIDE DEF A, n
  <2>2. IsFiniteSet(1..n) /\ Cardinality(1..n) = n
    <3>1. n \in Int /\ 1 \in Int
      BY <1>1
    <3>2. /\ IsFiniteSet(1..n)
          /\ Cardinality(1..n) = IF 1 > n THEN 0 ELSE n - 1 + 1
      BY <3>1, FS_Interval
    <3>3. QED
      BY <1>1, <3>2
  <2>3. IsFiniteSet(A) /\ Cardinality(A) <= n
    BY <2>1, <2>2, FS_Subset
  <2>4. QED
    BY <2>3, FS_CardinalityType
<1>4. CASE Reversible(step)
  <2>1. B = A \cup {n + 1}
    <3>1. ASSUME NEW i \in 1..n
          PROVE  (\A j \in i..(n + 1) : Reversible(more[j])) <=> \A j \in i..n : Reversible(list[j])
      <4>1. \A j \in i..(n + 1) : j \in i..n \/ j = n + 1
        OBVIOUS
      <4>2. \A j \in i..n : j \in i..(n + 1) /\ j \in 1..n
        OBVIOUS
      <4>3. QED
        BY <1>1, <1>4, <4>1, <4>2
    <3>2. \A j \in (n + 1)..(n + 1) : j = n + 1
      BY <1>1
    <3>3. \A i \in 1..(n + 1) : i \in 1..n \/ i = n + 1
      BY <1>1
    <3>4. \A i \in 1..n : i \in 1..(n + 1)
      BY <1>1
    <3>5. n + 1 \in 1..(n + 1)
      BY <1>1
    <3> HIDE DEF n
    <3>6. B = {i \in 1..(n + 1) : \A j \in i..(n + 1) : Reversible(more[j])}
      BY <1>1 DEF AboveAt
    <3>7. A = {i \in 1..n : \A j \in i..n : Reversible(list[j])}
      BY DEF AboveAt, n
    <3> HIDE DEF A, B
    <3>8. \A i \in 1..n : i \in B <=> i \in A
      BY <3>1, <3>4, <3>6, <3>7
    <3>9. n + 1 \in B
      BY <1>1, <1>4, <3>2, <3>5, <3>6
    <3>10. A \subseteq 1..n /\ B \subseteq 1..(n + 1)
      BY <3>6, <3>7
    <3>11. QED
      BY <3>3, <3>8, <3>9, <3>10
  <2>2. n + 1 \notin A
    BY DEF AboveAt
  <2> HIDE DEF A, B
  <2>3. Cardinality(B) = Cardinality(A) + 1
    BY <1>3, <2>1, <2>2, FS_AddElement
  <2>4. QED
    BY <1>2, <1>3, <1>4, <2>3 DEF more
<1>5. CASE ~Reversible(step)
  <2>1. B = {}
    <3>1. \A i \in 1..(n + 1) : n + 1 \in i..(n + 1)
      OBVIOUS
    <3>2. QED
      BY <1>1, <1>5, <3>1 DEF AboveAt
  <2>2. Cardinality(B) = 0
    BY <2>1, FS_EmptySet
  <2>3. QED
    BY <1>2, <1>3, <1>5, <2>2 DEF more
<1>6. QED
  BY <1>4, <1>5

\* A step more is above the barrier with the others, or is the barrier.
LEMMA AboveGrows ==
    ASSUME NEW list \in Seq(WholeStep), NEW step \in WholeStep
    PROVE  /\ AboveBarrier(<<>>) = <<>>
           /\ AboveBarrier(list) \in Seq(WholeStep)
           /\ \E a \in 0..Len(list) : AboveBarrier(list) = Without(list, a)
           /\ Append(list, step) \in Seq(WholeStep)
           /\ Reversible(step) => AboveBarrier(Append(list, step)) = Append(AboveBarrier(list), step)
           /\ ~Reversible(step) => AboveBarrier(Append(list, step)) = <<>>
<1> DEFINE n == Len(list)
           d == ReversibleDepth(list)
           more == Append(list, step)
           e == ReversibleDepth(more)
<1>1. n \in Nat /\ more \in Seq(WholeStep) /\ Len(more) = n + 1
  OBVIOUS
<1>2. d \in 0..n /\ e = IF Reversible(step) THEN d + 1 ELSE 0
  BY DepthMoves
<1>3. AboveBarrier(list) = Without(list, n - d) /\ AboveBarrier(more) = Without(more, (n + 1) - e)
  <2>1. AboveBarrier(list) = Without(list, n - d)
    BY DEF AboveBarrier
  <2> HIDE DEF more, n, d
  <2>2. AboveBarrier(more) = Without(more, Len(more) - e)
    BY DEF AboveBarrier
  <2> HIDE DEF e
  <2>3. Len(more) - e = (n + 1) - e
    BY <1>1
  <2>4. QED
    BY <2>1, <2>2, <2>3
<1>4. AboveBarrier(<<>>) = <<>>
  <2>1. <<>> \in Seq(WholeStep) /\ Len(<<>>) = 0
    OBVIOUS
  <2> DEFINE none == <<>>
             r == ReversibleDepth(none)
  <2>2. r \in 0..Len(none)
    BY <2>1, DepthMoves
  <2>3. AboveBarrier(none) = Without(none, Len(none) - r)
    BY DEF AboveBarrier
  <2> HIDE DEF r
  <2>4. Len(none) - r = 0
    BY <2>1, <2>2
  <2>5. Without(none, 0) = none
    BY <2>1, WithoutNone
  <2>6. QED
    BY <2>3, <2>4, <2>5
<1> HIDE DEF n, d, e, more
<1>5. n - d \in 0..n
  BY <1>1, <1>2
<1>6. Without(list, n - d) \in Seq(WholeStep)
  BY <1>5, WithoutLen DEF n
<1>7. CASE Reversible(step)
  <2>1. (n + 1) - e = n - d
    BY <1>1, <1>2, <1>7
  <2>2. Without(more, n - d) = Append(Without(list, n - d), step)
    BY <1>5, WithoutAppend DEF n, more
  <2>3. QED
    BY <1>1, <1>3, <1>4, <1>5, <1>6, <1>7, <2>1, <2>2 DEF n, more
<1>8. CASE ~Reversible(step)
  <2>1. (n + 1) - e = n + 1
    BY <1>1, <1>2, <1>8
  <2>2. Without(more, Len(more)) = <<>>
    BY <1>1, WithoutNone
  <2>3. QED
    BY <1>1, <1>3, <1>4, <1>5, <1>6, <1>8, <2>1, <2>2 DEF n, more
<1>9. QED
  BY <1>7, <1>8

\* Undo needs no layer for a step without a barrier that it does not find.
LEMMA FreeStep ==
    ASSUME NEW step \in WholeStep, Reversible(step)
    PROVE  step \in Seq(Leaf) /\ AllFree(Layers, step)
<1>1. step \in Seq(FreeLeaf)
  BY DEF WholeStep, Reversible
<1>2. \A k \in 1..Len(step) : step[k] \in FreeLeaf
  BY <1>1
<1>3. \A leaf \in FreeLeaf : leaf \in Leaf /\ Free(Layers, leaf)
  BY DEF FreeLeaf, Leaf, Free, Scene, Barrier
<1>4. step \in Seq(Leaf)
  BY StepTypes DEF AnyStep
<1>5. QED
  BY <1>2, <1>3, <1>4 DEF AllFree

\* A list undo can take stays one when a step that can be undone is added.
LEMMA TakableMore ==
    ASSUME NEW list \in Seq(WholeStep), NEW step \in WholeStep, Takable(list), Reversible(step)
    PROVE  Takable(Append(list, step))
<1>1. /\ Len(list) \in Nat /\ Len(Append(list, step)) = Len(list) + 1
      /\ \A i \in 1..Len(list) : Append(list, step)[i] = list[i]
      /\ Append(list, step)[Len(list) + 1] = step
  OBVIOUS
<1>2. AllFree(Layers, step)
  BY FreeStep
<1>3. \A i \in 1..(Len(list) + 1) : i \in 1..Len(list) \/ i = Len(list) + 1
  BY <1>1
<1>4. QED
  BY <1>1, <1>2, <1>3 DEF Takable

\* When the oldest k steps go, some of the oldest above the barrier go, and not all
\* of those unless the whole list does.
LeavesAbove(list, k) ==
    \E j \in 0..Len(AboveBarrier(list)) :
        /\ AboveBarrier(Without(list, k)) = Without(AboveBarrier(list), j)
        /\ (k < Len(list) /\ AboveBarrier(list) # <<>>) => j < Len(AboveBarrier(list))

\* What is above the barrier can be taken back, and so can what is left of it when
\* the oldest steps go.
AboveHolds(list) ==
    /\ Takable(AboveBarrier(list))
    /\ \A k \in 0..Len(list) : LeavesAbove(list, k)

\* When all steps go, nothing is left above the barrier.
LEMMA AboveWithoutAll ==
    ASSUME NEW list \in Seq(WholeStep)
    PROVE  LeavesAbove(list, Len(list))
<1> DEFINE a == AboveBarrier(list)
<1>1. <<Scene>> \in WholeStep
  BY StepTypes
<1>2. a \in Seq(WholeStep) /\ AboveBarrier(<<>>) = <<>>
  BY <1>1, AboveGrows
<1> HIDE DEF a
<1>3. Without(list, Len(list)) = <<>> /\ Without(a, Len(a)) = <<>> /\ Len(a) \in Nat
  BY <1>2, WithoutNone
<1>4. /\ Len(a) \in 0..Len(a) /\ AboveBarrier(Without(list, Len(list))) = Without(a, Len(a))
      /\ ~ (Len(list) < Len(list))
  BY <1>2, <1>3
<1>5. QED
  BY <1>4 DEF a, LeavesAbove

\* So it is for every list: by induction on its length, the newest step being a
\* barrier or on top of what is above one.
LEMMA AboveMoves ==
    ASSUME NEW list \in Seq(WholeStep)
    PROVE  AboveHolds(list)
<1> DEFINE Good == {n \in Nat : \A l \in Seq(WholeStep) : Len(l) = n => AboveHolds(l)}
<1>1. 0 \in Good
  <2> SUFFICES ASSUME NEW l \in Seq(WholeStep), Len(l) = 0 PROVE AboveHolds(l)
    OBVIOUS
  <2>1. l = <<>> /\ <<Scene>> \in WholeStep
    BY StepTypes
  <2>2. AboveBarrier(l) = <<>>
    BY <2>1, AboveGrows
  <2>3. \A k \in 0..Len(l) : k = Len(l)
    OBVIOUS
  <2>4. Takable(AboveBarrier(l))
    BY <2>2 DEF Takable
  <2>5. QED
    BY <2>3, <2>4, AboveWithoutAll DEF AboveHolds
<1>2. ASSUME NEW n \in Nat, n \in Good PROVE n + 1 \in Good
  <2> SUFFICES ASSUME NEW l \in Seq(WholeStep), Len(l) = n + 1 PROVE AboveHolds(l)
    OBVIOUS
  <2> DEFINE s == Last(l)
             f == Front(l)
             a == AboveBarrier(f)
             b == AboveBarrier(l)
  <2>1. l # <<>>
    OBVIOUS
  <2>2. f \in Seq(WholeStep) /\ s \in WholeStep /\ l = Append(f, s) /\ Len(f) = n
    <3>1. f \in Seq(WholeStep) /\ s \in WholeStep /\ l = Append(f, s)
      BY <2>1, FrontAndLast
    <3>2. Len(f) = Len(l) - 1
      BY <2>1, FrontLen
    <3>3. QED
      BY <3>1, <3>2
  <2> HIDE DEF f, s
  <2>3. AboveHolds(f)
    BY <1>2, <2>2
  <2>4. /\ a \in Seq(WholeStep) /\ b \in Seq(WholeStep)
        /\ Reversible(s) => b = Append(a, s)
        /\ ~Reversible(s) => b = <<>>
    BY <2>2, AboveGrows
  <2>5. Takable(b)
    <3>1. Takable(a)
      BY <2>3 DEF AboveHolds
    <3> HIDE DEF a, b
    <3>2. Takable(<<>>)
      BY DEF Takable
    <3>3. QED
      BY <2>2, <2>4, <3>1, <3>2, TakableMore
  <2>6. ASSUME NEW k \in 0..Len(l)
        PROVE  LeavesAbove(l, k)
    <3>1. CASE k = Len(l)
      BY <3>1, AboveWithoutAll
    <3>2. CASE k # Len(l)
      <4>1. k \in 0..Len(f)
        BY <2>2, <3>2
      <4>2. Without(f, k) \in Seq(WholeStep) /\ Without(l, k) = Append(Without(f, k), s)
        BY <2>2, <4>1, WithoutAppend, WithoutLen
      <4>3. CASE ~Reversible(s)
        <5>1. AboveBarrier(Append(Without(f, k), s)) = <<>>
          BY <2>2, <4>2, <4>3, AboveGrows
        <5>2. Without(<<>>, 0) = <<>> /\ 0 \in 0..Len(<<>>)
          BY NothingLess
        <5>3. b = <<>>
          BY <2>4, <4>3
        <5>4. AboveBarrier(Without(l, k)) = Without(b, 0) /\ 0 \in 0..Len(b) /\ ~ (b # <<>>)
          <6> HIDE DEF b
          <6>1. QED
            BY <4>2, <5>1, <5>2, <5>3
        <5>5. QED
          BY <5>4 DEF LeavesAbove
      <4>4. CASE Reversible(s)
        <5>1. PICK j \in 0..Len(a) : AboveBarrier(Without(f, k)) = Without(a, j)
          BY <2>3, <4>1 DEF AboveHolds, LeavesAbove
        <5>2. AboveBarrier(Append(Without(f, k), s)) = Append(AboveBarrier(Without(f, k)), s)
          BY <2>2, <4>2, <4>4, AboveGrows
        <5> HIDE DEF a
        <5>3. /\ Without(Append(a, s), j) = Append(Without(a, j), s)
              /\ Len(Append(a, s)) = Len(a) + 1
          BY <2>2, <2>4, <5>1, WithoutAppend
        <5>4. b = Append(a, s) /\ Len(a) \in Nat
          BY <2>4, <4>4
        <5> HIDE DEF b
        <5>5. j \in 0..Len(b) /\ j < Len(b)
          BY <5>1, <5>3, <5>4
        <5>6. AboveBarrier(Without(l, k)) = Without(b, j)
          BY <4>2, <5>1, <5>2, <5>3, <5>4
        <5>7. QED
          BY <5>5, <5>6 DEF b, LeavesAbove
      <4>5. QED
        BY <4>3, <4>4
    <3>3. QED
      BY <3>1, <3>2
  <2>7. QED
    BY <2>5, <2>6 DEF AboveHolds
<1>3. Len(list) \in Nat
  OBVIOUS
<1> HIDE DEF Good
<1>4. Len(list) \in Good
  BY <1>1, <1>2, <1>3, NatSetInduction
<1>5. QED
  BY <1>4 DEF Good

-----------------------------------------------------------------------------
(* The newest entry of the wrapped stack, and the newest step. *)

\* The entry on top takes d back to e, and `undo` is what it is on top of.
Gathering(stack, d, undo, e) ==
    stack.undo # <<>> /\ Front(stack.undo) = undo /\ Takes(Last(stack.undo), d, e)

\* perform: the inverse joins the entry on top, or makes one of its own.
LEMMA StackGathers ==
    ASSUME NEW stack \in UndoStackType, NEW d \in Document, NEW cmd \in Command,
           Applicable(d, cmd), NEW u, NEW c, NEW r, r = StackAfter(stack, d, cmd)
    PROVE  /\ \/ Gathering(stack, d, u, c) /\ (stack.depth > 0 \/ Coalesces(stack, cmd))
              \/ ~ (stack.depth > 0 /\ stack.undo # <<>>) /\ ~Coalesces(stack, cmd)
                 /\ u = stack.undo /\ c = d
              => Gathering(r, Applied(d, cmd), u, c) /\ Last(r.undo) # <<>>
<1> DEFINE inverse == InverseOf(d, cmd)
           undo == stack.undo
           top == Last(undo)
           less == Front(undo)
           merged == [top[1] EXCEPT !.count = @ + Len(cmd.points)]
           inGroup == stack.depth > 0 /\ undo # <<>>
           co == Coalesces(stack, cmd)
           e == Applied(d, cmd)
           entry == IF inGroup THEN Append(top, inverse)
                    ELSE IF co THEN <<merged>> ELSE <<inverse>>
<1>1. r.undo = UndoAfter(stack, d, cmd)
  BY StackAfterIs
<1>2. undo \in Seq(Entry)
  BY DEF UndoStackType
<1>3. inverse \in Command /\ e \in Document
  BY EditTypes
<1>4. Applicable(e, inverse) /\ Applied(e, inverse) = d
  BY CommandInverts DEF Inverted
<1>5. undo # <<>> => top \in Entry /\ less \in Seq(Entry) /\ Append(less, top) = undo
  BY <1>2, FrontAndLast
<1>6. /\ inGroup => r.undo = Append(less, entry)
      /\ ~inGroup /\ co => r.undo = Append(less, entry)
      /\ ~inGroup /\ ~co => r.undo = Append(undo, entry)
  BY <1>1 DEF UndoAfter, Retop
<1>7. Gathering(stack, d, u, c) => undo # <<>> /\ u = less /\ Takes(top, d, c)
  BY DEF Gathering
<1>8. co => undo # <<>> /\ cmd.op = "AppendStroke" /\ Len(top) = 1 /\ top[1].op = "TrimStroke"
            /\ top[1].node = cmd.node
  BY DEF Coalesces
<1>9. /\ inGroup => entry = Append(top, inverse)
      /\ ~inGroup /\ co => entry = <<merged>>
      /\ ~inGroup /\ ~co => entry = <<inverse>>
  OBVIOUS
<1>10. inGroup <=> stack.depth > 0 /\ undo # <<>>
  OBVIOUS
<1> HIDE DEF inverse, undo, top, less, merged, inGroup, co, e, entry
<1>11. ASSUME NEW list \in Seq(Entry), r.undo = Append(list, entry), entry \in Entry, entry # <<>>,
              list = u, Takes(entry, e, c)
       PROVE  Gathering(r, e, u, c) /\ Last(r.undo) # <<>>
  <2>1. r.undo # <<>> /\ Last(r.undo) = entry /\ Front(r.undo) = list
    BY <1>11, AppendLast
  <2>2. QED
    BY <1>11, <2>1 DEF Gathering
<1>12. ASSUME inGroup, Gathering(stack, d, u, c)
       PROVE  Gathering(r, e, u, c) /\ Last(r.undo) # <<>>
  <2>1. top \in Entry /\ less \in Seq(Entry) /\ u = less /\ Takes(top, d, c)
    BY <1>5, <1>7, <1>12
  <2>2. Append(top, inverse) \in Entry /\ Takes(Append(top, inverse), e, c)
    BY <1>3, <1>4, <2>1, TakesMore
  <2>3. Append(top, inverse) # <<>>
    <3>1. top \in Seq(Command)
      BY <2>1 DEF Entry
    <3> HIDE DEF top
    <3>2. Len(Append(top, inverse)) = Len(top) + 1 /\ Len(top) \in Nat
      BY <1>3, <3>1
    <3>3. QED
      BY <3>2
  <2>4. QED
    BY <1>6, <1>9, <1>11, <1>12, <2>1, <2>2, <2>3
<1>13. ASSUME ~inGroup, co, Gathering(stack, d, u, c)
       PROVE  Gathering(r, e, u, c) /\ Last(r.undo) # <<>>
  <2> DEFINE trim == top[1]
  <2>1. /\ cmd.op = "AppendStroke" /\ undo # <<>> /\ Len(top) = 1 /\ trim.op = "TrimStroke"
        /\ trim.node = cmd.node
    BY <1>8, <1>13
  <2>2. trim \in Command /\ top = <<trim>>
    <3>1. top \in Seq(Command) /\ 1 \in 1..Len(top)
      BY <1>5, <2>1 DEF Entry
    <3>2. trim \in Command
      BY <3>1, ElementOfSeq
    <3>3. QED
      BY <2>1, <3>1, <3>2
  <2>3. merged = [trim EXCEPT !.count = @ + Len(cmd.points)]
    BY DEF merged
  <2> HIDE DEF trim
  <2>4. Applicable(d, trim) /\ c = Applied(d, trim)
    BY <1>7, <1>13, <2>2, TakesSingle
  <2>5. merged \in Command /\ Merges(d, cmd, trim, merged)
    BY <2>1, <2>2, <2>3, <2>4, TrimsMerge
  <2>6. Applicable(e, merged) /\ Applied(e, merged) = c
    BY <2>4, <2>5 DEF Merges, e
  <2>7. <<merged>> \in Entry /\ Takes(<<merged>>, e, c) /\ <<merged>> # <<>>
    BY <1>3, <2>5, <2>6, TakesOne
  <2>8. less \in Seq(Entry) /\ less = u /\ r.undo = Append(less, entry) /\ entry = <<merged>>
    BY <1>5, <1>6, <1>7, <1>9, <1>13, <2>1
  <2>9. QED
    BY <1>11, <2>7, <2>8
<1>14. ASSUME ~inGroup, ~co, u = undo, c = d
       PROVE  Gathering(r, e, u, c) /\ Last(r.undo) # <<>>
  <2>1. <<inverse>> \in Entry /\ Takes(<<inverse>>, e, d) /\ <<inverse>> # <<>>
    BY <1>3, <1>4, TakesOne
  <2>2. QED
    BY <1>2, <1>6, <1>9, <1>11, <1>14, <2>1
<1>15. QED
  BY <1>7, <1>10, <1>12, <1>13, <1>14 DEF undo, co, e

\* Undo of the entry on top.
LEMMA GatheringUndone ==
    ASSUME NEW w \in World, NEW u, NEW c, Gathering(w.commands, w.doc, u, c)
    PROVE  /\ StackUndo(w).doc = c /\ StackUndo(w).commands.undo = u
           /\ StackUndo(w).content = w.content
<1> DEFINE old == w.commands
           top == Last(old.undo)
           r == Replay(w.doc, top)
           d == r.doc
           more == Append(old.redo, r.opposite)
           less == Front(old.undo)
           s == [old EXCEPT !.undo = less, !.redo = more]
<1>1. old \in UndoStackType /\ w.doc \in Document /\ old.undo \in Seq(Entry)
  BY DEF World, UndoStackType
<1>2. less = u /\ Takes(top, w.doc, c) /\ top \in Entry
  <2>1. old.undo # <<>> /\ less = u /\ Takes(top, w.doc, c)
    BY DEF Gathering
  <2> HIDE DEF old
  <2>2. QED
    BY <1>1, <2>1, FrontAndLast
<1>3. d = c
  <2> HIDE DEF top
  <2>1. QED
    BY <1>1, <1>2, ReplayExact DEF Exact
<1>4. StackUndo(w) = [w EXCEPT !.doc = d, !.commands = s]
  BY DEF StackUndo
<1> HIDE DEF d, more, less, old
<1>5. s.undo = less
  BY <1>1 DEF UndoStackType
<1> HIDE DEF s
<1>6. QED
  BY <1>2, <1>3, <1>4, <1>5 DEF World

\* The document and the undo side a step goes back to.
GoesBackTo(v, step, b) ==
    \/ ScenesIn(step) = 0 /\ v.doc = b.doc /\ v.commands.undo = b.commands.undo
    \/ ScenesIn(step) = 1 /\ Gathering(v.commands, v.doc, b.commands.undo, b.doc)

\* Taking back a step that goes back to b leads to a world of the past of b.
LEMMA TakenBackTo ==
    ASSUME NEW v \in World, StackLine(v), NEW step \in WholeStep, Reversible(step),
           NEW b \in World, Spans(step, b.content, v.content), GoesBackTo(v, step, b)
    PROVE  SamePast(TakenBack(v, step), b)
<1> DEFINE r == ApplyStep(Layers, v, step, FALSE)
           u == TakenBack(v, step)
<1>1. step \in Seq(Leaf) /\ AllFree(Layers, step) /\ FALSE \in BOOLEAN
  BY FreeStep
<1>2. Source(v, FALSE) >= ScenesIn(step)
  <2>1. CASE ScenesIn(step) = 0
    BY <2>1, SizesAreNat DEF Source
  <2>2. CASE ScenesIn(step) = 1
    <3>1. v.commands.undo \in Seq(Entry) /\ v.commands.undo # <<>>
      BY <2>2 DEF World, UndoStackType, GoesBackTo, Gathering
    <3>2. Len(v.commands.undo) >= 1
      BY <3>1
    <3>3. QED
      BY <2>2, <3>2 DEF Source, Undos
  <2>3. QED
    BY <2>1, <2>2 DEF GoesBackTo
<1>3. r.ok /\ u = r.world
  <2>1. r.ok
    BY <1>1, <1>2, StepMoves
  <2>2. QED
    BY <2>1 DEF TakenBack
<1>4. u.content = b.content
  <2>1. Links(step, v.content, b.content, FALSE)
    BY DEF Links
  <2>2. /\ r \in StepResult
        /\ r.ok => StackLine(r.world) /\ r.world.content = b.content
        /\ ~r.ok => r.world = v
    BY <1>1, <2>1, StepExact
  <2>3. QED
    BY <1>3, <2>2
<1>5. /\ ScenesIn(step) = 0 => u.doc = v.doc /\ u.commands = v.commands
      /\ ScenesIn(step) = 1 => u.doc = StackUndo(v).doc /\ u.commands = StackUndo(v).commands
  <2>1. \E back \in BOOLEAN : ~back /\ r = ApplyStep(Layers, v, step, back)
    OBVIOUS
  <2>2. PICK back \in BOOLEAN : ~back /\ r = ApplyStep(Layers, v, step, back)
    BY <2>1
  <2> HIDE DEF u, r
  <2>3. QED
    BY <1>1, <1>3, <2>2, StepScenes
<1> HIDE DEF u, r
<1>6. CASE ScenesIn(step) = 0 /\ v.doc = b.doc /\ v.commands.undo = b.commands.undo
  BY <1>4, <1>5, <1>6 DEF SamePast, u
<1>7. CASE ScenesIn(step) = 1 /\ Gathering(v.commands, v.doc, b.commands.undo, b.doc)
  <2>1. StackUndo(v).doc = b.doc /\ StackUndo(v).commands.undo = b.commands.undo
    BY <1>7, GatheringUndone
  <2>2. QED
    BY <1>4, <1>5, <1>7, <2>1 DEF SamePast, u
<1>8. QED
  BY <1>6, <1>7 DEF GoesBackTo

\* What a new step does to the past: the state it leads from is the next one
\* back, over the steps there were.
LEMMA NewestLine ==
    ASSUME NEW v \in World, NEW old \in Seq(WholeStep), NEW step \in WholeStep, Reversible(step),
           NEW b \in World, SamePast(TakenBack(v, step), b), SceneSteps(old) <= Undos(b)
    PROVE  Behind(v, AboveBarrier(Append(old, step))) = Append(Behind(b, AboveBarrier(old)), Image(b))
<1> DEFINE a == AboveBarrier(old)
           u == TakenBack(v, step)
           c == Append(a, step)
<1>1. /\ a \in Seq(WholeStep) /\ AboveBarrier(Append(old, step)) = c
      /\ \E i \in 0..Len(old) : a = Without(old, i)
  BY AboveGrows
<1>2. a \in Seq(AnyStep) /\ step \in AnyStep
  BY <1>1, StepTypes
<1>3. Takable(a) /\ SceneSteps(a) <= Undos(b)
  <2>1. Takable(a)
    BY AboveMoves DEF AboveHolds, LeavesAbove
  <2>2. SceneSteps(a) <= SceneSteps(old)
    <3>1. PICK i \in 0..Len(old) : a = Without(old, i)
      BY <1>1
    <3>2. SceneSteps(Without(old, i)) <= SceneSteps(old)
      BY WithoutKeeps
    <3>3. QED
      BY <3>1, <3>2
  <2>3. SceneSteps(a) \in Nat /\ SceneSteps(old) \in Nat /\ Undos(b) \in Nat
    BY <1>1, SceneStepsNat, SizesAreNat
  <2> HIDE DEF a
  <2>4. QED
    BY <2>1, <2>2, <2>3
<1> HIDE DEF a
<1>4. u \in World /\ Behind(v, c) = Append(Behind(u, a), Image(u))
  BY <1>2, BothMore
<1>5. Behind(u, a) = Behind(b, a) /\ Image(u) = Image(b)
  <2>1. TakenAlike(u, b, a)
    BY <1>3 DEF TakenAlike
  <2> HIDE DEF u
  <2>2. Behind(u, a) = Behind(b, a)
    BY <1>1, <1>4, <2>1, BehindSamePast
  <2>3. QED
    BY <2>1, <2>2 DEF TakenAlike, SamePast, Image
<1>6. QED
  BY <1>1, <1>4, <1>5 DEF a

\* A list without its oldest k, of which at least `least` are left.
Shortened(q, p, least) == \E k \in 0..(Len(p) - least) : q = Without(p, k)

\* The same when the oldest k steps go.
LEMMA PushedLine ==
    ASSUME NEW v \in World, NEW old \in Seq(WholeStep), NEW step \in WholeStep, Reversible(step),
           NEW b \in World, SamePast(TakenBack(v, step), b), SceneSteps(old) <= Undos(b),
           NEW k \in 0..Len(old)
    PROVE  Shortened(Behind(v, AboveBarrier(Without(Append(old, step), k))),
                     Append(Behind(b, AboveBarrier(old)), Image(b)), 1)
<1> DEFINE a == AboveBarrier(old)
           more == Append(old, step)
           p == Append(Behind(b, a), Image(b))
           c == Append(a, step)
<1>1. /\ a \in Seq(WholeStep) /\ more \in Seq(WholeStep) /\ AboveBarrier(more) = c
  BY AboveGrows
<1>2. a \in Seq(AnyStep) /\ step \in AnyStep /\ c \in Seq(AnyStep) /\ Len(c) = Len(a) + 1
      /\ Len(more) = Len(old) + 1
  <2>1. a \in Seq(AnyStep) /\ step \in AnyStep
    BY <1>1, StepTypes
  <2> HIDE DEF a
  <2>2. QED
    BY <2>1
<1>6. Behind(v, c) = p
  <2>1. Behind(v, AboveBarrier(Append(old, step))) = Append(Behind(b, AboveBarrier(old)), Image(b))
    BY NewestLine
  <2>2. QED
    BY <1>1, <2>1
<1> HIDE DEF a, more
<1>7. PICK j \in 0..Len(c) : /\ AboveBarrier(Without(more, k)) = Without(c, j)
                             /\ k < Len(more) /\ c # <<>> => j < Len(c)
  <2>1. AboveHolds(more) /\ k \in 0..Len(more)
    BY <1>1, <1>2, AboveMoves
  <2>2. QED
    BY <1>1, <2>1 DEF AboveHolds, LeavesAbove
<1>8. k < Len(more) /\ Len(old) \in Nat /\ Len(a) \in Nat
  BY <1>1, <1>2
<1>9. c # <<>> /\ Len(c) \in Nat
  BY <1>2, <1>8
<1> HIDE DEF c
<1>10. j < Len(c)
  BY <1>7, <1>8, <1>9
<1>11. Behind(v, Without(c, j)) = Without(Behind(v, c), j) /\ Len(Behind(v, c)) = Len(c)
  BY <1>2, BothWays
<1>12. j \in 0..(Len(p) - 1)
  BY <1>6, <1>9, <1>10, <1>11
<1> HIDE DEF p
<1>13. Behind(v, AboveBarrier(Without(more, k))) = Without(p, j)
  BY <1>6, <1>7, <1>11
<1>14. QED
  BY <1>12, <1>13 DEF Shortened, p, a, more

\* The entry on top is collecting what was done since b; as long as it is
\* empty the redo side is that of b.
Collecting(w, b) ==
    /\ Gathering(w.commands, w.doc, b.commands.undo, b.doc)
    /\ Last(w.commands.undo) = <<>> => w.commands.redo = b.commands.redo

\* A command joins it.
LEMMA CollectsMore ==
    ASSUME NEW w \in World, w.commands.depth > 0, NEW b, Collecting(w, b), NEW cmd \in Command
    PROVE  /\ StackPerform(w, cmd) \in World /\ Collecting(StackPerform(w, cmd), b)
           /\ StackPerform(w, cmd).commands.depth = w.commands.depth
<1> DEFINE r == StackPerform(w, cmd)
           d == w.doc
           s == w.commands
           q == StackAfter(s, d, cmd)
           e == Applied(d, cmd)
<1>1. r \in World /\ (~Applicable(d, cmd) => r = w)
  BY PerformMoves
<1>2. CASE ~Applicable(d, cmd)
  BY <1>1, <1>2
<1>3. CASE Applicable(d, cmd)
  <2>1. d \in Document /\ s \in UndoStackType
    BY DEF World
  <2>2. r.doc = e /\ r.commands = q
    BY <1>3 DEF StackPerform, World
  <2> HIDE DEF d, s, e, q, r
  <2>3. q.depth = s.depth
    BY <1>3, <2>1, StackAfterIs DEF q
  <2>4. Gathering(s, d, b.commands.undo, b.doc) /\ s.depth > 0
    BY DEF Collecting, s, d
  <2>5. Gathering(q, e, b.commands.undo, b.doc) /\ Last(q.undo) # <<>>
    <3> DEFINE u == b.commands.undo
               c == b.doc
    <3>1. /\ \/ Gathering(s, d, u, c) /\ (s.depth > 0 \/ Coalesces(s, cmd))
             \/ ~ (s.depth > 0 /\ s.undo # <<>>) /\ ~Coalesces(s, cmd) /\ u = s.undo /\ c = d
      BY <2>4
    <3> HIDE DEF u, c
    <3>2. Gathering(q, e, u, c) /\ Last(q.undo) # <<>>
      BY <1>3, <2>1, <3>1, StackGathers DEF q, e
    <3>3. QED
      BY <3>2 DEF u, c
  <2>6. QED
    BY <1>1, <2>2, <2>3, <2>5 DEF Collecting, s, r
<1>4. QED
  BY <1>2, <1>3

\* An engine call inside a bracket joins the open entry, all its commands.
LEMMA CollectsThrough ==
    ASSUME NEW w \in World, w.commands.depth > 0, NEW b, Collecting(w, b), NEW cmds \in Seq(Command)
    PROVE  /\ EngineEdited(w, cmds) \in World /\ Collecting(EngineEdited(w, cmds), b)
           /\ EngineEdited(w, cmds).commands.depth = w.commands.depth
<1>1. PICK P : Performs(P, w, cmds)
  BY PerformRuns
<1> DEFINE n == Len(cmds)
           Holds(k) == /\ P[k] \in World /\ Collecting(P[k], b)
                       /\ P[k].commands.depth = w.commands.depth
           Good == {k \in Nat : k <= n => Holds(k)}
<1>2. n \in Nat /\ P[0] = w /\ P[n] = EngineEdited(w, cmds)
      /\ \A k \in 1..n : P[k] = StackPerform(P[k - 1], cmds[k])
  BY <1>1 DEF Performs
<1>3. 0 \in Good
  BY <1>2
<1>4. ASSUME NEW k \in Nat, k \in Good PROVE k + 1 \in Good
  <2>1. CASE k + 1 <= n
    <3>1. k + 1 \in 1..n /\ (k + 1) - 1 = k /\ Holds(k)
      BY <1>2, <1>4, <2>1
    <3>2. P[k + 1] = StackPerform(P[k], cmds[k + 1]) /\ cmds[k + 1] \in Command
      BY <1>2, <3>1
    <3> DEFINE v == P[k]
               cmd == cmds[k + 1]
    <3>3. v \in World /\ Collecting(v, b) /\ v.commands.depth > 0 /\ cmd \in Command
          /\ v.commands.depth = w.commands.depth
      BY <3>1, <3>2
    <3> HIDE DEF v, cmd
    <3>4. /\ StackPerform(v, cmd) \in World /\ Collecting(StackPerform(v, cmd), b)
          /\ StackPerform(v, cmd).commands.depth = v.commands.depth
      BY <3>3, CollectsMore
    <3>5. Holds(k + 1)
      BY <3>2, <3>3, <3>4 DEF v, cmd
    <3> HIDE DEF Holds
    <3>6. QED
      BY <3>5
  <2>2. QED
    BY <2>1
<1>5. n \in Good
  <2> HIDE DEF Good
  <2>1. QED
    BY <1>2, <1>3, <1>4, NatSetInduction
<1>6. QED
  BY <1>2, <1>5

\* A bracket starts collecting; those within it change nothing about it.
LEMMA CollectsNothing ==
    ASSUME NEW w \in World, w.commands.depth = 0
    PROVE  Opened(w) \in World /\ Collecting(Opened(w), w) /\ Opened(w).commands.depth = 1
<1> DEFINE b == Opened(w)
           undo == w.commands.undo
<1>1. /\ b \in World /\ b.doc = w.doc /\ b.content = w.content
      /\ b.commands.depth = w.commands.depth + 1 /\ b.commands.redo = w.commands.redo
      /\ b.commands.undo = IF w.commands.depth = 0 THEN Append(w.commands.undo, <<>>)
                           ELSE w.commands.undo
  BY BeginIs
<1>2. undo \in Seq(Entry) /\ <<>> \in Entry /\ w.doc \in Document
  BY DEF World, UndoStackType, Entry
<1> HIDE DEF undo, b
<1>3. /\ Append(undo, <<>>) # <<>> /\ Last(Append(undo, <<>>)) = <<>>
      /\ Front(Append(undo, <<>>)) = undo
  BY <1>2, AppendLast
<1>4. b.commands.undo = Append(undo, <<>>)
  BY <1>1 DEF undo
<1>5. Takes(<<>>, w.doc, w.doc)
  BY <1>2, TakesNothing
<1>6. QED
  BY <1>1, <1>3, <1>4, <1>5 DEF Collecting, Gathering, b, undo

\* Brackets inside the outermost one leave the open entry as it is.
LEMMA CollectsWithin ==
    ASSUME NEW w \in World, w.commands.depth > 0, NEW b, Collecting(w, b)
    PROVE  /\ Collecting(Opened(w), b) /\ Opened(w) \in World
           /\ Opened(w).commands.depth = w.commands.depth + 1
           /\ w.commands.depth > 1 => Collecting(Closed(w), b) /\ Closed(w) \in World
                                      /\ Closed(w).commands.depth = w.commands.depth - 1
<1> DEFINE v == Opened(w)
           u == Closed(w)
<1>0. w.commands.depth \in Nat
  BY DEF World, UndoStackType
<1>1. /\ v \in World /\ v.doc = w.doc /\ v.content = w.content
      /\ v.commands.depth = w.commands.depth + 1 /\ v.commands.redo = w.commands.redo
      /\ v.commands.undo = IF w.commands.depth = 0 THEN Append(w.commands.undo, <<>>)
                           ELSE w.commands.undo
  BY BeginIs
<1>2. /\ u \in World /\ u.doc = w.doc /\ u.content = w.content
      /\ u.commands.depth = w.commands.depth - 1 /\ u.commands.redo = w.commands.redo
      /\ u.commands.undo = IF /\ w.commands.depth = 1 /\ w.commands.undo # <<>>
                              /\ Last(w.commands.undo) = <<>>
                           THEN Front(w.commands.undo) ELSE w.commands.undo
  <2>1. w.commands.depth # 0
    BY <1>0
  <2>2. QED
    BY <2>1, EndIs
<1> HIDE DEF v, u
<1>3. v.commands.undo = w.commands.undo
  BY <1>0, <1>1
<1>4. w.commands.depth > 1 => u.commands.undo = w.commands.undo
  BY <1>0, <1>2
<1>5. Collecting(v, b)
  BY <1>1, <1>3 DEF Collecting, Gathering
<1>6. w.commands.depth > 1 => Collecting(u, b)
  BY <1>2, <1>4 DEF Collecting, Gathering
<1>7. QED
  BY <1>1, <1>2, <1>5, <1>6 DEF v, u

\* What is left when the bracket ends: what it started from, or one entry more.
LEMMA CollectsLast ==
    ASSUME NEW w \in World, w.commands.depth = 1, NEW b \in World, Collecting(w, b)
    PROVE  /\ Closed(w) \in World /\ Closed(w).content = w.content /\ Closed(w).commands.depth = 0
           /\ \/ SamePast(Closed(w), [b EXCEPT !.content = w.content])
                 /\ Closed(w).commands.redo = b.commands.redo
                 /\ Undos(Closed(w)) = Undos(b) /\ Closed(w).doc = b.doc
              \/ Gathering(Closed(w).commands, Closed(w).doc, b.commands.undo, b.doc)
                 /\ Undos(Closed(w)) = Undos(b) + 1
<1> DEFINE u == Closed(w)
           undo == w.commands.undo
           c == [b EXCEPT !.content = w.content]
<1>1. /\ u \in World /\ u.doc = w.doc /\ u.content = w.content
      /\ u.commands.depth = w.commands.depth - 1 /\ u.commands.redo = w.commands.redo
      /\ u.commands.undo = IF /\ w.commands.depth = 1 /\ w.commands.undo # <<>>
                              /\ Last(w.commands.undo) = <<>>
                           THEN Front(w.commands.undo) ELSE w.commands.undo
  BY EndIs
<1>2. undo \in Seq(Entry) /\ w.doc \in Document
  BY DEF World, UndoStackType
<1>3. undo # <<>> /\ Front(undo) = b.commands.undo /\ Takes(Last(undo), w.doc, b.doc)
      /\ (Last(undo) = <<>> => w.commands.redo = b.commands.redo)
  BY DEF Collecting, Gathering
<1>4. c.doc = b.doc /\ c.commands = b.commands /\ c.content = w.content
  BY DEF World
<1>5. Len(Front(undo)) = Len(undo) - 1 /\ Len(undo) \in Nat
  <2> HIDE DEF undo
  <2>1. QED
    BY <1>2, <1>3, FrontLen
<1> HIDE DEF u, c
<1>6. CASE Last(undo) = <<>>
  <2>1. u.commands.undo = b.commands.undo
    BY <1>1, <1>3, <1>6
  <2>2. w.doc = b.doc
    BY <1>2, <1>3, <1>6, TakesNothing
  <2>3. SamePast(u, c) /\ u.commands.redo = b.commands.redo /\ Undos(u) = Undos(b) /\ u.doc = b.doc
    BY <1>1, <1>3, <1>4, <1>6, <2>1, <2>2 DEF SamePast, Undos
  <2>4. QED
    BY <1>1, <2>3 DEF u, c
<1>7. CASE Last(undo) # <<>>
  <2>1. u.commands.undo = undo
    BY <1>1, <1>7
  <2>2. Gathering(u.commands, u.doc, b.commands.undo, b.doc)
    BY <1>1, <1>3, <2>1 DEF Gathering
  <2>3. Undos(u) = Undos(b) + 1
    BY <1>3, <1>5, <2>1 DEF Undos
  <2>4. QED
    BY <1>1, <2>2, <2>3 DEF u
<1>8. QED
  BY <1>6, <1>7

\* What the budget leaves of the lists, and of a list one step longer.
LEMMA BudgetDrops ==
    ASSUME NEW lists \in ListsType, NEW commands, NEW grouping \in BOOLEAN, NEW r,
           r = EnforceBudget(lists, commands, grouping)
    PROVE  /\ r \in ListsType
           /\ \E i \in 0..Len(lists.redo), k \in 0..Evictable(lists.steps) :
                 /\ r.redo = Without(lists.redo, i) /\ r.steps = Without(lists.steps, k)
                 /\ r.dropped = lists.dropped + k
           /\ grouping => r = lists
<1>0. lists.steps \in Seq(WholeStep) /\ lists.redo \in Seq(WholeStep) /\ lists.dropped \in Nat
  BY DEF ListsType
<1>1. r \in ListsType
  BY EnforceBudgetKeeps DEF Fewer
<1>2. CASE budget = 0 \/ grouping
  <2>1. r = lists
    BY <1>2 DEF EnforceBudget
  <2>2. Without(lists.redo, 0) = lists.redo /\ Without(lists.steps, 0) = lists.steps
    BY <1>0, WithoutNone
  <2>3. 0 \in 0..Len(lists.redo) /\ 0 \in 0..Evictable(lists.steps)
    <3>1. Len(lists.redo) \in Nat /\ Evictable(lists.steps) \in Nat
      BY <1>0 DEF Evictable
    <3>2. QED
      BY <3>1
  <2>4. QED
    BY <1>0, <1>1, <2>1, <2>2, <2>3
<1>3. CASE ~(budget = 0 \/ grouping)
  <2>1. r = Evict(lists, commands, budget)
    BY <1>3 DEF EnforceBudget
  <2>2. PICK i \in 0..Len(lists.redo), k \in 0..Evictable(lists.steps) :
            Evict(lists, commands, budget) = Evicted(lists, i, k)
    BY EvictTakes
  <2>3. r.redo = Without(lists.redo, i) /\ r.steps = Without(lists.steps, k)
        /\ r.dropped = lists.dropped + k
    BY <2>1, <2>2 DEF Evicted
  <2>4. QED
    BY <1>1, <1>3, <2>3
<1>4. QED
  BY <1>2, <1>3

\* q is p without its oldest k, k at most `most`.
CutFrom(q, p, most) == \E k \in 0..most : q = Without(p, k)

\* History::push adds a step, empties the redo list, and drops some of the oldest steps,
\* none while it is grouping.
LEMMA PushDrops ==
    ASSUME NEW lists \in ListsType, NEW commands, NEW grouping \in BOOLEAN,
           NEW step \in WholeStep, NEW r, r = Push(lists, commands, grouping, step)
    PROVE  /\ r \in ListsType /\ r.redo = <<>>
           /\ CutFrom(r.steps, Append(lists.steps, step), Len(lists.steps))
           /\ grouping => r.steps = Append(lists.steps, step) /\ r.dropped = lists.dropped
<1> DEFINE longer == Append(lists.steps, step)
           more == [lists EXCEPT !.steps = longer]
           kept == EnforceBudget(more, commands, grouping)
<1>0. lists.steps \in Seq(WholeStep)
  BY DEF ListsType
<1>1. r = [kept EXCEPT !.redo = <<>>]
  BY DEF Push
<1>2. longer \in Seq(WholeStep) /\ Evictable(longer) = Len(lists.steps)
  <2>1. longer \in Seq(WholeStep) /\ Len(longer) = Len(lists.steps) + 1 /\ Len(lists.steps) \in Nat
    BY <1>0
  <2> HIDE DEF longer
  <2>2. longer # <<>>
    BY <2>1
  <2>3. QED
    BY <2>1, <2>2 DEF Evictable
<1> HIDE DEF longer
<1>3. more \in ListsType /\ more.steps = longer /\ more.dropped = lists.dropped
  BY <1>2 DEF ListsType
<1> HIDE DEF more, kept
<1>4. /\ kept \in ListsType
      /\ \E i \in 0..Len(more.redo), k \in 0..Evictable(more.steps) :
            /\ kept.redo = Without(more.redo, i) /\ kept.steps = Without(more.steps, k)
            /\ kept.dropped = more.dropped + k
      /\ grouping => kept = more
  BY <1>3, BudgetDrops DEF kept
<1>5. r.steps = kept.steps /\ r.redo = <<>> /\ r.dropped = kept.dropped
  BY <1>1, <1>4 DEF ListsType
<1>6. r \in ListsType
  BY PushPushes DEF Pushed
<1>7. QED
  BY <1>2, <1>3, <1>4, <1>5, <1>6 DEF longer, CutFrom

\* One entry more than the steps name is one push.
LEMMA SyncOne ==
    ASSUME NEW lists \in ListsType, NEW commands, Len(commands.undo) = SceneSteps(lists.steps) + 1,
           NEW r, r = SyncSceneSteps(lists, commands, FALSE)
    PROVE  \E back \in BOOLEAN : ~back /\ r = Push(lists, commands, back, <<Scene>>)
<1>1. SceneSteps(lists.steps) \in Nat
  BY SceneStepsNat DEF ListsType
<1>2. 1 \in Nat /\ 1 > 0 /\ Len(commands.undo) \in Nat
      /\ 1 = Len(commands.undo) - SceneSteps(lists.steps)
  BY <1>1
<1>3. PICK P : Adds(P, lists, commands, 1, r)
  BY <1>2, SyncAdds
<1>4. /\ P[0] = lists /\ P[1] = r
      /\ \A k \in 1..1 : P[k] = Push(P[k - 1], commands, FALSE, <<Scene>>)
  BY <1>3 DEF Adds
<1>5. \A k \in 1..1 : \E back \in BOOLEAN : ~back /\ P[k] = Push(P[k - 1], commands, back, <<Scene>>)
  BY <1>4
<1>6. 1 \in 1..1 /\ 1 - 1 = 0
  OBVIOUS
<1>7. PICK back \in BOOLEAN : ~back /\ P[1] = Push(P[1 - 1], commands, back, <<Scene>>)
  BY <1>5, <1>6
<1>8. QED
  BY <1>4, <1>6, <1>7

\* The step a bracket's steps become, alone or folded.
Made(produced) == IF Len(produced) >= 2 THEN Compound(produced) ELSE produced[1]

\* The one step reaches as far as the steps it is made of, and names as many entries.
LEMMA MadeStep ==
    ASSUME NEW produced \in Seq(WholeStep), produced # <<>>,
           \A i \in 1..Len(produced) : Reversible(produced[i]), NEW g, Stages(g, produced)
    PROVE  /\ Made(produced) \in WholeStep /\ Reversible(Made(produced))
           /\ Spans(Made(produced), g[0], g[Len(produced)])
           /\ ScenesIn(Made(produced)) = SceneSteps(produced)
<1>1. \A i \in 1..Len(produced) : produced[i] \in Seq(FreeLeaf) \ {<<>>}
  BY DEF Reversible, WholeStep
<1>2. Len(produced) \in Nat /\ Len(produced) >= 1
  OBVIOUS
<1>3. produced \in [1..Len(produced) -> Seq(FreeLeaf) \ {<<>>}]
  BY <1>1
<1>4. \A S : \A m \in Nat : [1..m -> S] \subseteq Seq(S)
  OBVIOUS
<1>5. produced \in Seq(Seq(FreeLeaf) \ {<<>>})
  BY <1>2, <1>3, <1>4
<1>6. FreeLeaf \in SUBSET Leaf /\ Barrier \notin FreeLeaf
  BY DEF FreeLeaf
<1>7. CASE Len(produced) >= 2
  <2>1. Made(produced) = Compound(produced)
    BY <1>7 DEF Made
  <2>2. Compound(produced) \in Seq(FreeLeaf) \ {<<>>} /\ ScenesIn(Compound(produced)) = SceneSteps(produced)
    BY <1>5, <1>6, GatheredAll DEF Compound
  <2>3. produced \in Seq(Seq(Leaf))
    <3>1. WholeStep \subseteq Seq(Leaf)
      BY StepTypes DEF Step
    <3>2. QED
      BY <3>1, SeqMonotonic
  <2>4. Spans(Compound(produced), g[0], g[Len(produced)])
    BY <2>3, GatheredSpans DEF Compound
  <2>5. Compound(produced) \in WholeStep
    BY <2>2 DEF WholeStep
  <2>6. Compound(produced) # <<Barrier>>
    <3> DEFINE c == Compound(produced)
    <3>1. c \in Seq(FreeLeaf)
      BY <2>2
    <3> HIDE DEF c
    <3>2. c = <<Barrier>> => c[1] \in FreeLeaf /\ c[1] = Barrier
      BY <3>1
    <3>3. QED
      BY <1>6, <3>2 DEF c
  <2>7. QED
    BY <2>1, <2>2, <2>4, <2>5, <2>6 DEF Reversible
<1>8. CASE ~(Len(produced) >= 2)
  <2>0. Len(produced) = 1
    <3>1. \A n \in Nat : n >= 1 /\ ~(n >= 2) => n = 1
      OBVIOUS
    <3>2. QED
      BY <1>2, <1>8, <3>1
  <2>1. Len(produced) = 1 /\ 1 \in 1..Len(produced) /\ Made(produced) = produced[1]
    BY <1>8, <2>0 DEF Made
  <2>2. produced[1] \in WholeStep
    BY <2>1
  <2>3. Spans(produced[1], g[0], g[1])
    <3>1. Spans(produced[1], g[1 - 1], g[1])
      BY <2>1 DEF Stages
    <3>2. QED
      BY <3>1
  <2>4. SceneSteps(produced) = ScenesIn(produced[1])
    <3>1. produced = <<produced[1]>>
      BY <2>1
    <3>2. produced[1] \in AnyStep
      BY <2>2, StepTypes
    <3>3. QED
      BY <3>1, <3>2, SceneStepsOfOne
  <2>5. QED
    BY <2>1, <2>2, <2>3, <2>4
<1>9. QED
  BY <1>7, <1>8

\* The bracket that started at `start` has produced something, and no barrier.
Producing(lists, old, produced) ==
    /\ start \in 0..Len(lists.steps)
    /\ old = SubSeq(lists.steps, 1, start) /\ produced = Without(lists.steps, start)
    /\ produced # <<>> /\ \A i \in 1..Len(produced) : Reversible(produced[i])
    /\ lists.redo = <<>>

\* The lists as it is folded into one step.
LEMMA Folds ==
    ASSUME NEW lists \in ListsType, NEW commands, NEW old, NEW produced,
           Producing(lists, old, produced), NEW r, r = CollapseGroup(lists, commands)
    PROVE  /\ r.redo = <<>>
           /\ CutFrom(r.steps, Append(old, Made(produced)), Len(old))
<1> DEFINE list     == lists.steps
           from     == IF start > Len(list) THEN Len(list) ELSE start
           compound == Gathered(produced, TRUE) \o Gathered(produced, FALSE)
           whole    == Append(old, compound)
           folded   == [lists EXCEPT !.steps = whole]
           back     == FALSE
<1>0. /\ start \in 0..Len(lists.steps)
      /\ old = SubSeq(lists.steps, 1, start) /\ produced = Without(lists.steps, start)
      /\ produced # <<>> /\ \A i \in 1..Len(produced) : Reversible(produced[i])
      /\ lists.redo = <<>>
  BY DEF Producing
<1>1. list \in Seq(WholeStep) /\ from = start /\ start \in Nat /\ start <= Len(list)
      /\ Len(list) \in Nat
  BY <1>0 DEF ListsType
<1>2. /\ old \in Seq(WholeStep) /\ Len(old) = start /\ produced \in Seq(WholeStep)
      /\ Append(old, list[Len(list)]) = Append(old, list[Len(list)])
  <2>1. produced \in Seq(WholeStep)
    BY <1>0, <1>1, WithoutKeeps
  <2>2. QED
    BY <1>0, <1>1, <2>1
<1>3. r = IF FoldsIntoOne(produced) THEN EnforceBudget(folded, commands, back) ELSE lists
  BY <1>0, <1>1 DEF CollapseGroup
<1> HIDE DEF back
<1>4. CASE Len(produced) >= 2
  <2>1. FoldsIntoOne(produced)
    BY <1>0, <1>4 DEF FoldsIntoOne
  <2>2. compound \in WholeStep /\ compound = Made(produced)
    BY <1>2, <1>4, <2>1, CompoundStep DEF Compound, Made
  <2> HIDE DEF compound
  <2>3. whole \in Seq(WholeStep) /\ Evictable(whole) = Len(old)
    <3>1. whole \in Seq(WholeStep) /\ Len(whole) = Len(old) + 1 /\ Len(old) \in Nat
      BY <1>2, <2>2
    <3> HIDE DEF whole
    <3>2. whole # <<>>
      BY <3>1
    <3>3. QED
      BY <3>1, <3>2 DEF Evictable
  <2> HIDE DEF whole
  <2>4. folded \in ListsType /\ folded.steps = whole /\ folded.redo = <<>>
    BY <1>0, <2>3 DEF ListsType
  <2> HIDE DEF folded
  <2>5. r = EnforceBudget(folded, commands, back) /\ back \in BOOLEAN
    BY <1>3, <2>1 DEF back
  <2>6. PICK i \in 0..Len(folded.redo), k \in 0..Evictable(folded.steps) :
                 /\ r.redo = Without(folded.redo, i) /\ r.steps = Without(folded.steps, k)
                 /\ r.dropped = folded.dropped + k
    BY <2>4, <2>5, BudgetDrops
  <2>7. r.redo = <<>>
    <3>1. i \in 0..0
      BY <2>4, <2>6
    <3>2. Without(<<>>, 0) = <<>>
      BY DEF Without
    <3>3. QED
      BY <2>4, <2>6, <3>1, <3>2
  <2>8. QED
    BY <2>2, <2>3, <2>4, <2>6, <2>7 DEF whole, CutFrom
<1>5. CASE ~(Len(produced) >= 2)
  <2>1. r = lists /\ Made(produced) = produced[1]
    BY <1>3, <1>5 DEF FoldsIntoOne, Made
  <2>2. Len(produced) = Len(list) - start
    BY <1>0, <1>1, WithoutKeeps
  <2>3. Len(produced) = 1 /\ Len(list) = start + 1
    <3>1. \A n \in Nat : n # 0 /\ ~(n >= 2) => n = 1
      OBVIOUS
    <3>2. Len(produced) \in Nat /\ Len(produced) # 0
      BY <1>0, <1>2
    <3>3. Len(produced) = 1
      BY <1>5, <3>1, <3>2
    <3>4. \A m \in Nat, n \in Nat : 1 = m - n => m = n + 1
      OBVIOUS
    <3>5. QED
      BY <1>1, <2>2, <3>3, <3>4
  <2>4. produced[1] = list[start + 1]
    BY <1>0, <1>1, <2>3 DEF Without
  <2>5. Append(old, list[start + 1]) = list
    <3> HIDE DEF list
    <3>1. old = SubSeq(list, 1, start)
      BY <1>0 DEF list
    <3>2. QED
      BY <1>1, <2>3, <3>1
  <2>6. lists.steps = Without(Append(old, Made(produced)), 0)
    BY <1>1, <2>1, <2>4, <2>5, WithoutNone
  <2>7. 0 \in 0..Len(old)
    BY <1>2
  <2>8. QED
    BY <1>0, <2>1, <2>6, <2>7 DEF CutFrom
<1>6. QED
  BY <1>4, <1>5

\* One step at most is not folded.
LEMMA FoldsNothing ==
    ASSUME NEW lists \in ListsType, NEW commands, start \in Nat, Len(lists.steps) <= start + 1,
           NEW r, r = CollapseGroup(lists, commands)
    PROVE  r = lists
<1> DEFINE list     == lists.steps
           from     == IF start > Len(list) THEN Len(list) ELSE start
           produced == Without(list, from)
           compound == Gathered(produced, TRUE) \o Gathered(produced, FALSE)
           folded   == [lists EXCEPT !.steps = Append(SubSeq(@, 1, from), compound)]
           new      == EnforceBudget(folded, commands, FALSE)
<1>1. list \in Seq(WholeStep)
  BY DEF ListsType
<1>2. r = IF FoldsIntoOne(produced) THEN new ELSE lists
  BY DEF CollapseGroup
<1> HIDE DEF new, compound, folded
<1>3. from \in 0..Len(list) /\ Len(list) - from <= 1
  BY <1>1
<1> HIDE DEF from
<1>4. Len(produced) = Len(list) - from
  BY <1>1, <1>3, WithoutKeeps
<1> HIDE DEF list, produced
<1>5. ~(Len(produced) >= 2)
  BY <1>3, <1>4
<1>6. QED
  BY <1>2, <1>5 DEF FoldsIntoOne

\* The steps of the open bracket.
Newer == Without(steps, start)
Older == SubSeq(steps, 1, start)

\* What the outermost end makes of the lists: nothing, or one step in the
\* place of what the bracket produced.
BracketEnds(v) ==
    LET produced == IF Undos(v) = SceneSteps(steps) THEN Newer ELSE Append(Newer, <<Scene>>)
    IN  \/ Newer = <<>> /\ Undos(v) = SceneSteps(steps) /\ UNCHANGED <<steps, redo>>
        \/ /\ produced # <<>> /\ redo' = <<>>
           /\ CutFrom(steps', Append(Older, Made(produced)), start)

\* The outermost end_group folds what the bracket produced, or leaves the lists alone
\* when it produced nothing (history.cpp, end_group).
LEMMA Ends ==
    ASSUME Typed, depth = 1, start <= Len(steps), NEW v, v = Closed(world), v \in World,
           Undos(v) \in {SceneSteps(steps), SceneSteps(steps) + 1},
           \A i \in 1..Len(Newer) : Reversible(Newer[i]), Newer # <<>> => redo = <<>>,
           EndGroup, "evictionInClose" \notin Calls
    PROVE  BracketEnds(v)
<1> DEFINE commands == StackEndGroup(world.commands)
           synced == SyncSceneSteps(Lists, commands, FALSE)
           folded == CollapseGroup(synced, commands)
<1>1. /\ SceneSteps(steps) \in Nat /\ Lists \in ListsType
      /\ Lists.steps = steps /\ Lists.redo = redo /\ Lists.dropped = dropped
      /\ steps \in Seq(WholeStep) /\ world \in World /\ dropped \in Nat
  BY Sizes
<1>2. start \in 0..Len(steps) /\ start \in Nat /\ Len(steps) \in Nat
  BY <1>1 DEF Typed
<1>3. Older \in Seq(WholeStep) /\ Len(Older) = start /\ Newer \in Seq(WholeStep)
      /\ Len(Newer) = Len(steps) - start
  <2>1. Newer \in Seq(WholeStep) /\ Len(Newer) = Len(steps) - start
    BY <1>1, <1>2, WithoutKeeps DEF Newer
  <2>2. QED
    BY <1>1, <1>2, <2>1 DEF Older
<1>4. v.commands = commands
  BY <1>1 DEF Closed, World
<1>5. ~(depth > 1) => SetLists(folded) /\ ClosesWhole(synced)
  BY DEF EndGroup
<1>11. folded = CollapseGroup(synced, commands)
  OBVIOUS
<1> HIDE DEF synced, folded, commands
<1>6. Len(commands.undo) = Undos(v) /\ Len(commands.undo) \in Nat
  BY <1>1, <1>4 DEF Undos
<1>7. steps' = folded.steps /\ redo' = folded.redo /\ (Len(steps) = start \/ synced.dropped = dropped)
  BY <1>5 DEF SetLists, ClosesWhole
<1>8. CASE Undos(v) = SceneSteps(steps)
  <2>1. synced = Lists
    <3>1. FALSE \in BOOLEAN /\ SceneSteps(Lists.steps) = Len(commands.undo)
      BY <1>1, <1>6, <1>8
    <3>2. /\ synced \in ListsType
          /\ FALSE \/ SceneSteps(Lists.steps) = Len(commands.undo) => synced = Lists
      BY <1>1, <1>6, <3>1, SyncSettles DEF synced
    <3>3. QED
      BY <3>1, <3>2
  <2>2. CASE Newer = <<>>
    <3>1. Len(synced.steps) <= start + 1 /\ synced \in ListsType
      BY <1>1, <1>2, <1>3, <2>1, <2>2
    <3>2. folded = synced
      BY <1>2, <3>1, <1>11, FoldsNothing
    <3>3. QED
      BY <1>1, <1>7, <1>8, <2>1, <2>2, <3>2 DEF BracketEnds
  <2>3. CASE Newer # <<>>
    <3>1. synced \in ListsType /\ Producing(synced, Older, Newer)
      BY <1>1, <1>2, <2>1, <2>3 DEF Older, Newer, Producing
    <3>2. /\ folded.redo = <<>>
          /\ CutFrom(folded.steps, Append(Older, Made(Newer)), Len(Older))
      BY <2>3, <3>1, <1>11, Folds
    <3>3. QED
      BY <1>3, <1>7, <1>8, <2>3, <3>2 DEF BracketEnds
  <2>4. QED
    BY <2>2, <2>3
<1>9. CASE Undos(v) = SceneSteps(steps) + 1
  <2>0. Undos(v) # SceneSteps(steps)
    BY <1>1, <1>9
  <2>1. PICK back \in BOOLEAN : ~back /\ synced = Push(Lists, commands, back, <<Scene>>)
    BY <1>1, <1>6, <1>9, SyncOne DEF synced
  <2>2. <<Scene>> \in WholeStep /\ Reversible(<<Scene>>) /\ <<Scene>> \in AnyStep
    BY StepTypes DEF Reversible, Scene, Barrier
  <2>3. /\ synced \in ListsType /\ synced.redo = <<>>
        /\ CutFrom(synced.steps, Append(Lists.steps, <<Scene>>), Len(Lists.steps))
        /\ back => synced.steps = Append(Lists.steps, <<Scene>>) /\ synced.dropped = Lists.dropped
    BY <1>1, <2>1, <2>2, PushDrops
  <2>4. CASE Newer = <<>>
    <3>1. Len(steps) = start /\ Older = steps
      BY <1>1, <1>2, <1>3, <2>4 DEF Older
    <3>2. PICK k \in 0..Len(steps) : synced.steps = Without(Append(steps, <<Scene>>), k)
      BY <1>1, <2>3 DEF CutFrom
    <3> DEFINE longer == Append(steps, <<Scene>>)
    <3>3. longer \in Seq(WholeStep) /\ Len(longer) = start + 1
      BY <1>1, <2>2, <3>1
    <3> HIDE DEF longer
    <3>4. Len(Without(longer, k)) = (start + 1) - k /\ k \in Nat
      BY <1>2, <3>1, <3>3, WithoutKeeps
    <3>5. Len(synced.steps) <= start + 1
      BY <1>2, <3>2, <3>4 DEF longer
    <3>6. folded = synced
      BY <1>2, <2>3, <3>5, <1>11, FoldsNothing
    <3>7. Append(Newer, <<Scene>>) # <<>> /\ Made(Append(Newer, <<Scene>>)) = <<Scene>>
      <4>1. Append(Newer, <<Scene>>) = << <<Scene>> >>
        BY <2>4
      <4>2. QED
        BY <4>1 DEF Made
    <3>8. QED
      BY <1>7, <2>0, <2>3, <3>1, <3>2, <3>6, <3>7 DEF BracketEnds, CutFrom
  <2>5. CASE Newer # <<>>
    <3> DEFINE more == Append(Newer, <<Scene>>)
               list == Append(steps, <<Scene>>)
    <3>1. synced.dropped = dropped
      <4>1. Len(Newer) # 0
        BY <1>3, <2>5
      <4>2. QED
        BY <1>2, <1>3, <1>7, <4>1
    <3>2. synced.steps = list
      <4>1. Pushed(synced, Lists, <<Scene>>)
        BY <1>1, <2>1, <2>2, PushPushes
      <4>2. QED
        BY <1>1, <3>1, <4>1 DEF Pushed
    <3>3. /\ list \in Seq(WholeStep) /\ Len(list) = Len(steps) + 1 /\ start \in 0..Len(list)
          /\ Without(list, start) = more
      BY <1>1, <1>2, <2>2, WithoutAppend DEF Newer
    <3>4. SubSeq(list, 1, start) = Older
      BY <1>1, <1>2, <2>2 DEF Older
    <3>5. more # <<>> /\ \A i \in 1..Len(more) : Reversible(more[i])
      <4>1. /\ Len(more) = Len(Newer) + 1 /\ Len(Newer) \in Nat
            /\ \A i \in 1..Len(Newer) : more[i] = Newer[i]
            /\ more[Len(Newer) + 1] = <<Scene>>
        BY <1>3, <2>2
      <4> HIDE DEF more
      <4>2. ASSUME NEW i \in 1..Len(more) PROVE Reversible(more[i])
        <5>1. i \in 1..Len(Newer) \/ i = Len(Newer) + 1
          BY <4>1
        <5>2. QED
          BY <2>2, <4>1, <5>1
      <4>3. more # <<>>
        BY <4>1
      <4>4. QED
        BY <4>2, <4>3
    <3> HIDE DEF more, list
    <3>6. Producing(synced, Older, more)
      BY <2>3, <3>2, <3>3, <3>4, <3>5 DEF Producing
    <3>7. /\ folded.redo = <<>>
          /\ CutFrom(folded.steps, Append(Older, Made(more)), Len(Older))
      BY <2>3, <3>5, <3>6, <1>11, Folds
    <3>8. QED
      BY <1>3, <1>7, <2>0, <3>5, <3>7 DEF BracketEnds, more
  <2>6. QED
    BY <2>4, <2>5
<1>10. QED
  BY <1>8, <1>9

-----------------------------------------------------------------------------
(* An open bracket, and what its outermost end makes of it. *)

\* A host whose undo walks one line: no stroke that grows a step already taken,
\* nothing irreversible or undone while a bracket is open, no bracket whose start or
\* close meets an eviction, and the budget or the engine's own edits, not both.
LineHost ==
    /\ {"barrierInBracket", "bracketAfterEviction", "clearOverCommands", "evictionInClose",
        "strokeAcrossSteps", "trimInBracket", "undoInBracket"} \cap Calls = {}
    /\ EngineEdits = {} \/ Limits = {}

\* The contents a list of steps leads through, from a to c.
Reaches(list, a, c) == \E g : Stages(g, list) /\ g[0] = a /\ g[Len(list)] = c

\* An open bracket: what it has collected on the stack and produced on the list
\* leads from b, where it was opened and where the line waits.
OpenedFrom(b) ==
    /\ b.commands.depth = 0 /\ Collecting(world, b)
    /\ start <= Len(steps)
    /\ SceneSteps(Older) = Undos(b) /\ SceneSteps(Newer) = 0
    /\ \A i \in 1..Len(Newer) : Reversible(Newer[i])
    /\ Reaches(Newer, b.content, world.content)
    /\ Newer # <<>> => redo = <<>>
    /\ line.anchor = <<Image(b)>>
    /\ line.past = Behind(b, AboveBarrier(Older))
    /\ Newer = <<>> => line.future = Ahead(b, redo)

\* One step more, and none.
LEMMA ReachesMore ==
    ASSUME NEW list \in Seq(WholeStep), NEW a, NEW c, Reaches(list, a, c),
           NEW d \in Contents, NEW step \in WholeStep, Spans(step, c, d)
    PROVE  Reaches(Append(list, step), a, d)
<1> DEFINE n == Len(list)
           more == Append(list, step)
<1>1. PICK g : Stages(g, list) /\ g[0] = a /\ g[n] = c
  BY DEF Reaches
<1> DEFINE h == [k \in 0..(n + 1) |-> IF k = n + 1 THEN d ELSE g[k]]
<1>2. n \in Nat /\ Len(more) = n + 1 /\ more[n + 1] = step /\ \A i \in 1..n : more[i] = list[i]
  OBVIOUS
<1>3. /\ g \in [0..n -> Contents]
      /\ \A i \in 1..n : Spans(list[i], g[i - 1], g[i])
  BY <1>1 DEF Stages
<1> HIDE DEF n, more
<1>4. /\ h \in [0..(n + 1) -> Contents] /\ h[n + 1] = d /\ \A k \in 0..n : h[k] = g[k]
  BY <1>2, <1>3
<1> HIDE DEF h
<1>5. ASSUME NEW i \in 1..(n + 1) PROVE Spans(more[i], h[i - 1], h[i])
  <2>1. CASE i = n + 1
    <3>1. i - 1 = n /\ n \in 0..n /\ h[n] = c
      BY <1>1, <1>2, <1>4, <2>1
    <3>2. QED
      BY <1>2, <1>4, <2>1, <3>1
  <2>2. CASE i \in 1..n
    <3>1. i - 1 \in 0..n /\ i \in 0..n
      BY <1>2, <2>2
    <3>2. QED
      BY <1>2, <1>3, <1>4, <2>2, <3>1
  <2>3. QED
    BY <1>2, <2>1, <2>2
<1>6. Stages(h, more)
  BY <1>2, <1>4, <1>5 DEF Stages
<1>7. h[0] = a /\ h[Len(more)] = d
  BY <1>1, <1>2, <1>4
<1>8. QED
  BY <1>6, <1>7 DEF Reaches, more

\* An empty list reaches where it starts, and no other content.
LEMMA ReachesNowhere ==
    ASSUME NEW a, NEW c
    PROVE  /\ Reaches(<<>>, a, c) => a = c
           /\ a \in Contents => Reaches(<<>>, a, a)
<1>1. Reaches(<<>>, a, c) => a = c
  BY DEF Reaches
<1>2. ASSUME a \in Contents PROVE Reaches(<<>>, a, a)
  <2> DEFINE g == [k \in 0..0 |-> a]
  <2>1. g \in [0..Len(<<>>) -> Contents] /\ g[0] = a /\ g[Len(<<>>)] = a
    BY <1>2
  <2>2. Stages(g, <<>>)
    BY <2>1 DEF Stages
  <2>3. QED
    BY <2>1, <2>2 DEF Reaches
<1>3. QED
  BY <1>1, <1>2

\* What an open bracket knows of the lists.
LEMMA BracketLists ==
    ASSUME Typed, NEW b \in World, OpenedFrom(b)
    PROVE  /\ start \in 0..Len(steps) /\ start \in Nat
           /\ steps \in Seq(WholeStep) /\ redo \in Seq(WholeStep) /\ world \in World
           /\ Older \in Seq(WholeStep) /\ Len(Older) = start
           /\ Newer \in Seq(WholeStep) /\ Len(Newer) = Len(steps) - start
           /\ SceneSteps(steps) = Undos(b) /\ Undos(b) \in Nat
<1>1. steps \in Seq(WholeStep) /\ redo \in Seq(WholeStep) /\ start \in Nat /\ world \in World
  BY DEF Typed
<1>2. start \in 0..Len(steps)
  BY <1>1 DEF OpenedFrom
<1>3. Newer \in Seq(WholeStep) /\ Len(Newer) = Len(steps) - start
  BY <1>1, <1>2, WithoutKeeps DEF Newer
<1>4. Older \in Seq(WholeStep) /\ Len(Older) = start
  BY <1>1, <1>2 DEF Older
<1>5. SceneSteps(steps) = SceneSteps(Older) + SceneSteps(Newer)
  <2>1. steps \in Seq(AnyStep)
    BY <1>1, StepTypes
  <2>2. QED
    BY <1>2, <2>1, SceneStepsMoves DEF Older, Newer
<1>6. Undos(b) \in Nat
  BY SizesAreNat
<1>7. QED
  BY <1>1, <1>2, <1>3, <1>4, <1>5, <1>6 DEF OpenedFrom

\* The step the bracket becomes leads back to where it was opened.
LEMMA BracketStep ==
    ASSUME NEW b \in World, NEW v \in World, StackLine(v), NEW old \in Seq(WholeStep),
           SceneSteps(old) = Undos(b), NEW produced \in Seq(WholeStep), produced # <<>>,
           \A i \in 1..Len(produced) : Reversible(produced[i]),
           Reaches(produced, b.content, v.content), GoesBackTo(v, Made(produced), b),
           NEW list, CutFrom(list, Append(old, Made(produced)), Len(old))
    PROVE  Shortened(Behind(v, AboveBarrier(list)), Append(Behind(b, AboveBarrier(old)), Image(b)), 1)
<1> DEFINE step == Made(produced)
<1>1. PICK g : Stages(g, produced) /\ g[0] = b.content /\ g[Len(produced)] = v.content
  BY DEF Reaches
<1>2. /\ step \in WholeStep /\ Reversible(step)
      /\ Spans(step, g[0], g[Len(produced)])
      /\ ScenesIn(step) = SceneSteps(produced)
  BY <1>1, MadeStep
<1>3. PICK k \in 0..Len(old) : list = Without(Append(old, step), k)
  BY DEF CutFrom
<1> HIDE DEF step
<1>4. Spans(step, b.content, v.content) /\ GoesBackTo(v, step, b)
  BY <1>1, <1>2 DEF step
<1>5. SamePast(TakenBack(v, step), b)
  BY <1>2, <1>4, TakenBackTo
<1>6. SceneSteps(old) <= Undos(b)
  BY SizesAreNat
<1>7. QED
  BY <1>2, <1>3, <1>5, <1>6, PushedLine

\* What the outermost end leaves of the stack, and of what the steps name.
ClosedFrom(v, b) ==
    /\ v \in World /\ StackLine(v) /\ v.content = world.content /\ v.doc = world.doc
    /\ v.commands.depth = 0
    /\ \/ /\ v.commands.undo = b.commands.undo /\ v.commands.redo = b.commands.redo
          /\ v.doc = b.doc /\ Undos(v) = Undos(b)
       \/ /\ Gathering(v.commands, v.doc, b.commands.undo, b.doc)
          /\ Undos(v) = Undos(b) + 1

\* The outermost end closes the open entry, or drops it when it is empty.
LEMMA BracketWorld ==
    ASSUME Typed, StackLine(world), world.commands.depth = 1, NEW b \in World, OpenedFrom(b)
    PROVE  ClosedFrom(Closed(world), b)
<1> DEFINE v == Closed(world)
           c == [b EXCEPT !.content = world.content]
<1>1. world \in World /\ Collecting(world, b)
  BY DEF Typed, OpenedFrom
<1>2. /\ v \in World /\ v.content = world.content /\ v.commands.depth = 0
      /\ \/ SamePast(v, c) /\ v.commands.redo = b.commands.redo
            /\ Undos(v) = Undos(b) /\ v.doc = b.doc
         \/ Gathering(v.commands, v.doc, b.commands.undo, b.doc) /\ Undos(v) = Undos(b) + 1
  BY <1>1, CollectsLast
<1>3. Retains(v, world)
  BY <1>1, EndRetains DEF Closed
<1>4. v.doc = world.doc
  BY <1>1 DEF Closed, World
<1>5. c.commands = b.commands
  BY DEF World
<1> HIDE DEF v, c
<1>6. QED
  BY <1>2, <1>3, <1>4, <1>5 DEF ClosedFrom, Retains, SamePast, v

\* Nothing collected and nothing produced: the session is back where it was.
LEMMA BracketVoid ==
    ASSUME Typed, NEW b \in World, OpenedFrom(b), NEW v, ClosedFrom(v, b),
           Newer = <<>>, Undos(v) = SceneSteps(steps)
    PROVE  v = b /\ Older = steps /\ Image(world) = Image(b)
<1>1. /\ start \in 0..Len(steps) /\ steps \in Seq(WholeStep)
      /\ Len(Newer) = Len(steps) - start /\ SceneSteps(steps) = Undos(b) /\ Undos(b) \in Nat
      /\ Len(Older) = start
  BY BracketLists
<1>2. v \in World /\ v.content = world.content /\ v.doc = world.doc /\ v.commands.depth = 0
  BY DEF ClosedFrom
<1>3. /\ v.commands.undo = b.commands.undo /\ v.commands.redo = b.commands.redo
      /\ v.doc = b.doc
  <2>1. Undos(v) # Undos(b) + 1
    BY <1>1
  <2>2. QED
    BY <2>1 DEF ClosedFrom
<1>4. b.content = world.content
  <2>1. Reaches(<<>>, b.content, world.content)
    BY DEF OpenedFrom
  <2>2. QED
    BY <2>1, ReachesNowhere
<1>5. b.commands.depth = 0
  BY DEF OpenedFrom
<1>6. v.commands = b.commands
  <2>1. v.commands \in UndoStackType /\ b.commands \in UndoStackType
    BY <1>2 DEF World
  <2> DEFINE p == v.commands
             q == b.commands
  <2>2. p.undo = q.undo /\ p.redo = q.redo /\ p.depth = q.depth
    BY <1>2, <1>3, <1>5
  <2> HIDE DEF p, q
  <2>3. p = q
    BY <2>1, <2>2 DEF UndoStackType, p, q
  <2>4. QED
    BY <2>3 DEF p, q
<1>7. v = b
  BY <1>2, <1>3, <1>4, <1>6 DEF World
<1>8. Older = steps
  <2>1. Len(Newer) = 0
    OBVIOUS
  <2>2. start = Len(steps)
    BY <1>1, <2>1
  <2>3. QED
    BY <1>1, <2>2 DEF Older
<1>9. QED
  BY <1>2, <1>3, <1>4, <1>7, <1>8 DEF Image

\* Something collected or produced: one state more in the past.
LEMMA BracketFull ==
    ASSUME Typed, NEW b \in World, OpenedFrom(b), NEW v, ClosedFrom(v, b), NEW produced,
           produced = (IF Undos(v) = SceneSteps(steps) THEN Newer ELSE Append(Newer, <<Scene>>)),
           produced # <<>>, NEW list, CutFrom(list, Append(Older, Made(produced)), start)
    PROVE  Shortened(Behind(v, AboveBarrier(list)), Append(Behind(b, AboveBarrier(Older)), Image(b)), 1)
<1>1. /\ start \in 0..Len(steps) /\ steps \in Seq(WholeStep)
      /\ Newer \in Seq(WholeStep) /\ SceneSteps(steps) = Undos(b) /\ Undos(b) \in Nat
      /\ Older \in Seq(WholeStep) /\ Len(Older) = start
  BY BracketLists
<1>2. v \in World /\ v.content = world.content /\ StackLine(v)
  BY DEF ClosedFrom
<1>3. /\ SceneSteps(Older) = Undos(b) /\ SceneSteps(Newer) = 0
      /\ \A i \in 1..Len(Newer) : Reversible(Newer[i])
      /\ Reaches(Newer, b.content, v.content)
  BY <1>2 DEF OpenedFrom
<1>4. /\ produced \in Seq(WholeStep) /\ \A i \in 1..Len(produced) : Reversible(produced[i])
      /\ Reaches(produced, b.content, v.content)
      /\ SceneSteps(produced) = Undos(v) - Undos(b)
      /\ Undos(v) = Undos(b) \/ Undos(v) = Undos(b) + 1
  <2>1. CASE Undos(v) = Undos(b)
    BY <1>1, <1>3, <2>1
  <2>2. CASE Undos(v) = Undos(b) + 1
    <3>1. <<Scene>> \in WholeStep /\ Reversible(<<Scene>>) /\ <<Scene>> \in AnyStep
          /\ ScenesIn(<<Scene>>) = 1
      BY StepTypes, ScenesInPlain DEF Reversible, Scene, Barrier
    <3>2. produced = Append(Newer, <<Scene>>)
      BY <1>1, <2>2
    <3>3. SceneSteps(produced) = 1
      <4>1. Newer \in Seq(AnyStep)
        BY <1>1, StepTypes
      <4>2. SceneSteps(Append(Newer, <<Scene>>)) = SceneSteps(Newer) + ScenesIn(<<Scene>>)
        BY <3>1, <4>1, SceneStepsMoves
      <4>3. QED
        BY <1>3, <3>1, <3>2, <4>2
    <3>4. /\ produced \in Seq(WholeStep) /\ Len(produced) = Len(Newer) + 1 /\ Len(Newer) \in Nat
          /\ \A i \in 1..Len(Newer) : produced[i] = Newer[i]
          /\ produced[Len(Newer) + 1] = <<Scene>>
      BY <1>1, <3>1, <3>2
    <3>5. ASSUME NEW i \in 1..Len(produced) PROVE Reversible(produced[i])
      <4>1. i \in 1..Len(Newer) \/ i = Len(Newer) + 1
        BY <3>4
      <4>2. QED
        BY <1>3, <3>1, <3>4, <4>1
    <3>6. Reaches(produced, b.content, v.content)
      <4>1. v.content \in Contents
        BY <1>2 DEF World, Contents
      <4>2. Spans(<<Scene>>, v.content, v.content)
        BY <4>1, SpansScene
      <4>3. QED
        BY <1>1, <1>3, <3>1, <3>2, <4>1, <4>2, ReachesMore
    <3>7. Undos(v) - Undos(b) = 1
      BY <1>1, <2>2
    <3>8. QED
      BY <2>2, <3>3, <3>4, <3>5, <3>6, <3>7
  <2>3. QED
    BY <2>1, <2>2 DEF ClosedFrom
<1>5. ScenesIn(Made(produced)) = SceneSteps(produced)
  <2>1. PICK g : Stages(g, produced)
    BY <1>4 DEF Reaches
  <2>2. /\ Made(produced) \in WholeStep /\ Reversible(Made(produced))
        /\ Spans(Made(produced), g[0], g[Len(produced)])
        /\ ScenesIn(Made(produced)) = SceneSteps(produced)
    BY <1>4, <2>1, MadeStep
  <2>3. QED
    BY <2>2
<1>6. GoesBackTo(v, Made(produced), b)
  <2>1. CASE Undos(v) = Undos(b)
    <3>1. Undos(v) # Undos(b) + 1
      BY <1>1, <2>1
    <3>2. v.doc = b.doc /\ v.commands.undo = b.commands.undo
      BY <3>1 DEF ClosedFrom
    <3>3. ScenesIn(Made(produced)) = 0
      BY <1>1, <1>4, <1>5, <2>1
    <3>4. QED
      BY <3>2, <3>3 DEF GoesBackTo
  <2>2. CASE Undos(v) = Undos(b) + 1
    <3>1. Undos(v) # Undos(b)
      BY <1>1, <2>2
    <3>2. Gathering(v.commands, v.doc, b.commands.undo, b.doc)
      BY <3>1 DEF ClosedFrom
    <3>3. ScenesIn(Made(produced)) = 1
      BY <1>1, <1>4, <1>5, <2>2
    <3>4. QED
      BY <3>2, <3>3 DEF GoesBackTo
  <2>3. QED
    BY <1>4, <2>1, <2>2
<1>7. CutFrom(list, Append(Older, Made(produced)), Len(Older))
  BY <1>1
<1>8. QED
  BY <1>1, <1>2, <1>3, <1>4, <1>6, <1>7, BracketStep

-----------------------------------------------------------------------------
(* Outside brackets. *)

\* The line is that of the session, before and after.
OnLine == line = LineOf(world, steps, redo)

\* The line in the words of this module.
LEMMA LineIs ==
    ASSUME OnLine
    PROVE  /\ line.past = Behind(world, AboveBarrier(steps))
           /\ line.future = Ahead(world, redo)
           /\ line.anchor = <<>>
BY DEF OnLine, LineOf, Behind, Ahead

\* The same of the state after a step.
LEMMA LineIsNext ==
    ASSUME OnLine'
    PROVE  /\ line'.past = Behind(world', AboveBarrier(steps'))
           /\ line'.future = Ahead(world', redo')
           /\ line'.anchor = <<>>
BY DEF OnLine, LineOf, Behind, Ahead

\* LinearHistory may forget the oldest states just so.
LEMMA ShortenedIs ==
    ASSUME NEW q, NEW p, NEW least, Shortened(q, p, least)
    PROVE  q \in Linear!Forgotten(p, least)
BY DEF Shortened, Without, Linear!Forgotten

\* An edit with a step of its own.
LEMMA EditsLine ==
    ASSUME Typed, SceneSteps(steps) <= Undos(world), OnLine, OnLine',
           world' \in World, StackLine(world'), NEW step \in WholeStep, Reversible(step),
           Spans(step, world.content, world'.content), GoesBackTo(world', step, world),
           CutFrom(steps', Append(steps, step), Len(steps)), redo' = <<>>
    PROVE  Linear!Edit
<1>1. world \in World /\ steps \in Seq(WholeStep)
  BY DEF Typed
<1> DEFINE v == world'
           b == world
           list == steps'
<1>2. v \in World /\ b \in World /\ StackLine(v) /\ Spans(step, b.content, v.content)
      /\ GoesBackTo(v, step, b) /\ SceneSteps(steps) <= Undos(b)
  BY <1>1
<1>3. PICK k \in 0..Len(steps) : list = Without(Append(steps, step), k)
  BY DEF CutFrom
<1>4. line.past = Behind(b, AboveBarrier(steps)) /\ line.anchor = <<>>
  BY LineIs
<1>5. line'.past = Behind(v, AboveBarrier(list)) /\ line'.anchor = <<>>
      /\ line'.future = Ahead(v, redo')
  BY LineIsNext
<1> HIDE DEF v, b, list
<1>6. SamePast(TakenBack(v, step), b)
  BY <1>2, TakenBackTo
<1>7. Shortened(Behind(v, AboveBarrier(list)), Append(Behind(b, AboveBarrier(steps)), Image(b)), 1)
  BY <1>1, <1>2, <1>3, <1>6, PushedLine
<1>8. Shortened(line'.past, Append(line.past, Image(b)), 1)
  BY <1>4, <1>5, <1>7
<1>9. line'.past \in Linear!Forgotten(Append(line.past, Image(b)), 1)
  BY <1>8, ShortenedIs
<1>10. line'.future = <<>>
  <2>1. <<>> \in Seq(AnyStep)
    OBVIOUS
  <2>2. Ahead(v, <<>>) = <<>>
    BY <1>2, <2>1, BothWays
  <2>3. QED
    BY <1>5, <2>2
<1>11. QED
  BY <1>4, <1>5, <1>9, <1>10 DEF Linear!Edit, Linear!Closed, b

\* A step back past which nothing leads.
LEMMA HorizonLine ==
    ASSUME OnLine, OnLine', world' \in World, AboveBarrier(steps') = <<>>, redo' = <<>>
    PROVE  Linear!Horizon
<1> DEFINE v == world'
<1>1. line.anchor = <<>>
  BY LineIs
<1>2. /\ line'.past = Behind(v, AboveBarrier(steps')) /\ line'.anchor = <<>>
      /\ line'.future = Ahead(v, redo')
  BY LineIsNext
<1>3. v \in World
  OBVIOUS
<1> HIDE DEF v
<1>4. Behind(v, <<>>) = <<>> /\ Ahead(v, <<>>) = <<>>
  <2>1. <<>> \in Seq(AnyStep)
    OBVIOUS
  <2>2. QED
    BY <1>3, <2>1, BothWays
<1>5. QED
  BY <1>1, <1>2, <1>4 DEF Linear!Horizon, Linear!Closed

\* Nothing lies above the barrier of an empty list.
LEMMA AboveNone == AboveBarrier(<<>>) = <<>>
<1> DEFINE list == <<>>
           step == <<Scene>>
<1>1. list \in Seq(WholeStep) /\ step \in WholeStep
  BY StepTypes
<1> HIDE DEF list, step
<1>2. /\ AboveBarrier(<<>>) = <<>>
      /\ AboveBarrier(list) \in Seq(WholeStep)
      /\ \E a \in 0..Len(list) : AboveBarrier(list) = Without(list, a)
      /\ Append(list, step) \in Seq(WholeStep)
      /\ Reversible(step) => AboveBarrier(Append(list, step)) = Append(AboveBarrier(list), step)
      /\ ~Reversible(step) => AboveBarrier(Append(list, step)) = <<>>
  BY <1>1, AboveGrows
<1>3. QED
  BY <1>2

\* Eviction.
LEMMA ForgetsLine ==
    ASSUME Typed, OnLine, OnLine', UNCHANGED world, NEW r \in 0..Len(redo),
           NEW s \in 0..Evictable(steps), redo' = Without(redo, r), steps' = Without(steps, s)
    PROVE  Linear!Forget
<1> DEFINE a == AboveBarrier(steps)
           b == world
<1>1. steps \in Seq(WholeStep) /\ redo \in Seq(WholeStep) /\ b \in World
  BY DEF Typed
<1>2. /\ line.past = Behind(b, a) /\ line.anchor = <<>> /\ line.future = Ahead(b, redo)
  BY LineIs
<1>3. /\ line'.past = Behind(b, AboveBarrier(Without(steps, s))) /\ line'.anchor = <<>>
      /\ line'.future = Ahead(b, Without(redo, r))
  BY LineIsNext
<1>4. a \in Seq(WholeStep) /\ a \in Seq(AnyStep) /\ redo \in Seq(AnyStep)
  BY <1>1, AboveGrows, StepTypes
<1>5. s \in 0..Len(steps) /\ (steps # <<>> => s < Len(steps))
  BY <1>1 DEF Evictable
<1>6. PICK j \in 0..Len(a) : /\ AboveBarrier(Without(steps, s)) = Without(a, j)
                             /\ s < Len(steps) /\ a # <<>> => j < Len(a)
  <2>1. AboveHolds(steps)
    BY <1>1, AboveMoves
  <2>2. QED
    BY <1>5, <2>1 DEF AboveHolds, LeavesAbove
<1>7. a # <<>> => steps # <<>>
  BY AboveNone
<1> HIDE DEF a, b
<1>8. /\ Behind(b, a) \in Seq(Images) /\ Len(Behind(b, a)) = Len(a)
      /\ Behind(b, Without(a, j)) = Without(Behind(b, a), j)
  BY <1>1, <1>4, BothWays
<1>9. Ahead(b, Without(redo, r)) = Without(Ahead(b, redo), r) /\ Len(Ahead(b, redo)) = Len(redo)
  BY <1>1, <1>4, BothWays
<1> DEFINE p == Behind(b, a)
           f == Ahead(b, redo)
<1>10. Shortened(Without(p, j), p, IF p = <<>> THEN 0 ELSE 1)
  <2>1. CASE p = <<>>
    <3>1. j \in 0..(Len(p) - 0)
      BY <1>4, <1>8
    <3>2. QED
      BY <2>1, <3>1 DEF Shortened
  <2>2. CASE p # <<>>
    <3>1. a # <<>>
      <4>1. Len(p) # 0
        BY <1>8, <2>2
      <4>2. QED
        BY <1>8, <4>1
    <3>2. j \in 0..(Len(p) - 1)
      BY <1>4, <1>5, <1>6, <1>7, <1>8, <3>1
    <3>3. QED
      BY <2>2, <3>2 DEF Shortened
  <2>3. QED
    BY <2>1, <2>2
<1>11. Shortened(Without(f, r), f, 0)
  <2>1. r \in 0..(Len(f) - 0)
    BY <1>1, <1>9
  <2>2. QED
    BY <2>1 DEF Shortened
<1>12. /\ line'.past \in Linear!Forgotten(line.past, IF line.past = <<>> THEN 0 ELSE 1)
       /\ line'.future \in Linear!Forgotten(line.future, 0)
  <2> HIDE DEF p, f
  <2>1. line.past = p /\ line'.past = Without(p, j) /\ line.future = f /\ line'.future = Without(f, r)
    BY <1>2, <1>3, <1>6, <1>8, <1>9 DEF p, f
  <2>2. /\ Without(p, j) \in Linear!Forgotten(p, IF p = <<>> THEN 0 ELSE 1)
        /\ Without(f, r) \in Linear!Forgotten(f, 0)
    BY <1>10, <1>11, ShortenedIs
  <2>3. QED
    BY <2>1, <2>2
<1>13. QED
  BY <1>2, <1>3, <1>12 DEF Linear!Forget, Image

\* A barrier refuses, whatever it is applied to.
LEMMA BarrierRefuses ==
    ASSUME NEW w \in World, NEW forward \in BOOLEAN
    PROVE  ~ApplyStep(Layers, w, <<Barrier>>, forward).ok
<1> DEFINE step == <<Barrier>>
<1>1. step \in Seq(Leaf) /\ Len(step) = 1 /\ 1 \in 1..1
  BY DEF Leaf
<1>2. Order(step, forward)[1] = Barrier
  <2>1. CASE forward
    BY <2>1 DEF Order
  <2>2. CASE ~forward
    BY <2>2 DEF Order, Reverse
  <2>3. QED
    BY <2>1, <2>2
<1> HIDE DEF step
<1>3. SUFFICES ASSUME ApplyStep(Layers, w, step, forward).ok PROVE FALSE
  BY DEF step
<1>4. PICK W : Strides(W, Layers, w, step, forward)
  BY <1>1, <1>3, StridesOf
<1>5. Taken(Layers, W[1 - 1], Order(step, forward)[1], forward, W[1])
  BY <1>1, <1>4 DEF Strides
<1>6. ApplyLeaf(Layers, W[1 - 1], Barrier, forward).ok
  BY <1>2, <1>5 DEF Taken
<1>7. ~ApplyLeaf(Layers, W[1 - 1], Barrier, forward).ok
  BY DEF ApplyLeaf, Barrier
<1>8. QED
  BY <1>6, <1>7

\* A step that is taken is taken under every layer, and back again.
TakenThere(w, step, forward, v) ==
    v \in World /\ Reversible(step)
    /\ v = ApplyStep(Layers, w, step, forward).world
    /\ w = ApplyStep(Layers, v, step, ~forward).world

\* A step that links to where the payloads are is there and back again.
LEMMA StepThere ==
    ASSUME NEW w \in World, StackLine(w), NEW step \in Seq(Leaf), NEW forward \in BOOLEAN,
           NEW far, Links(step, w.content, far, forward), Reversible(step), NEW v,
           ApplyStep(Layers, w, step, forward).ok, v = ApplyStep(Layers, w, step, forward).world
    PROVE  TakenThere(w, step, forward, v)
<1>1. Returns(w, step, forward, v)
  BY StepUndone
<1>2. QED
  BY <1>1 DEF TakenThere, Returns

\* The newest step of a trail links to where the payloads are, whatever the host's
\* resolver finds of the layers.
LEMMA NewestTaken ==
    ASSUME NEW w \in World, StackLine(w), NEW list \in Seq(WholeStep), list # <<>>,
           NEW forward \in BOOLEAN, Trail(list, w.content, forward), NEW found \in SUBSET Layers,
           NEW step, step = Last(list), NEW r, r = ApplyStep(found, w, step, forward), r.ok
    PROVE  TakenThere(w, step, forward, r.world)
<1>1. step \in WholeStep /\ step \in Seq(Leaf)
  BY NewestStep
<1>2. PICK c \in Contents : Links(step, w.content, c, forward)
  BY TrailBack
<1>3. /\ ApplyStep(Layers, w, step, forward).ok
      /\ ApplyStep(Layers, w, step, forward).world = ApplyStep(found, w, step, forward).world
  BY <1>1, FoundMore
<1> DEFINE v == r.world
<1>4. v = ApplyStep(Layers, w, step, forward).world
  BY <1>3
<1> HIDE DEF v
<1>5. step # <<Barrier>>
  BY <1>3, BarrierRefuses
<1>6. Reversible(step) /\ ApplyStep(Layers, w, step, forward).ok
  BY <1>3, <1>5 DEF Reversible
<1>7. TakenThere(w, step, forward, v)
  BY <1>1, <1>2, <1>4, <1>6, StepThere
<1>8. QED
  BY <1>7 DEF v

\* Undo takes the newest step back to where redo brings it, and the other way round.
LEMMA ThereAndBack ==
    ASSUME NEW w, NEW step, NEW v, NEW way \in BOOLEAN, TakenThere(w, step, way, v)
    PROVE  /\ v \in World /\ Reversible(step)
           /\ ~way => v = TakenBack(w, step) /\ w = BroughtBack(v, step)
           /\ way => v = BroughtBack(w, step) /\ w = TakenBack(v, step)
<1>1. CASE way
  <2>1. way = TRUE /\ ~way = FALSE
    BY <1>1
  <2>2. /\ v = ApplyStep(Layers, w, step, TRUE).world
        /\ w = ApplyStep(Layers, v, step, FALSE).world
    BY <2>1 DEF TakenThere
  <2>3. QED
    BY <1>1, <2>2 DEF TakenThere, BroughtBack, TakenBack
<1>2. CASE ~way
  <2>1. way = FALSE /\ ~way = TRUE
    BY <1>2
  <2>2. /\ v = ApplyStep(Layers, w, step, FALSE).world
        /\ w = ApplyStep(Layers, v, step, TRUE).world
    BY <2>1 DEF TakenThere
  <2>3. QED
    BY <1>2, <2>2 DEF TakenThere, BroughtBack, TakenBack
<1>3. QED
  BY <1>1, <1>2

\* Undo.
LEMMA UndoesLine ==
    ASSUME Typed, Retraced, OnLine, OnLine', Undo
    PROVE  Linear!StepBack \/ UNCHANGED <<world, steps, redo>>
<1> DEFINE step == Last(steps)
           less == Front(steps)
           r == ApplyStep(present, world, step, FALSE)
           more == Append(redo, step)
           b == world
           v == world'
<1>1. /\ steps # <<>> /\ v = r.world
      /\ IF r.ok
         THEN /\ steps' = less
              /\ redo' = more
         ELSE UNCHANGED <<steps, redo>>
  BY DEF Undo, CanUndo, TakeBack
<1>2. CASE ~r.ok
  <2>1. UNCHANGED <<steps, redo>>
    BY <1>1, <1>2
  <2>2. steps' = steps => world' = world
    BY UndoRetraces
  <2>3. QED
    BY <2>1, <2>2
<1>3. CASE r.ok
  <2>1. /\ b \in World /\ StackLine(b) /\ steps \in Seq(WholeStep) /\ redo \in Seq(WholeStep)
        /\ Trail(steps, b.content, FALSE) /\ present \in SUBSET Layers
    BY DEF Typed, Retraced
  <2>2. PICK way \in BOOLEAN : ~way /\ r = ApplyStep(present, b, step, way)
                               /\ Trail(steps, b.content, way)
    BY <2>1
  <2>3. /\ line.past = Behind(b, AboveBarrier(steps)) /\ line.anchor = <<>>
        /\ line.future = Ahead(b, redo)
    BY LineIs
  <2>4. /\ line'.past = Behind(v, AboveBarrier(steps')) /\ line'.anchor = <<>>
        /\ line'.future = Ahead(v, redo')
    BY LineIsNext
  <2>5. step = Last(steps)
    OBVIOUS
  <2> HIDE DEF r, step, b
  <2>6. TakenThere(b, step, way, r.world)
    BY <1>1, <1>3, <2>1, <2>2, <2>5, NewestTaken
  <2>7. TakenThere(b, step, way, v)
    BY <1>1, <2>6
  <2> HIDE DEF v
  <2>8. v \in World /\ Reversible(step) /\ v = TakenBack(b, step) /\ b = BroughtBack(v, step)
    BY <2>2, <2>7, ThereAndBack
  <2>9. less \in Seq(WholeStep) /\ step \in WholeStep /\ Append(less, step) = steps
    <3>1. steps # <<>> => Front(steps) \in Seq(WholeStep) /\ Last(steps) \in WholeStep
                          /\ Append(Front(steps), Last(steps)) = steps
      BY <2>1, FrontAndLast
    <3>2. QED
      BY <1>1, <3>1 DEF step
  <2>10. /\ AboveBarrier(steps) = Append(AboveBarrier(less), step)
         /\ AboveBarrier(less) \in Seq(WholeStep)
    BY <2>8, <2>9, AboveGrows
  <2> DEFINE a == AboveBarrier(less)
  <2>11. a \in Seq(AnyStep) /\ redo \in Seq(AnyStep) /\ step \in AnyStep
    BY <2>1, <2>9, <2>10, StepTypes
  <2> HIDE DEF a, less
  <2>12. Behind(b, Append(a, step)) = Append(Behind(v, a), Image(v))
    BY <2>1, <2>8, <2>11, BothMore
  <2>13. Ahead(v, more) = Append(Ahead(b, redo), Image(b))
    <3>1. /\ TakenBack(v, step) \in World /\ BroughtBack(v, step) \in World
          /\ Behind(v, Append(redo, step)) =
                Append(Behind(TakenBack(v, step), redo), Image(TakenBack(v, step)))
          /\ Ahead(v, Append(redo, step)) =
                Append(Ahead(BroughtBack(v, step), redo), Image(BroughtBack(v, step)))
      BY <2>8, <2>11, BothMore
    <3>2. QED
      BY <2>8, <3>1
  <2>14. line.past = Append(line'.past, Image(v)) /\ line'.future = Append(line.future, Image(b))
    <3>1. steps' = less /\ redo' = more
      BY <1>1, <1>3
    <3>2. QED
      BY <2>3, <2>4, <2>10, <2>12, <2>13, <3>1 DEF a
  <2>15. line'.past \in Seq(Images) /\ Image(v) \in Images
    <3>1. Behind(v, a) \in Seq(Images)
      BY <2>8, <2>11, BothWays
    <3>2. line'.past = Behind(v, a)
      BY <1>1, <1>3, <2>4 DEF a
    <3>3. Image(v) \in Images
      BY <2>8 DEF Image, Images, World, Contents
    <3>4. QED
      BY <3>1, <3>2, <3>3
  <2>16. /\ Append(line'.past, Image(v)) # <<>>
         /\ Last(Append(line'.past, Image(v))) = Image(v)
         /\ Front(Append(line'.past, Image(v))) = line'.past
    BY <2>15, AppendLast
  <2>17. /\ line.past # <<>> /\ Last(line.past) = Image(v) /\ Front(line.past) = line'.past
    BY <2>14, <2>16
  <2>18. Image(v) = Image(world)' /\ Image(b) = Image(world)
    BY DEF Image, v, b
  <2>19. Linear!Last(line.past) = Last(line.past) /\ Linear!Front(line.past) = Front(line.past)
    BY DEF Linear!Last, Linear!Front, Last, Front
  <2>20. Linear!StepBack
    BY <2>3, <2>4, <2>14, <2>17, <2>18, <2>19 DEF Linear!StepBack, Linear!Closed
  <2>21. QED
    BY <2>20
<1>4. QED
  BY <1>2, <1>3

\* Redo.
LEMMA RedoesLine ==
    ASSUME Typed, Retraced, OnLine, OnLine', Redo
    PROVE  Linear!StepForward \/ UNCHANGED <<world, steps, redo>>
<1> DEFINE step == Last(redo)
           less == Front(redo)
           r == ApplyStep(present, world, step, TRUE)
           more == Append(steps, step)
           b == world
           v == world'
<1>1. /\ redo # <<>> /\ v = r.world
      /\ IF r.ok
         THEN /\ redo' = less
              /\ steps' = more
         ELSE UNCHANGED <<steps, redo>>
  BY DEF Redo, CanRedo, BringBack
<1>2. CASE ~r.ok
  <2>1. UNCHANGED <<steps, redo>>
    BY <1>1, <1>2
  <2>2. steps' = steps => world' = world
    BY RedoRetraces
  <2>3. QED
    BY <2>1, <2>2
<1>3. CASE r.ok
  <2>1. /\ b \in World /\ StackLine(b) /\ steps \in Seq(WholeStep) /\ redo \in Seq(WholeStep)
        /\ Trail(redo, b.content, TRUE) /\ present \in SUBSET Layers
    BY DEF Typed, Retraced
  <2>2. PICK way \in BOOLEAN : way /\ r = ApplyStep(present, b, step, way)
                               /\ Trail(redo, b.content, way)
    BY <2>1
  <2>3. /\ line.past = Behind(b, AboveBarrier(steps)) /\ line.anchor = <<>>
        /\ line.future = Ahead(b, redo)
    BY LineIs
  <2>4. /\ line'.past = Behind(v, AboveBarrier(steps')) /\ line'.anchor = <<>>
        /\ line'.future = Ahead(v, redo')
    BY LineIsNext
  <2>5. step = Last(redo)
    OBVIOUS
  <2> HIDE DEF r, step, b
  <2>6. TakenThere(b, step, way, r.world)
    BY <1>1, <1>3, <2>1, <2>2, <2>5, NewestTaken
  <2>7. TakenThere(b, step, way, v)
    BY <1>1, <2>6
  <2> HIDE DEF v
  <2>8. v \in World /\ Reversible(step) /\ v = BroughtBack(b, step) /\ b = TakenBack(v, step)
    <3>1. /\ v \in World /\ Reversible(step)
          /\ ~way => v = TakenBack(b, step) /\ b = BroughtBack(v, step)
          /\ way => v = BroughtBack(b, step) /\ b = TakenBack(v, step)
      BY <2>7, ThereAndBack
    <3>2. QED
      BY <2>2, <3>1
  <2>9. less \in Seq(WholeStep) /\ step \in WholeStep /\ Append(less, step) = redo
    <3>1. redo # <<>> => Front(redo) \in Seq(WholeStep) /\ Last(redo) \in WholeStep
                         /\ Append(Front(redo), Last(redo)) = redo
      BY <2>1, FrontAndLast
    <3>2. QED
      BY <1>1, <3>1 DEF step
  <2>10. /\ AboveBarrier(Append(steps, step)) = Append(AboveBarrier(steps), step)
         /\ AboveBarrier(steps) \in Seq(WholeStep)
    BY <2>1, <2>8, <2>9, AboveGrows
  <2> DEFINE a == AboveBarrier(steps)
  <2>11. a \in Seq(AnyStep) /\ less \in Seq(AnyStep) /\ step \in AnyStep
    BY <2>1, <2>9, <2>10, StepTypes
  <2> HIDE DEF a, less
  <2>12. Ahead(b, Append(less, step)) = Append(Ahead(v, less), Image(v))
    <3>1. /\ TakenBack(b, step) \in World /\ BroughtBack(b, step) \in World
          /\ Behind(b, Append(less, step)) =
                Append(Behind(TakenBack(b, step), less), Image(TakenBack(b, step)))
          /\ Ahead(b, Append(less, step)) =
                Append(Ahead(BroughtBack(b, step), less), Image(BroughtBack(b, step)))
      BY <2>1, <2>11, BothMore
    <3>2. QED
      BY <2>8, <3>1
  <2>13. Behind(v, Append(a, step)) = Append(Behind(b, a), Image(b))
    <3>1. /\ TakenBack(v, step) \in World /\ BroughtBack(v, step) \in World
          /\ Behind(v, Append(a, step)) =
                Append(Behind(TakenBack(v, step), a), Image(TakenBack(v, step)))
          /\ Ahead(v, Append(a, step)) =
                Append(Ahead(BroughtBack(v, step), a), Image(BroughtBack(v, step)))
      BY <2>8, <2>11, BothMore
    <3>2. QED
      BY <2>8, <3>1
  <2>14. line.future = Append(line'.future, Image(v)) /\ line'.past = Append(line.past, Image(b))
    <3>1. redo' = less /\ steps' = Append(steps, step)
      BY <1>1, <1>3
    <3>2. QED
      BY <2>3, <2>4, <2>9, <2>10, <2>12, <2>13, <3>1 DEF a
  <2>15. line'.future \in Seq(Images) /\ Image(v) \in Images
    <3>1. Ahead(v, less) \in Seq(Images)
      BY <2>8, <2>11, BothWays
    <3>2. line'.future = Ahead(v, less)
      BY <1>1, <1>3, <2>4
    <3>3. Image(v) \in Images
      BY <2>8 DEF Image, Images, World, Contents
    <3>4. QED
      BY <3>1, <3>2, <3>3
  <2>16. /\ Append(line'.future, Image(v)) # <<>>
         /\ Last(Append(line'.future, Image(v))) = Image(v)
         /\ Front(Append(line'.future, Image(v))) = line'.future
    BY <2>15, AppendLast
  <2>17. /\ line.future # <<>> /\ Last(line.future) = Image(v) /\ Front(line.future) = line'.future
    BY <2>14, <2>16
  <2>18. Image(v) = Image(world)' /\ Image(b) = Image(world)
    BY DEF Image, v, b
  <2>19. Linear!Last(line.future) = Last(line.future) /\ Linear!Front(line.future) = Front(line.future)
    BY DEF Linear!Last, Linear!Front, Last, Front
  <2>20. Linear!StepForward
    BY <2>3, <2>4, <2>14, <2>17, <2>18, <2>19 DEF Linear!StepForward, Linear!Closed
  <2>21. QED
    BY <2>20
<1>4. QED
  BY <1>2, <1>3

\* The outermost end of a bracket closes it on the line.
LEMMA BracketCloses ==
    ASSUME LineHost, HistoryIInv, Retraced, depth = 1, NEW b \in World, OpenedFrom(b),
           EndGroup, OnLine'
    PROVE  Linear!Close
<1> DEFINE v == Closed(world)
<1>1. Typed /\ StackLine(world) /\ world.commands.depth = 1
  BY DEF HistoryIInv, Retraced, BracketsAgree
<1>2. ClosedFrom(v, b)
  BY <1>1, BracketWorld
<1>3. world' = v
  BY DEF EndGroup, Closed
<1>4. BracketEnds(v)
  <2>1. v \in World /\ Undos(v) \in {Undos(b), Undos(b) + 1}
    BY <1>2 DEF ClosedFrom
  <2>2. start <= Len(steps) /\ SceneSteps(steps) = Undos(b)
    BY <1>1, BracketLists DEF OpenedFrom
  <2>3. /\ \A i \in 1..Len(Newer) : Reversible(Newer[i])
        /\ Newer # <<>> => redo = <<>>
    BY DEF OpenedFrom
  <2>4. "evictionInClose" \notin Calls
    BY DEF LineHost
  <2>5. Undos(v) \in {SceneSteps(steps), SceneSteps(steps) + 1}
    BY <2>1, <2>2
  <2>6. QED
    BY <1>1, <2>1, <2>2, <2>3, <2>4, <2>5, Ends
<1> HIDE DEF v
<1>5. Image(world)' = Image(v) /\ Image(v) = Image(world)
  BY <1>2, <1>3 DEF ClosedFrom, Image
<1>6. /\ line'.past = Behind(v, AboveBarrier(steps')) /\ line'.future = Ahead(v, redo')
      /\ line'.anchor = <<>>
  BY <1>3, LineIsNext
<1>7. /\ line.anchor = <<Image(b)>> /\ line.past = Behind(b, AboveBarrier(Older))
      /\ Newer = <<>> => line.future = Ahead(b, redo)
  BY DEF OpenedFrom
<1> DEFINE produced == IF Undos(v) = SceneSteps(steps) THEN Newer ELSE Append(Newer, <<Scene>>)
<1>8. CASE Newer = <<>> /\ Undos(v) = SceneSteps(steps) /\ UNCHANGED <<steps, redo>>
  <2>1. v = b /\ Older = steps /\ Image(world) = Image(b)
    BY <1>1, <1>2, <1>8, BracketVoid
  <2>2. line'.past = line.past /\ line'.future = line.future
    BY <1>6, <1>7, <1>8, <2>1
  <2>3. QED
    BY <1>5, <1>6, <1>7, <2>1, <2>2 DEF Linear!Close, Linear!Closed
<1>9. CASE /\ produced # <<>> /\ redo' = <<>>
           /\ CutFrom(steps', Append(Older, Made(produced)), start)
  <2> DEFINE p == Append(Behind(b, AboveBarrier(Older)), Image(b))
  <2> HIDE DEF produced
  <2>1. produced = (IF Undos(v) = SceneSteps(steps) THEN Newer ELSE Append(Newer, <<Scene>>))
    BY DEF produced
  <2>2. Shortened(Behind(v, AboveBarrier(steps')), p, 1)
    BY <1>1, <1>2, <1>9, <2>1, BracketFull
  <2> HIDE DEF p
  <2>3. line'.past \in Linear!Forgotten(p, 1)
    BY <1>6, <2>2, ShortenedIs
  <2>4. line.past \o line.anchor = p
    <3>1. line.past \in Seq(Images)
      <4>1. Older \in Seq(WholeStep)
        BY <1>1, BracketLists
      <4>2. AboveBarrier(Older) \in Seq(WholeStep)
        BY <4>1, StepTypes, AboveGrows
      <4>3. AboveBarrier(Older) \in Seq(AnyStep)
        BY <4>2, StepTypes
      <4>4. QED
        BY <1>7, <4>3, BothWays
    <3>2. line.past \o <<Image(b)>> = Append(line.past, Image(b))
      BY <3>1
    <3>3. QED
      BY <1>7, <3>2 DEF p
  <2>5. line'.future = <<>>
    <3>1. v \in World /\ <<>> \in Seq(AnyStep)
      BY <1>2 DEF ClosedFrom
    <3>2. Ahead(v, <<>>) = <<>>
      BY <3>1, BothWays
    <3>3. QED
      BY <1>6, <1>9, <3>2
  <2>6. line'.past \in Linear!Forgotten(line.past \o line.anchor, 1)
    BY <2>3, <2>4
  <2>7. line.anchor # <<>> /\ line'.anchor = <<>> /\ Image(world)' = Image(world)
    BY <1>5, <1>6, <1>7
  <2>8. QED
    BY <2>5, <2>6, <2>7 DEF Linear!Close, Linear!Closed
<1>10. QED
  BY <1>4, <1>8, <1>9 DEF BracketEnds

\* The outermost begin of one opens it.
LEMMA BracketOpens ==
    ASSUME LineHost, HistoryIInv, depth = 0, OnLine, BeginGroup,
           line' = [line EXCEPT !.anchor = <<Image(world)>>], NEW b, b = world
    PROVE  Linear!Open /\ b \in World /\ OpenedFrom(b)'
<1>1. /\ Typed /\ b \in World /\ world.commands.depth = 0 /\ world.content \in Contents
      /\ steps \in Seq(WholeStep)
  BY DEF HistoryIInv, Typed, BracketsAgree, World, Contents
<1>2. SceneSteps(steps) = Undos(b)
  BY DEF BeginGroup, LineHost, Grouping, Undos
<1>3. /\ world' = Opened(world) /\ start' = Len(steps) /\ UNCHANGED <<steps, redo>>
  BY DEF BeginGroup, Opened
<1>4. Collecting(world', b)
  BY <1>1, <1>3, CollectsNothing
<1>5. world'.content = world.content /\ Image(world)' = Image(world)
  BY <1>1, <1>3 DEF Opened, Image, World
<1>6. /\ line.past = Behind(b, AboveBarrier(steps)) /\ line.future = Ahead(b, redo)
      /\ line.anchor = <<>>
  BY LineIs
<1>7. /\ line'.past = line.past /\ line'.future = line.future /\ line'.anchor = <<Image(b)>>
  BY DEF OnLine, LineOf
<1>8. Linear!Open
  BY <1>5, <1>6, <1>7 DEF Linear!Open, Linear!Closed
<1>9. Older' = steps /\ Newer' = <<>>
  <2>1. Len(steps) \in Nat
    BY <1>1
  <2>2. SubSeq(steps, 1, Len(steps)) = steps
    BY <1>1
  <2>3. SubSeq(steps, Len(steps) + 1, Len(steps)) = <<>>
    BY <1>1, <2>1
  <2>4. QED
    BY <1>3, <2>2, <2>3 DEF Older, Newer, Without
<1>10. SceneSteps(<<>>) = 0
  BY SceneStepsOfOne
<1>11. Reaches(<<>>, b.content, world'.content)
  BY <1>1, <1>5, ReachesNowhere
<1>12. start' <= Len(steps')
  <2>1. Len(steps) \in Nat
    BY <1>1
  <2>2. QED
    BY <1>3, <2>1
<1>13. OpenedFrom(b)'
  BY <1>1, <1>2, <1>3, <1>4, <1>6, <1>7, <1>9, <1>10, <1>11, <1>12 DEF OpenedFrom
<1>14. QED
  BY <1>1, <1>8, <1>13

\* An edit of a payload as a step: it names no entry, and spans the payloads.
PayloadStepped(step) ==
    /\ step \in WholeStep /\ Reversible(step) /\ ScenesIn(step) = 0
    /\ Spans(step, world.content, world'.content)
    /\ world' \in World /\ world'.doc = world.doc /\ world'.commands = world.commands
    /\ SetLists(Push(Lists, world.commands, Grouping, step))

\* An edit of a payload is such a step.
LEMMA PayloadSteps ==
    ASSUME Typed, NEW layer \in Layers, NEW value \in Values, EditPayload(layer, value)
    PROVE  \E step : PayloadStepped(step)
<1> DEFINE was == world.content[layer]
           leaf == Payload(layer, was, value)
           content == [world.content EXCEPT ![layer] = value]
<1>1. /\ world' = [world EXCEPT !.content = content]
      /\ SetLists(Push(Lists, world.commands, Grouping, <<leaf>>))
  BY DEF EditPayload
<1>2. world \in World /\ world.content \in Contents
  BY DEF Typed, World, Contents
<1>3. was \in Values /\ content \in Contents
  BY <1>2 DEF Contents
<1>4. Fits(leaf, world.content, content)
  BY DEF Fits, Payload, Scene
<1>5. <<leaf>> \in WholeStep /\ ScenesIn(<<leaf>>) = 0
  BY <1>3, PayloadStep
<1>6. Reversible(<<leaf>>)
  <2>1. leaf.kind # Barrier.kind
    BY DEF Payload, Barrier
  <2> HIDE DEF leaf
  <2>2. <<leaf>>[1] # <<Barrier>>[1]
    BY <2>1
  <2>3. QED
    BY <2>2 DEF Reversible
<1> HIDE DEF was, leaf, content
<1>7. Spans(<<leaf>>, world.content, content)
  BY <1>2, <1>3, <1>4, SpansOne
<1>8. /\ world' \in World /\ world'.content = content /\ world'.doc = world.doc
      /\ world'.commands = world.commands
  BY <1>1, <1>2, <1>3 DEF World, Contents
<1>9. PayloadStepped(<<leaf>>)
  BY <1>1, <1>5, <1>6, <1>7, <1>8 DEF PayloadStepped
<1>10. QED
  BY <1>9

\* The bracket goes on from the state it was opened in.
LEMMA BracketStays ==
    ASSUME NEW b \in World, OpenedFrom(b), Collecting(world', b), world'.content = world.content,
           UNCHANGED <<steps, redo, start, line>>
    PROVE  OpenedFrom(b)'
<1>1. UNCHANGED <<Older, Newer>>
  BY DEF Older, Newer
<1>2. QED
  BY <1>1 DEF OpenedFrom

\* The stack's own steps inside a bracket leave the lists alone.
LEMMA BracketCollects ==
    ASSUME HistoryIInv, Retraced, depth > 0, NEW b \in World, OpenedFrom(b), line' = line,
           \/ \E cmd \in HostCommands : Perform(cmd)
           \/ BeginGroup
           \/ EndGroup /\ depth' > 0
           \/ \E cmds \in EngineEdits : EngineEdit(cmds)
    PROVE  OpenedFrom(b)'
<1>1. /\ Typed /\ world \in World /\ world.commands.depth > 0 /\ world.commands \in UndoStackType
      /\ Collecting(world, b) /\ world.commands.undo # <<>> /\ depth \in Nat /\ Grouping
  BY HistoryAssumption DEF HistoryIInv, Typed, BracketsAgree, World, OpenedFrom, Counted, Grouping
<1>2. ASSUME NEW cmd \in HostCommands, Perform(cmd) PROVE OpenedFrom(b)'
  <2> DEFINE after == StackPerform(world, cmd)
  <2>1. /\ world' = after /\ Applicable(world.doc, cmd)
        /\ ~ (Undos(after) > Undos(world)) => SetLists(Lists)
        /\ UNCHANGED start
    BY <1>2 DEF Perform, Undos
  <2>2. cmd \in Command
    BY HistoryAssumption
  <2>3. /\ after \in World /\ Collecting(after, b) /\ after.commands.depth = world.commands.depth
    BY <1>1, <2>2, CollectsMore
  <2>4. StackMoves(after.commands, world.commands, Coalesces(world.commands, cmd))
    BY <1>1, <2>1, <2>2, PerformMoves
  <2>5. after.content = world.content
    BY <1>1, <2>1 DEF StackPerform, World
  <2> HIDE DEF after
  <2>6. Undos(after) = Undos(world) /\ Undos(world) \in Nat
    BY <1>1, <2>4, Sizes DEF StackMoves, Undos
  <2>7. UNCHANGED <<steps, redo>>
    BY <2>1, <2>6 DEF SetLists, Lists
  <2>8. QED
    BY <2>1, <2>3, <2>5, <2>7, BracketStays
<1>3. ASSUME BeginGroup PROVE OpenedFrom(b)'
  <2>1. world' = Opened(world) /\ UNCHANGED <<steps, redo, start>>
    BY <1>1, <1>3 DEF BeginGroup, Opened
  <2>2. Collecting(Opened(world), b)
    BY <1>1, CollectsWithin
  <2>3. Opened(world).content = world.content
    BY <1>1 DEF Opened, World
  <2>4. QED
    BY <2>1, <2>2, <2>3, BracketStays
<1>4. ASSUME EndGroup, depth' > 0 PROVE OpenedFrom(b)'
  <2>1. depth' = depth - 1
    BY <1>4 DEF EndGroup
  <2>2. depth > 1 /\ world.commands.depth > 1
    BY <1>1, <1>4, <2>1 DEF HistoryIInv, BracketsAgree
  <2>3. world' = Closed(world) /\ UNCHANGED <<steps, redo, start>>
    BY <1>4, <2>2 DEF EndGroup, Closed
  <2>4. Collecting(Closed(world), b)
    BY <1>1, <2>2, CollectsWithin
  <2>5. Closed(world).content = world.content
    BY <1>1 DEF Closed, World
  <2>6. QED
    BY <2>3, <2>4, <2>5, BracketStays
<1>5. ASSUME NEW cmds \in EngineEdits, EngineEdit(cmds) PROVE OpenedFrom(b)'
  <2> DEFINE o == Opened(world)
             e == EngineEdited(o, cmds)
             c == Closed(e)
  <2>1. /\ cmds \in Seq(Command) /\ world' = c
        /\ SetLists(SyncSceneSteps(Lists, world'.commands, Grouping)) /\ UNCHANGED start
    BY <1>1, <1>5, EngineEditIs
  <2>2. UNCHANGED <<steps, redo>>
    BY <1>1, <2>1 DEF SyncSceneSteps, SetLists, Lists
  <2>3. /\ o \in World /\ Collecting(o, b) /\ o.commands.depth = world.commands.depth + 1
    BY <1>1, CollectsWithin
  <2>4. world.commands.depth \in Nat
    BY <1>1 DEF UndoStackType
  <2>5. o.content = world.content /\ StackLine(o)
    BY <1>1, BeginRetains DEF Opened, Retraced, Retains
  <2> HIDE DEF o
  <2>6. o.commands.depth > 0
    BY <1>1, <2>3, <2>4
  <2>7. e \in World /\ Collecting(e, b) /\ e.commands.depth = o.commands.depth
    BY <2>1, <2>3, <2>6, CollectsThrough
  <2>8. e.content = o.content
    BY <2>1, <2>3, <2>5, EngineRetains DEF Retains
  <2> HIDE DEF e
  <2>9. e.commands.depth > 1
    BY <1>1, <2>3, <2>4, <2>7
  <2>10. e.commands.depth > 0
    BY <1>1, <2>3, <2>4, <2>7
  <2>11. Collecting(c, b)
    BY <2>7, <2>9, <2>10, CollectsWithin
  <2>12. c.content = e.content
    BY <2>7 DEF Closed, World
  <2> HIDE DEF c
  <2>13. QED
    BY <2>1, <2>2, <2>5, <2>8, <2>11, <2>12, BracketStays
<1>6. QED
  BY <1>2, <1>3, <1>4, <1>5

\* A payload edited inside a bracket is one step more of those it produced.
LEMMA BracketProduces ==
    ASSUME HistoryIInv, depth > 0, NEW b \in World, OpenedFrom(b), line' = line,
           NEW layer \in Layers, NEW value \in Values, EditPayload(layer, value)
    PROVE  OpenedFrom(b)'
<1>1. /\ Typed /\ Grouping /\ Lists \in ListsType /\ Lists.steps = steps
      /\ world \in World /\ TRUE \in BOOLEAN
  BY Sizes DEF HistoryIInv, Grouping
<1>2. PICK step : PayloadStepped(step)
  BY <1>1, PayloadSteps
<1> DEFINE r == Push(Lists, world.commands, Grouping, step)
<1>3. r.steps = Append(steps, step) /\ r.redo = <<>>
  <2>1. r = [[Lists EXCEPT !.steps = Append(steps, step)] EXCEPT !.redo = <<>>]
    BY <1>1 DEF Push, EnforceBudget
  <2>2. QED
    BY <2>1 DEF Lists
<1>4. steps' = Append(steps, step) /\ redo' = <<>> /\ UNCHANGED start
  BY <1>2, <1>3 DEF PayloadStepped, SetLists, EditPayload
<1> HIDE DEF r
<1>5. /\ step \in WholeStep /\ Reversible(step) /\ ScenesIn(step) = 0
      /\ Spans(step, world.content, world'.content)
      /\ world' \in World /\ world'.doc = world.doc /\ world'.commands = world.commands
  BY <1>2 DEF PayloadStepped
<1>6. /\ start \in 0..Len(steps) /\ steps \in Seq(WholeStep) /\ Newer \in Seq(WholeStep)
      /\ start <= Len(steps)
  BY <1>1, BracketLists DEF OpenedFrom
<1>7. Newer' = Append(Newer, step) /\ Older' = Older /\ start' <= Len(steps')
  <2>1. /\ Append(steps, step) \in Seq(WholeStep) /\ Len(Append(steps, step)) = Len(steps) + 1
        /\ start \in 0..Len(Append(steps, step))
        /\ Without(Append(steps, step), start) = Append(Without(steps, start), step)
    BY <1>5, <1>6, WithoutAppend
  <2>2. SubSeq(Append(steps, step), 1, start) = SubSeq(steps, 1, start)
    BY <1>5, <1>6
  <2>3. QED
    BY <1>4, <2>1, <2>2 DEF Older, Newer
<1>8. Collecting(world', b)
  BY <1>5 DEF OpenedFrom, Collecting
<1>9. SceneSteps(Append(Newer, step)) = 0
  <2>1. Newer \in Seq(AnyStep) /\ step \in AnyStep
    BY <1>5, <1>6, StepTypes
  <2>2. SceneSteps(Append(Newer, step)) = SceneSteps(Newer) + ScenesIn(step)
    BY <2>1, SceneStepsMoves
  <2>3. QED
    BY <1>5, <2>2 DEF OpenedFrom
<1> DEFINE more == Append(Newer, step)
<1>10. /\ Len(more) = Len(Newer) + 1 /\ Len(Newer) \in Nat /\ more # <<>>
       /\ \A i \in 1..Len(Newer) : more[i] = Newer[i]
       /\ more[Len(Newer) + 1] = step
  BY <1>5, <1>6
<1>11. ASSUME NEW i \in 1..Len(more) PROVE Reversible(more[i])
  <2>1. i \in 1..Len(Newer) \/ i = Len(Newer) + 1
    BY <1>10
  <2>2. QED
    BY <1>5, <1>10, <2>1 DEF OpenedFrom
<1>12. Reaches(more, b.content, world'.content)
  <2>1. world'.content \in Contents
    BY <1>5 DEF World, Contents
  <2>2. Reaches(Newer, b.content, world.content)
    BY DEF OpenedFrom
  <2>3. QED
    BY <1>5, <1>6, <2>1, <2>2, ReachesMore
<1>13. SceneSteps(more) = 0 /\ Newer' = more
  BY <1>7, <1>9
<1> HIDE DEF more
<1>14. QED
  BY <1>4, <1>7, <1>8, <1>10, <1>11, <1>12, <1>13 DEF OpenedFrom

\* Inside a bracket the line waits.
LEMMA BracketMoves ==
    ASSUME LineHost, HistoryIInv, Retraced, depth > 0, depth' > 0, line' = line,
           NEW b \in World, OpenedFrom(b), Next
    PROVE  Linear!EditInBracket /\ OpenedFrom(b)'
<1>1. Linear!EditInBracket
  BY DEF OpenedFrom, Linear!EditInBracket, Linear!Closed
<1>2. Grouping /\ Collecting(world, b)
  BY DEF Grouping, OpenedFrom
<1>3. {"barrierInBracket", "trimInBracket", "undoInBracket"} \cap Calls = {}
  BY DEF LineHost
<1>4. ASSUME UNCHANGED <<world, steps, redo, start>> PROVE OpenedFrom(b)'
  <2>1. Collecting(world', b) /\ world'.content = world.content
    BY <1>2, <1>4
  <2>2. QED
    BY <1>4, <2>1, BracketStays
<1>5. CASE \E cmd \in HostCommands : Perform(cmd)
  BY <1>1, <1>5, BracketCollects
<1>6. CASE \E layer \in Layers, value \in Values : EditPayload(layer, value)
  BY <1>1, <1>6, BracketProduces
<1>7. CASE \E layer \in Layers, value \in Values : Unrecorded(layer, value)
  BY <1>2, <1>3, <1>7 DEF Unrecorded
<1>8. CASE BeginGroup
  BY <1>1, <1>8, BracketCollects
<1>9. CASE EndGroup
  BY <1>1, <1>9, BracketCollects
<1>10. CASE \E cmds \in EngineEdits : EngineEdit(cmds)
  BY <1>1, <1>10, BracketCollects
<1>11. CASE Undo \/ Redo
  BY <1>2, <1>3, <1>11 DEF Undo, Redo
<1>12. CASE \E limit \in Limits : SetBudget(limit) \/ TrimTo(limit)
  <2>1. PICK limit \in Limits : SetBudget(limit)
    BY <1>2, <1>3, <1>12 DEF TrimTo
  <2>2. UNCHANGED <<world, steps, redo, start>>
    BY <1>2, <2>1 DEF SetBudget, SetLists, Lists
  <2>3. QED
    BY <1>1, <1>4, <2>2
<1>13. CASE Clear
  BY <1>13 DEF Clear
<1>14. CASE \/ \E layer \in Layers : ResolverChanges(layer)
            \/ NoteSnapshot
            \/ \E upto \in 1..MaxEvents : TrimJournal(upto)
  <2>1. UNCHANGED <<world, steps, redo, start>>
    BY <1>14 DEF ResolverChanges, NoteSnapshot, TrimJournal
  <2>2. QED
    BY <1>1, <1>4, <2>1
<1>15. OpenedFrom(b)'
  BY <1>4, <1>5, <1>6, <1>7, <1>8, <1>9, <1>10, <1>11, <1>12, <1>13, <1>14 DEF Next
<1>16. QED
  BY <1>1, <1>15

\* Nothing moved, and the line is where it was.
LEMMA LineStays ==
    ASSUME OnLine, OnLine', UNCHANGED <<world, steps, redo>>
    PROVE  UNCHANGED <<line.past, Image(world), line.future, line.anchor>>
<1>1. /\ line.past = Behind(world, AboveBarrier(steps)) /\ line.future = Ahead(world, redo)
      /\ line.anchor = <<>>
  BY LineIs
<1>2. /\ line'.past = Behind(world', AboveBarrier(steps')) /\ line'.future = Ahead(world', redo')
      /\ line'.anchor = <<>>
  BY LineIsNext
<1>3. Image(world)' = Image(world)
  BY DEF Image
<1>4. QED
  BY <1>1, <1>2, <1>3

\* An edit of a payload.
LEMMA PayloadLine ==
    ASSUME Typed, Retraced', SceneSteps(steps) <= Undos(world), OnLine, OnLine',
           NEW layer \in Layers, NEW value \in Values, EditPayload(layer, value)
    PROVE  Linear!Edit
<1>1. PICK step : PayloadStepped(step)
  BY PayloadSteps
<1>2. /\ step \in WholeStep /\ Reversible(step) /\ ScenesIn(step) = 0
      /\ Spans(step, world.content, world'.content)
      /\ world' \in World /\ world'.doc = world.doc /\ world'.commands = world.commands
      /\ SetLists(Push(Lists, world.commands, Grouping, step))
  BY <1>1 DEF PayloadStepped
<1> DEFINE r == Push(Lists, world.commands, Grouping, step)
<1>3. Lists \in ListsType /\ Lists.steps = steps /\ Grouping \in BOOLEAN
  BY Sizes DEF Grouping
<1>4. PICK inside \in BOOLEAN : r = Push(Lists, world.commands, inside, step)
  BY <1>3
<1>5. SetLists(r)
  BY <1>2
<1> HIDE DEF r
<1>6. /\ r \in ListsType /\ r.redo = <<>>
      /\ CutFrom(r.steps, Append(Lists.steps, step), Len(Lists.steps))
      /\ inside => r.steps = Append(Lists.steps, step) /\ r.dropped = Lists.dropped
  <2>1. step \in WholeStep /\ Lists \in ListsType
    BY <1>2, <1>3
  <2>2. QED
    BY <1>4, <2>1, PushDrops
<1>7. CutFrom(steps', Append(steps, step), Len(steps)) /\ redo' = <<>>
  BY <1>3, <1>5, <1>6 DEF SetLists
<1>8. StackLine(world') /\ GoesBackTo(world', step, world)
  BY <1>2 DEF Retraced, GoesBackTo
<1>9. QED
  BY <1>2, <1>7, <1>8, EditsLine

\* An operation nothing recorded.
LEMMA BarrierLine ==
    ASSUME Typed, Typed', OnLine, OnLine',
           NEW layer \in Layers, NEW value \in Values, Unrecorded(layer, value)
    PROVE  Linear!Horizon
<1> DEFINE r == Push(Lists, world.commands, Grouping, <<Barrier>>)
<1>1. Lists \in ListsType /\ Lists.steps = steps /\ Grouping \in BOOLEAN /\ steps \in Seq(WholeStep)
  BY Sizes DEF Grouping
<1>2. PICK inside \in BOOLEAN : r = Push(Lists, world.commands, inside, <<Barrier>>)
  BY <1>1
<1>3. SetLists(r)
  BY DEF Unrecorded
<1>4. <<Barrier>> \in WholeStep /\ ~Reversible(<<Barrier>>)
  BY StepTypes DEF Reversible
<1> HIDE DEF r
<1>5. /\ r \in ListsType /\ r.redo = <<>>
      /\ CutFrom(r.steps, Append(Lists.steps, <<Barrier>>), Len(Lists.steps))
      /\ inside => r.steps = Append(Lists.steps, <<Barrier>>) /\ r.dropped = Lists.dropped
  BY <1>1, <1>2, <1>4, PushDrops
<1> DEFINE longer == Append(steps, <<Barrier>>)
<1>6. PICK k \in 0..Len(steps) : steps' = Without(longer, k)
  BY <1>1, <1>3, <1>5 DEF SetLists, CutFrom
<1>7. /\ longer \in Seq(WholeStep) /\ AboveBarrier(longer) = <<>>
  BY <1>1, <1>4, AboveGrows
<1>8. k \in 0..Len(longer)
  BY <1>1, <1>4
<1> HIDE DEF longer
<1>9. AboveBarrier(steps') = <<>>
  <2>1. AboveHolds(longer)
    BY <1>7, AboveMoves
  <2>2. PICK j \in 0..Len(AboveBarrier(longer)) :
              AboveBarrier(Without(longer, k)) = Without(AboveBarrier(longer), j)
    BY <1>8, <2>1 DEF AboveHolds, LeavesAbove
  <2> DEFINE none == <<>>
  <2>3. none \in Seq(WholeStep) /\ Len(none) = 0
    OBVIOUS
  <2>4. Without(none, 0) = none
    BY <2>3, WithoutNone
  <2>5. j = 0
    BY <1>7, <2>2, <2>3
  <2>6. QED
    BY <1>6, <1>7, <2>2, <2>4, <2>5
<1>10. world' \in World /\ redo' = <<>>
  BY <1>3, <1>5 DEF Typed, SetLists
<1>11. QED
  BY <1>9, <1>10, HorizonLine

\* A budget, or a trim.
LEMMA LimitLine ==
    ASSUME Typed, depth = 0, OnLine, OnLine', NEW limit \in Limits, SetBudget(limit) \/ TrimTo(limit)
    PROVE  Linear!Forget \/ UNCHANGED <<line.past, Image(world), line.future, line.anchor>>
<1>1. Lists \in ListsType /\ Lists.steps = steps /\ Lists.redo = redo /\ ~Grouping
  BY Sizes DEF Grouping
<1>2. UNCHANGED world /\ (SetLists(Lists) \/ SetLists(Evict(Lists, world.commands, limit)))
  BY <1>1 DEF SetBudget, TrimTo
<1>3. CASE SetLists(Lists)
  <2>1. UNCHANGED <<world, steps, redo>>
    BY <1>1, <1>2, <1>3 DEF SetLists
  <2>2. QED
    BY <2>1, LineStays
<1>4. CASE SetLists(Evict(Lists, world.commands, limit))
  <2>1. PICK r \in 0..Len(Lists.redo), s \in 0..Evictable(Lists.steps) :
              Evict(Lists, world.commands, limit) = Evicted(Lists, r, s)
    BY <1>1, EvictTakes
  <2>2. r \in 0..Len(redo) /\ s \in 0..Evictable(steps)
    BY <1>1, <2>1
  <2>3. redo' = Without(redo, r) /\ steps' = Without(steps, s)
    BY <1>1, <1>4, <2>1 DEF SetLists, Evicted
  <2>4. QED
    BY <1>2, <2>2, <2>3, ForgetsLine
<1>5. QED
  BY <1>2, <1>3, <1>4

\* A command that is a step of its own.
LEMMA CommandLine ==
    ASSUME Typed, Retraced', SceneSteps(steps) <= Undos(world), OnLine, OnLine',
           world' \in World, world'.content = world.content,
           Gathering(world'.commands, world'.doc, world.commands.undo, world.doc),
           NEW r, NEW inside \in BOOLEAN, r = Push(Lists, world'.commands, inside, <<Scene>>),
           SetLists(r)
    PROVE  Linear!Edit
<1>1. /\ Lists \in ListsType /\ Lists.steps = steps /\ world \in World
      /\ world.content \in Contents
  BY Sizes DEF World, Contents
<1>2. /\ <<Scene>> \in WholeStep /\ Reversible(<<Scene>>) /\ ScenesIn(<<Scene>>) = 1
  BY StepTypes, ScenesInPlain DEF Reversible, Scene, Barrier
<1> DEFINE step == <<Scene>>
           lists == Lists
           stack == world'.commands
<1>3. step \in WholeStep /\ lists \in ListsType /\ r = Push(lists, stack, inside, step)
  BY <1>1, <1>2
<1> HIDE DEF step, lists, stack
<1>4. /\ r \in ListsType /\ r.redo = <<>>
      /\ CutFrom(r.steps, Append(lists.steps, step), Len(lists.steps))
      /\ inside => r.steps = Append(lists.steps, step) /\ r.dropped = lists.dropped
  BY <1>3, PushDrops
<1>5. CutFrom(steps', Append(steps, <<Scene>>), Len(steps)) /\ redo' = <<>>
  BY <1>1, <1>4 DEF SetLists, step, lists
<1>6. Spans(<<Scene>>, world.content, world'.content)
  BY <1>1, SpansScene
<1>7. StackLine(world') /\ GoesBackTo(world', <<Scene>>, world)
  BY <1>2 DEF Retraced, GoesBackTo
<1>8. QED
  BY <1>2, <1>5, <1>6, <1>7, EditsLine

\* The state a step names when it names the entry on top.
LEMMA TopGathers ==
    ASSUME NEW w \in World, StackLine(w), w.commands.undo # <<>>, NEW b, b = TakenBack(w, <<Scene>>)
    PROVE  /\ b \in World /\ Gathering(w.commands, w.doc, b.commands.undo, b.doc)
           /\ b.content = w.content /\ Undos(b) = Undos(w) - 1
<1>1. /\ w.commands.undo \in Seq(Entry) /\ Line(w.commands.undo, w.doc)
      /\ Front(w.commands.undo) \in Seq(Entry)
      /\ Len(Front(w.commands.undo)) = Len(w.commands.undo) - 1
  <2>1. w.commands.undo \in Seq(Entry)
    BY DEF World, UndoStackType
  <2>2. QED
    BY <2>1, FrontLen DEF StackLine
<1>2. PICK c \in Document : Takes(Last(w.commands.undo), w.doc, c)
  BY <1>1, LineBack
<1>3. Gathering(w.commands, w.doc, Front(w.commands.undo), c)
  BY <1>2 DEF Gathering
<1>4. /\ StackUndo(w).doc = c /\ StackUndo(w).commands.undo = Front(w.commands.undo)
      /\ StackUndo(w).content = w.content
  BY <1>3, GatheringUndone
<1> DEFINE v == StackUndo(w)
<1>5. v \in World
  BY UndoExact
<1> HIDE DEF v
<1>6. PICK back \in BOOLEAN : ~back /\ b = ApplyStep(Layers, w, <<Scene>>, back).world
  BY DEF TakenBack
<1>7. Scene \in Leaf /\ ApplyLeaf(Layers, w, Scene, back) = [ok |-> TRUE, world |-> v]
  BY <1>6 DEF Leaf, Scene, ApplyLeaf, v
<1>8. b = v
  <2>1. ApplyLeaf(Layers, w, Scene, back).ok
    BY <1>7
  <2>2. /\ ApplyStep(Layers, w, <<Scene>>, back).ok
        /\ ApplyStep(Layers, w, <<Scene>>, back).world = ApplyLeaf(Layers, w, Scene, back).world
    BY <1>7, <2>1, StepOfOne
  <2>3. QED
    BY <1>6, <1>7, <2>2
<1>9. QED
  BY <1>1, <1>3, <1>4, <1>5, <1>8 DEF v, Undos

\* A command merged into the entry on top belongs to the step that names it.
LEMMA StrokeLine ==
    ASSUME Typed, Retraced, Retraced', SceneSteps(steps) <= Undos(world), OnLine, OnLine',
           world.commands.undo # <<>>, redo = <<>>, steps # <<>>, Last(steps) = <<Scene>>,
           UNCHANGED <<steps, redo>>, world' \in World, world'.content = world.content,
           \A u, c : Gathering(world.commands, world.doc, u, c)
                        => Gathering(world'.commands, world'.doc, u, c)
    PROVE  Linear!Extend
<1> DEFINE b == TakenBack(world, <<Scene>>)
           old == Front(steps)
           step == <<Scene>>
           v == world'
           q == Append(Behind(b, AboveBarrier(old)), Image(b))
<1>1. world \in World /\ StackLine(world) /\ steps \in Seq(WholeStep) /\ StackLine(v)
      /\ world.content \in Contents
  BY DEF Typed, Retraced, World, Contents
<1>2. /\ step \in WholeStep /\ Reversible(step) /\ ScenesIn(step) = 1
  BY StepTypes, ScenesInPlain DEF Reversible, Scene, Barrier
<1>3. /\ b \in World /\ Gathering(world.commands, world.doc, b.commands.undo, b.doc)
      /\ b.content = world.content /\ Undos(b) = Undos(world) - 1
  BY <1>1, TopGathers
<1>4. Append(old, step) = steps
  BY <1>1, FrontAndLast
<1>5. old \in Seq(WholeStep) /\ SceneSteps(old) <= Undos(b)
  <2>1. /\ old \in Seq(WholeStep) /\ SceneSteps(steps) = SceneSteps(old) + ScenesIn(Last(steps))
        /\ SceneSteps(old) \in Nat
    BY <1>1, NewestStep
  <2>2. Undos(world) \in Nat
    BY Sizes
  <2>3. QED
    BY <1>2, <1>3, <2>1, <2>2
<1> HIDE DEF b, old, v
<1>6. Spans(step, b.content, v.content) /\ Spans(step, b.content, world.content)
  BY <1>1, <1>3, SpansScene DEF v
<1> HIDE DEF step
<1>7. SamePast(TakenBack(world, step), b)
  <2>1. GoesBackTo(world, step, b)
    BY <1>2, <1>3 DEF GoesBackTo
  <2>2. QED
    BY <1>1, <1>2, <1>3, <1>6, <2>1, TakenBackTo
<1>8. SamePast(TakenBack(v, step), b)
  <2>1. GoesBackTo(v, step, b)
    BY <1>2, <1>3 DEF GoesBackTo, v
  <2>2. v \in World
    BY DEF v
  <2>3. QED
    BY <1>1, <1>2, <1>3, <1>6, <2>1, <2>2, TakenBackTo
<1>9. Behind(world, AboveBarrier(steps)) = q
  <2>1. Behind(world, AboveBarrier(Append(old, step))) = q
    BY <1>1, <1>2, <1>3, <1>5, <1>7, NewestLine
  <2>2. QED
    BY <1>4, <2>1
<1>10. Behind(v, AboveBarrier(steps)) = q
  <2>1. v \in World
    BY DEF v
  <2>2. Behind(v, AboveBarrier(Append(old, step))) = q
    BY <1>2, <1>3, <1>5, <1>8, <2>1, NewestLine
  <2>3. QED
    BY <1>4, <2>2
<1>11. q # <<>>
  <2>1. AboveBarrier(old) \in Seq(WholeStep)
    BY <1>2, <1>5, AboveGrows
  <2>2. AboveBarrier(old) \in Seq(AnyStep)
    BY <2>1, StepTypes
  <2>3. Behind(b, AboveBarrier(old)) \in Seq(Images)
    BY <1>3, <2>2, BothWays
  <2>4. QED
    BY <2>3
<1>12. /\ line.past = q /\ line.anchor = <<>>
  BY <1>9, LineIs
<1>13. /\ line'.past = q /\ line'.future = <<>> /\ line'.anchor = <<>>
  <2>1. /\ line'.past = Behind(v, AboveBarrier(steps')) /\ line'.future = Ahead(v, redo')
        /\ line'.anchor = <<>>
    BY LineIsNext DEF v
  <2>2. <<>> \in Seq(AnyStep) /\ v \in World
    BY DEF v
  <2>3. Ahead(v, <<>>) = <<>>
    BY <2>2, BothWays
  <2>4. QED
    BY <1>10, <2>1, <2>3
<1> HIDE DEF q
<1>14. QED
  BY <1>11, <1>12, <1>13 DEF Linear!Extend, Linear!Closed

\* A command outside a bracket: a step of its own, or part of the one on top.
LEMMA PerformLine ==
    ASSUME Typed, Retraced, Retraced', BracketsAgree, SceneSteps(steps) <= Undos(world),
           depth = 0, OnLine, OnLine', NEW cmd \in HostCommands, Perform(cmd), GoesOn(cmd)
    PROVE  Linear!Edit \/ Linear!Extend
<1> DEFINE after == StackPerform(world, cmd)
           r == Push(Lists, after.commands, Grouping, <<Scene>>)
<1>1. /\ world \in World /\ world.commands \in UndoStackType /\ world.doc \in Document
      /\ world.commands.depth = 0 /\ ~Grouping /\ Grouping \in BOOLEAN
      /\ Undos(world) \in Nat
  BY Sizes DEF Typed, World, BracketsAgree, Grouping
<1>2. /\ world' = after /\ Applicable(world.doc, cmd) /\ cmd \in Command
      /\ Undos(after) > Undos(world) => SetLists(r)
      /\ ~ (Undos(after) > Undos(world)) => SetLists(Lists)
  BY HistoryAssumption DEF Perform, Undos
<1>3. /\ after \in World /\ after.content = world.content /\ after.doc = Applied(world.doc, cmd)
      /\ after.commands = StackAfter(world.commands, world.doc, cmd)
  <2>1. after \in World
    BY <1>1, <1>2, PerformMoves
  <2>2. QED
    BY <1>1, <1>2, <2>1 DEF StackPerform, World
<1>4. StackMoves(after.commands, world.commands, Coalesces(world.commands, cmd))
  BY <1>1, <1>2, PerformMoves
<1>5. ASSUME NEW u, NEW c,
             \/ Gathering(world.commands, world.doc, u, c) /\ Coalesces(world.commands, cmd)
             \/ ~Coalesces(world.commands, cmd) /\ u = world.commands.undo /\ c = world.doc
      PROVE  Gathering(after.commands, after.doc, u, c)
  <2> DEFINE stack == world.commands
             d == world.doc
             s == StackAfter(stack, d, cmd)
  <2>1. stack \in UndoStackType /\ d \in Document /\ Applicable(d, cmd) /\ cmd \in Command
        /\ ~ (stack.depth > 0)
    BY <1>1, <1>2
  <2>2. \/ Gathering(stack, d, u, c) /\ Coalesces(stack, cmd)
        \/ ~Coalesces(stack, cmd) /\ u = stack.undo /\ c = d
    BY <1>5
  <2>3. after.commands = s /\ after.doc = Applied(d, cmd)
    BY <1>3
  <2> HIDE DEF stack, d
  <2>4. PICK x : x = s
    OBVIOUS
  <2> HIDE DEF s, after
  <2>5. x = StackAfter(stack, d, cmd)
    BY <2>4 DEF s
  <2>6. \/ Gathering(stack, d, u, c) /\ (stack.depth > 0 \/ Coalesces(stack, cmd))
        \/ ~ (stack.depth > 0 /\ stack.undo # <<>>) /\ ~Coalesces(stack, cmd)
           /\ u = stack.undo /\ c = d
        => Gathering(x, Applied(d, cmd), u, c) /\ Last(x.undo) # <<>>
    BY <2>1, <2>5, StackGathers
  <2>7. QED
    BY <2>1, <2>2, <2>3, <2>4, <2>6
<1> HIDE DEF after
<1>6. CASE ~Coalesces(world.commands, cmd)
  <2>1. Undos(after) = Undos(world) + 1
    BY <1>1, <1>4, <1>6 DEF StackMoves, Undos
  <2>2. SetLists(r)
    BY <1>1, <1>2, <2>1
  <2>3. Gathering(world'.commands, world'.doc, world.commands.undo, world.doc)
    BY <1>2, <1>5, <1>6
  <2>4. PICK inside \in BOOLEAN : r = Push(Lists, world'.commands, inside, <<Scene>>)
    BY <1>1, <1>2
  <2>5. world' \in World /\ world'.content = world.content
    BY <1>2, <1>3
  <2> HIDE DEF r
  <2>6. Linear!Edit
    BY <2>2, <2>3, <2>4, <2>5, CommandLine
  <2>7. QED
    BY <2>6
<1>7. CASE Coalesces(world.commands, cmd)
  <2>1. Undos(after) = Undos(world)
    BY <1>1, <1>4, <1>7 DEF StackMoves, Undos
  <2>2. UNCHANGED <<steps, redo>>
    BY <1>1, <1>2, <2>1 DEF SetLists, Lists
  <2>3. world.commands.undo # <<>>
    BY <1>7 DEF Coalesces
  <2>4. redo = <<>> /\ steps # <<>> /\ Last(steps) = <<Scene>>
    BY <1>1, <1>7 DEF GoesOn
  <2>5. world' \in World /\ world'.content = world.content
    BY <1>2, <1>3
  <2>6. \A u, c : Gathering(world.commands, world.doc, u, c)
                    => Gathering(world'.commands, world'.doc, u, c)
    BY <1>2, <1>5, <1>7
  <2>7. Linear!Extend
    BY <2>2, <2>3, <2>4, <2>5, <2>6, StrokeLine
  <2>8. QED
    BY <2>7
<1>8. QED
  BY <1>6, <1>7

\* An engine call outside a bracket is a bracket of its own, and one step.
Commits(r) ==
    /\ world' \in World /\ world'.content = world.content
    /\ Gathering(world'.commands, world'.doc, world.commands.undo, world.doc)
    /\ \E back \in BOOLEAN : r = Push(Lists, world'.commands, back, <<Scene>>)
    /\ SetLists(r)

\* An engine call is such a bracket: its commands gather in one entry, and a sync names
\* it by one step.
LEMMA EngineCommits ==
    ASSUME Typed, Retraced, BracketsAgree, SceneSteps(steps) = Undos(world), depth = 0,
           NEW cmds \in EngineEdits, EngineEdit(cmds)
    PROVE  \E r : Commits(r)
<1> DEFINE o == Opened(world)
           e == EngineEdited(o, cmds)
           c == Closed(e)
           r == SyncSceneSteps(Lists, c.commands, FALSE)
<1>1. /\ world \in World /\ StackLine(world) /\ world.commands.depth = 0 /\ ~Grouping
      /\ Lists \in ListsType /\ Lists.steps = steps /\ Undos(world) \in Nat
  BY Sizes DEF Typed, BracketsAgree, Grouping, Retraced
<1>2. /\ cmds \in Seq(Command) /\ world' = c /\ world' # world
      /\ SetLists(SyncSceneSteps(Lists, world'.commands, Grouping))
  BY EngineEditIs
<1>3. SetLists(r)
  <2>1. Grouping = FALSE
    BY <1>1 DEF Grouping
  <2>2. QED
    BY <1>2, <2>1
<1>4. /\ o \in World /\ Collecting(o, world) /\ o.commands.depth = 1
      /\ StackLine(o) /\ o.content = world.content
  <2>1. /\ o \in World /\ Collecting(o, world) /\ o.commands.depth = 1
    BY <1>1, CollectsNothing
  <2>2. Retains(o, world)
    BY <1>1, BeginRetains DEF Opened
  <2>3. QED
    BY <2>1, <2>2 DEF Retains
<1> HIDE DEF o
<1>5. /\ e \in World /\ Collecting(e, world) /\ e.commands.depth = 1 /\ e.content = world.content
  <2>1. o.commands.depth > 0
    BY <1>4
  <2>2. e \in World /\ Collecting(e, world) /\ e.commands.depth = o.commands.depth
    BY <1>2, <1>4, <2>1, CollectsThrough
  <2>3. Retains(e, o)
    BY <1>2, <1>4, EngineRetains
  <2>4. QED
    BY <1>4, <2>2, <2>3 DEF Retains
<1> HIDE DEF e
<1>6. /\ c \in World /\ c.content = e.content /\ c.commands.depth = 0
      /\ \/ SamePast(c, [world EXCEPT !.content = e.content])
            /\ c.commands.redo = world.commands.redo
            /\ Undos(c) = Undos(world) /\ c.doc = world.doc
         \/ Gathering(c.commands, c.doc, world.commands.undo, world.doc)
            /\ Undos(c) = Undos(world) + 1
  BY <1>1, <1>5, CollectsLast
<1> HIDE DEF c
<1>7. ~ SamePast(c, [world EXCEPT !.content = e.content]) \/ c.commands.redo # world.commands.redo
  <2> SUFFICES ASSUME SamePast(c, [world EXCEPT !.content = e.content]),
                      c.commands.redo = world.commands.redo
               PROVE  FALSE
    OBVIOUS
  <2>1. c.doc = world.doc /\ c.commands.undo = world.commands.undo
    BY <1>1 DEF SamePast, World
  <2>2. c.content = world.content
    BY <1>5, <1>6
  <2> DEFINE p == c.commands
             q == world.commands
  <2>3. p \in UndoStackType /\ q \in UndoStackType
    BY <1>1, <1>6 DEF World
  <2>4. p.undo = q.undo /\ p.redo = q.redo /\ p.depth = q.depth
    BY <1>1, <1>6, <2>1
  <2> HIDE DEF p, q
  <2>5. p = q
    BY <2>3, <2>4 DEF UndoStackType
  <2>6. c = world
    BY <1>1, <1>6, <2>1, <2>2, <2>5 DEF World, p, q
  <2>7. QED
    BY <1>2, <2>6
<1>8. Gathering(c.commands, c.doc, world.commands.undo, world.doc) /\ Undos(c) = Undos(world) + 1
  BY <1>6, <1>7
<1>9. Len(c.commands.undo) = SceneSteps(Lists.steps) + 1
  BY <1>1, <1>8 DEF Undos
<1> DEFINE commands == c.commands
<1>10. r = SyncSceneSteps(Lists, commands, FALSE) /\ Len(commands.undo) = SceneSteps(Lists.steps) + 1
  BY <1>9
<1> HIDE DEF commands, r
<1>11. PICK back \in BOOLEAN : ~back /\ r = Push(Lists, commands, back, <<Scene>>)
  BY <1>1, <1>10, SyncOne
<1>12. /\ world' \in World /\ world'.content = world.content
       /\ Gathering(world'.commands, world'.doc, world.commands.undo, world.doc)
       /\ r = Push(Lists, world'.commands, back, <<Scene>>)
  BY <1>2, <1>5, <1>6, <1>8, <1>11 DEF commands
<1>13. Commits(r)
  BY <1>3, <1>12 DEF Commits, r
<1>14. QED
  BY <1>13

\* An engine call is one edit of the line.
LEMMA EngineLine ==
    ASSUME Typed, Retraced, Retraced', BracketsAgree, SceneSteps(steps) = Undos(world),
           depth = 0, OnLine, OnLine', NEW cmds \in EngineEdits, EngineEdit(cmds)
    PROVE  Linear!Edit
<1>1. PICK r : Commits(r)
  BY EngineCommits
<1>2. PICK back \in BOOLEAN : r = Push(Lists, world'.commands, back, <<Scene>>)
  BY <1>1 DEF Commits
<1>3. SceneSteps(steps) <= Undos(world)
  BY Sizes
<1>4. QED
  BY <1>1, <1>2, <1>3, CommandLine DEF Commits

\* Clear.
LEMMA ClearLine ==
    ASSUME Typed, OnLine, OnLine', Clear
    PROVE  Linear!Horizon
<1>1. steps' = <<>> /\ redo' = <<>> /\ world' \in World
  BY DEF Clear, Typed
<1>2. AboveBarrier(steps') = <<>>
  BY <1>1, AboveNone
<1>3. QED
  BY <1>1, <1>2, HorizonLine

\* A host that sets no limit loses no step.
LEMMA NothingDropped ==
    ASSUME LineHost, Limits = {}, HistoryIInv, Retraced, dropped = 0, Next
    PROVE  dropped' = 0
<1>1. /\ Typed /\ budget = 0 /\ Lists.dropped = dropped
      /\ BracketsAgree /\ Counted /\ KeepsOrder
  BY Sizes DEF HistoryIInv, Typed, LineHost, KeepsOrder
<1>2. ASSUME NEW commands, NEW inside, NEW step
      PROVE  Push(Lists, commands, inside, step).dropped = dropped
  BY <1>1 DEF Push, EnforceBudget, Lists
<1>3. ASSUME NEW cmd \in HostCommands, Perform(cmd) PROVE dropped' = 0
  BY <1>1, <1>3, PerformTurns
<1>4. ASSUME NEW layer \in Layers, NEW value \in Values,
             EditPayload(layer, value) \/ Unrecorded(layer, value)
      PROVE  dropped' = 0
  BY <1>2, <1>4 DEF EditPayload, Unrecorded, SetLists
<1>5. ASSUME EndGroup PROVE dropped' = 0
  <2>1. SceneSteps(steps) <= Undos(world') => dropped' = dropped
    BY <1>1, <1>5, EndTurns
  <2>2. CASE depth > 1
    BY <1>5, <2>2 DEF EndGroup
  <2>3. CASE ~ (depth > 1)
    <3>1. depth = 1 /\ world' = Closed(world)
      BY <1>1, <1>5, <2>3 DEF EndGroup, Closed, Typed
    <3>2. QED
      BY <1>1, <2>1, <3>1, ClosingCount
  <2>4. QED
    BY <2>2, <2>3
<1>6. ASSUME NEW cmds \in EngineEdits, EngineEdit(cmds) PROVE dropped' = 0
  <2>1. SetLists(SyncSceneSteps(Lists, world'.commands, Grouping))
    BY <1>1, <1>6, EngineEditIs
  <2>2. CASE Grouping
    BY <1>1, <2>1, <2>2 DEF SyncSceneSteps, SetLists
  <2>3. CASE ~Grouping
    <3>1. SceneSteps(steps) = Undos(world) /\ depth = 0
      BY <1>1, <2>3, Sizes DEF Counted, Entries, Grouping
    <3>2. PICK r : Commits(r)
      BY <1>1, <1>6, <3>1, EngineCommits
    <3>3. QED
      BY <1>2, <3>2 DEF Commits, SetLists
  <2>4. QED
    BY <2>2, <2>3
<1>7. ASSUME Undo \/ Redo PROVE dropped' = 0
  BY <1>7 DEF Undo, Redo, TakeBack, BringBack
<1>8. ASSUME \/ BeginGroup \/ Clear \/ NoteSnapshot
             \/ \E layer \in Layers : ResolverChanges(layer)
             \/ \E upto \in 1..MaxEvents : TrimJournal(upto)
      PROVE  dropped' = 0
  BY <1>8 DEF BeginGroup, Clear, NoteSnapshot, ResolverChanges, TrimJournal
<1>9. QED
  BY <1>3, <1>4, <1>5, <1>6, <1>7, <1>8 DEF Next

\* Outside its brackets, a step of the session is a step of the line.
LineSteps == Linear!LinearNext \/ UNCHANGED Linear!linearVars

\* Every action that leaves brackets closed is an edit, an undo, a redo, a barrier, a
\* forgetting of the oldest, or nothing the line knows of.
LEMMA OutsideMoves ==
    ASSUME LineHost, HistoryIInv, Retraced, Typed', Retraced', depth = 0, OnLine, OnLine',
           Limits = {} => dropped = 0, depth' = 0, Next
    PROVE  LineSteps
<1>1. /\ Typed /\ BracketsAgree /\ Counted /\ ~Grouping /\ Undos(world) \in Nat
      /\ "strokeAcrossSteps" \notin Calls /\ KeepsOrder
  BY Sizes DEF HistoryIInv, Grouping, LineHost, KeepsOrder
<1>2. SceneSteps(steps) <= Undos(world)
  BY <1>1 DEF Counted, Entries
<1>3. ASSUME UNCHANGED <<world, steps, redo>> PROVE LineSteps
  BY <1>3, LineStays DEF LineSteps, Linear!linearVars
<1>4. ASSUME NEW cmd \in HostCommands, GoesOn(cmd), Perform(cmd) PROVE LineSteps
  <2>1. Linear!Edit \/ Linear!Extend
    BY <1>1, <1>2, <1>4, PerformLine
  <2>2. QED
    BY <2>1 DEF LineSteps, Linear!LinearNext
<1>5. ASSUME NEW layer \in Layers, NEW value \in Values, EditPayload(layer, value) PROVE LineSteps
  <2>1. Linear!Edit
    BY <1>1, <1>2, <1>5, PayloadLine
  <2>2. QED
    BY <2>1 DEF LineSteps, Linear!LinearNext
<1>6. ASSUME NEW layer \in Layers, NEW value \in Values, Unrecorded(layer, value) PROVE LineSteps
  <2>1. Linear!Horizon
    BY <1>1, <1>6, BarrierLine
  <2>2. QED
    BY <2>1 DEF LineSteps, Linear!LinearNext
<1>7. ASSUME NEW cmds \in EngineEdits, EngineEdit(cmds) PROVE LineSteps
  <2>1. SceneSteps(steps) = Undos(world)
    <3>1. dropped = 0
      BY <1>7 DEF LineHost
    <3>2. QED
      BY <1>1, <3>1 DEF Counted, Entries
  <2>2. Linear!Edit
    BY <1>1, <1>7, <2>1, EngineLine
  <2>3. QED
    BY <2>2 DEF LineSteps, Linear!LinearNext
<1>8. ASSUME Undo PROVE LineSteps
  <2>1. Linear!StepBack \/ UNCHANGED <<world, steps, redo>>
    BY <1>1, <1>8, UndoesLine
  <2>2. QED
    BY <1>3, <2>1 DEF LineSteps, Linear!LinearNext
<1>9. ASSUME Redo PROVE LineSteps
  <2>1. Linear!StepForward \/ UNCHANGED <<world, steps, redo>>
    BY <1>1, <1>9, RedoesLine
  <2>2. QED
    BY <1>3, <2>1 DEF LineSteps, Linear!LinearNext
<1>10. ASSUME NEW limit \in Limits, SetBudget(limit) \/ TrimTo(limit) PROVE LineSteps
  <2>1. Linear!Forget \/ UNCHANGED <<line.past, Image(world), line.future, line.anchor>>
    BY <1>1, <1>10, LimitLine
  <2>2. QED
    BY <2>1 DEF LineSteps, Linear!LinearNext, Linear!linearVars
<1>11. ASSUME Clear PROVE LineSteps
  <2>1. Linear!Horizon
    BY <1>1, <1>11, ClearLine
  <2>2. QED
    BY <2>1 DEF LineSteps, Linear!LinearNext
<1>12. ASSUME \/ NoteSnapshot
              \/ \E layer \in Layers : ResolverChanges(layer)
              \/ \E upto \in 1..MaxEvents : TrimJournal(upto)
       PROVE  LineSteps
  BY <1>3, <1>12 DEF NoteSnapshot, ResolverChanges, TrimJournal
<1>13. ~BeginGroup /\ ~EndGroup
  BY DEF BeginGroup, EndGroup
<1>14. QED
  BY <1>1, <1>4, <1>5, <1>6, <1>7, <1>8, <1>9, <1>10, <1>11, <1>12, <1>13 DEF Next

-----------------------------------------------------------------------------
(* The refinement. *)

\* The line is that of the lists outside a bracket, and inside one that of the
\* state the bracket was opened in.
Waits == \E b \in World : OpenedFrom(b)

\* The inductive invariant of the refinement.
LineIInv ==
    /\ HistoryIInv /\ Retraced
    /\ Limits = {} => dropped = 0
    /\ depth = 0 => OnLine
    /\ depth > 0 => Waits

\* It holds of an empty session, whose line is one state.
LEMMA LineStarts ==
    ASSUME LineInit
    PROVE  LineIInv /\ Linear!LinearInit
<1>1. /\ Init /\ OnLine
  BY DEF LineInit, OnLine
<1>2. HistoryIInv /\ Retraced
  BY <1>1, HistoryStarts, RetracedInit
<1>3. /\ world \in World /\ steps = <<>> /\ redo = <<>> /\ dropped = 0 /\ depth = 0
  BY <1>1, <1>2 DEF HistoryIInv, Typed, Init
<1>4. LineIInv
  BY <1>1, <1>2, <1>3 DEF LineIInv
<1>5. line.past = Behind(world, <<>>) /\ line.future = Ahead(world, <<>>) /\ line.anchor = <<>>
  BY <1>1, <1>3, LineIs, AboveNone
<1>6. Behind(world, <<>>) = <<>> /\ Ahead(world, <<>>) = <<>>
  <2>1. <<>> \in Seq(AnyStep)
    OBVIOUS
  <2>2. QED
    BY <1>3, <2>1, BothWays
<1>7. QED
  BY <1>4, <1>5, <1>6 DEF Linear!LinearInit, Linear!Closed

\* Only begin_group, end_group and clear change the bracket depth.
LEMMA BracketCounts ==
    ASSUME Next, ~BeginGroup, ~EndGroup, ~Clear
    PROVE  depth' = depth
<1>1. ASSUME NEW cmd \in HostCommands, Perform(cmd) PROVE depth' = depth
  BY <1>1 DEF Perform
<1>2. ASSUME NEW layer \in Layers, NEW value \in Values,
             EditPayload(layer, value) \/ Unrecorded(layer, value)
      PROVE  depth' = depth
  BY <1>2 DEF EditPayload, Unrecorded
<1>3. ASSUME NEW cmds \in EngineEdits, EngineEdit(cmds) PROVE depth' = depth
  BY <1>3 DEF EngineEdit
<1>4. ASSUME Undo \/ Redo PROVE depth' = depth
  BY <1>4 DEF Undo, Redo, TakeBack, BringBack
<1>5. ASSUME NEW limit \in Limits, SetBudget(limit) \/ TrimTo(limit) PROVE depth' = depth
  BY <1>5 DEF SetBudget, TrimTo
<1>6. ASSUME \/ NoteSnapshot
             \/ \E layer \in Layers : ResolverChanges(layer)
             \/ \E upto \in 1..MaxEvents : TrimJournal(upto)
      PROVE  depth' = depth
  BY <1>6 DEF NoteSnapshot, ResolverChanges, TrimJournal
<1>7. QED
  BY <1>1, <1>2, <1>3, <1>4, <1>5, <1>6 DEF Next

\* A step keeps the invariant and moves the line as LinearHistory allows: by the kind of
\* the state before and after, bracketed or not.
LEMMA LineMoves ==
    ASSUME LineHost, LineIInv, LineNext
    PROVE  LineIInv' /\ LineSteps
<1>1. /\ Next /\ HistoryIInv /\ Retraced /\ Typed /\ BracketsAgree /\ Counted
      /\ depth \in Nat
      /\ (Limits = {} => dropped = 0)
  BY Sizes DEF LineNext, LineIInv, HistoryIInv
<1>2. ClearsSafely /\ ClosesFirst
  BY DEF LineHost, ClearsSafely, ClosesFirst
<1>3. HistoryIInv' /\ Retraced' /\ Typed' /\ depth' \in Nat
  <2>1. [Next]_vars
    BY <1>1
  <2>2. Typed' /\ BracketsAgree' /\ Counted' /\ Retraced'
    BY <1>1, <1>2, <2>1, TypedNext, BracketsNext, CountedNext, RetracedNext
  <2>3. depth' \in Nat
    BY <2>2, HistoryAssumption DEF Typed
  <2>4. QED
    BY <2>2, <2>3 DEF HistoryIInv
<1>4. Limits = {} => dropped' = 0
  BY <1>1, NothingDropped
<1>5. CASE depth = 0 /\ depth' = 0
  <2>1. OnLine /\ OnLine'
    BY <1>5 DEF LineIInv, LineNext, OnLine
  <2>2. LineSteps
    BY <1>1, <1>3, <1>5, <2>1, OutsideMoves
  <2>3. QED
    BY <1>3, <1>4, <1>5, <2>1, <2>2 DEF LineIInv
<1>6. CASE depth = 0 /\ depth' > 0
  <2>1. BeginGroup
    <3>1. ~EndGroup /\ ~Clear /\ depth' # depth
      BY <1>6 DEF EndGroup, Clear
    <3>2. QED
      BY <1>1, <3>1, BracketCounts
  <2>2. OnLine /\ line' = [line EXCEPT !.anchor = <<Image(world)>>]
    BY <1>6 DEF LineIInv, LineNext
  <2>3. PICK b : b = world
    OBVIOUS
  <2>4. Linear!Open /\ b \in World /\ OpenedFrom(b)'
    BY <1>1, <1>6, <2>1, <2>2, <2>3, BracketOpens
  <2>5. Waits'
    BY <2>4 DEF Waits
  <2>6. QED
    BY <1>3, <1>4, <1>6, <2>4, <2>5 DEF LineIInv, LineSteps, Linear!LinearNext
<1>7. CASE depth > 0
  <2>1. PICK b \in World : OpenedFrom(b)
    BY <1>7 DEF LineIInv, Waits
  <2>2. CASE depth' > 0
    <3>1. line' = line
      BY <1>7, <2>2 DEF LineNext
    <3>2. Linear!EditInBracket /\ OpenedFrom(b)'
      BY <1>1, <1>7, <2>1, <2>2, <3>1, BracketMoves
    <3>3. Waits'
      BY <3>2 DEF Waits
    <3>4. QED
      BY <1>3, <1>4, <2>2, <3>2, <3>3 DEF LineIInv, LineSteps, Linear!LinearNext
  <2>3. CASE depth' = 0
    <3>1. OnLine'
      BY <2>3 DEF LineNext, OnLine
    <3>2. ~Clear
      <4>1. world.commands # EmptyStack
        BY <1>1, <1>7 DEF BracketsAgree, EmptyStack
      <4>2. QED
        BY <4>1 DEF Clear, LineHost
    <3>3. EndGroup
      <4>1. ~BeginGroup /\ depth' # depth
        BY <1>1, <1>7, <2>3 DEF BeginGroup
      <4>2. QED
        BY <1>1, <3>2, <4>1, BracketCounts
    <3>4. depth = 1
      BY <1>1, <2>3, <3>3 DEF EndGroup
    <3>5. Linear!Close
      BY <1>1, <2>1, <3>1, <3>3, <3>4, BracketCloses
    <3>6. QED
      BY <1>3, <1>4, <2>3, <3>1, <3>5 DEF LineIInv, LineSteps, Linear!LinearNext
  <2>4. QED
    BY <1>3, <2>2, <2>3
<1>8. QED
  <2>1. depth = 0 \/ depth > 0
    BY <1>1
  <2>2. depth' = 0 \/ depth' > 0
    BY <1>3
  <2>3. QED
    BY <1>5, <1>6, <1>7, <2>1, <2>2

\* A stutter is one of the line.
LEMMA LineIdles ==
    ASSUME LineIInv, UNCHANGED <<vars, line>>
    PROVE  LineIInv' /\ LineSteps
<1>1. /\ HistoryIInv' /\ Retraced'
  BY DEF LineIInv, HistoryIInv, Retraced, vars, recordVars, Typed, RecordTyped, BracketsAgree,
         Counted, Entries, Grouping
<1>2. /\ (Limits = {} => dropped = 0)' /\ (depth = 0 => OnLine)'
  BY DEF LineIInv, vars, OnLine
<1>3. UNCHANGED <<Older, Newer>>
  BY DEF Older, Newer, vars
<1>4. (depth > 0 => Waits)'
  BY <1>3 DEF LineIInv, vars, Waits, OpenedFrom
<1>5. LineSteps
  BY DEF LineSteps, Linear!linearVars, vars, Image
<1>6. QED
  BY <1>1, <1>2, <1>4, <1>5 DEF LineIInv

(***************************************************************************)
(* history.h, "one undo, across three representations": for every host of  *)
(* LineHost, any layers, payloads, budgets and brackets, and a session of  *)
(* any length, the session implements LinearHistory.  Every edit, and      *)
(* every bracket as a whole, is one state of one line; undo goes to the    *)
(* state before and redo to the one after, exactly, whether the step went  *)
(* through the wrapped command stack, a payload delta or both; a barrier   *)
(* and an eviction only ever forget the oldest states.                     *)
(***************************************************************************)
THEOREM LineAlwaysOne ==
    ASSUME LineHost
    PROVE  LineSpec => OneLine
<1>1. LineInit => LineIInv /\ Linear!LinearInit
  BY LineStarts
<1>2. LineIInv /\ [LineNext]_<<vars, line>> => LineIInv' /\ [Linear!LinearNext]_(Linear!linearVars)
  BY LineMoves, LineIdles DEF LineSteps
<1>3. QED
  BY <1>1, <1>2, PTL DEF LineSpec, OneLine, Linear!LinearSpec
=============================================================================
