-------------------------- MODULE BrickCacheProofs --------------------------
(***************************************************************************)
(* The freshness of BrickCache and its accounts (bytes and bounds) for any *)
(* set of keys, edits and budgets, for a host that forgets settled keys    *)
(* only.                                                                   *)
(*                                                                         *)
(* The argument: mark_dirty puts every key it reaches ahead of every       *)
(* result that exists, so a result that is accepted was read from the      *)
(* document after the key's last edit.  A forgotten key starts again from  *)
(* generation zero, and what keeps the argument true is that no request    *)
(* for it is left.                                                         *)
(***************************************************************************)
EXTENDS BrickCache, FiniteSetTheorems, TLAPS

\* The bricks that hold a lattice can be counted.
LEMMA SurfaceBricksFinite ==
    ASSUME NEW values
    PROVE  /\ IsFiniteSet(SurfaceBricks(values))
           /\ Cardinality(SurfaceBricks(values)) \in Nat
  <1>1. SurfaceBricks(values) \subseteq Keys
    BY DEF SurfaceBricks
  <1> QED BY <1>1, FS_Subset, FS_CardinalityType, BrickCacheAssumption

\* A block holds the keys whose coarse key it is, and no other.
LEMMA CoarseOfChild ==
    ASSUME NEW k \in Keys, NEW b \in Blocks, k \in Children(b)
    PROVE  Coarse(k) = b
  <1>1. PICK j \in Keys : b = Coarse(j)
    BY DEF Blocks
  <1>2. j[1] \in Int /\ j[2] \in Int /\ k[1] \in Int /\ k[2] \in Int
    BY BrickCacheAssumption
  <1>3. b[1] \in Int /\ b[2] \in Int /\ b = <<b[1], b[2]>>
    BY <1>1, <1>2 DEF Coarse
  <1>4. /\ k[1] = 2 * b[1] \/ k[1] = 2 * b[1] + 1
        /\ k[2] = 2 * b[2] \/ k[2] = 2 * b[2] + 1
    BY DEF Children
  <1>5. k[1] \div 2 = b[1]
    BY <1>2, <1>3, <1>4, SMT
  <1>6. k[2] \div 2 = b[2]
    BY <1>2, <1>3, <1>4, SMT
  <1> QED BY <1>3, <1>5, <1>6 DEF Coarse

\* Every block has a child.
LEMMA ChildrenNonempty == ASSUME NEW b PROVE Children(b) # {}
  <1>1. <<2 * b[1], 2 * b[2]>> \in Children(b)
    BY DEF Children
  <1> QED BY <1>1

\* A box is made of coordinates.
LEMMA BoxTypes ==
    ASSUME NEW S, NEW k
    PROVE  /\ BoxAround(S) \in [Axes -> SUBSET Coordinates]
           /\ Expanded(k) \in [Axes -> SUBSET Coordinates]
  BY DEF BoxAround, Expanded, Between

-----------------------------------------------------------------------------
\* An empty cache satisfies the invariant.
LEMMA InitIInv == Init => IInv
  <1> SUFFICES ASSUME Init PROVE IInv OBVIOUS
  <1>1. SurfaceBricks(held) = {}
    BY BrickCacheAssumption DEF Init, SurfaceBricks
  <1>2. TypeOK
    BY BrickCacheAssumption DEF Init, TypeOK, Contents, Request, NoMip, Axes
  <1>3. BytesAreCounted
    BY <1>1, FS_EmptySet DEF Init, BytesAreCounted
  <1>4. GenerationsOrdered /\ QueueAgrees /\ RequestsFollow /\ CleanMeansCurrent /\ Coming
    BY DEF Init, GenerationsOrdered, QueueAgrees, RequestsFollow, CleanMeansCurrent, Coming
  <1>5. MipsRooted /\ MipIsCurrent
    BY DEF Init, MipsRooted, MipIsCurrent, NoMip
  <1> QED BY <1>2, <1>3, <1>4, <1>5 DEF IInv

\* mark_dirty, over any region, keeps everything but what it re-dirties.
LEMMA EnqueueKeeps ==
    ASSUME IInv, NEW region \in SUBSET Keys, NEW waiting \in SUBSET queued, NEW queue,
           queue = waiting, Enqueue(region, waiting, queue),
           queued \subseteq waiting \cup region,
           tracked' = tracked \cup region, content' \in [Keys -> Contents],
           \A k \in tracked \ region : content'[k] = content[k],
           UNCHANGED <<held, gen, evaluated, surfaceVars, requests>>
    PROVE  IInv'
  <1> USE DEF IInv
  <1>t. target' \in [Keys -> 0 .. MaxGeneration]
    BY BrickCacheAssumption DEF Enqueue, Bumped, TypeOK
  <1>m. mips' \in [Blocks -> {NoMip} \cup UNION {[Children(b) -> Contents] : b \in Blocks}]
    BY DEF Enqueue, WithoutMipsOf, TypeOK
  <1>1. TypeOK'
    BY <1>t, <1>m DEF Enqueue, TypeOK, surfaceVars
  <1>b. /\ \A k \in region : target'[k] = target[k] + 1
        /\ \A k \in Keys \ region : target'[k] = target[k]
    BY DEF Enqueue, Bumped
  <1>n. \A k \in Keys : gen[k] \in Nat /\ target[k] \in Nat /\ target'[k] \in Nat
    BY <1>t, BrickCacheAssumption DEF TypeOK
  <1>r. \A r \in requests : r.key \in Keys /\ r.gen \in Nat
    BY BrickCacheAssumption DEF TypeOK, Request
  <1>2. GenerationsOrdered'
    BY <1>b, <1>n DEF GenerationsOrdered
  <1>3. QueueAgrees'
    <2>1. dirty' = queued'
      BY DEF Enqueue
    <2>2. ASSUME NEW k \in queued'
          PROVE  gen[k] < target'[k] /\ \A r \in requests : r.key = k => r.gen < target'[k]
      <3>1. CASE k \in region
        BY <3>1, <1>b, <1>n, <1>r DEF GenerationsOrdered, RequestsFollow, TypeOK
      <3>2. CASE k \notin region
        <4>1. k \in queued /\ k \in Keys
          BY <3>2 DEF Enqueue, TypeOK
        <4> QED BY <4>1, <3>2, <1>b DEF QueueAgrees
      <3> QED BY <3>1, <3>2
    <2> QED BY <2>1, <2>2 DEF QueueAgrees
  <1>4. RequestsFollow'
    <2> SUFFICES ASSUME NEW r \in requests
                 PROVE  /\ r.key \in tracked'
                        /\ r.gen <= target'[r.key]
                        /\ r.gen = target'[r.key] /\ r.value # Unread
                              => r.value = content'[r.key]
      BY DEF RequestsFollow
    <2>1. r.key \in tracked /\ r.gen <= target[r.key]
      BY DEF RequestsFollow
    <2>2. CASE r.key \in region
      BY <2>1, <2>2, <1>b, <1>n, <1>r
    <2>3. CASE r.key \notin region
      BY <2>1, <2>3, <1>b, <1>r DEF RequestsFollow
    <2> QED BY <2>2, <2>3
  <1>5. CleanMeansCurrent'
    <2> SUFFICES ASSUME NEW k \in evaluated, gen[k] = target'[k]
                 PROVE  held[k] = content'[k]
      BY DEF CleanMeansCurrent
    <2>1. k \in tracked /\ k \in Keys
      BY DEF TypeOK
    <2>2. k \notin region
      BY <2>1, <1>b, <1>n DEF GenerationsOrdered
    <2> QED BY <2>1, <2>2, <1>b DEF CleanMeansCurrent
  <1>6. Coming'
    <2> SUFFICES ASSUME NEW k \in tracked', gen[k] # target'[k]
                 PROVE  k \in dirty' \/ \E r \in requests : r.key = k /\ r.gen = target'[k]
      BY DEF Coming
    <2>1. k \in Keys
      BY <1>1 DEF TypeOK
    <2>2. dirty' = waiting \cup region
      BY DEF Enqueue
    <2>3. CASE k \in region
      BY <2>3, <2>2
    <2>4. CASE k \notin region
      <3>1. k \in dirty => k \in dirty'
        BY <2>4, <2>2 DEF QueueAgrees
      <3> QED BY <3>1, <2>1, <2>4, <1>b DEF Coming
    <2> QED BY <2>3, <2>4
  <1>7. \A b \in Blocks : DOMAIN mips'[b] # {} =>
            mips'[b] = mips[b] /\ \A k \in region : Coarse(k) # b
    BY DEF Enqueue, WithoutMipsOf, NoMip
  <1>8. MipsRooted'
    BY <1>7 DEF MipsRooted
  <1>9. MipIsCurrent'
    <2> SUFFICES ASSUME NEW b \in Blocks, NEW k \in DOMAIN mips'[b]
                 PROVE  mips'[b][k] = content'[k]
      BY DEF MipIsCurrent
    <2>1. mips'[b] = mips[b] /\ \A j \in region : Coarse(j) # b
      BY <1>7
    <2>2. k \in Children(b) /\ k \in tracked /\ k \in Keys
      BY <2>1 DEF MipsRooted, TypeOK
    <2>3. k \notin region
      BY <2>1, <2>2, CoarseOfChild
    <2> QED BY <2>1, <2>2, <2>3 DEF MipIsCurrent
  <1>10. BytesAreCounted'
    BY DEF BytesAreCounted, SurfaceBricks, surfaceVars
  <1> QED BY <1>1, <1>2, <1>3, <1>4, <1>5, <1>6, <1>8, <1>9, <1>10

\* A bounded edit puts every brick of its region in the queue, ahead of all results.
LEMMA MarkDirtyKeeps == IInv /\ MarkDirty => IInv'
  <1> SUFFICES ASSUME IInv, NEW edit \in Edits,
                      content' = [k \in Keys |->
                          IF k \in DOMAIN edit THEN edit[k] ELSE content[k]],
                      tracked' = tracked \cup DOMAIN edit,
                      Enqueue(DOMAIN edit, queued, dirty),
                      UNCHANGED <<held, gen, evaluated, surfaceVars, requests>>
               PROVE  IInv'
    BY DEF MarkDirty
  <1>1. PICK region \in SUBSET Keys : edit \in [region -> Contents]
    BY BrickCacheAssumption
  <1>2. content' \in [Keys -> Contents]
    BY <1>1 DEF IInv, TypeOK
  <1>3. \A k \in tracked \ region : content'[k] = content[k]
    BY <1>1 DEF IInv, TypeOK
  <1>4. Enqueue(region, queued, dirty) /\ tracked' = tracked \cup region
    BY <1>1
  <1>5. dirty = queued
    BY DEF IInv, QueueAgrees
  <1> QED BY <1>2, <1>3, <1>4, <1>5, EnqueueKeeps

\* So does an unbounded one for every brick the cache knows.
LEMMA MarkAllDirtyKeeps == IInv /\ MarkAllDirty => IInv'
  <1> SUFFICES ASSUME IInv, NEW edit \in Floods, content' = edit,
                      Enqueue(tracked, FlagsKept, {}),
                      UNCHANGED <<tracked, held, gen, evaluated, surfaceVars, requests>>
               PROVE  IInv'
    BY DEF MarkAllDirty
  <1>1. content' \in [Keys -> Contents]
    BY BrickCacheAssumption
  <1>2. tracked \subseteq Keys /\ queued \subseteq tracked
    BY DEF IInv, TypeOK
  <1>3. tracked' = tracked \cup tracked /\ FlagsKept = {} /\ FlagsKept \subseteq queued
    BY DEF FlagsKept
  <1>4. \A k \in tracked \ tracked : content'[k] = content[k]
    OBVIOUS
  <1> QED BY <1>1, <1>2, <1>3, <1>4, EnqueueKeeps

\* take_dirty turns every dirty key into a request for its target generation.
LEMMA TakeDirtyKeeps == IInv /\ TakeDirty => IInv'
  <1> SUFFICES ASSUME IInv, TakeDirty PROVE IInv' OBVIOUS
  <1> USE DEF IInv, TakeDirty
  <1>1. TypeOK'
    BY DEF TypeOK, Request, surfaceVars, QueueAgrees
  <1>2. dirty = queued /\ queued' = {}
    BY DEF QueueAgrees
  <1>3. QueueAgrees' /\ GenerationsOrdered'
    BY <1>2 DEF QueueAgrees, GenerationsOrdered
  <1>4. RequestsFollow'
    <2> SUFFICES ASSUME NEW r \in requests'
                 PROVE  /\ r.key \in tracked
                        /\ r.gen <= target[r.key]
                        /\ r.gen = target[r.key] /\ r.value # Unread
                              => r.value = content[r.key]
      BY DEF RequestsFollow
    <2>1. CASE r \in requests
      BY <2>1 DEF RequestsFollow
    <2>2. CASE r \notin requests
      <3>1. PICK k \in dirty : r = [key |-> k, gen |-> target[k], value |-> Unread]
        BY <2>2
      <3>2. k \in tracked /\ k \in Keys /\ target[k] \in Nat
        BY BrickCacheAssumption DEF TypeOK, QueueAgrees
      <3> QED BY <3>1, <3>2
    <2> QED BY <2>1, <2>2
  <1>5. Coming'
    <2> SUFFICES ASSUME NEW k \in tracked, gen[k] # target[k]
                 PROVE  \E r \in requests' : r.key = k /\ r.gen = target[k]
      BY DEF Coming
    <2>1. CASE k \in dirty
      <3>1. [key |-> k, gen |-> target[k], value |-> Unread] \in requests'
        BY <2>1
      <3> QED BY <3>1
    <2>2. CASE k \notin dirty
      BY <2>2 DEF Coming
    <2> QED BY <2>1, <2>2
  <1>6. CleanMeansCurrent' /\ MipsRooted' /\ MipIsCurrent' /\ BytesAreCounted'
    BY DEF CleanMeansCurrent, MipsRooted, MipIsCurrent, BytesAreCounted, SurfaceBricks,
           surfaceVars
  <1> QED BY <1>1, <1>3, <1>4, <1>5, <1>6

\* A request is given the value of the document as it is.
LEMMA EvaluateKeeps == ASSUME IInv, NEW r \in requests, Evaluate(r) PROVE IInv'
  <1> USE DEF IInv, Evaluate
  <1> DEFINE answer == [r EXCEPT !.value = content[r.key]]
  <1>1. r \in Request /\ r.key \in Keys
    BY DEF TypeOK, Request
  <1>2. /\ answer \in Request
        /\ answer.key = r.key /\ answer.gen = r.gen /\ answer.value = content[r.key]
    BY <1>1 DEF TypeOK, Request
  <1>3. TypeOK'
    BY <1>2 DEF TypeOK, surfaceVars
  <1>4. GenerationsOrdered'
    BY DEF GenerationsOrdered
  <1>5. QueueAgrees'
    BY <1>2, ZenonT(30) DEF QueueAgrees
  <1>6. RequestsFollow'
    BY <1>2 DEF RequestsFollow
  <1>7. Coming'
    <2> SUFFICES ASSUME NEW k \in tracked, gen[k] # target[k], k \notin dirty
                 PROVE  \E q \in requests' : q.key = k /\ q.gen = target[k]
      BY DEF Coming
    <2>1. PICK q \in requests : q.key = k /\ q.gen = target[k]
      BY DEF Coming
    <2>2. answer \in requests' /\ (q # r => q \in requests')
      OBVIOUS
    <2> HIDE DEF answer
    <2> QED BY <2>1, <2>2, <1>2
  <1>8. CleanMeansCurrent' /\ MipsRooted' /\ MipIsCurrent' /\ BytesAreCounted'
    BY DEF CleanMeansCurrent, MipsRooted, MipIsCurrent, BytesAreCounted, SurfaceBricks,
           surfaceVars
  <1> QED BY <1>3, <1>4, <1>5, <1>6, <1>7, <1>8

\* A late result is refused and changes nothing a brick holds.
LEMMA SubmitStaleKeeps == ASSUME IInv, NEW r \in requests, SubmitStale(r) PROVE IInv'
  <1> USE DEF IInv, SubmitStale
  <1>1. r.key \in tracked /\ r.gen # target[r.key]
    BY DEF RequestsFollow, Current
  <1>2. TypeOK' /\ GenerationsOrdered' /\ QueueAgrees' /\ RequestsFollow'
    BY DEF TypeOK, surfaceVars, GenerationsOrdered, QueueAgrees, RequestsFollow
  <1>3. Coming'
    BY <1>1 DEF Coming
  <1>4. CleanMeansCurrent' /\ MipsRooted' /\ MipIsCurrent' /\ BytesAreCounted'
    BY DEF CleanMeansCurrent, MipsRooted, MipIsCurrent, BytesAreCounted, SurfaceBricks,
           surfaceVars
  <1> QED BY <1>2, <1>3, <1>4

\* What an accepted result keeps, whatever it does to the bytes and the box.
LEMMA AcceptKeeps ==
    ASSUME IInv, NEW r \in requests, r.value # Unread, Current(r), Accept(r),
           usage' \in 0 .. MaxBricks, box' \in [Axes -> SUBSET Coordinates],
           BytesAreCounted'
    PROVE  IInv'
  <1> USE DEF IInv, Accept
  <1>1. /\ r.key \in tracked /\ r.key \in Keys
        /\ r.gen = target[r.key] /\ r.gen \in 0 .. MaxGeneration
        /\ r.value = content[r.key] /\ r.value \in Contents
    BY DEF TypeOK, Request, Current, RequestsFollow
  <1>2. r.key \notin queued
    BY <1>1, BrickCacheAssumption DEF QueueAgrees
  <1>3. /\ held'[r.key] = content[r.key] /\ gen'[r.key] = target[r.key]
        /\ \A k \in Keys \ {r.key} : held'[k] = held[k] /\ gen'[k] = gen[k]
    BY <1>1 DEF TypeOK
  <1>4. TypeOK'
    BY <1>1 DEF TypeOK
  <1>5. GenerationsOrdered'
    BY <1>1, <1>3, BrickCacheAssumption DEF GenerationsOrdered
  <1>6. QueueAgrees'
    BY <1>2, <1>3 DEF QueueAgrees, TypeOK
  <1>7. RequestsFollow'
    BY DEF RequestsFollow
  <1>8. CleanMeansCurrent'
    BY <1>3 DEF CleanMeansCurrent, TypeOK
  <1>9. Coming'
    BY <1>3 DEF Coming, TypeOK
  <1>10. MipsRooted' /\ MipIsCurrent'
    BY DEF MipsRooted, MipIsCurrent
  <1> QED BY <1>4, <1>5, <1>6, <1>7, <1>8, <1>9, <1>10

\* An accepted uniform result gives up the lattice the brick had.
LEMMA SubmitUniformKeeps == ASSUME IInv, NEW r \in requests, SubmitUniform(r) PROVE IInv'
  <1> USE DEF IInv, SubmitUniform
  <1>1. r.key \in Keys /\ r.value \notin Surfaces /\ r.value # Unread
    BY BrickCacheAssumption DEF TypeOK, Request, Unread
  <1>2. held' = [held EXCEPT ![r.key] = r.value]
    BY DEF Accept
  <1>3. SurfaceBricks(held') = SurfaceBricks(held) \ {r.key}
    BY <1>1, <1>2 DEF SurfaceBricks, TypeOK
  <1>4. IsFiniteSet(SurfaceBricks(held)) /\ Cardinality(SurfaceBricks(held')) \in Nat
    BY SurfaceBricksFinite
  <1>5. CASE held[r.key] \in Surfaces
    <2>1. r.key \in SurfaceBricks(held)
      BY <1>1, <1>5 DEF SurfaceBricks
    <2>2. Cardinality(SurfaceBricks(held')) = Cardinality(SurfaceBricks(held)) - 1
      BY <1>3, <1>4, <2>1, FS_RemoveElement
    <2>3. usage' = usage - 1 /\ box' = BoxWithout({r.key}, held')
      BY <1>5
    <2>4. BytesAreCounted' /\ usage' \in 0 .. MaxBricks
      BY <1>4, <2>2, <2>3, BrickCacheAssumption DEF BytesAreCounted, TypeOK
    <2>5. box' \in [Axes -> SUBSET Coordinates]
      BY <2>3, BoxTypes DEF BoxWithout, TypeOK
    <2> QED BY <1>1, <2>4, <2>5, AcceptKeeps
  <1>6. CASE held[r.key] \notin Surfaces
    <2>1. SurfaceBricks(held') = SurfaceBricks(held)
      BY <1>3, <1>6 DEF SurfaceBricks
    <2>2. usage' = usage /\ box' = box
      BY <1>6 DEF surfaceVars
    <2>3. BytesAreCounted'
      BY <2>1, <2>2 DEF BytesAreCounted
    <2>4. usage' \in 0 .. MaxBricks /\ box' \in [Axes -> SUBSET Coordinates]
      BY <2>2 DEF TypeOK
    <2> QED BY <1>1, <2>3, <2>4, AcceptKeeps
  <1> QED BY <1>5, <1>6

\* An accepted lattice is counted and the box grows by it.
LEMMA SubmitSurfaceKeeps == ASSUME IInv, NEW r \in requests, SubmitSurface(r) PROVE IInv'
  <1> USE DEF IInv, SubmitSurface
  <1>1. r.key \in Keys /\ r.value \in Surfaces
    BY DEF TypeOK, Request
  <1>2. r.value # Unread
    BY <1>1, BrickCacheAssumption
  <1>3. SurfaceBricks(held') = SurfaceBricks(held) \cup {r.key}
    BY <1>1 DEF Accept, SurfaceBricks, TypeOK
  <1>4. IsFiniteSet(SurfaceBricks(held)) /\ Cardinality(SurfaceBricks(held)) \in Nat
    BY SurfaceBricksFinite
  <1>5. r.key \in SurfaceBricks(held) <=> held[r.key] \in Surfaces
    BY <1>1 DEF SurfaceBricks
  <1>6. BytesAreCounted'
    BY <1>3, <1>4, <1>5, FS_AddElement DEF BytesAreCounted, UsageWith
  <1>7. usage' \in 0 .. MaxBricks
    BY BrickCacheAssumption DEF UsageWith, TypeOK
  <1>8. box' \in [Axes -> SUBSET Coordinates]
    BY BoxTypes
  <1> QED BY <1>2, <1>6, <1>7, <1>8, AcceptKeeps

-----------------------------------------------------------------------------
\* Eviction of any bricks not waiting in the queue.
LEMMA DropKeeps ==
    ASSUME IInv, NEW gone \in SUBSET Evictable, Drop(gone)
    PROVE  IInv'
  <1> USE DEF IInv, Drop
  <1> DEFINE lost == gone \cap SurfaceBricks(held)
  <1>1. gone \subseteq evaluated /\ evaluated \subseteq Keys /\ evaluated' \subseteq evaluated
    BY DEF Evictable, TypeOK
  <1>2. \A k \in evaluated' : held'[k] = held[k]
    BY <1>1 DEF TypeOK
  <1>3. SurfaceBricks(held') = SurfaceBricks(held) \ lost
    BY <1>1, BrickCacheAssumption DEF SurfaceBricks, TypeOK
  <1>4. IsFiniteSet(SurfaceBricks(held)) /\ Cardinality(SurfaceBricks(held)) \in Nat
    BY SurfaceBricksFinite
  <1>5. SurfaceBricks(held) \cap lost = lost
    OBVIOUS
  <1>6. IsFiniteSet(lost) /\ Cardinality(lost) \in Nat
           /\ Cardinality(lost) <= Cardinality(SurfaceBricks(held))
    BY <1>4, FS_Subset, FS_CardinalityType
  <1>7. Cardinality(SurfaceBricks(held')) = Cardinality(SurfaceBricks(held)) - Cardinality(lost)
    <2> DEFINE bricks == SurfaceBricks(held)
    <2>1. IsFiniteSet(bricks) /\ IsFiniteSet(lost) /\ bricks \cap lost = lost
      BY <1>4, <1>5, <1>6
    <2> HIDE DEF bricks, lost
    <2>2. Cardinality(bricks \ lost) = Cardinality(bricks) - Cardinality(bricks \cap lost)
      BY <2>1, FS_Difference
    <2>3. Cardinality(bricks \ lost) = Cardinality(bricks) - Cardinality(lost)
      BY <2>1, <2>2
    <2> QED BY <1>3, <2>3 DEF bricks
  <1>8. usage' = usage - Cardinality(lost) /\ box' = BoxWithout(lost, held')
    OBVIOUS
  <1> HIDE DEF lost
  <1>9. BytesAreCounted'
    BY <1>7, <1>8 DEF BytesAreCounted
  <1>10. usage' \in 0 .. MaxBricks
    BY <1>4, <1>6, <1>8, BrickCacheAssumption DEF BytesAreCounted, TypeOK
  <1>11. box' \in [Axes -> SUBSET Coordinates]
    BY <1>8, BoxTypes DEF BoxWithout, TypeOK
  <1>12. held' \in [Keys -> Contents]
    BY DEF TypeOK, Contents
  <1>13. TypeOK'
    BY <1>1, <1>10, <1>11, <1>12 DEF TypeOK
  <1>14. GenerationsOrdered' /\ QueueAgrees' /\ RequestsFollow'
    BY DEF GenerationsOrdered, QueueAgrees, RequestsFollow
  <1>15. CleanMeansCurrent' /\ Coming'
    BY <1>1, <1>2 DEF CleanMeansCurrent, Coming
  <1>16. MipsRooted' /\ MipIsCurrent'
    BY DEF MipsRooted, MipIsCurrent
  <1> QED BY <1>9, <1>13, <1>14, <1>15, <1>16

\* One brick evicted.
LEMMA EvictKeeps == IInv /\ Evict => IInv'
  <1> SUFFICES ASSUME IInv, NEW k \in Evictable, Drop({k}) PROVE IInv'
    BY DEF Evict
  <1> QED BY DropKeeps

\* As many bricks as trim_to asks for, at once.
LEMMA TrimToKeeps == IInv /\ TrimTo => IInv'
  <1> SUFFICES ASSUME IInv, NEW gone \in SUBSET (Evictable \cap SurfaceBricks(held)),
                      Drop(gone)
               PROVE  IInv'
    BY DEF TrimTo
  <1> QED BY DropKeeps

\* A disciplined host forgets only keys that nothing is queued or in flight for.
LEMMA ForgetEmptyKeeps == Disciplined /\ IInv /\ ForgetEmpty => IInv'
  <1> SUFFICES ASSUME Disciplined, IInv, ForgetEmpty PROVE IInv' OBVIOUS
  <1> USE DEF IInv
  <1> DEFINE gone == Forgettable
  <1>1. gone \subseteq tracked /\ gone \cap queued = {}
    BY DEF Forgettable
  <1>2. Settled(gone)
    BY DEF Disciplined, ForgetEmpty
  <1>3. /\ tracked' = tracked \ gone /\ evaluated' = evaluated \ gone
        /\ gen' = [k \in Keys |-> IF k \in gone THEN 0 ELSE gen[k]]
        /\ target' = [k \in Keys |-> IF k \in gone THEN 0 ELSE target[k]]
        /\ UNCHANGED <<content, held, queued, dirty, surfaceVars, mips, requests>>
    BY DEF ForgetEmpty
  <1> HIDE DEF gone
  <1>4. \A k \in Keys \ gone : gen'[k] = gen[k] /\ target'[k] = target[k]
    BY <1>3
  <1>5. TypeOK'
    BY <1>1, <1>3, BrickCacheAssumption DEF TypeOK, surfaceVars
  <1>6. GenerationsOrdered'
    BY <1>3 DEF GenerationsOrdered, TypeOK
  <1>7. QueueAgrees'
    BY <1>1, <1>3, <1>4 DEF QueueAgrees, TypeOK
  <1>8. \A r \in requests : r.key \in Keys /\ r.key \notin gone
    BY <1>2 DEF Settled, TypeOK, Request
  <1>9. RequestsFollow'
    BY <1>3, <1>4, <1>8 DEF RequestsFollow
  <1>10. CleanMeansCurrent'
    BY <1>3, <1>4 DEF CleanMeansCurrent, TypeOK
  <1>11. Coming'
    BY <1>3, <1>4 DEF Coming, TypeOK
  <1>12. MipsRooted'
    <2> SUFFICES ASSUME NEW b \in Blocks, DOMAIN mips[b] # {},
                        NEW k \in Children(b)
                 PROVE  DOMAIN mips[b] = Children(b) /\ k \in tracked'
      BY <1>3 DEF MipsRooted
    <2>1. DOMAIN mips[b] = Children(b) /\ k \in tracked /\ k \in Keys
      BY DEF MipsRooted, TypeOK
    <2>2. Coarse(k) = b
      BY <2>1, CoarseOfChild
    <2>3. k \notin gone
      BY <1>2, <2>2 DEF Settled, NoMip
    <2> QED BY <1>3, <2>1, <2>3
  <1>13. MipIsCurrent' /\ BytesAreCounted'
    BY <1>3 DEF MipIsCurrent, BytesAreCounted, SurfaceBricks, surfaceVars
  <1> QED BY <1>5, <1>6, <1>7, <1>9, <1>10, <1>11, <1>12, <1>13

\* A mip is built from children that are as the document has them.
LEMMA BuildMipKeeps == IInv /\ BuildMip => IInv'
  <1> SUFFICES ASSUME IInv, NEW b \in Blocks, Buildable(b),
                      mips' = [mips EXCEPT ![b] = [k \in Children(b) |-> held[k]]],
                      UNCHANGED <<content, tracked, held, gen, target, evaluated, queued,
                                  dirty, surfaceVars, requests>>
               PROVE  IInv'
    BY DEF BuildMip
  <1> USE DEF IInv
  <1>1. \A k \in Children(b) : k \in tracked /\ k \in Keys /\ held[k] = content[k]
    BY DEF Buildable, CleanMeansCurrent, TypeOK
  <1>2. [k \in Children(b) |-> held[k]] \in [Children(b) -> Contents]
    BY <1>1 DEF TypeOK
  <1>3. TypeOK'
    BY <1>2 DEF TypeOK, surfaceVars
  <1>4. MipsRooted'
    BY <1>1 DEF MipsRooted, TypeOK
  <1>5. MipIsCurrent'
    BY <1>1 DEF MipIsCurrent, TypeOK
  <1>6. /\ GenerationsOrdered' /\ QueueAgrees' /\ RequestsFollow' /\ CleanMeansCurrent'
        /\ Coming' /\ BytesAreCounted'
    BY DEF GenerationsOrdered, QueueAgrees, RequestsFollow, CleanMeansCurrent, Coming,
           BytesAreCounted, SurfaceBricks, surfaceVars
  <1> QED BY <1>3, <1>4, <1>5, <1>6

-----------------------------------------------------------------------------
\* The inductive invariant, for a host that forgets settled keys only.
THEOREM Invariant == ASSUME Disciplined PROVE Spec => []IInv
  <1>1. Init => IInv
    BY InitIInv
  <1>2. IInv /\ [Next]_vars => IInv'
    <2> SUFFICES ASSUME IInv, [Next]_vars PROVE IInv' OBVIOUS
    <2>1. CASE MarkDirty BY <2>1, MarkDirtyKeeps
    <2>2. CASE MarkAllDirty BY <2>2, MarkAllDirtyKeeps
    <2>3. CASE TakeDirty BY <2>3, TakeDirtyKeeps
    <2>4. CASE \E r \in requests : Evaluate(r) BY <2>4, EvaluateKeeps
    <2>5. CASE \E r \in requests : Submit(r)
      BY <2>5, SubmitStaleKeeps, SubmitUniformKeeps, SubmitSurfaceKeeps DEF Submit
    <2>6. CASE Evict BY <2>6, EvictKeeps
    <2>7. CASE TrimTo BY <2>7, TrimToKeeps
    <2>8. CASE ForgetEmpty BY <2>8, ForgetEmptyKeeps
    <2>9. CASE BuildMip BY <2>9, BuildMipKeeps
    <2>10. CASE UNCHANGED vars
      BY <2>10 DEF IInv, TypeOK, GenerationsOrdered, QueueAgrees, RequestsFollow,
         CleanMeansCurrent, Coming, MipsRooted, MipIsCurrent, BytesAreCounted,
         SurfaceBricks, vars, surfaceVars
    <2> QED BY <2>1, <2>2, <2>3, <2>4, <2>5, <2>6, <2>7, <2>8, <2>9, <2>10 DEF Next
  <1> QED BY <1>1, <1>2, PTL DEF Spec

\* Every variable of the cache keeps to its values, the bytes to the budget.
THEOREM TypeCorrect == ASSUME Disciplined PROVE Spec => []TypeOK
  <1>1. IInv => TypeOK BY DEF IInv
  <1> QED BY <1>1, Invariant, PTL

\* A brick at its target generation holds what the document says.
THEOREM NoStaleAnswer == ASSUME Disciplined PROVE Spec => []CleanMeansCurrent
  <1>1. IInv => CleanMeansCurrent BY DEF IInv
  <1> QED BY <1>1, Invariant, PTL

\* A brick the document has left behind is queued or in flight.
THEOREM NobodyStranded == ASSUME Disciplined PROVE Spec => []NothingStranded
  <1>1. IInv => NothingStranded
    <2> SUFFICES ASSUME IInv, NEW k \in Behind, k \notin dirty
                 PROVE  \E r \in requests : r.key = k /\ Current(r)
      BY DEF NothingStranded
    <2>1. k \in tracked /\ gen[k] # target[k]
      BY DEF IInv, TypeOK, CleanMeansCurrent, Behind
    <2>2. PICK r \in requests : r.key = k /\ r.gen = target[k]
      BY <2>1 DEF IInv, Coming
    <2> QED BY <2>1, <2>2 DEF Current
  <1> QED BY <1>1, Invariant, PTL

\* A mip answers for the document as it is.
THEOREM NoStaleMip == ASSUME Disciplined PROVE Spec => []MipIsCurrent
  <1>1. IInv => MipIsCurrent BY DEF IInv
  <1> QED BY <1>1, Invariant, PTL

\* The bytes counted are those of the bricks that hold a lattice.
THEOREM BytesCounted == ASSUME Disciplined PROVE Spec => []BytesAreCounted
  <1>1. IInv => BytesAreCounted BY DEF IInv
  <1> QED BY <1>1, Invariant, PTL

-----------------------------------------------------------------------------
(* The box.  Surface bricks are finitely many, so one of them is the lowest
   on an axis and one the highest, and neither is interior: when all that
   leave are, the box stays. *)

\* A finite set of integers has a least element.
LEMMA Least ==
    ASSUME NEW T, T \subseteq Int, IsFiniteSet(T), T # {}
    PROVE  \E x \in T : \A y \in T : x <= y
  <1> DEFINE below(x) == {y \in T : y < x}
             all == {below(x) : x \in T}
  <1>1. \A x \in T : below(x) \in FiniteSubsetsOf(T)
    BY FS_Subset DEF FiniteSubsetsOf
  <1>2. PICK b \in all : \A c \in all : <<c, b>> \notin StrictSubsetOrdering(T)
    <2>1. all \subseteq FiniteSubsetsOf(T) /\ all # {}
      BY <1>1
    <2> HIDE DEF all
    <2> QED BY <2>1, WFMin, FS_StrictSubsetOrderingWellFounded
  <1>3. PICK x \in T : b = below(x)
    OBVIOUS
  <1>4. ASSUME NEW y \in T, y < x PROVE FALSE
    <2>1. y \in below(x) /\ y \notin below(y) /\ \A z \in below(y) : z \in below(x)
      BY <1>4, SMT
    <2>2. <<below(y), below(x)>> \in StrictSubsetOrdering(T)
      BY <2>1 DEF StrictSubsetOrdering
    <2> QED BY <1>2, <1>3, <2>2
  <1> QED BY <1>4

\* And a greatest one: the least of their opposites.
LEMMA Greatest ==
    ASSUME NEW T, T \subseteq Int, IsFiniteSet(T), T # {}
    PROVE  \E x \in T : \A y \in T : y <= x
  <1> DEFINE opposites == {-x : x \in T}
             f == [x \in T |-> -x]
  <1>1. f \in Surjection(T, opposites)
    BY DEF Surjection
  <1>2. IsFiniteSet(opposites)
    BY <1>1, FS_Surjection
  <1>3. opposites \subseteq Int /\ opposites # {}
    OBVIOUS
  <1>4. PICK z \in opposites : \A y \in opposites : z <= y
    <2> HIDE DEF opposites
    <2> QED BY <1>2, <1>3, Least
  <1>5. PICK x \in T : z = -x
    OBVIOUS
  <1>6. \A y \in T : -x <= -y
    BY <1>4, <1>5
  <1> QED BY <1>6

\* The coordinates of a set of bricks on an axis.
LEMMA OnAxis ==
    ASSUME NEW S \in SUBSET Keys, NEW i \in Axes
    PROVE  /\ {k[i] : k \in S} \subseteq Coordinates
           /\ IsFiniteSet({k[i] : k \in S})
           /\ BoxAround(S)[i] = Between({k[i] : k \in S})
  <1> DEFINE onAxis == {k[i] : k \in S}
             f == [k \in S |-> k[i]]
  <1>1. onAxis \subseteq Coordinates
    BY BrickCacheAssumption DEF Axes
  <1>2. f \in Surjection(S, onAxis)
    BY DEF Surjection
  <1>3. IsFiniteSet(S)
    BY FS_Subset, BrickCacheAssumption
  <1>4. IsFiniteSet(onAxis)
    BY <1>2, <1>3, FS_Surjection
  <1> QED BY <1>1, <1>4 DEF BoxAround

\* Growing a tight box by a brick gives the box around them all.
LEMMA ExpandedIsTight ==
    ASSUME NEW S \in SUBSET Keys, NEW k \in Keys, box = BoxAround(S)
    PROVE  Expanded(k) = BoxAround(S \cup {k})
  <1>1. ASSUME NEW i \in Axes
        PROVE  Between(box[i] \cup {k[i]}) = Between({j[i] : j \in S \cup {k}})
    <2> DEFINE A == {j[i] : j \in S}
               c == k[i]
    <2>1. A \subseteq Coordinates /\ box[i] = Between(A)
      BY <1>1, OnAxis
    <2>2. c \in Coordinates
      BY BrickCacheAssumption DEF Axes
    <2>3. {j[i] : j \in S \cup {k}} = A \cup {c}
      OBVIOUS
    <2> HIDE DEF A, c
    <2>4. A \subseteq Between(A)
      BY <2>1, BrickCacheAssumption DEF Between
    <2>5. ASSUME NEW n \in Between(Between(A) \cup {c}) PROVE n \in Between(A \cup {c})
      <3>1. PICK low \in Between(A) \cup {c}, high \in Between(A) \cup {c} :
                n \in Coordinates /\ low <= n /\ n <= high
        BY DEF Between
      <3>2. low \in Coordinates /\ high \in Coordinates
        BY <2>2, <3>1 DEF Between
      <3>3. PICK least \in A \cup {c} : least <= low
        <4>1. CASE low \in Between(A) BY <4>1 DEF Between
        <4>2. CASE low = c BY <2>2, <4>2, BrickCacheAssumption
        <4> QED BY <3>1, <4>1, <4>2
      <3>4. PICK most \in A \cup {c} : high <= most
        <4>1. CASE high \in Between(A) BY <4>1 DEF Between
        <4>2. CASE high = c BY <2>2, <4>2, BrickCacheAssumption, SMTT(30)
        <4> QED BY <3>1, <4>1, <4>2
      <3>5. least <= n /\ n <= most
        BY <2>1, <2>2, <3>1, <3>2, <3>3, <3>4, BrickCacheAssumption
      <3> QED BY <3>1, <3>5 DEF Between
    <2>6. Between(A \cup {c}) \subseteq Between(Between(A) \cup {c})
      BY <2>4 DEF Between
    <2>7. Between(Between(A) \cup {c}) = Between(A \cup {c})
      BY <2>5, <2>6
    <2> QED BY <2>1, <2>3, <2>7 DEF c
  <1> QED BY <1>1 DEF Expanded, BoxAround

\* A tight box stays when all the bricks that leave are interior.
LEMMA InteriorLeaves ==
    ASSUME NEW S \in SUBSET Keys, NEW gone \in SUBSET Keys, box = BoxAround(S),
           \A k \in gone : Interior(k)
    PROVE  box = BoxAround(S \ gone)
  <1>1. ASSUME NEW i \in Axes
        PROVE  Between({k[i] : k \in S}) = Between({k[i] : k \in S \ gone})
    <2> DEFINE A == {k[i] : k \in S}
               B == {k[i] : k \in S \ gone}
    <2>1. A \subseteq Coordinates /\ A \subseteq Int /\ IsFiniteSet(A) /\ box[i] = Between(A)
      BY <1>1, OnAxis, BrickCacheAssumption
    <2>2. B \subseteq A
      OBVIOUS
    <2>3. CASE A = {}
      BY <2>2, <2>3
    <2>4. CASE A # {}
      <3>1. PICK low \in A : \A a \in A : low <= a
        <4> HIDE DEF A
        <4> QED BY <2>1, <2>4, Least
      <3>2. PICK high \in A : \A a \in A : a <= high
        <4> HIDE DEF A
        <4> QED BY <2>1, <2>4, Greatest
      <3>3. PICK first \in S : first[i] = low
        BY <3>1
      <3>4. PICK last \in S : last[i] = high
        BY <3>2
      <3> HIDE DEF A
      <3>5. ASSUME NEW n \in box[i]
            PROVE  /\ n \in Int /\ low <= n /\ n <= high
                   /\ ~ (n < low) /\ ~ (n > high)
        <4>1. n \in Coordinates /\ n \in Int
          BY <2>1, BrickCacheAssumption DEF Between
        <4>2. PICK a \in A, b \in A : a <= n /\ n <= b
          BY <2>1 DEF Between
        <4>3. a \in Int /\ b \in Int /\ low \in Int /\ high \in Int
          BY <2>1
        <4>4. low <= a /\ b <= high
          BY <3>1, <3>2
        <4> QED BY <4>1, <4>2, <4>3, <4>4
      <3>6. first \notin gone /\ last \notin gone
        BY <1>1, <3>3, <3>4, <3>5 DEF Interior
      <3>7. low \in B /\ high \in B
        BY <3>3, <3>4, <3>6
      <3> HIDE DEF B
      <3>8. Between(A) \subseteq Between(B)
        BY <2>1, <3>5, <3>7 DEF Between
      <3>9. Between(B) \subseteq Between(A)
        BY <2>2 DEF Between
      <3> QED BY <3>8, <3>9 DEF A, B
    <2> QED BY <2>3, <2>4
  <1> QED BY <1>1 DEF BoxAround

-----------------------------------------------------------------------------
\* A brick that holds a lattice is evaluated, and the box is theirs.
BoxFollows ==
    /\ SurfaceBricks(held) \subseteq evaluated
    /\ box = BoxAround(SurfaceBricks(held))

\* The box after bricks have left the surface.
LEMMA WithoutIsTight ==
    ASSUME BoxFollows, NEW lost \in SUBSET Keys, NEW values,
           SurfaceBricks(values) = SurfaceBricks(held) \ lost
    PROVE  BoxWithout(lost, values) = BoxAround(SurfaceBricks(values))
  <1>1. SurfaceBricks(held) \in SUBSET Keys
    BY DEF SurfaceBricks
  <1> QED BY <1>1, InteriorLeaves DEF BoxFollows, BoxWithout

\* A result replaces a brick: the box gives it up or takes it in.
LEMMA SubmitKeepsBox ==
    ASSUME TypeOK, BoxFollows, NEW r \in requests, Submit(r) PROVE BoxFollows'
  <1>1. r.key \in Keys /\ r.key \in evaluated \cup {r.key}
    BY DEF TypeOK, Request
  <1>2. SurfaceBricks(held) \in SUBSET Keys
    BY DEF SurfaceBricks
  <1>3. CASE SubmitStale(r)
    BY <1>3 DEF SubmitStale, BoxFollows, SurfaceBricks, surfaceVars
  <1>4. CASE SubmitUniform(r)
    <2>1. r.value \notin Surfaces
      BY <1>4, BrickCacheAssumption DEF SubmitUniform
    <2>2. SurfaceBricks(held') = SurfaceBricks(held) \ {r.key}
      BY <1>1, <1>4, <2>1 DEF SubmitUniform, Accept, SurfaceBricks, TypeOK
    <2>3. CASE held[r.key] \in Surfaces
      BY <1>1, <1>4, <2>2, <2>3, WithoutIsTight DEF SubmitUniform, Accept, BoxFollows
    <2>4. CASE held[r.key] \notin Surfaces
      <3>1. SurfaceBricks(held') = SurfaceBricks(held)
        BY <2>2, <2>4 DEF SurfaceBricks
      <3> QED BY <1>4, <2>4, <3>1 DEF SubmitUniform, Accept, BoxFollows, surfaceVars
    <2> QED BY <2>3, <2>4
  <1>5. CASE SubmitSurface(r)
    <2>1. SurfaceBricks(held') = SurfaceBricks(held) \cup {r.key}
      BY <1>1, <1>5 DEF SubmitSurface, Accept, SurfaceBricks, TypeOK
    <2>2. box' = BoxAround(SurfaceBricks(held'))
      BY <1>1, <1>2, <1>5, <2>1, ExpandedIsTight DEF SubmitSurface, BoxFollows
    <2> QED BY <1>5, <2>1, <2>2 DEF SubmitSurface, Accept, BoxFollows
  <1> QED BY <1>3, <1>4, <1>5 DEF Submit

\* Eviction and trimming take any number of bricks away at once.
LEMMA DropKeepsBox ==
    ASSUME TypeOK, BoxFollows, NEW gone \in SUBSET Evictable, Drop(gone)
    PROVE  BoxFollows'
  <1> DEFINE lost == gone \cap SurfaceBricks(held)
  <1>1. gone \subseteq Keys /\ lost \in SUBSET Keys
    BY DEF Evictable, TypeOK
  <1>2. SurfaceBricks(held') = SurfaceBricks(held) \ gone
    BY <1>1, BrickCacheAssumption DEF Drop, SurfaceBricks
  <1>3. SurfaceBricks(held') = SurfaceBricks(held) \ lost
    BY <1>2
  <1>4. box' = BoxWithout(lost, held') /\ evaluated' = evaluated \ gone
    BY DEF Drop
  <1>5. box' = BoxAround(SurfaceBricks(held'))
    BY <1>1, <1>3, <1>4, WithoutIsTight
  <1> QED BY <1>2, <1>4, <1>5 DEF BoxFollows

\* The box kept incrementally is the fold over the surface bricks, exactly.
THEOREM BoundsTight == ASSUME Disciplined PROVE Spec => []BoundsAreTight
  <1>1. Init => BoxFollows
    <2> SUFFICES ASSUME Init PROVE BoxFollows OBVIOUS
    <2>1. SurfaceBricks(held) = {}
      BY BrickCacheAssumption DEF Init, SurfaceBricks
    <2>2. BoxAround({}) = [i \in Axes |-> {}]
      BY DEF BoxAround, Between
    <2> QED BY <2>1, <2>2 DEF Init, BoxFollows
  <1>2. TypeOK /\ BoxFollows /\ [Next]_vars => BoxFollows'
    <2> SUFFICES ASSUME TypeOK, BoxFollows, [Next]_vars PROVE BoxFollows' OBVIOUS
    <2> USE DEF BoxFollows, SurfaceBricks
    <2>1. CASE MarkDirty BY <2>1 DEF MarkDirty, surfaceVars
    <2>2. CASE MarkAllDirty BY <2>2 DEF MarkAllDirty, surfaceVars
    <2>3. CASE TakeDirty BY <2>3 DEF TakeDirty, surfaceVars
    <2>4. CASE \E r \in requests : Evaluate(r) BY <2>4 DEF Evaluate, surfaceVars
    <2>5. CASE \E r \in requests : Submit(r) BY <2>5, SubmitKeepsBox
    <2>6. CASE Evict BY <2>6, DropKeepsBox DEF Evict
    <2>7. CASE TrimTo BY <2>7, DropKeepsBox DEF TrimTo
    <2>8. CASE ForgetEmpty
      BY <2>8, BrickCacheAssumption DEF ForgetEmpty, Forgettable, surfaceVars
    <2>9. CASE BuildMip BY <2>9 DEF BuildMip, surfaceVars
    <2>10. CASE UNCHANGED vars BY <2>10 DEF vars, surfaceVars
    <2> QED BY <2>1, <2>2, <2>3, <2>4, <2>5, <2>6, <2>7, <2>8, <2>9, <2>10 DEF Next
  <1>3. BoxFollows => BoundsAreTight
    <2> SUFFICES ASSUME BoxFollows PROVE BoundsAreTight OBVIOUS
    <2>1. SurfaceBricks(held) \cap evaluated = SurfaceBricks(held)
      BY DEF BoxFollows
    <2> QED BY <2>1 DEF BoxFollows, BoundsAreTight
  <1> QED BY <1>1, <1>2, <1>3, TypeCorrect, PTL DEF Spec
=============================================================================
