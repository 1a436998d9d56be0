---------------------------- MODULE GestureProofs ---------------------------
(***************************************************************************)
(* Slots, records and the index of Gestures, for any number of records,    *)
(* slots, stamps and reloads: the free list names the dead slots whatever  *)
(* was replayed, a record's ends are the surface's states, the index holds *)
(* the live faces, and a handle never answers for another element.         *)
(***************************************************************************)
EXTENDS Gestures, FoldLemmas

Value == [element: Nat, at: Nat]
Slot == [value: Value, generation: Nat, next: Nat, live: BOOLEAN]
Pool == [slots: Seq(Slot), head: Nat, dead: Nat]
HandleType == [slot: Nat, generation: Nat]
Mark == [lineage: Nat \ {0}, epoch: Nat]
Entry == [beforeId: HandleType, afterId: HandleType, before: Value, after: Value,
          existedBefore: BOOLEAN, existsAfter: BOOLEAN]

-----------------------------------------------------------------------------
(* The free list.                                                          *)

DeadSlots(p) == DOMAIN p.slots \ LiveSlots(p)

\* A rank counts the links from a dead slot to the end of the list.
Ranks(p, rank) ==
    /\ \A s, t \in DeadSlots(p) : rank[s] = rank[t] => s = t
    /\ p.dead = 0 => p.head = NoSlot
    /\ p.dead # 0 => p.head \in DeadSlots(p) /\ rank[p.head] = p.dead
    /\ \A s \in DeadSlots(p) :
          /\ rank[s] = 1 => p.slots[s].next = NoSlot
          /\ rank[s] # 1 => /\ p.slots[s].next \in DeadSlots(p)
                            /\ rank[p.slots[s].next] = rank[s] - 1

\* The free list goes through the dead slots, each once.
Linked(p) ==
    /\ p.dead = Cardinality(DeadSlots(p))
    /\ \E rank \in [DeadSlots(p) -> 1..p.dead] : Ranks(p, rank)

-----------------------------------------------------------------------------
(* The records.                                                            *)

ContentType(c) == c \in [DOMAIN c -> [generation: Nat, value: Value]]

DeltaType(delta) ==
    /\ delta \in [DOMAIN delta -> Entry]
    /\ \A s \in DOMAIN delta : delta[s].beforeId.slot = s /\ delta[s].afterId.slot = s

\* An end of an entry says what the contents hold at its slot.
Says(c, s, exists, id, value) ==
    /\ exists <=> s \in DOMAIN c
    /\ exists => c[s] = [generation |-> id.generation, value |-> value]

\* A delta leads from one contents to another: its entries say both at their
\* slots, and elsewhere the two are the same.
Leads(delta, was, became) ==
    /\ \A s \in DOMAIN delta :
          /\ Says(was, s, delta[s].existedBefore, delta[s].beforeId, delta[s].before)
          /\ Says(became, s, delta[s].existsAfter, delta[s].afterId, delta[s].after)
    /\ \A s \in (DOMAIN was \cup DOMAIN became) \ DOMAIN delta :
          s \in DOMAIN was /\ s \in DOMAIN became /\ was[s] = became[s]

Kept == {r \in Records : records[r] # NoRecord}

RecordType(r) ==
    /\ r.delta # EmptyDelta
    /\ DeltaType(r.delta) /\ DOMAIN r.delta \subseteq DOMAIN pool.slots
    /\ ContentType(r.was) /\ ContentType(r.became)
    /\ r.before \in Mark /\ r.after \in Mark
    /\ DOMAIN r = DOMAIN NoRecord

\* The marks something goes by, each with the contents it stands for.
Ends ==
    {<<mark, Contents(pool)>>}
    \cup {<<records[r].before, records[r].was>> : r \in Kept}
    \cup {<<records[r].after, records[r].became>> : r \in Kept}

\* The handle names its element, or its slot has moved past it.
Past(p, t) ==
    LET s == t.id.slot
    IN  /\ s \in DOMAIN p.slots
        /\ \/ p.slots[s].generation > t.id.generation
           \/ /\ p.slots[s].live /\ p.slots[s].generation = t.id.generation
              /\ p.slots[s].value.element = t.element

-----------------------------------------------------------------------------
(* The inductive invariant.                                                *)

GestureTypeOK ==
    /\ pool \in Pool /\ mark \in Mark /\ clock \in Nat
    /\ records = [r \in Records |-> records[r]]
    /\ \A r \in Kept : RecordType(records[r])
    /\ taken \subseteq [id: HandleType, element: Nat]

\* A mark stands for one contents, and the next one is new.
MarksNameContents ==
    /\ \A a, b \in Ends : a[1] = b[1] => a[2] = b[2]
    /\ \A a \in Ends : a[1].epoch < clock

DeltasLead == \A r \in Kept : Leads(records[r].delta, records[r].was, records[r].became)

GestureIInv ==
    /\ GestureTypeOK
    /\ Linked(pool)
    /\ MarksNameContents
    /\ DeltasLead
    /\ IndexHoldsTheLive

HandlesPast == \A t \in taken : Past(pool, t)

-----------------------------------------------------------------------------
(* The free list, link by link.                                            *)

\* FreeList is the function its recursion describes.
LEMMA FreeListLinks ==
    ASSUME NEW p, p \in Pool
    PROVE  /\ DOMAIN FreeList(p) = 0..Len(p.slots)
           /\ FreeList(p)[0] = p.head
           /\ \A i \in 0..Len(p.slots) : i # 0 =>
                 FreeList(p)[i] = IF FreeList(p)[i - 1] = NoSlot THEN NoSlot
                                  ELSE p.slots[FreeList(p)[i - 1]].next
<1> DEFINE Step(g, i) == IF i = 0 THEN p.head
                         ELSE IF g[i - 1] = NoSlot THEN NoSlot
                         ELSE p.slots[g[i - 1]].next
           Good == {n \in Nat : \E g : g = [i \in 0..n |-> Step(g, i)]}
<1>1. 0 \in Good
  <2> DEFINE g == [i \in 0..0 |-> p.head]
  <2>1. \A i \in 0..0 : Step(g, i) = p.head
    OBVIOUS
  <2>2. g = [i \in 0..0 |-> Step(g, i)]
    BY <2>1
  <2>3. QED
    BY <2>2
<1>2. ASSUME NEW n \in Nat, n \in Good PROVE n + 1 \in Good
  <2>1. PICK g : g = [i \in 0..n |-> Step(g, i)]
    BY <1>2
  <2> DEFINE h == [i \in 0..(n + 1) |-> Step(g, i)]
  <2>2. \A i \in 0..n : i \in 0..(n + 1) /\ h[i] = g[i]
    <3>1. \A i \in 0..n : i \in 0..(n + 1)
      OBVIOUS
    <3>2. \A i \in 0..n : h[i] = Step(g, i)
      BY <3>1
    <3>3. \A i \in 0..n : g[i] = Step(g, i)
      BY <2>1
    <3>4. QED
      BY <3>1, <3>2, <3>3
  <2>3. \A i \in 0..(n + 1) : i = 0 \/ i - 1 \in 0..n
    OBVIOUS
  <2>4. \A i \in 0..(n + 1) : h[i] = Step(h, i)
    BY <2>2, <2>3
  <2>5. h = [i \in 0..(n + 1) |-> h[i]]
    OBVIOUS
  <2> HIDE DEF h
  <2>6. h = [i \in 0..(n + 1) |-> Step(h, i)]
    BY <2>4, <2>5
  <2>7. QED
    BY <2>6
<1>3. Len(p.slots) \in Good
  <2> HIDE DEF Good
  <2>1. QED
    BY <1>1, <1>2, NatSetInduction DEF Pool
<1>4. FreeList(p) = [i \in 0..Len(p.slots) |-> Step(FreeList(p), i)]
  BY <1>3 DEF FreeList
<1> DEFINE link == FreeList(p)
           step == [i \in 0..Len(p.slots) |-> Step(link, i)]
<1>5. DOMAIN step = 0..Len(p.slots) /\ \A i \in 0..Len(p.slots) : step[i] = Step(link, i)
  OBVIOUS
<1>6. link = step
  BY <1>4
<1>7. Len(p.slots) \in Nat
  BY DEF Pool
<1> HIDE DEF link, step
<1>8. QED
  BY <1>5, <1>6, <1>7 DEF link

\* A linked pool's list comes to its end after as many links as there are dead
\* slots, and each link is the dead slot of its rank.
LEMMA LinksFollowRanks ==
    ASSUME NEW p, p \in Pool, p.dead \in Nat,
           NEW rank \in [DeadSlots(p) -> 1..p.dead], Ranks(p, rank)
    PROVE  \A i \in 0..Len(p.slots) :
              IF i < p.dead
              THEN FreeList(p)[i] \in DeadSlots(p) /\ rank[FreeList(p)[i]] = p.dead - i
              ELSE FreeList(p)[i] = NoSlot
<1> DEFINE link == FreeList(p)
           Holds(i) == IF i < p.dead
                       THEN link[i] \in DeadSlots(p) /\ rank[link[i]] = p.dead - i
                       ELSE link[i] = NoSlot
           Good == {i \in Nat : i \in 0..Len(p.slots) => Holds(i)}
<1>1. /\ Len(p.slots) \in Nat
      /\ link[0] = p.head
      /\ \A i \in 0..Len(p.slots) : i # 0 =>
            link[i] = IF link[i - 1] = NoSlot THEN NoSlot ELSE p.slots[link[i - 1]].next
  BY FreeListLinks DEF Pool
<1> HIDE DEF link
<1>2. 0 \notin DeadSlots(p)
  BY DEF DeadSlots, Pool
<1>3. 0 \in Good
  BY <1>1 DEF Ranks
<1>4. ASSUME NEW n \in Nat, n \in Good PROVE n + 1 \in Good
  <2> SUFFICES ASSUME n + 1 \in 0..Len(p.slots) PROVE Holds(n + 1)
    OBVIOUS
  <2>1. Holds(n)
    BY <1>4, <1>1
  <2>2. link[n + 1] = IF link[n] = NoSlot THEN NoSlot ELSE p.slots[link[n]].next
    BY <1>1
  <2>3. CASE n < p.dead
    <3>1. link[n] \in DeadSlots(p) /\ rank[link[n]] = p.dead - n /\ link[n] # NoSlot
      BY <2>1, <2>3, <1>2 DEF NoSlot
    <3>2. QED
      BY <2>2, <2>3, <3>1 DEF Ranks
  <2>4. CASE ~ (n < p.dead)
    BY <2>1, <2>2, <2>4
  <2>5. QED
    BY <2>3, <2>4
<1>5. Nat \subseteq Good
  <2> HIDE DEF Good
  <2>1. QED
    BY <1>3, <1>4, NatSetInduction
<1>6. QED
  BY <1>1, <1>5 DEF link

\* The slots of a pool, and the dead ones among them, are finitely many.
LEMMA DeadAreFew ==
    ASSUME NEW p, p \in Pool
    PROVE  /\ IsFiniteSet(DeadSlots(p))
           /\ DeadSlots(p) \in SUBSET (1..Len(p.slots))
           /\ Cardinality(DeadSlots(p)) \in Nat
           /\ Cardinality(DeadSlots(p)) <= Len(p.slots)
<1>1. DeadSlots(p) \in SUBSET (1..Len(p.slots)) /\ Len(p.slots) \in Nat
  BY DEF DeadSlots, Pool
<1>2. IsFiniteSet(1..Len(p.slots)) /\ Cardinality(1..Len(p.slots)) = Len(p.slots)
  BY <1>1, FS_Interval
<1>3. QED
  BY <1>1, <1>2, FS_Subset, FS_CardinalityType

\* free_list_intact finds a linked pool in order.
LEMMA LinkedIsIntact ==
    ASSUME NEW p, p \in Pool, Linked(p)
    PROVE  FreeListIntact(p)
<1> DEFINE link == FreeList(p)
           visited == {n \in DOMAIN link : link[n] # NoSlot}
<1>1. PICK rank \in [DeadSlots(p) -> 1..p.dead] : Ranks(p, rank)
  BY DEF Linked
<1>2. p.dead \in Nat /\ p.dead <= Len(p.slots) /\ Len(p.slots) \in Nat
  BY DeadAreFew DEF Linked, Pool
<1>3. DOMAIN link = 0..Len(p.slots)
  BY FreeListLinks
<1>4. \A i \in 0..Len(p.slots) :
         IF i < p.dead
         THEN link[i] \in DeadSlots(p) /\ rank[link[i]] = p.dead - i
         ELSE link[i] = NoSlot
  BY <1>1, <1>2, LinksFollowRanks
<1> HIDE DEF link
<1>5. 0 \notin DeadSlots(p)
  BY DEF DeadSlots, Pool
<1>6. visited = 0..(p.dead - 1)
  BY <1>2, <1>3, <1>4, <1>5 DEF NoSlot
<1>7. Cardinality(visited) = p.dead
  <2>1. p.dead - 1 \in Int /\ (0 > p.dead - 1 => p.dead = 0) /\ (p.dead - 1) - 0 + 1 = p.dead
    BY <1>2
  <2>2. Cardinality(0..(p.dead - 1)) = p.dead
    BY <2>1, FS_Interval
  <2>3. QED
    BY <1>6, <2>2
<1>8. link[Len(p.slots)] = NoSlot
  BY <1>2, <1>4
<1>9. \A n \in visited : ~p.slots[link[n]].live
  BY <1>3, <1>4 DEF DeadSlots, LiveSlots
<1>10. QED
  BY <1>7, <1>8, <1>9 DEF FreeListIntact, link

\* In a linked pool create takes the head of the list.
LEMMA FirstFreeIsHead ==
    ASSUME NEW p, p \in Pool, Linked(p)
    PROVE  /\ FirstFree(p) = p.head
           /\ p.head = NoSlot <=> p.dead = 0
           /\ p.head # NoSlot => p.head \in DeadSlots(p)
<1> DEFINE link == FreeList(p)
           Stops(n) == link[n] = NoSlot \/ ~p.slots[link[n]].live
           Stopping == {n \in DOMAIN link : Stops(n)}
<1>1. link[0] = p.head /\ DOMAIN link = 0..Len(p.slots) /\ Len(p.slots) \in Nat
  BY FreeListLinks DEF Pool
<1> HIDE DEF link
<1>2. PICK rank \in [DeadSlots(p) -> 1..p.dead] : Ranks(p, rank)
  BY DEF Linked
<1>3. 0 \notin DeadSlots(p)
  BY DEF DeadSlots, Pool
<1>4. /\ p.head = NoSlot <=> p.dead = 0
      /\ p.head # NoSlot => p.head \in DeadSlots(p)
  BY <1>2, <1>3 DEF Ranks, NoSlot
<1>5. 0 \in Stopping
  BY <1>1, <1>4 DEF DeadSlots, LiveSlots
<1>6. \A x \in Stopping : x \in Nat
  BY <1>1
<1>7. Min(Stopping) = 0
  <2> HIDE DEF Stopping
  <2>1. QED
    BY <1>5, <1>6 DEF Min
<1>8. FirstFree(p) = link[0]
  BY <1>7 DEF FirstFree, link
<1>9. QED
  BY <1>1, <1>4, <1>8

-----------------------------------------------------------------------------
(* What the operators of a stamp do to a linked pool.                      *)

\* q is p but for what it holds at slot s.
SameBut(q, p, s) ==
    /\ DOMAIN q.slots = DOMAIN p.slots \cup {s}
    /\ \A x \in DOMAIN p.slots : x # s => q.slots[x] = p.slots[x]

\* create: a slot that was dead or not there, its generation as it was.
LEMMA CreateAdds ==
    ASSUME NEW p, p \in Pool, Linked(p), NEW v \in Value
    PROVE  LET id == NewHandle(p)
               q == Create(p, v)
           IN  /\ q \in Pool /\ Linked(q)
               /\ id \in HandleType /\ id = Handle(id.slot, id.generation)
               /\ id.slot \notin LiveSlots(p) /\ SameBut(q, p, id.slot)
               /\ id.slot \in DOMAIN p.slots => p.slots[id.slot].generation = id.generation
               /\ q.slots[id.slot].live /\ q.slots[id.slot].value = v
               /\ q.slots[id.slot].generation = id.generation
<1> DEFINE id == NewHandle(p)
           q == Create(p, v)
           s == p.head
           n == Len(p.slots)
<1>1. /\ FirstFree(p) = s
      /\ s = NoSlot <=> p.dead = 0
      /\ s # NoSlot => s \in DeadSlots(p)
  BY FirstFreeIsHead
<1>2. n \in Nat /\ DOMAIN p.slots = 1..n /\ p.slots \in Seq(Slot)
      /\ \A x \in 1..n : p.slots[x] \in Slot
  BY DEF Pool
<1>3. p = [slots |-> p.slots, head |-> p.head, dead |-> p.dead] /\ p.dead \in Nat
  BY DEF Pool
<1>4. CASE s = NoSlot
  <2> DEFINE new == [value |-> v, generation |-> 0, next |-> NoSlot, live |-> TRUE]
  <2>1. id = Handle(n + 1, 0)
    BY <1>1, <1>4 DEF NewHandle
  <2>2. q = [slots |-> Append(p.slots, new), head |-> NoSlot, dead |-> p.dead]
    BY <1>1, <1>3, <1>4 DEF Create
  <2>3. new \in Slot
    BY DEF Slot, NoSlot
  <2>4. /\ q.slots \in Seq(Slot) /\ DOMAIN q.slots = 1..(n + 1)
        /\ q.slots[n + 1] = new
        /\ \A x \in 1..n : q.slots[x] = p.slots[x]
    BY <1>2, <2>2, <2>3
  <2>5. q \in Pool
    BY <1>3, <2>2, <2>4 DEF Pool, NoSlot
  <2>6. DeadSlots(q) = DeadSlots(p)
    BY <1>2, <2>3, <2>4 DEF DeadSlots, LiveSlots
  <2>7. DeadSlots(p) = {}
    BY <1>1, <1>4, DeadAreFew, FS_EmptySet DEF Linked
  <2>8. Linked(q)
    <3>1. PICK rank \in [DeadSlots(p) -> 1..p.dead] : Ranks(p, rank)
      BY DEF Linked
    <3>2. q.dead = p.dead /\ q.head = NoSlot
      BY <2>2
    <3>3. Ranks(q, rank)
      BY <1>1, <1>4, <2>6, <2>7, <3>2 DEF Ranks
    <3>4. QED
      BY <2>6, <3>1, <3>2, <3>3 DEF Linked
  <2> HIDE DEF q
  <2>9. QED
    BY <1>2, <2>1, <2>3, <2>4, <2>5, <2>8 DEF SameBut, Handle, HandleType, LiveSlots, q
<1>5. CASE s # NoSlot
  <2>1. s \in DeadSlots(p) /\ s \in 1..n /\ ~p.slots[s].live
    BY <1>1, <1>2, <1>5 DEF DeadSlots, LiveSlots
  <2>2. id = Handle(s, p.slots[s].generation)
    BY <1>1, <1>5 DEF NewHandle, HandleAt
  <2> DEFINE new == [p.slots[s] EXCEPT !.value = v, !.live = TRUE]
  <2>3. q = [slots |-> [p.slots EXCEPT ![s] = new], head |-> p.slots[s].next,
             dead |-> p.dead - 1]
    BY <1>1, <1>2, <1>3, <1>5, <2>1 DEF Create
  <2>4. /\ new \in Slot /\ new.live /\ new.value = v
        /\ new.generation = p.slots[s].generation
    BY <1>2, <2>1 DEF Slot
  <2>5. /\ q.slots \in Seq(Slot) /\ DOMAIN q.slots = 1..n
        /\ q.slots[s] = new
        /\ \A x \in 1..n : x # s => q.slots[x] = p.slots[x]
    BY <1>2, <2>1, <2>3, <2>4
  <2>6. q \in Pool
    <3>1. p.dead - 1 \in Nat
      BY <1>1, <1>3, <1>5
    <3>2. p.slots[s].next \in Nat
      BY <1>2, <2>1 DEF Slot
    <3>3. QED
      BY <2>3, <2>5, <3>1, <3>2 DEF Pool
  <2>7. DeadSlots(q) = DeadSlots(p) \ {s}
    BY <1>2, <2>1, <2>4, <2>5 DEF DeadSlots, LiveSlots
  <2>8. Linked(q)
    <3>1. PICK rank \in [DeadSlots(p) -> 1..p.dead] : Ranks(p, rank)
      BY DEF Linked
    <3>2. q.dead = p.dead - 1 /\ q.head = p.slots[s].next
      BY <2>3
    <3>3. rank[s] = p.dead
      BY <1>1, <1>5, <3>1 DEF Ranks
    <3>4. \A x \in DeadSlots(q) : rank[x] \in 1..q.dead
      <4>1. \A x \in DeadSlots(q) : rank[x] \in 1..p.dead /\ rank[x] # p.dead
        BY <2>1, <2>7, <3>1, <3>3 DEF Ranks
      <4>2. QED
        BY <1>3, <3>2, <4>1
    <3> DEFINE fewer == [x \in DeadSlots(q) |-> rank[x]]
    <3>5. fewer \in [DeadSlots(q) -> 1..q.dead]
      BY <3>4
    <3>6. \A x \in DeadSlots(q) : rank[x] # 1 =>
              p.slots[x].next \in DeadSlots(q) /\ rank[p.slots[x].next] = rank[x] - 1
      <4> SUFFICES ASSUME NEW x \in DeadSlots(q), rank[x] # 1
                   PROVE  p.slots[x].next \in DeadSlots(q)
                          /\ rank[p.slots[x].next] = rank[x] - 1
        OBVIOUS
      <4>1. p.slots[x].next \in DeadSlots(p) /\ rank[p.slots[x].next] = rank[x] - 1
        BY <2>7, <3>1 DEF Ranks
      <4>2. p.slots[x].next # s
        BY <1>3, <3>2, <3>3, <3>4, <4>1
      <4>3. QED
        BY <2>7, <4>1, <4>2
    <3>7. \A x \in DeadSlots(q) : q.slots[x] = p.slots[x]
      BY <1>2, <2>5, <2>7 DEF DeadSlots
    <3>8. q.dead = 0 => q.head = NoSlot
      BY <2>1, <3>1, <3>2, <3>3, <1>3 DEF Ranks
    <3>9. q.dead # 0 => q.head \in DeadSlots(q) /\ rank[q.head] = q.dead
      <4> SUFFICES ASSUME q.dead # 0 PROVE q.head \in DeadSlots(q) /\ rank[q.head] = q.dead
        OBVIOUS
      <4>1. q.head \in DeadSlots(p) /\ rank[q.head] = p.dead - 1
        BY <2>1, <3>1, <3>2, <3>3, <1>3 DEF Ranks
      <4>2. q.head # s
        BY <1>3, <3>3, <4>1
      <4>3. QED
        BY <2>7, <3>2, <4>1, <4>2
    <3>10. Ranks(q, fewer)
      <4>1. \A x, y \in DeadSlots(q) : fewer[x] = fewer[y] => x = y
        BY <2>7, <3>1 DEF Ranks
      <4>2. \A x \in DeadSlots(q) : fewer[x] = 1 => q.slots[x].next = NoSlot
        BY <2>7, <3>1, <3>7 DEF Ranks
      <4>3. \A x \in DeadSlots(q) : fewer[x] # 1 =>
                /\ q.slots[x].next \in DeadSlots(q)
                /\ fewer[q.slots[x].next] = fewer[x] - 1
        BY <3>6, <3>7
      <4> HIDE DEF q
      <4>4. q.dead # 0 => q.head \in DeadSlots(q) /\ fewer[q.head] = q.dead
        BY <3>9
      <4> HIDE DEF fewer
      <4>5. QED
        BY <3>8, <4>1, <4>2, <4>3, <4>4 DEF Ranks
    <3>11. q.dead = Cardinality(DeadSlots(q))
      <4>1. IsFiniteSet(DeadSlots(p)) /\ p.dead = Cardinality(DeadSlots(p))
        BY DeadAreFew DEF Linked
      <4>2. Cardinality(DeadSlots(p) \ {s}) = Cardinality(DeadSlots(p)) - 1
        BY <2>1, <4>1, FS_RemoveElement
      <4> HIDE DEF q
      <4>3. QED
        BY <2>7, <3>2, <4>1, <4>2
    <3>12. QED
      BY <3>5, <3>10, <3>11 DEF Linked
  <2> HIDE DEF q
  <2>9. id \in HandleType
    BY <1>2, <2>1, <2>2 DEF Handle, HandleType, Slot
  <2>10. id.slot = s /\ id.generation = p.slots[s].generation
    BY <2>2 DEF Handle
  <2>11. SameBut(q, p, s) /\ s \notin LiveSlots(p) /\ s \in DOMAIN p.slots
    BY <1>2, <2>1, <2>5 DEF SameBut, LiveSlots
  <2> HIDE DEF id, new
  <2>12. QED
    BY <2>2, <2>4, <2>5, <2>6, <2>8, <2>9, <2>10, <2>11 DEF q, id
<1>6. QED
  BY <1>4, <1>5

\* A function with the fields of a pool is one.
LEMMA FieldsMakeAPool ==
    ASSUME NEW q, DOMAIN q = {"slots", "head", "dead"}, q = [x \in DOMAIN q |-> q[x]],
           q.slots \in Seq(Slot), q.head \in Nat, q.dead \in Nat
    PROVE  q \in Pool
  BY DEF Pool

\* erase, of a live handle: the slot dies and its generation moves on.
LEMMA EraseKills ==
    ASSUME NEW p, p \in Pool, Linked(p), NEW id \in LiveHandles(p)
    PROVE  LET q == Erase(p, id)
           IN  /\ q \in Pool /\ Linked(q)
               /\ id.slot \in LiveSlots(p) /\ SameBut(q, p, id.slot)
               /\ ~q.slots[id.slot].live
               /\ q.slots[id.slot].generation = id.generation + 1
<1> DEFINE q == Erase(p, id)
           s == id.slot
           n == Len(p.slots)
           new == q.slots[s]
<1>1. n \in Nat /\ DOMAIN p.slots = 1..n /\ p.slots \in Seq(Slot)
      /\ \A x \in 1..n : p.slots[x] \in Slot
  BY DEF Pool
<1>2. p.dead \in Nat /\ p.head \in Nat
  BY DEF Pool
<1>3. s \in 1..n /\ p.slots[s].live /\ id.generation = p.slots[s].generation
      /\ s \in LiveSlots(p)
  BY <1>1 DEF LiveHandles, LiveSlots, HandleAt, Handle
<1>4. /\ q.head = s /\ q.dead = p.dead + 1 /\ DOMAIN q = {"slots", "head", "dead"}
      /\ q = [x \in DOMAIN q |-> q[x]]
      /\ q.slots = [x \in 1..n |-> q.slots[x]]
      /\ \A x \in 1..n : x # s => q.slots[x] = p.slots[x]
      /\ new = [[[p.slots[s] EXCEPT !.live = FALSE]
                     EXCEPT !.generation = p.slots[s].generation + 1]
                     EXCEPT !.next = p.head]
  <2>1. /\ q.head = s /\ q.dead = p.dead + 1 /\ DOMAIN q = {"slots", "head", "dead"}
        /\ q = [x \in DOMAIN q |-> q[x]]
    BY <1>1, <1>3 DEF Erase, Pool
  <2>2. /\ q.slots = [x \in 1..n |-> q.slots[x]]
        /\ \A x \in 1..n : x # s => q.slots[x] = p.slots[x]
    BY <1>1, <1>3 DEF Erase, Pool
  <2>3. new = [[[p.slots[s] EXCEPT !.live = FALSE]
                   EXCEPT !.generation = p.slots[s].generation + 1]
                   EXCEPT !.next = p.head]
    BY <1>1, <1>3 DEF Erase, Pool
  <2>4. QED
    BY <2>1, <2>2, <2>3
<1>5. new \in Slot /\ ~new.live /\ new.generation = id.generation + 1 /\ new.next = p.head
  <2>1. p.slots[s] \in Slot
    BY <1>1, <1>3
  <2>2. p.slots[s].generation + 1 \in Nat
    BY <2>1 DEF Slot
  <2>3. new = [[[p.slots[s] EXCEPT !.live = FALSE]
                   EXCEPT !.generation = p.slots[s].generation + 1]
                   EXCEPT !.next = p.head]
    BY <1>4
  <2> DEFINE v == p.slots[s]
             g == p.slots[s].generation + 1
             h == p.head
             w == [[[v EXCEPT !.live = FALSE] EXCEPT !.generation = g] EXCEPT !.next = h]
  <2>4. w \in Slot /\ ~w.live /\ w.generation = g /\ w.next = h
    <3>1. v \in Slot /\ g \in Nat /\ h \in Nat
      BY <1>2, <2>1, <2>2
    <3> HIDE DEF v, g, h
    <3>2. QED
      BY <3>1 DEF Slot
  <2>5. new = w /\ g = id.generation + 1
    BY <1>3, <2>3
  <2> HIDE DEF w, g, new
  <2>6. QED
    BY <2>4, <2>5
<1> HIDE DEF q
<1>6. q.slots \in Seq(Slot) /\ DOMAIN q.slots = 1..n
  <2>1. \A x \in 1..n : q.slots[x] \in Slot
    BY <1>1, <1>4, <1>5
  <2>2. q.slots \in [1..n -> Slot]
    BY <1>4, <2>1
  <2>3. QED
    BY <1>1, <2>2
<1>7. q \in Pool
  <2>1. q.head \in Nat /\ q.dead \in Nat
    BY <1>1, <1>2, <1>3, <1>4
  <2>2. DOMAIN q = {"slots", "head", "dead"} /\ q = [x \in DOMAIN q |-> q[x]]
    BY <1>4
  <2>3. QED
    BY <1>6, <2>1, <2>2, FieldsMakeAPool
<1>8. DeadSlots(q) = DeadSlots(p) \cup {s} /\ s \notin DeadSlots(p)
  <2>1. \A x \in 1..n : x # s => q.slots[x] = p.slots[x]
    BY <1>4
  <2>2. ~q.slots[s].live
    BY <1>5
  <2>3. \A x \in 1..n : x \in LiveSlots(q) <=> x \in LiveSlots(p) /\ x # s
    BY <1>1, <1>6, <2>1, <2>2 DEF LiveSlots
  <2>4. QED
    BY <1>1, <1>3, <1>6, <2>3 DEF DeadSlots
<1>9. q.dead = p.dead + 1 /\ q.head = s
  BY <1>4
<1> HIDE DEF new
<1>10. q.dead = Cardinality(DeadSlots(q))
  <2>1. IsFiniteSet(DeadSlots(p)) /\ p.dead = Cardinality(DeadSlots(p))
    BY DeadAreFew DEF Linked
  <2>2. Cardinality(DeadSlots(p) \cup {s}) = Cardinality(DeadSlots(p)) + 1
    BY <1>8, <2>1, FS_AddElement
  <2>3. QED
    BY <1>8, <1>9, <2>1, <2>2
<1>11. Linked(q)
  <2>1. PICK rank \in [DeadSlots(p) -> 1..p.dead] : Ranks(p, rank)
    BY DEF Linked
  <2> DEFINE more == [x \in DeadSlots(q) |-> IF x = s THEN q.dead ELSE rank[x]]
  <2>2. \A x \in DeadSlots(p) : rank[x] \in 1..p.dead /\ x # s /\ more[x] = rank[x]
    BY <1>8, <2>1
  <2>3. more[s] = q.dead /\ more \in [DeadSlots(q) -> 1..q.dead]
    BY <1>2, <1>8, <1>9, <2>1
  <2> HIDE DEF more
  <2>4. \A x, y \in DeadSlots(q) : more[x] = more[y] => x = y
    <3>1. \A x \in DeadSlots(p) : more[x] # q.dead
      BY <1>2, <1>9, <2>2
    <3>2. \A x, y \in DeadSlots(p) : more[x] = more[y] => x = y
      BY <2>1, <2>2 DEF Ranks
    <3>3. QED
      BY <1>8, <2>3, <3>1, <3>2
  <2>5. \A x \in DeadSlots(p) : q.slots[x] = p.slots[x]
    BY <1>1, <1>4, <1>8 DEF DeadSlots
  <2>6. \A x \in DeadSlots(p) :
            /\ more[x] = 1 => q.slots[x].next = NoSlot
            /\ more[x] # 1 => /\ q.slots[x].next \in DeadSlots(q)
                              /\ more[q.slots[x].next] = more[x] - 1
    BY <1>8, <2>1, <2>2, <2>5 DEF Ranks
  <2>7. q.slots[s].next = p.head
    BY <1>5 DEF new
  <2>8. p.dead = 0 => p.head = NoSlot
    BY <2>1 DEF Ranks
  <2>9. p.dead # 0 => p.head \in DeadSlots(p) /\ more[p.head] = p.dead
    BY <2>1, <2>2 DEF Ranks
  <2>10. /\ more[s] = 1 => q.slots[s].next = NoSlot
         /\ more[s] # 1 => /\ q.slots[s].next \in DeadSlots(q)
                           /\ more[q.slots[s].next] = more[s] - 1
    BY <1>2, <1>8, <1>9, <2>3, <2>7, <2>8, <2>9
  <2>11. Ranks(q, more)
    BY <1>2, <1>8, <1>9, <2>3, <2>4, <2>6, <2>10 DEF Ranks
  <2>12. QED
    BY <1>10, <2>3, <2>11 DEF Linked
<1>12. SameBut(q, p, s)
  BY <1>1, <1>3, <1>4, <1>6 DEF SameBut
<1>13. QED
  BY <1>3, <1>5, <1>7, <1>11, <1>12 DEF q, new

\* A rewritten face keeps its slot, its handle and the list.
LEMMA WriteRewrites ==
    ASSUME NEW p, p \in Pool, Linked(p), NEW id \in LiveHandles(p), NEW v \in Value
    PROVE  LET q == Write(p, id, v)
           IN  /\ q \in Pool /\ Linked(q)
               /\ id.slot \in LiveSlots(p) /\ SameBut(q, p, id.slot)
               /\ q.slots[id.slot].live /\ q.slots[id.slot].value = v
               /\ q.slots[id.slot].generation = id.generation
<1> DEFINE q == Write(p, id, v)
           s == id.slot
           n == Len(p.slots)
           new == [p.slots[s] EXCEPT !.value = v]
<1>1. n \in Nat /\ DOMAIN p.slots = 1..n /\ p.slots \in Seq(Slot)
      /\ \A x \in 1..n : p.slots[x] \in Slot
  BY DEF Pool
<1>2. p = [slots |-> p.slots, head |-> p.head, dead |-> p.dead] /\ p.dead \in Nat /\ p.head \in Nat
  BY DEF Pool
<1>3. s \in 1..n /\ p.slots[s].live /\ id.generation = p.slots[s].generation
      /\ s \in LiveSlots(p)
  BY <1>1 DEF LiveHandles, LiveSlots, HandleAt, Handle
<1>4. q = [slots |-> [p.slots EXCEPT ![s] = new], head |-> p.head, dead |-> p.dead]
  BY <1>1, <1>2, <1>3 DEF Write
<1>5. new \in Slot /\ new.live /\ new.generation = id.generation /\ new.value = v
  BY <1>1, <1>2, <1>3 DEF Slot
<1>6. /\ q.slots \in Seq(Slot) /\ DOMAIN q.slots = 1..n
      /\ q.slots[s] = new
      /\ \A x \in 1..n : x # s => q.slots[x] = p.slots[x]
  BY <1>1, <1>3, <1>4, <1>5
<1>7. q \in Pool
  BY <1>2, <1>3, <1>4, <1>6 DEF Pool
<1>8. DeadSlots(q) = DeadSlots(p)
  BY <1>1, <1>3, <1>5, <1>6 DEF DeadSlots, LiveSlots
<1>9. q.dead = p.dead /\ q.head = p.head
  BY <1>4
<1>10. \A x \in DeadSlots(p) : q.slots[x] = p.slots[x]
  BY <1>1, <1>3, <1>6 DEF DeadSlots, LiveSlots
<1> HIDE DEF q, new
<1>11. Linked(q)
  <2>1. PICK rank \in [DeadSlots(p) -> 1..p.dead] : Ranks(p, rank)
    BY DEF Linked
  <2>2. Ranks(q, rank)
    BY <1>8, <1>9, <1>10, <2>1 DEF Ranks
  <2>3. QED
    BY <1>8, <1>9, <2>1, <2>2 DEF Linked
<1>12. SameBut(q, p, s)
  BY <1>1, <1>3, <1>6 DEF SameBut
<1>13. QED
  BY <1>3, <1>5, <1>6, <1>7, <1>11, <1>12 DEF q

\* The pool a rebuild is given may hold any links.
Slots == Seq(Slot)

\* rebuild_free_list links the dead slots and touches nothing else.
LEMMA RebuildLinks ==
    ASSUME NEW p, p.slots \in Slots
    PROVE  LET q == RebuildFreeList(p)
           IN  /\ q \in Pool /\ Linked(q)
               /\ DOMAIN q.slots = DOMAIN p.slots
               /\ \A s \in DOMAIN p.slots :
                     /\ q.slots[s].live = p.slots[s].live
                     /\ q.slots[s].generation = p.slots[s].generation
                     /\ q.slots[s].value = p.slots[s].value
<1> DEFINE q == RebuildFreeList(p)
           n == Len(p.slots)
           dead == DOMAIN p.slots \ LiveSlots(p)
           After(s) == {d \in dead : d > s}
           Lowest(set) == IF set = {} THEN NoSlot ELSE Min(set)
<1>1. n \in Nat /\ DOMAIN p.slots = 1..n /\ \A x \in 1..n : p.slots[x] \in Slot
  BY DEF Slots
<1>2. dead \subseteq 1..n /\ IsFiniteSet(dead) /\ Cardinality(dead) \in Nat
  <2>1. dead \in SUBSET (1..n) /\ IsFiniteSet(1..n)
    BY <1>1, FS_Interval
  <2>2. QED
    BY <2>1, FS_Subset, FS_CardinalityType
<1>3. \A set \in SUBSET dead : set # {} =>
          Lowest(set) \in set /\ \A d \in set : Lowest(set) <= d
  <2> SUFFICES ASSUME NEW set \in SUBSET dead, set # {}
               PROVE  Min(set) \in set /\ \A d \in set : Min(set) <= d
    OBVIOUS
  <2>1. set \in SUBSET Nat
    BY <1>1, <1>2
  <2>2. \E m \in set : \A d \in set : m <= d
    BY <2>1, LeastNat
  <2>3. QED
    BY <2>2 DEF Min
<1>4. \A set \in SUBSET dead : Lowest(set) \in Nat
  BY <1>1, <1>2, <1>3 DEF NoSlot
<1>5. q = [slots |-> [s \in 1..n |->
                        IF s \in dead THEN [p.slots[s] EXCEPT !.next = Lowest(After(s))]
                        ELSE p.slots[s]],
           head |-> Lowest(dead), dead |-> Cardinality(dead)]
  BY <1>1 DEF RebuildFreeList
<1> HIDE DEF Lowest
<1>6. \A s \in 1..n :
         /\ q.slots[s] \in Slot
         /\ q.slots[s].live = p.slots[s].live
         /\ q.slots[s].generation = p.slots[s].generation
         /\ q.slots[s].value = p.slots[s].value
         /\ s \in dead => q.slots[s].next = Lowest(After(s))
  <2> SUFFICES ASSUME NEW s \in 1..n
               PROVE  /\ q.slots[s] \in Slot
                      /\ q.slots[s].live = p.slots[s].live
                      /\ q.slots[s].generation = p.slots[s].generation
                      /\ q.slots[s].value = p.slots[s].value
                      /\ s \in dead => q.slots[s].next = Lowest(After(s))
    OBVIOUS
  <2>1. After(s) \in SUBSET dead
    OBVIOUS
  <2>2. Lowest(After(s)) \in Nat
    BY <1>4, <2>1
  <2>3. p.slots[s] \in Slot
    BY <1>1
  <2>4. q.slots[s] = IF s \in dead THEN [p.slots[s] EXCEPT !.next = Lowest(After(s))]
                     ELSE p.slots[s]
    BY <1>5
  <2> HIDE DEF q, dead, After
  <2>5. QED
    BY <2>2, <2>3, <2>4 DEF Slot
<1>7. q.slots \in Seq(Slot) /\ DOMAIN q.slots = 1..n
  <2>1. q.slots \in [1..n -> Slot]
    <3> DEFINE linked == [s \in 1..n |->
                            IF s \in dead THEN [p.slots[s] EXCEPT !.next = Lowest(After(s))]
                            ELSE p.slots[s]]
    <3>1. q.slots = linked
      BY <1>5
    <3>2. \A s \in 1..n : linked[s] \in Slot
      BY <1>6, <3>1
    <3>3. linked = [s \in 1..n |-> linked[s]]
      OBVIOUS
    <3> HIDE DEF linked
    <3>4. QED
      BY <3>1, <3>2, <3>3
  <2>2. QED
    BY <1>1, <2>1
<1>8. q.head = Lowest(dead) /\ q.dead = Cardinality(dead)
  BY <1>5
<1>9. q \in Pool
  <2>1. Lowest(dead) \in Nat
    BY <1>4
  <2>2. q = [slots |-> q.slots, head |-> q.head, dead |-> q.dead]
    BY <1>5
  <2> HIDE DEF q
  <2>3. QED
    BY <1>2, <1>7, <1>8, <2>1, <2>2 DEF Pool
<1>10. DeadSlots(q) = dead
  <2>1. \A s \in 1..n : s \in LiveSlots(q) <=> s \in LiveSlots(p)
    BY <1>1, <1>6, <1>7 DEF LiveSlots
  <2> HIDE DEF q
  <2>2. QED
    BY <1>1, <1>7, <2>1 DEF DeadSlots, LiveSlots
<1> HIDE DEF q
<1>11. Linked(q)
  <2> DEFINE From(s) == {d \in dead : d >= s}
             rank == [s \in dead |-> Cardinality(From(s))]
  <2>1. \A s \in dead : /\ From(s) \in SUBSET dead /\ IsFiniteSet(From(s)) /\ s \in From(s)
                        /\ From(s) \ {s} = After(s) /\ IsFiniteSet(After(s))
                        /\ Cardinality(From(s)) \in Nat /\ Cardinality(After(s)) \in Nat
                        /\ Cardinality(From(s)) = Cardinality(After(s)) + 1
                        /\ Cardinality(From(s)) <= Cardinality(dead)
    <3> SUFFICES ASSUME NEW s \in dead
                 PROVE  /\ From(s) \in SUBSET dead /\ IsFiniteSet(From(s)) /\ s \in From(s)
                        /\ From(s) \ {s} = After(s) /\ IsFiniteSet(After(s))
                        /\ Cardinality(From(s)) \in Nat /\ Cardinality(After(s)) \in Nat
                        /\ Cardinality(From(s)) = Cardinality(After(s)) + 1
                        /\ Cardinality(From(s)) <= Cardinality(dead)
      OBVIOUS
    <3>1. From(s) \in SUBSET dead /\ s \in From(s) /\ s \in 1..n
      BY <1>2
    <3>2. From(s) \ {s} = After(s)
      BY <1>1, <1>2, <3>1
    <3>3. /\ IsFiniteSet(From(s)) /\ Cardinality(From(s)) <= Cardinality(dead)
          /\ Cardinality(From(s)) \in Nat
      BY <1>2, <3>1, FS_Subset, FS_CardinalityType
    <3>4. IsFiniteSet(After(s)) /\ Cardinality(After(s)) = Cardinality(From(s)) - 1
      <4> HIDE DEF From, After, dead
      <4>1. /\ IsFiniteSet(From(s) \ {s})
            /\ Cardinality(From(s) \ {s}) = Cardinality(From(s)) - 1
        BY <3>1, <3>3, FS_RemoveElement
      <4>2. QED
        BY <3>2, <4>1
    <3>5. Cardinality(After(s)) \in Nat
      BY <3>4, FS_CardinalityType
    <3>6. QED
      BY <3>1, <3>2, <3>3, <3>4, <3>5
  <2>2. rank \in [dead -> 1..Cardinality(dead)]
    <3>1. \A s \in dead : Cardinality(From(s)) \in 1..Cardinality(dead)
      <4> HIDE DEF From, After, dead
      <4>1. QED
        BY <1>2, <2>1
    <3>2. QED
      BY <3>1
  <2>3. \A s, t \in dead : rank[s] = rank[t] => s = t
    <3>1. \A s, t \in dead : s < t => Cardinality(From(t)) <= Cardinality(After(s))
      <4> SUFFICES ASSUME NEW s \in dead, NEW t \in dead, s < t
                   PROVE  Cardinality(From(t)) <= Cardinality(After(s))
        OBVIOUS
      <4>1. From(t) \in SUBSET After(s)
        BY <1>1, <1>2
      <4>2. IsFiniteSet(After(s))
        BY <2>1
      <4>3. QED
        BY <4>1, <4>2, FS_Subset
    <3>2. \A s, t \in dead : s < t => rank[s] # rank[t]
      <4> HIDE DEF From, After, dead
      <4>1. QED
        BY <2>1, <3>1
    <3>3. \A s, t \in dead : s = t \/ s < t \/ t < s
      BY <1>1, <1>2
    <3>4. QED
      BY <3>2, <3>3
  <2>4. \A set \in SUBSET dead : set # {} => From(Lowest(set)) = {d \in dead : d >= Lowest(set)}
    OBVIOUS
  <2>5. \A s \in dead : After(s) # {} =>
            Lowest(After(s)) \in dead /\ From(Lowest(After(s))) = After(s)
    <3> SUFFICES ASSUME NEW s \in dead, After(s) # {}
                 PROVE  Lowest(After(s)) \in dead /\ From(Lowest(After(s))) = After(s)
      OBVIOUS
    <3>1. Lowest(After(s)) \in After(s) /\ \A d \in After(s) : Lowest(After(s)) <= d
      BY <1>3
    <3>2. Lowest(After(s)) \in dead /\ Lowest(After(s)) \in Nat /\ Lowest(After(s)) > s
      BY <1>1, <1>2, <3>1
    <3>3. \A d \in dead : d >= Lowest(After(s)) <=> d > s
      BY <1>1, <1>2, <3>1, <3>2
    <3>4. QED
      BY <3>2, <3>3
  <2>6. dead # {} => Lowest(dead) \in dead /\ From(Lowest(dead)) = dead
    <3> SUFFICES ASSUME dead # {} PROVE Lowest(dead) \in dead /\ From(Lowest(dead)) = dead
      OBVIOUS
    <3>1. Lowest(dead) \in dead /\ \A d \in dead : Lowest(dead) <= d
      BY <1>3
    <3>2. QED
      BY <1>1, <1>2, <3>1
  <2>7. /\ q.dead = 0 => q.head = NoSlot
        /\ q.dead # 0 => q.head \in dead /\ rank[q.head] = q.dead
    <3>1. q.dead = 0 <=> dead = {}
      BY <1>2, <1>8, FS_EmptySet
    <3>2. Lowest({}) = NoSlot
      BY DEF Lowest
    <3> HIDE DEF dead, From
    <3>3. QED
      BY <1>8, <2>6, <3>1, <3>2
  <2>8. \A s \in dead :
           /\ rank[s] = 1 => q.slots[s].next = NoSlot
           /\ rank[s] # 1 => /\ q.slots[s].next \in dead
                             /\ rank[q.slots[s].next] = rank[s] - 1
    <3> SUFFICES ASSUME NEW s \in dead
                 PROVE  /\ rank[s] = 1 => q.slots[s].next = NoSlot
                        /\ rank[s] # 1 => /\ q.slots[s].next \in dead
                                          /\ rank[q.slots[s].next] = rank[s] - 1
      OBVIOUS
    <3>1. q.slots[s].next = Lowest(After(s))
      BY <1>2, <1>6
    <3>2. IsFiniteSet(After(s))
      BY <2>1
    <3>3. Cardinality(After(s)) = 0 <=> After(s) = {}
      BY <3>2, FS_EmptySet
    <3>4. Lowest({}) = NoSlot
      BY DEF Lowest
    <3>5. Cardinality(From(s)) = Cardinality(After(s)) + 1 /\ Cardinality(After(s)) \in Nat
      BY <2>1
    <3>6. CASE After(s) = {}
      <4>1. Cardinality(From(s)) = 1
        BY <3>3, <3>5, <3>6
      <4> HIDE DEF From
      <4>2. QED
        BY <3>1, <3>4, <3>6, <4>1
    <3>7. CASE After(s) # {}
      <4>1. Lowest(After(s)) \in dead /\ From(Lowest(After(s))) = After(s)
        BY <2>5, <3>7
      <4>2. Cardinality(From(s)) # 1 /\ Cardinality(After(s)) = Cardinality(From(s)) - 1
        BY <3>3, <3>5, <3>7
      <4> HIDE DEF After, From, dead
      <4>3. QED
        BY <3>1, <4>1, <4>2
    <3>8. QED
      BY <3>6, <3>7
  <2> HIDE DEF rank, dead
  <2>9. Ranks(q, rank)
    BY <1>10, <2>3, <2>7, <2>8 DEF Ranks
  <2>10. QED
    BY <1>8, <1>10, <2>2, <2>9 DEF Linked
<1>12. QED
  BY <1>1, <1>6, <1>7, <1>9, <1>11 DEF q

-----------------------------------------------------------------------------
(* restore_kind.                                                           *)


\* The pools a replay goes through: their lists may be anything, and so may the
\* count of the dead.
Filling(n) == [slots: [1..n -> Slot], head: Nat, dead: Int]

\* The end of an entry a replay puts back.
EndExists(delta, b, s) == IF b THEN delta[s].existedBefore ELSE delta[s].existsAfter
EndId(delta, b, s) == IF b THEN delta[s].beforeId ELSE delta[s].afterId
EndValue(delta, b, s) == IF b THEN delta[s].before ELSE delta[s].after

\* The two passes of restore_kind.
AllRevived(p, delta, b, A) ==
    LET Revive(s, q) == Restore(q, EndId(delta, b, s), EndValue(delta, b, s))
    IN  FoldSet(Revive, p, A)

AllKilled(p, delta, b, A) ==
    LET Kill(s, q) == Retire(q, EndId(delta, b, s))
    IN  FoldSet(Kill, p, A)

\* A function with the fields of such a pool is one.
LEMMA FieldsMakeAFilling ==
    ASSUME NEW n \in Nat, NEW q, DOMAIN q = {"slots", "head", "dead"},
           q = [x \in DOMAIN q |-> q[x]],
           q.slots \in [1..n -> Slot], q.head \in Nat, q.dead \in Int
    PROVE  q \in Filling(n)
  BY DEF Filling

\* restore leaves every other slot alone.
LEMMA RestoreRevives ==
    ASSUME NEW n \in Nat, NEW p \in Filling(n), NEW id \in HandleType, id.slot \in 1..n,
           NEW v \in Value
    PROVE  LET q == Restore(p, id, v)
           IN  /\ q \in Filling(n)
               /\ \A x \in 1..n : x # id.slot => q.slots[x] = p.slots[x]
               /\ q.slots[id.slot].live /\ q.slots[id.slot].value = v
               /\ q.slots[id.slot].generation = id.generation
<1> DEFINE q == Restore(p, id, v)
           s == id.slot
           w == [[[p.slots[s] EXCEPT !.value = v] EXCEPT !.generation = id.generation]
                    EXCEPT !.live = TRUE]
<1>1. DOMAIN p.slots = 1..n /\ p.dead \in Int /\ p.head \in Nat /\ p.slots[s] \in Slot
  BY DEF Filling
<1>2. /\ DOMAIN q = {"slots", "head", "dead"} /\ q = [x \in DOMAIN q |-> q[x]]
      /\ q.head = p.head /\ q.dead \in Int
  <2>1. /\ DOMAIN q = {"slots", "head", "dead"} /\ q = [x \in DOMAIN q |-> q[x]]
        /\ q.head = p.head
    BY <1>1 DEF Restore, Filling
  <2>2. q.dead = IF p.slots[s].live THEN p.dead ELSE p.dead - 1
    BY DEF Restore, Filling
  <2>3. q.dead \in Int
    BY <1>1, <2>2
  <2>4. QED
    BY <2>1, <2>3
<1>3. /\ q.slots = [x \in 1..n |-> q.slots[x]]
      /\ \A x \in 1..n : x # s => q.slots[x] = p.slots[x]
  BY <1>1 DEF Restore, Filling
<1>4. q.slots[s] = w
  BY <1>1 DEF Restore, Filling
<1>5. w \in Slot /\ w.live /\ w.value = v /\ w.generation = id.generation
  <2>1. id.generation \in Nat
    BY DEF HandleType
  <2> DEFINE a == p.slots[s]
             b == id.generation
  <2>2. a \in Slot /\ b \in Nat
    BY <1>1, <2>1
  <2> HIDE DEF a, b
  <2>3. LET u == [[[a EXCEPT !.value = v] EXCEPT !.generation = b] EXCEPT !.live = TRUE]
        IN  u \in Slot /\ u.live /\ u.value = v /\ u.generation = b
    BY <2>2 DEF Slot
  <2>4. QED
    BY <2>3 DEF a, b
<1> HIDE DEF q, w
<1>6. q.slots \in [1..n -> Slot]
  <2>1. \A x \in 1..n : p.slots[x] \in Slot
    BY DEF Filling
  <2>2. \A x \in 1..n : q.slots[x] \in Slot
    BY <1>3, <1>4, <1>5, <2>1
  <2>3. QED
    BY <1>3, <2>2
<1>7. q \in Filling(n)
  BY <1>1, <1>2, <1>6, FieldsMakeAFilling
<1>8. QED
  BY <1>3, <1>4, <1>5, <1>7 DEF q

\* retire leaves every other slot alone.
LEMMA RetireKills ==
    ASSUME NEW n \in Nat, NEW p \in Filling(n), NEW id \in HandleType, id.slot \in 1..n
    PROVE  LET q == Retire(p, id)
           IN  /\ q \in Filling(n)
               /\ \A x \in 1..n : x # id.slot => q.slots[x] = p.slots[x]
               /\ ~q.slots[id.slot].live
<1> DEFINE q == Retire(p, id)
           s == id.slot
           w == [[[p.slots[s] EXCEPT !.live = FALSE] EXCEPT !.generation = id.generation]
                    EXCEPT !.next = p.head]
<1>1. DOMAIN p.slots = 1..n /\ p.dead \in Int /\ p.head \in Nat /\ p.slots[s] \in Slot
  BY DEF Filling
<1>2. CASE ~p.slots[s].live
  BY <1>2 DEF Retire
<1>3. CASE p.slots[s].live
  <2>1. /\ DOMAIN q = {"slots", "head", "dead"} /\ q = [x \in DOMAIN q |-> q[x]]
        /\ q.head \in Nat /\ q.dead \in Int
    <3>1. /\ DOMAIN q = {"slots", "head", "dead"} /\ q = [x \in DOMAIN q |-> q[x]]
          /\ q.head = s
      BY <1>1, <1>3 DEF Retire, Filling
    <3>2. q.dead = p.dead + 1
      BY <1>3 DEF Retire, Filling
    <3>3. QED
      BY <1>1, <3>1, <3>2
  <2>2. /\ q.slots = [x \in 1..n |-> q.slots[x]]
        /\ \A x \in 1..n : x # s => q.slots[x] = p.slots[x]
    BY <1>1, <1>3 DEF Retire, Filling
  <2>3. q.slots[s] = w
    BY <1>1, <1>3 DEF Retire, Filling
  <2>4. w \in Slot /\ ~w.live
    <3>1. id.generation \in Nat
      BY DEF HandleType
    <3> DEFINE a == p.slots[s]
               b == id.generation
               c == p.head
    <3>2. a \in Slot /\ b \in Nat /\ c \in Nat
      BY <1>1, <3>1
    <3> HIDE DEF a, b, c
    <3>3. LET u == [[[a EXCEPT !.live = FALSE] EXCEPT !.generation = b] EXCEPT !.next = c]
          IN  u \in Slot /\ ~u.live
      BY <3>2 DEF Slot
    <3>4. QED
      BY <3>3 DEF a, b, c
  <2> HIDE DEF q, w
  <2>5. q.slots \in [1..n -> Slot]
    <3>1. \A x \in 1..n : p.slots[x] \in Slot
      BY DEF Filling
    <3>2. \A x \in 1..n : q.slots[x] \in Slot
      BY <2>2, <2>3, <2>4, <3>1
    <3>3. QED
      BY <2>2, <3>2
  <2>6. q \in Filling(n)
    BY <2>1, <2>5, FieldsMakeAFilling
  <2>7. QED
    BY <2>2, <2>3, <2>4, <2>6 DEF q
<1>4. QED
  BY <1>2, <1>3

\* The first pass of a replay: what must exist is alive as its entry has it, and
\* nothing else has changed.
LEMMA ReviveAll ==
    ASSUME NEW n \in Nat, NEW p \in Filling(n), NEW delta, DeltaType(delta),
           DOMAIN delta \subseteq 1..n, NEW toBefore \in BOOLEAN, NEW A \in SUBSET DOMAIN delta
    PROVE  LET r == AllRevived(p, delta, toBefore, A)
           IN  /\ r \in Filling(n)
               /\ \A x \in (1..n) \ A : r.slots[x] = p.slots[x]
               /\ \A x \in A : /\ r.slots[x].live
                               /\ r.slots[x].value = EndValue(delta, toBefore, x)
                               /\ r.slots[x].generation = EndId(delta, toBefore, x).generation
<1> DEFINE Id(s) == EndId(delta, toBefore, s)
           Val(s) == EndValue(delta, toBefore, s)
           Revive(s, q) == Restore(q, Id(s), Val(s))
           pick == [s \in SUBSET A |-> CHOOSE x \in s : TRUE]
           U == [s \in A |-> [q \in Filling(n) |-> Revive(s, q)]]
           Iter(it) == it = [s \in SUBSET A |->
                               IF s = {} THEN p
                               ELSE Revive(CHOOSE x \in s : TRUE, it[s \ {CHOOSE x \in s : TRUE}])]
           iter == CHOOSE it : Iter(it)
<1>1. AllRevived(p, delta, toBefore, A) = iter[A]
  BY DEF AllRevived, FoldSet, MapThenFoldSet
<1>2. IsFiniteSet(A) /\ A \in SUBSET (1..n)
  <2>1. IsFiniteSet(1..n)
    BY FS_Interval
  <2>2. QED
    BY <2>1, FS_Subset
<1>3. \A s \in A : /\ Id(s) \in HandleType /\ Id(s).slot = s /\ s \in 1..n
                   /\ Val(s) \in Value
  BY DEF DeltaType, Entry, EndId, EndValue
<1>4. \A s \in A, q \in Filling(n) :
         /\ Revive(s, q) \in Filling(n)
         /\ \A x \in 1..n : x # s => Revive(s, q).slots[x] = q.slots[x]
         /\ Revive(s, q).slots[s].live /\ Revive(s, q).slots[s].value = Val(s)
         /\ Revive(s, q).slots[s].generation = Id(s).generation
  <2> SUFFICES ASSUME NEW s \in A, NEW q \in Filling(n)
               PROVE  /\ Revive(s, q) \in Filling(n)
                      /\ \A x \in 1..n : x # s => Revive(s, q).slots[x] = q.slots[x]
                      /\ Revive(s, q).slots[s].live /\ Revive(s, q).slots[s].value = Val(s)
                      /\ Revive(s, q).slots[s].generation = Id(s).generation
    OBVIOUS
  <2> HIDE DEF Id, Val
  <2>1. Id(s) \in HandleType /\ Id(s).slot \in 1..n /\ Val(s) \in Value
    BY <1>3
  <2>2. LET r == Restore(q, Id(s), Val(s))
        IN  /\ r \in Filling(n)
            /\ \A x \in 1..n : x # Id(s).slot => r.slots[x] = q.slots[x]
            /\ r.slots[Id(s).slot].live /\ r.slots[Id(s).slot].value = Val(s)
            /\ r.slots[Id(s).slot].generation = Id(s).generation
    BY <2>1, RestoreRevives
  <2>3. QED
    BY <1>3, <2>2
<1> HIDE DEF Id, Val, Revive
<1>5. \E it : Iter(it)
  <2>1. U \in [A -> [Filling(n) -> Filling(n)]]
    BY <1>4
  <2>2. Picks(pick, A) /\ \A s \in SUBSET A : pick[s] = CHOOSE x \in s : TRUE
    BY DEF Picks
  <2>3. \A s \in A, q \in Filling(n) : U[s][q] = Revive(s, q)
    OBVIOUS
  <2> HIDE DEF U, pick
  <2>4. PICK g : FoldsWithin(g, A, Filling(n), p, U, pick)
    BY <1>2, <2>1, <2>2, FoldInto
  <2> DEFINE h == [s \in SUBSET A |-> g[s]]
  <2>5. \A s \in SUBSET A :
           h[s] = IF s = {} THEN p
                  ELSE Revive(CHOOSE x \in s : TRUE, h[s \ {CHOOSE x \in s : TRUE}])
    <3> SUFFICES ASSUME NEW s \in SUBSET A
                 PROVE  h[s] = IF s = {} THEN p
                               ELSE Revive(CHOOSE x \in s : TRUE, h[s \ {CHOOSE x \in s : TRUE}])
      OBVIOUS
    <3>1. CASE s = {}
      BY <2>4, <3>1 DEF FoldsWithin
    <3>2. CASE s # {}
      <4>1. pick[s] \in A /\ s \ {pick[s]} \in SUBSET A
        BY <2>2, <3>2 DEF Picks
      <4>2. h[s] = U[pick[s]][h[s \ {pick[s]}]] /\ h[s \ {pick[s]}] \in Filling(n)
        BY <2>4, <3>2, <4>1 DEF FoldsWithin
      <4> HIDE DEF h
      <4>3. h[s] = Revive(pick[s], h[s \ {pick[s]}])
        BY <2>3, <4>1, <4>2
      <4>4. QED
        BY <2>2, <3>2, <4>3
    <3>3. QED
      BY <3>1, <3>2
  <2>6. h = [s \in SUBSET A |-> h[s]]
    OBVIOUS
  <2> HIDE DEF h
  <2>7. Iter(h)
    BY <2>5, <2>6
  <2> HIDE DEF Iter
  <2>8. QED
    BY <2>7
<1>6. Iter(iter)
  <2> HIDE DEF Iter
  <2>1. QED
    BY <1>5
<1>7. \A s \in SUBSET A : s # {} =>
         \E c \in s : iter[s] = Revive(c, iter[s \ {c}])
  <2> HIDE DEF iter
  <2>1. QED
    BY <1>6
<1>8. iter[{}] = p
  <2> HIDE DEF iter
  <2>1. QED
    BY <1>6
<1> HIDE DEF iter
<1> DEFINE Revived(r, s) ==
              /\ r \in Filling(n)
              /\ \A x \in (1..n) \ s : r.slots[x] = p.slots[x]
              /\ \A x \in s : /\ r.slots[x].live /\ r.slots[x].value = Val(x)
                              /\ r.slots[x].generation = Id(x).generation
           P == {s \in SUBSET A : Revived(iter[s], s)}
<1>9. {} \in P
  BY <1>8
<1>10. \A s \in SUBSET A : s # {} => \E c \in s : s \ {c} \in P => s \in P
  <2> SUFFICES ASSUME NEW s \in SUBSET A, s # {}
               PROVE  \E c \in s : s \ {c} \in P => s \in P
    OBVIOUS
  <2>1. PICK c \in s : iter[s] = Revive(c, iter[s \ {c}])
    BY <1>7
  <2>2. SUFFICES ASSUME Revived(iter[s \ {c}], s \ {c}) PROVE Revived(iter[s], s)
    BY <2>1
  <2> DEFINE q == iter[s \ {c}]
             r == iter[s]
  <2>3. /\ r \in Filling(n)
        /\ \A x \in 1..n : x # c => r.slots[x] = q.slots[x]
        /\ r.slots[c].live /\ r.slots[c].value = Val(c)
        /\ r.slots[c].generation = Id(c).generation
    <3>1. r = Revive(c, q) /\ q \in Filling(n) /\ c \in A
      BY <2>1, <2>2
    <3> HIDE DEF q, r
    <3>2. QED
      BY <1>4, <3>1
  <2> HIDE DEF q, r
  <2>4. /\ \A x \in (1..n) \ (s \ {c}) : q.slots[x] = p.slots[x]
        /\ \A x \in s \ {c} : /\ q.slots[x].live /\ q.slots[x].value = Val(x)
                              /\ q.slots[x].generation = Id(x).generation
    BY <2>2 DEF q
  <2>5. \A x \in (1..n) \ s : r.slots[x] = p.slots[x]
    BY <2>3, <2>4
  <2>6. \A x \in s : /\ r.slots[x].live /\ r.slots[x].value = Val(x)
                     /\ r.slots[x].generation = Id(x).generation
    BY <1>2, <2>3, <2>4
  <2>7. QED
    BY <2>3, <2>5, <2>6 DEF r
<1>11. Revived(iter[A], A)
  <2>1. SUBSET A \subseteq P
    <3> HIDE DEF P
    <3>1. QED
      BY <1>2, <1>9, <1>10, SubsetInduction
  <2>2. QED
    BY <2>1
<1>12. QED
  BY <1>1, <1>11 DEF Id, Val

\* The second pass: what must not exist is dead, and nothing else has changed.
LEMMA KillAll ==
    ASSUME NEW n \in Nat, NEW p \in Filling(n), NEW delta, DeltaType(delta),
           DOMAIN delta \subseteq 1..n, NEW toBefore \in BOOLEAN, NEW A \in SUBSET DOMAIN delta
    PROVE  LET r == AllKilled(p, delta, toBefore, A)
           IN  /\ r \in Filling(n)
               /\ \A x \in (1..n) \ A : r.slots[x] = p.slots[x]
               /\ \A x \in A : ~r.slots[x].live
<1> DEFINE Id(s) == EndId(delta, toBefore, s)
           Kill(s, q) == Retire(q, Id(s))
           pick == [s \in SUBSET A |-> CHOOSE x \in s : TRUE]
           U == [s \in A |-> [q \in Filling(n) |-> Kill(s, q)]]
           Iter(it) == it = [s \in SUBSET A |->
                               IF s = {} THEN p
                               ELSE Kill(CHOOSE x \in s : TRUE, it[s \ {CHOOSE x \in s : TRUE}])]
           iter == CHOOSE it : Iter(it)
<1>1. AllKilled(p, delta, toBefore, A) = iter[A]
  BY DEF AllKilled, FoldSet, MapThenFoldSet
<1>2. IsFiniteSet(A) /\ A \in SUBSET (1..n)
  <2>1. IsFiniteSet(1..n)
    BY FS_Interval
  <2>2. QED
    BY <2>1, FS_Subset
<1>3. \A s \in A : /\ Id(s) \in HandleType /\ Id(s).slot = s /\ s \in 1..n
  BY DEF DeltaType, Entry, EndId
<1>4. \A s \in A, q \in Filling(n) :
         /\ Kill(s, q) \in Filling(n)
         /\ \A x \in 1..n : x # s => Kill(s, q).slots[x] = q.slots[x]
         /\ ~Kill(s, q).slots[s].live
  <2> SUFFICES ASSUME NEW s \in A, NEW q \in Filling(n)
               PROVE  /\ Kill(s, q) \in Filling(n)
                      /\ \A x \in 1..n : x # s => Kill(s, q).slots[x] = q.slots[x]
                      /\ ~Kill(s, q).slots[s].live
    OBVIOUS
  <2> HIDE DEF Id
  <2>1. Id(s) \in HandleType /\ Id(s).slot \in 1..n
    BY <1>3
  <2>2. LET r == Retire(q, Id(s))
        IN  /\ r \in Filling(n)
            /\ \A x \in 1..n : x # Id(s).slot => r.slots[x] = q.slots[x]
            /\ ~r.slots[Id(s).slot].live
    BY <2>1, RetireKills
  <2>3. QED
    BY <1>3, <2>2
<1> HIDE DEF Id, Kill
<1>5. \E it : Iter(it)
  <2>1. U \in [A -> [Filling(n) -> Filling(n)]]
    BY <1>4
  <2>2. Picks(pick, A) /\ \A s \in SUBSET A : pick[s] = CHOOSE x \in s : TRUE
    BY DEF Picks
  <2>3. \A s \in A, q \in Filling(n) : U[s][q] = Kill(s, q)
    OBVIOUS
  <2> HIDE DEF U, pick
  <2>4. PICK g : FoldsWithin(g, A, Filling(n), p, U, pick)
    BY <1>2, <2>1, <2>2, FoldInto
  <2> DEFINE h == [s \in SUBSET A |-> g[s]]
  <2>5. \A s \in SUBSET A :
           h[s] = IF s = {} THEN p
                  ELSE Kill(CHOOSE x \in s : TRUE, h[s \ {CHOOSE x \in s : TRUE}])
    <3> SUFFICES ASSUME NEW s \in SUBSET A
                 PROVE  h[s] = IF s = {} THEN p
                               ELSE Kill(CHOOSE x \in s : TRUE, h[s \ {CHOOSE x \in s : TRUE}])
      OBVIOUS
    <3>1. CASE s = {}
      BY <2>4, <3>1 DEF FoldsWithin
    <3>2. CASE s # {}
      <4>1. pick[s] \in A /\ s \ {pick[s]} \in SUBSET A
        BY <2>2, <3>2 DEF Picks
      <4>2. h[s] = U[pick[s]][h[s \ {pick[s]}]] /\ h[s \ {pick[s]}] \in Filling(n)
        BY <2>4, <3>2, <4>1 DEF FoldsWithin
      <4> HIDE DEF h
      <4>3. h[s] = Kill(pick[s], h[s \ {pick[s]}])
        BY <2>3, <4>1, <4>2
      <4>4. QED
        BY <2>2, <3>2, <4>3
    <3>3. QED
      BY <3>1, <3>2
  <2>6. h = [s \in SUBSET A |-> h[s]]
    OBVIOUS
  <2> HIDE DEF h
  <2>7. Iter(h)
    BY <2>5, <2>6
  <2> HIDE DEF Iter
  <2>8. QED
    BY <2>7
<1>6. Iter(iter)
  <2> HIDE DEF Iter
  <2>1. QED
    BY <1>5
<1>7. \A s \in SUBSET A : s # {} =>
         \E c \in s : iter[s] = Kill(c, iter[s \ {c}])
  <2> HIDE DEF iter
  <2>1. QED
    BY <1>6
<1>8. iter[{}] = p
  <2> HIDE DEF iter
  <2>1. QED
    BY <1>6
<1> HIDE DEF iter
<1> DEFINE Killed(r, s) ==
              /\ r \in Filling(n)
              /\ \A x \in (1..n) \ s : r.slots[x] = p.slots[x]
              /\ \A x \in s : ~r.slots[x].live
           P == {s \in SUBSET A : Killed(iter[s], s)}
<1>9. {} \in P
  BY <1>8
<1>10. \A s \in SUBSET A : s # {} => \E c \in s : s \ {c} \in P => s \in P
  <2> SUFFICES ASSUME NEW s \in SUBSET A, s # {}
               PROVE  \E c \in s : s \ {c} \in P => s \in P
    OBVIOUS
  <2>1. PICK c \in s : iter[s] = Kill(c, iter[s \ {c}])
    BY <1>7
  <2>2. SUFFICES ASSUME Killed(iter[s \ {c}], s \ {c}) PROVE Killed(iter[s], s)
    BY <2>1
  <2> DEFINE q == iter[s \ {c}]
             r == iter[s]
  <2>3. /\ r \in Filling(n)
        /\ \A x \in 1..n : x # c => r.slots[x] = q.slots[x]
        /\ ~r.slots[c].live
    <3>1. r = Kill(c, q) /\ q \in Filling(n) /\ c \in A
      BY <2>1, <2>2
    <3> HIDE DEF q, r
    <3>2. QED
      BY <1>4, <3>1
  <2> HIDE DEF q, r
  <2>4. /\ \A x \in (1..n) \ (s \ {c}) : q.slots[x] = p.slots[x]
        /\ \A x \in s \ {c} : ~q.slots[x].live
    BY <2>2 DEF q
  <2>5. \A x \in (1..n) \ s : r.slots[x] = p.slots[x]
    BY <2>3, <2>4
  <2>6. \A x \in s : ~r.slots[x].live
    BY <1>2, <2>3, <2>4
  <2>7. QED
    BY <2>3, <2>5, <2>6 DEF r
<1>11. Killed(iter[A], A)
  <2>1. SUBSET A \subseteq P
    <3> HIDE DEF P
    <3>1. QED
      BY <1>2, <1>9, <1>10, SubsetInduction
  <2>2. QED
    BY <2>1
<1>12. QED
  BY <1>1, <1>11

\* restore_kind: the entries' slots are as that end of the record has them, the
\* others as they were, and the free list is in order.
LEMMA RestoreReplays ==
    ASSUME NEW p \in Pool, NEW delta, DeltaType(delta), DOMAIN delta \subseteq DOMAIN p.slots,
           NEW toBefore \in BOOLEAN
    PROVE  LET q == RestoreKind(p, delta, toBefore)
           IN  /\ q \in Pool /\ Linked(q)
               /\ DOMAIN q.slots = DOMAIN p.slots
               /\ \A x \in DOMAIN p.slots \ DOMAIN delta :
                     /\ q.slots[x].live = p.slots[x].live
                     /\ q.slots[x].value = p.slots[x].value
                     /\ q.slots[x].generation = p.slots[x].generation
               /\ \A x \in DOMAIN delta :
                     /\ q.slots[x].live <=> EndExists(delta, toBefore, x)
                     /\ EndExists(delta, toBefore, x) =>
                           /\ q.slots[x].value = EndValue(delta, toBefore, x)
                           /\ q.slots[x].generation = EndId(delta, toBefore, x).generation
<1> DEFINE n == Len(p.slots)
           there == {s \in DOMAIN delta : EndExists(delta, toBefore, s)}
           gone == {s \in DOMAIN delta : ~EndExists(delta, toBefore, s)}
           revived == AllRevived(p, delta, toBefore, there)
           killed == AllKilled(revived, delta, toBefore, gone)
           q == RebuildFreeList(killed)
<1>1. RestoreKind(p, delta, toBefore) = q
  BY DEF RestoreKind, EndExists, EndId, EndValue, AllRevived, AllKilled
<1>2. n \in Nat /\ DOMAIN p.slots = 1..n /\ p \in Filling(n)
  <2>1. n \in Nat /\ DOMAIN p.slots = 1..n
    BY DEF Pool
  <2>2. p.slots \in [1..n -> Slot]
    BY DEF Pool
  <2>3. p.dead \in Int /\ p = [slots |-> p.slots, head |-> p.head, dead |-> p.dead]
        /\ p.head \in Nat
    BY DEF Pool
  <2>4. QED
    BY <2>1, <2>2, <2>3 DEF Filling
<1>3. there \in SUBSET DOMAIN delta /\ gone \in SUBSET DOMAIN delta /\ DOMAIN delta \subseteq 1..n
  BY <1>2
<1> HIDE DEF n, there, gone
<1>4. /\ revived \in Filling(n)
      /\ \A x \in (1..n) \ there : revived.slots[x] = p.slots[x]
      /\ \A x \in there : /\ revived.slots[x].live
                          /\ revived.slots[x].value = EndValue(delta, toBefore, x)
                          /\ revived.slots[x].generation = EndId(delta, toBefore, x).generation
  BY <1>2, <1>3, ReviveAll
<1> HIDE DEF revived
<1>5. /\ killed \in Filling(n)
      /\ \A x \in (1..n) \ gone : killed.slots[x] = revived.slots[x]
      /\ \A x \in gone : ~killed.slots[x].live
  BY <1>2, <1>3, <1>4, KillAll
<1> HIDE DEF killed
<1>6. killed.slots \in Slots /\ DOMAIN killed.slots = 1..n
  BY <1>2, <1>5 DEF Filling, Slots
<1>7. /\ q \in Pool /\ Linked(q)
      /\ DOMAIN q.slots = 1..n
      /\ \A s \in 1..n : /\ q.slots[s].live = killed.slots[s].live
                         /\ q.slots[s].generation = killed.slots[s].generation
                         /\ q.slots[s].value = killed.slots[s].value
  BY <1>6, RebuildLinks
<1> HIDE DEF q
<1>8. \A x \in (1..n) \ DOMAIN delta : killed.slots[x] = p.slots[x]
  BY <1>4, <1>5 DEF there, gone
<1>9. \A x \in DOMAIN delta :
         /\ x \in 1..n
         /\ EndExists(delta, toBefore, x) => /\ killed.slots[x] = revived.slots[x]
                                             /\ x \in there
         /\ ~EndExists(delta, toBefore, x) => x \in gone
  BY <1>3, <1>5 DEF there, gone
<1>10. \A x \in DOMAIN delta :
         /\ q.slots[x].live <=> EndExists(delta, toBefore, x)
         /\ EndExists(delta, toBefore, x) =>
               /\ q.slots[x].value = EndValue(delta, toBefore, x)
               /\ q.slots[x].generation = EndId(delta, toBefore, x).generation
  BY <1>4, <1>5, <1>7, <1>9
<1>11. QED
  BY <1>1, <1>2, <1>7, <1>8, <1>10

-----------------------------------------------------------------------------
(* The record and the index.                                               *)


\* What a stamp leaves in a record: it enters the slots it touches as they were
\* in p, unless they are entered already, and as they are in q.
Notes(d, delta, p, q, touched) ==
    /\ DOMAIN d = DOMAIN delta \cup touched
    /\ \A s \in DOMAIN delta \ touched : d[s] = delta[s]
    /\ \A s \in touched :
          /\ s \in DOMAIN delta =>
                /\ d[s].existedBefore = delta[s].existedBefore
                /\ d[s].beforeId = delta[s].beforeId
                /\ d[s].before = delta[s].before
          /\ s \notin DOMAIN delta =>
                Says(Contents(p), s, d[s].existedBefore, d[s].beforeId, d[s].before)
          /\ Says(Contents(q), s, d[s].existsAfter, d[s].afterId, d[s].after)

\* q is p but for what it holds at the touched slots.
SameElsewhere(q, p, touched) ==
    /\ DOMAIN q.slots = DOMAIN p.slots \cup touched
    /\ \A x \in DOMAIN p.slots \ touched : q.slots[x] = p.slots[x]

\* What the slots of a pool are, and their handles.
LEMMA PoolSlots ==
    ASSUME NEW p \in Pool, NEW s \in DOMAIN p.slots
    PROVE  /\ s \in Nat /\ p.slots[s] \in Slot /\ p.slots[s].value \in Value
           /\ p.slots[s].generation \in Nat
           /\ HandleAt(p, s) \in HandleType /\ HandleAt(p, s).slot = s
           /\ HandleAt(p, s).generation = p.slots[s].generation
<1>1. s \in Nat /\ p.slots[s] \in Slot
  BY DEF Pool
<1>2. p.slots[s].value \in Value /\ p.slots[s].generation \in Nat
  BY <1>1 DEF Slot
<1>3. QED
  BY <1>1, <1>2 DEF HandleType, HandleAt, Handle

\* What a pool's contents say of a slot.
LEMMA ContentsSay ==
    ASSUME NEW p
    PROVE  /\ DOMAIN Contents(p) = LiveSlots(p)
           /\ \A s \in LiveSlots(p) :
                 Contents(p)[s] = [generation |-> p.slots[s].generation,
                                   value |-> p.slots[s].value]
           /\ Contents(p) = [s \in LiveSlots(p) |-> Contents(p)[s]]
  BY DEF Contents

\* A record that led to p leads to q once what was touched is noted.
LEMMA NotesLead ==
    ASSUME NEW p, NEW q, NEW touched, SameElsewhere(q, p, touched),
           NEW d, NEW delta, NEW was, Leads(delta, was, Contents(p)),
           Notes(d, delta, p, q, touched)
    PROVE  Leads(d, was, Contents(q))
<1> DEFINE c == Contents(p)
           e == Contents(q)
<1>1. \A x : x \notin touched =>
         /\ x \in LiveSlots(p) <=> x \in LiveSlots(q)
         /\ x \in LiveSlots(p) => q.slots[x] = p.slots[x]
  BY DEF SameElsewhere, LiveSlots
<1>2. \A x : x \notin touched =>
         /\ x \in DOMAIN c <=> x \in DOMAIN e
         /\ x \in DOMAIN c => c[x] = e[x]
  <2> SUFFICES ASSUME NEW x, x \notin touched
               PROVE  /\ x \in DOMAIN c <=> x \in DOMAIN e
                      /\ x \in DOMAIN c => c[x] = e[x]
    OBVIOUS
  <2>1. DOMAIN c = LiveSlots(p) /\ DOMAIN e = LiveSlots(q)
    BY ContentsSay
  <2>2. x \in LiveSlots(p) => c[x] = [generation |-> p.slots[x].generation,
                                      value |-> p.slots[x].value]
    BY ContentsSay
  <2>3. x \in LiveSlots(q) => e[x] = [generation |-> q.slots[x].generation,
                                      value |-> q.slots[x].value]
    BY ContentsSay
  <2> HIDE DEF c, e
  <2>4. QED
    BY <1>1, <2>1, <2>2, <2>3
<1> HIDE DEF c, e
<1>3. /\ \A s \in DOMAIN delta :
            /\ Says(was, s, delta[s].existedBefore, delta[s].beforeId, delta[s].before)
            /\ Says(c, s, delta[s].existsAfter, delta[s].afterId, delta[s].after)
      /\ \A s \in (DOMAIN was \cup DOMAIN c) \ DOMAIN delta :
            s \in DOMAIN was /\ s \in DOMAIN c /\ was[s] = c[s]
  BY DEF Leads, c
<1>4. ASSUME NEW s \in DOMAIN d
      PROVE  /\ Says(was, s, d[s].existedBefore, d[s].beforeId, d[s].before)
             /\ Says(e, s, d[s].existsAfter, d[s].afterId, d[s].after)
  <2>1. CASE s \in touched
    <3>1. Says(e, s, d[s].existsAfter, d[s].afterId, d[s].after)
      BY <2>1 DEF Notes, e
    <3>2. CASE s \in DOMAIN delta
      <4>1. Says(was, s, delta[s].existedBefore, delta[s].beforeId, delta[s].before)
        BY <1>3, <3>2
      <4>2. QED
        BY <2>1, <3>1, <3>2, <4>1 DEF Notes
    <3>3. CASE s \notin DOMAIN delta
      <4>1. Says(c, s, d[s].existedBefore, d[s].beforeId, d[s].before)
        BY <2>1, <3>3 DEF Notes, c
      <4>2. /\ s \in DOMAIN was <=> s \in DOMAIN c
            /\ s \in DOMAIN was => was[s] = c[s]
        BY <1>3, <3>3
      <4>3. QED
        BY <3>1, <4>1, <4>2 DEF Says
    <3>4. QED
      BY <3>2, <3>3
  <2>2. CASE s \notin touched
    <3>1. s \in DOMAIN delta /\ d[s] = delta[s]
      BY <2>2 DEF Notes
    <3>2. Says(c, s, delta[s].existsAfter, delta[s].afterId, delta[s].after)
      BY <1>3, <3>1
    <3>3. Says(e, s, delta[s].existsAfter, delta[s].afterId, delta[s].after)
      BY <1>2, <2>2, <3>2 DEF Says
    <3>4. QED
      BY <1>3, <3>1, <3>3
  <2>3. QED
    BY <2>1, <2>2
<1>5. ASSUME NEW s \in (DOMAIN was \cup DOMAIN e) \ DOMAIN d
      PROVE  s \in DOMAIN was /\ s \in DOMAIN e /\ was[s] = e[s]
  <2>1. s \notin DOMAIN delta /\ s \notin touched
    BY DEF Notes
  <2>2. QED
    BY <1>2, <1>3, <2>1
<1>6. QED
  BY <1>4, <1>5 DEF Leads, e

\* note_element enters a slot that has no entry.
LEMMA NoteEnters ==
    ASSUME NEW p \in Pool, NEW delta, DeltaType(delta), NEW id \in LiveHandles(p)
    PROVE  LET d == Note(delta, p, id)
               s == id.slot
           IN  /\ DeltaType(d) /\ DOMAIN d = DOMAIN delta \cup {s}
               /\ \A x \in DOMAIN delta : d[x] = delta[x]
               /\ s \notin DOMAIN delta =>
                     Says(Contents(p), s, d[s].existedBefore, d[s].beforeId, d[s].before)
<1> DEFINE d == Note(delta, p, id)
           s == id.slot
           v == p.slots[s].value
           entry == [beforeId |-> id, afterId |-> id, before |-> v, after |-> v,
                     existedBefore |-> TRUE, existsAfter |-> TRUE]
<1>1. s \in LiveSlots(p) /\ id = HandleAt(p, s) /\ id.generation = p.slots[s].generation
  BY DEF LiveHandles, HandleAt, Handle
<1>2. v \in Value /\ id \in HandleType
  BY <1>1, PoolSlots DEF LiveSlots
<1>3. CASE s \in DOMAIN delta
  BY <1>3 DEF Note
<1>4. CASE s \notin DOMAIN delta
  <2>1. d = [x \in DOMAIN delta \cup {s} |-> IF x = s THEN entry ELSE delta[x]]
    BY <1>4 DEF Note, Entered
  <2>2. entry \in Entry
    BY <1>2 DEF Entry
  <2>3. /\ DOMAIN d = DOMAIN delta \cup {s}
        /\ \A x \in DOMAIN delta : d[x] = delta[x]
        /\ d[s] = entry
    BY <1>4, <2>1
  <2>4. DeltaType(d)
    <3>1. \A x \in DOMAIN delta : delta[x] \in Entry
      BY DEF DeltaType
    <3>2. d \in [DOMAIN d -> Entry]
      BY <2>1, <2>2, <3>1
    <3>3. \A x \in DOMAIN d : d[x].beforeId.slot = x /\ d[x].afterId.slot = x
      BY <2>3 DEF DeltaType
    <3>4. QED
      BY <3>2, <3>3 DEF DeltaType
  <2> HIDE DEF d
  <2>5. Says(Contents(p), s, d[s].existedBefore, d[s].beforeId, d[s].before)
    BY <1>1, <2>3, ContentsSay DEF Says
  <2>6. QED
    BY <2>3, <2>4, <2>5 DEF d
<1>5. QED
  BY <1>3, <1>4

\* note_new_element enters a slot that has no entry, as one that was not there.
LEMMA NoteNewEnters ==
    ASSUME NEW p \in Pool, NEW q \in Pool, NEW delta, DeltaType(delta),
           NEW id \in HandleType, id.slot \in DOMAIN q.slots, id.slot \notin LiveSlots(p)
    PROVE  LET d == NoteNew(delta, q, id)
               s == id.slot
           IN  /\ DeltaType(d) /\ DOMAIN d = DOMAIN delta \cup {s}
               /\ \A x \in DOMAIN delta : d[x] = delta[x]
               /\ s \notin DOMAIN delta =>
                     Says(Contents(p), s, d[s].existedBefore, d[s].beforeId, d[s].before)
<1> DEFINE d == NoteNew(delta, q, id)
           s == id.slot
           v == q.slots[s].value
           entry == [beforeId |-> id, afterId |-> id, before |-> v, after |-> v,
                     existedBefore |-> FALSE, existsAfter |-> TRUE]
<1>1. v \in Value
  BY PoolSlots
<1>2. CASE s \in DOMAIN delta
  BY <1>2 DEF NoteNew
<1>3. CASE s \notin DOMAIN delta
  <2>1. d = [x \in DOMAIN delta \cup {s} |-> IF x = s THEN entry ELSE delta[x]]
    BY <1>3 DEF NoteNew, Entered
  <2>2. entry \in Entry
    BY <1>1 DEF Entry
  <2>3. /\ DOMAIN d = DOMAIN delta \cup {s}
        /\ \A x \in DOMAIN delta : d[x] = delta[x]
        /\ d[s] = entry
    BY <1>3, <2>1
  <2>4. DeltaType(d)
    <3>1. \A x \in DOMAIN delta : delta[x] \in Entry
      BY DEF DeltaType
    <3>2. d \in [DOMAIN d -> Entry]
      BY <2>1, <2>2, <3>1
    <3>3. \A x \in DOMAIN d : d[x].beforeId.slot = x /\ d[x].afterId.slot = x
      BY <2>3 DEF DeltaType
    <3>4. QED
      BY <3>2, <3>3 DEF DeltaType
  <2> HIDE DEF d
  <2>5. Says(Contents(p), s, d[s].existedBefore, d[s].beforeId, d[s].before)
    BY <2>3, ContentsSay DEF Says
  <2>6. QED
    BY <2>3, <2>4, <2>5 DEF d
<1>4. QED
  BY <1>2, <1>3

\* sync_element brings an entry's end up to the pool, and only that.
LEMMA SyncSays ==
    ASSUME NEW q \in Pool, NEW delta, DeltaType(delta), NEW id \in HandleType,
           id.slot \in DOMAIN delta, id.slot \in DOMAIN q.slots
    PROVE  LET d == Sync(delta, q, id)
               s == id.slot
           IN  /\ DeltaType(d) /\ DOMAIN d = DOMAIN delta
               /\ \A x \in DOMAIN delta : x # s => d[x] = delta[x]
               /\ d[s].existedBefore = delta[s].existedBefore
               /\ d[s].beforeId = delta[s].beforeId
               /\ d[s].before = delta[s].before
               /\ Says(Contents(q), s, d[s].existsAfter, d[s].afterId, d[s].after)
<1> DEFINE d == Sync(delta, q, id)
           s == id.slot
<1>1. delta[s] \in Entry /\ delta = [x \in DOMAIN delta |-> delta[x]]
  BY DEF DeltaType
<1>2. q.slots[s].value \in Value /\ HandleAt(q, s) \in HandleType /\ HandleAt(q, s).slot = s
      /\ HandleAt(q, s).generation = q.slots[s].generation /\ s \in Nat
  BY PoolSlots
<1>3. CASE q.slots[s].live
  <2> DEFINE a == delta[s]
             v == q.slots[s].value
             h == HandleAt(q, s)
             w == [[[a EXCEPT !.existsAfter = TRUE] EXCEPT !.after = v] EXCEPT !.afterId = h]
  <2>1. /\ DOMAIN d = DOMAIN delta /\ d = [x \in DOMAIN delta |-> d[x]]
        /\ \A x \in DOMAIN delta : x # s => d[x] = delta[x]
        /\ d[s] = w
    BY <1>1, <1>3 DEF Sync
  <2>2. /\ w \in Entry /\ w.existsAfter /\ w.after = v /\ w.afterId = h
        /\ w.existedBefore = a.existedBefore /\ w.beforeId = a.beforeId /\ w.before = a.before
    <3>1. a \in Entry /\ v \in Value /\ h \in HandleType
      BY <1>1, <1>2
    <3> HIDE DEF a, v, h
    <3>2. QED
      BY <3>1 DEF Entry
  <2> HIDE DEF d, w
  <2>3. DeltaType(d)
    <3>1. \A x \in DOMAIN d : d[x] \in Entry
      BY <2>1, <2>2 DEF DeltaType
    <3>2. d \in [DOMAIN d -> Entry]
      BY <2>1, <3>1
    <3>3. w.beforeId.slot = s /\ w.afterId.slot = s
      BY <1>2, <2>2 DEF DeltaType
    <3>4. \A x \in DOMAIN d : d[x].beforeId.slot = x /\ d[x].afterId.slot = x
      BY <2>1, <3>3 DEF DeltaType
    <3>5. QED
      BY <3>2, <3>4 DEF DeltaType
  <2>4. s \in LiveSlots(q)
    BY <1>3 DEF LiveSlots
  <2>5. Says(Contents(q), s, w.existsAfter, w.afterId, w.after)
    BY <1>2, <2>2, <2>4, ContentsSay DEF Says
  <2>6. QED
    BY <2>1, <2>2, <2>3, <2>5 DEF d
<1>4. CASE ~q.slots[s].live
  <2> DEFINE a == delta[s]
             w == [[a EXCEPT !.existsAfter = FALSE] EXCEPT !.afterId = id]
  <2>1. /\ DOMAIN d = DOMAIN delta /\ d = [x \in DOMAIN delta |-> d[x]]
        /\ \A x \in DOMAIN delta : x # s => d[x] = delta[x]
        /\ d[s] = w
    BY <1>1, <1>4 DEF Sync
  <2>2. /\ w \in Entry /\ ~w.existsAfter /\ w.afterId = id
        /\ w.existedBefore = a.existedBefore /\ w.beforeId = a.beforeId /\ w.before = a.before
    <3>1. a \in Entry
      BY <1>1
    <3> HIDE DEF a
    <3>2. QED
      BY <3>1 DEF Entry
  <2> HIDE DEF d, w
  <2>3. DeltaType(d)
    <3>1. \A x \in DOMAIN d : d[x] \in Entry
      BY <2>1, <2>2 DEF DeltaType
    <3>2. d \in [DOMAIN d -> Entry]
      BY <2>1, <3>1
    <3>3. w.beforeId.slot = s /\ w.afterId.slot = s
      BY <1>2, <2>2 DEF DeltaType
    <3>4. \A x \in DOMAIN d : d[x].beforeId.slot = x /\ d[x].afterId.slot = x
      BY <2>1, <3>3 DEF DeltaType
    <3>5. QED
      BY <3>2, <3>4 DEF DeltaType
  <2>4. s \notin LiveSlots(q)
    BY <1>4 DEF LiveSlots
  <2>5. Says(Contents(q), s, w.existsAfter, w.afterId, w.after)
    BY <2>2, <2>4, ContentsSay DEF Says
  <2>6. QED
    BY <2>1, <2>2, <2>3, <2>5 DEF d
<1>5. QED
  BY <1>3, <1>4


\* DynamicBvh::insert of every live face that has no leaf gives each its own.
LEMMA IndexedLive ==
    ASSUME NEW q \in Pool, NEW i, DOMAIN i \subseteq LiveSlots(q),
           \A s \in DOMAIN i : i[s] = HandleAt(q, s),
           NEW ids \in SUBSET HandleType,
           \A s \in LiveSlots(q) \ DOMAIN i : HandleAt(q, s) \in ids
    PROVE  Indexed(i, q, ids) = [s \in LiveSlots(q) |-> HandleAt(q, s)]
<1> DEFINE new == {id \in ids : Live(q, id) /\ id.slot \notin DOMAIN i}
           At(s) == CHOOSE id \in new : id.slot = s
           added == {id.slot : id \in new}
<1>1. \A id \in new : /\ id.slot \in LiveSlots(q) /\ id.slot \notin DOMAIN i
                      /\ id = HandleAt(q, id.slot)
  <2> SUFFICES ASSUME NEW id \in new
               PROVE  /\ id.slot \in LiveSlots(q) /\ id.slot \notin DOMAIN i
                      /\ id = HandleAt(q, id.slot)
    OBVIOUS
  <2>1. id \in HandleType /\ id.slot \in LiveSlots(q) /\ id.slot \notin DOMAIN i
        /\ q.slots[id.slot].generation = id.generation
    BY DEF Live, LiveSlots
  <2>2. QED
    BY <2>1 DEF HandleType, HandleAt, Handle
<1>2. \A s \in LiveSlots(q) \ DOMAIN i : HandleAt(q, s) \in new /\ HandleAt(q, s).slot = s
  BY DEF Live, LiveSlots, HandleAt, Handle
<1>3. added = LiveSlots(q) \ DOMAIN i
  <2>1. added \subseteq LiveSlots(q) \ DOMAIN i
    BY <1>1
  <2>2. \A s \in LiveSlots(q) \ DOMAIN i : s \in added
    BY <1>2
  <2>3. QED
    BY <2>1, <2>2
<1>4. \A s \in added : At(s) = HandleAt(q, s)
  <2> SUFFICES ASSUME NEW s \in added PROVE At(s) = HandleAt(q, s)
    OBVIOUS
  <2>1. HandleAt(q, s) \in new /\ HandleAt(q, s).slot = s
    BY <1>2, <1>3
  <2>2. \A id \in new : id.slot = s => id = HandleAt(q, s)
    BY <1>1
  <2> HIDE DEF new
  <2>3. QED
    BY <2>1, <2>2
<1>5. Indexed(i, q, ids) = [s \in DOMAIN i \cup added |-> IF s \in added THEN At(s) ELSE i[s]]
  BY DEF Indexed
<1> HIDE DEF added, At
<1>6. DOMAIN i \cup added = LiveSlots(q)
  BY <1>3
<1>7. \A s \in LiveSlots(q) : (IF s \in added THEN At(s) ELSE i[s]) = HandleAt(q, s)
  BY <1>3, <1>4
<1>8. QED
  BY <1>5, <1>6, <1>7

\* A handle that names its element goes on doing so when the generations of
\* what is touched only grow and an element that stays keeps its own.
LEMMA PastStays ==
    ASSUME NEW p \in Pool, NEW q \in Pool, NEW touched, SameElsewhere(q, p, touched),
           \A s \in touched \cap DOMAIN p.slots :
               \/ q.slots[s].generation > p.slots[s].generation
               \/ /\ q.slots[s].generation = p.slots[s].generation
                  /\ p.slots[s].live =>
                        /\ q.slots[s].live
                        /\ q.slots[s].value.element = p.slots[s].value.element,
           NEW t \in [id: HandleType, element: Nat], Past(p, t)
    PROVE  Past(q, t)
<1> DEFINE s == t.id.slot
<1>1. s \in DOMAIN p.slots /\ s \in DOMAIN q.slots /\ t.id.generation \in Nat
  BY DEF Past, SameElsewhere, HandleType
<1>2. p.slots[s].generation \in Nat /\ q.slots[s].generation \in Nat
  BY <1>1, PoolSlots
<1>3. CASE s \in touched
  BY <1>1, <1>2, <1>3 DEF Past
<1>4. CASE s \notin touched
  BY <1>1, <1>4 DEF Past, SameElsewhere
<1>5. QED
  BY <1>3, <1>4

-----------------------------------------------------------------------------
(* What the operators of a stamp do to a surface.                          *)

LiveIndex(p) == [s \in LiveSlots(p) |-> HandleAt(p, s)]

\* A pool, a delta and an index a stamp may leave, when the record it was made
\* under led from `was` to the surface.
Leaves(q, d, i, was) ==
    /\ q \in Pool /\ Linked(q)
    /\ DOMAIN pool.slots \subseteq DOMAIN q.slots
    /\ DeltaType(d) /\ DOMAIN d \subseteq DOMAIN q.slots
    /\ d # EmptyDelta
    /\ Leads(d, was, Contents(q))
    /\ i = LiveIndex(q)
    /\ \A t \in [id: HandleType, element: Nat] : Past(pool, t) => Past(q, t)

Sound(e, was) == Leaves(e.pool, e.delta, e.index, was)

\* A live handle, its slot and its element.
LEMMA LiveHandle ==
    ASSUME NEW p \in Pool, NEW f \in LiveHandles(p)
    PROVE  /\ f.slot \in LiveSlots(p) /\ f.slot \in DOMAIN p.slots
           /\ f = HandleAt(p, f.slot) /\ f \in HandleType
           /\ p.slots[f.slot].live /\ p.slots[f.slot].generation = f.generation
           /\ p.slots[f.slot].value.element \in Nat
<1>1. f.slot \in LiveSlots(p) /\ f = HandleAt(p, f.slot)
  BY DEF LiveHandles, HandleAt, Handle
<1>2. f.slot \in DOMAIN p.slots /\ p.slots[f.slot].live
  BY <1>1 DEF LiveSlots
<1>3. /\ p.slots[f.slot].value \in Value /\ HandleAt(p, f.slot) \in HandleType
      /\ HandleAt(p, f.slot).generation = p.slots[f.slot].generation
  BY <1>2, PoolSlots
<1>4. p.slots[f.slot].value.element \in Nat
  BY <1>3 DEF Value
<1>5. QED
  BY <1>1, <1>2, <1>3, <1>4

\* Written keeps the element.
LEMMA WrittenKeeps ==
    ASSUME pool \in Pool, clock \in Nat, NEW f \in LiveHandles(pool)
    PROVE  Written(f) \in Value /\ Written(f).element = pool.slots[f.slot].value.element
  BY LiveHandle DEF Written, Element, Value

\* write_positions and flip_edge.
LEMMA MoveSound ==
    ASSUME pool \in Pool, Linked(pool), clock \in Nat, IndexHoldsTheLive,
           NEW delta, DeltaType(delta), DOMAIN delta \subseteq DOMAIN pool.slots,
           NEW was, Leads(delta, was, Contents(pool)),
           NEW f \in LiveHandles(pool)
    PROVE  Sound(MoveEffect(delta, f), was)
<1> DEFINE q == Write(pool, f, Written(f))
           s == f.slot
           noted == Note(delta, pool, f)
           d == Sync(noted, q, f)
           e == MoveEffect(delta, f)
<1>1. e.pool = q /\ e.delta = d /\ e.index = index
  BY DEF MoveEffect
<1> HIDE DEF e
<1>2. /\ s \in LiveSlots(pool) /\ s \in DOMAIN pool.slots
      /\ f \in HandleType /\ pool.slots[s].live /\ pool.slots[s].generation = f.generation
  BY LiveHandle
<1>3. Written(f) \in Value /\ Written(f).element = pool.slots[s].value.element
  BY WrittenKeeps
<1>4. /\ q \in Pool /\ Linked(q) /\ SameBut(q, pool, s)
      /\ q.slots[s].live /\ q.slots[s].value = Written(f)
      /\ q.slots[s].generation = f.generation
  BY <1>3, WriteRewrites
<1> HIDE DEF q
<1>5. SameElsewhere(q, pool, {s}) /\ DOMAIN q.slots = DOMAIN pool.slots
  BY <1>2, <1>4 DEF SameBut, SameElsewhere
<1>6. /\ DeltaType(noted) /\ DOMAIN noted = DOMAIN delta \cup {s}
      /\ \A x \in DOMAIN delta : noted[x] = delta[x]
      /\ s \notin DOMAIN delta =>
            Says(Contents(pool), s, noted[s].existedBefore, noted[s].beforeId, noted[s].before)
  BY NoteEnters
<1> HIDE DEF noted
<1>7. /\ DeltaType(d) /\ DOMAIN d = DOMAIN noted
      /\ \A x \in DOMAIN noted : x # s => d[x] = noted[x]
      /\ d[s].existedBefore = noted[s].existedBefore
      /\ d[s].beforeId = noted[s].beforeId
      /\ d[s].before = noted[s].before
      /\ Says(Contents(q), s, d[s].existsAfter, d[s].afterId, d[s].after)
  BY <1>2, <1>4, <1>5, <1>6, SyncSays
<1> HIDE DEF d
<1>8. Notes(d, delta, pool, q, {s})
  BY <1>6, <1>7 DEF Notes
<1>9. Leads(d, was, Contents(q))
  BY <1>5, <1>8, NotesLead
<1>10. \A t \in [id: HandleType, element: Nat] : Past(pool, t) => Past(q, t)
  BY <1>2, <1>3, <1>4, <1>5, PastStays
<1>11. index = LiveIndex(q)
  <2>1. LiveSlots(q) = LiveSlots(pool)
    BY <1>2, <1>4, <1>5 DEF LiveSlots, SameElsewhere
  <2>2. \A x \in LiveSlots(pool) : HandleAt(q, x) = HandleAt(pool, x)
    BY <1>2, <1>4, <1>5 DEF LiveSlots, SameElsewhere, HandleAt
  <2>3. QED
    BY <2>1, <2>2 DEF IndexHoldsTheLive, LiveIndex
<1>12. d # EmptyDelta
  BY <1>6, <1>7 DEF EmptyDelta
<1>13. Leaves(q, d, index, was)
  BY <1>2, <1>4, <1>5, <1>6, <1>7, <1>9, <1>10, <1>11, <1>12 DEF Leaves
<1>14. QED
  BY <1>1, <1>13 DEF Sound, e

\* split_edge.
LEMMA SplitSound ==
    ASSUME pool \in Pool, Linked(pool), clock \in Nat, IndexHoldsTheLive,
           NEW delta, DeltaType(delta), DOMAIN delta \subseteq DOMAIN pool.slots,
           NEW was, Leads(delta, was, Contents(pool)),
           NEW f \in LiveHandles(pool)
    PROVE  Sound(SplitEffect(delta, f), was)
<1> DEFINE v == [element |-> clock, at |-> clock]
           id == NewHandle(pool)
           p == Create(pool, v)
           q == Write(p, f, Written(f))
           s == f.slot
           u == id.slot
           noted == Note(delta, pool, f)
           entered == NoteNew(noted, q, id)
           once == Sync(entered, q, f)
           d == Sync(once, q, id)
           e == SplitEffect(delta, f)
<1>1. e.pool = q /\ e.delta = d /\ e.index = Fed(index, q, {f, id})
  BY DEF SplitEffect
<1> HIDE DEF e
<1>2. /\ s \in LiveSlots(pool) /\ s \in DOMAIN pool.slots /\ f = HandleAt(pool, s)
      /\ f \in HandleType /\ pool.slots[s].live /\ pool.slots[s].generation = f.generation
  BY LiveHandle
<1>3. Written(f) \in Value /\ Written(f).element = pool.slots[s].value.element /\ v \in Value
  BY WrittenKeeps DEF Value
<1> HIDE DEF v
<1>4. /\ p \in Pool /\ Linked(p)
      /\ id \in HandleType
      /\ u \notin LiveSlots(pool) /\ SameBut(p, pool, u)
      /\ u \in DOMAIN pool.slots => pool.slots[u].generation = id.generation
      /\ p.slots[u].live /\ p.slots[u].generation = id.generation
  BY <1>3, CreateAdds
<1> HIDE DEF id, p
<1>5. u # s /\ s \in DOMAIN p.slots /\ p.slots[s] = pool.slots[s] /\ f \in LiveHandles(p)
  <2>1. u # s /\ s \in DOMAIN p.slots /\ p.slots[s] = pool.slots[s]
    BY <1>2, <1>4 DEF SameBut
  <2>2. QED
    BY <1>2, <2>1 DEF LiveHandles, LiveSlots, HandleAt
<1>6. /\ q \in Pool /\ Linked(q) /\ SameBut(q, p, s)
      /\ q.slots[s].live /\ q.slots[s].value = Written(f)
      /\ q.slots[s].generation = f.generation
  BY <1>3, <1>4, <1>5, WriteRewrites
<1> HIDE DEF q
<1>7. /\ SameElsewhere(q, pool, {s, u}) /\ DOMAIN q.slots = DOMAIN pool.slots \cup {u}
      /\ q.slots[u] = p.slots[u]
  BY <1>2, <1>4, <1>5, <1>6 DEF SameBut, SameElsewhere
<1>8. /\ DeltaType(noted) /\ DOMAIN noted = DOMAIN delta \cup {s}
      /\ \A x \in DOMAIN delta : noted[x] = delta[x]
      /\ s \notin DOMAIN delta =>
            Says(Contents(pool), s, noted[s].existedBefore, noted[s].beforeId, noted[s].before)
  BY NoteEnters
<1> HIDE DEF noted
<1>9. /\ DeltaType(entered) /\ DOMAIN entered = DOMAIN noted \cup {u}
      /\ \A x \in DOMAIN noted : entered[x] = noted[x]
      /\ u \notin DOMAIN noted =>
            Says(Contents(pool), u, entered[u].existedBefore, entered[u].beforeId,
                 entered[u].before)
  BY <1>4, <1>6, <1>7, <1>8, NoteNewEnters
<1> HIDE DEF entered
<1>10. /\ DeltaType(once) /\ DOMAIN once = DOMAIN entered
       /\ \A x \in DOMAIN entered : x # s => once[x] = entered[x]
       /\ once[s].existedBefore = entered[s].existedBefore
       /\ once[s].beforeId = entered[s].beforeId
       /\ once[s].before = entered[s].before
       /\ Says(Contents(q), s, once[s].existsAfter, once[s].afterId, once[s].after)
  BY <1>2, <1>6, <1>7, <1>8, <1>9, SyncSays
<1> HIDE DEF once
<1>11. /\ DeltaType(d) /\ DOMAIN d = DOMAIN once
       /\ \A x \in DOMAIN once : x # u => d[x] = once[x]
       /\ d[u].existedBefore = once[u].existedBefore
       /\ d[u].beforeId = once[u].beforeId
       /\ d[u].before = once[u].before
       /\ Says(Contents(q), u, d[u].existsAfter, d[u].afterId, d[u].after)
  BY <1>4, <1>6, <1>7, <1>9, <1>10, SyncSays
<1> HIDE DEF d
<1>12. Notes(d, delta, pool, q, {s, u})
  <2>1. /\ DOMAIN d = DOMAIN delta \cup {s, u}
        /\ \A x \in DOMAIN delta \ {s, u} : d[x] = delta[x]
    BY <1>8, <1>9, <1>10, <1>11
  <2>2. d[s] = once[s] /\ entered[s] = noted[s] /\ once[u] = entered[u]
    BY <1>5, <1>8, <1>9, <1>10, <1>11
  <2>3. /\ s \in DOMAIN delta => noted[s] = delta[s]
        /\ u \in DOMAIN delta => entered[u] = delta[u]
        /\ u \notin DOMAIN delta => u \notin DOMAIN noted
    BY <1>5, <1>8, <1>9
  <2>4. /\ s \in DOMAIN delta =>
              /\ d[s].existedBefore = delta[s].existedBefore
              /\ d[s].beforeId = delta[s].beforeId
              /\ d[s].before = delta[s].before
        /\ s \notin DOMAIN delta =>
              Says(Contents(pool), s, d[s].existedBefore, d[s].beforeId, d[s].before)
        /\ Says(Contents(q), s, d[s].existsAfter, d[s].afterId, d[s].after)
    BY <1>8, <1>10, <2>2, <2>3
  <2>5. /\ u \in DOMAIN delta =>
              /\ d[u].existedBefore = delta[u].existedBefore
              /\ d[u].beforeId = delta[u].beforeId
              /\ d[u].before = delta[u].before
        /\ u \notin DOMAIN delta =>
              Says(Contents(pool), u, d[u].existedBefore, d[u].beforeId, d[u].before)
        /\ Says(Contents(q), u, d[u].existsAfter, d[u].afterId, d[u].after)
    BY <1>9, <1>11, <2>2, <2>3
  <2>6. QED
    BY <2>1, <2>4, <2>5 DEF Notes
<1>13. Leads(d, was, Contents(q))
  BY <1>7, <1>12, NotesLead
<1>14. \A t \in [id: HandleType, element: Nat] : Past(pool, t) => Past(q, t)
  <2>1. \A x \in {s, u} \cap DOMAIN pool.slots :
           /\ q.slots[x].generation = pool.slots[x].generation
           /\ pool.slots[x].live =>
                 /\ q.slots[x].live
                 /\ q.slots[x].value.element = pool.slots[x].value.element
    BY <1>2, <1>3, <1>4, <1>6, <1>7 DEF LiveSlots
  <2>2. QED
    BY <1>6, <1>7, <2>1, PastStays
<1>15. Fed(index, q, {f, id}) = LiveIndex(q)
  <2> DEFINE i == Unindexed(index, {x.slot : x \in {f, id}})
  <2>1. LiveSlots(q) = LiveSlots(pool) \cup {u}
    BY <1>2, <1>4, <1>6, <1>7 DEF LiveSlots, SameElsewhere
  <2>2. DOMAIN i = LiveSlots(pool) \ {s, u} /\ \A x \in DOMAIN i : i[x] = HandleAt(pool, x)
    BY DEF Unindexed, IndexHoldsTheLive
  <2>3. Fed(index, q, {f, id}) = Indexed(i, q, {f, id})
    BY DEF Fed
  <2> HIDE DEF i
  <2>4. \A x \in DOMAIN i : x \in LiveSlots(q) /\ i[x] = HandleAt(q, x)
    BY <1>7, <2>1, <2>2 DEF HandleAt, SameElsewhere, LiveSlots
  <2>5. HandleAt(q, s) = f /\ HandleAt(q, u) = id
    BY <1>2, <1>4, <1>6, <1>7 DEF HandleAt, Handle, HandleType
  <2>6. \A x \in LiveSlots(q) \ DOMAIN i : HandleAt(q, x) \in {f, id}
    BY <2>1, <2>2, <2>5
  <2>7. QED
    BY <1>2, <1>4, <1>6, <2>3, <2>4, <2>6, IndexedLive DEF LiveIndex
<1>16. d # EmptyDelta
  BY <1>8, <1>9, <1>10, <1>11 DEF EmptyDelta
<1>17. DOMAIN d \subseteq DOMAIN q.slots
  BY <1>2, <1>7, <1>8, <1>9, <1>10, <1>11
<1>18. Leaves(q, d, Fed(index, q, {f, id}), was)
  BY <1>6, <1>7, <1>11, <1>13, <1>14, <1>15, <1>16, <1>17 DEF Leaves
<1>19. QED
  BY <1>1, <1>18 DEF Sound, e

\* collapse_edge.
LEMMA CollapseSound ==
    ASSUME pool \in Pool, Linked(pool), clock \in Nat, IndexHoldsTheLive,
           NEW delta, DeltaType(delta), DOMAIN delta \subseteq DOMAIN pool.slots,
           NEW was, Leads(delta, was, Contents(pool)),
           NEW dying \in LiveHandles(pool), NEW f \in LiveHandles(pool), dying # f
    PROVE  Sound(CollapseEffect(delta, dying, f), was)
<1> DEFINE p == Write(pool, f, Written(f))
           q == Erase(p, dying)
           s == f.slot
           u == dying.slot
           noted == Note(delta, pool, dying)
           both == Note(noted, pool, f)
           once == Sync(both, q, dying)
           d == Sync(once, q, f)
           e == CollapseEffect(delta, dying, f)
<1>1. e.pool = q /\ e.delta = d /\ e.index = Fed(Unindexed(index, {u}), q, {f})
  BY DEF CollapseEffect
<1> HIDE DEF e
<1>2. /\ s \in LiveSlots(pool) /\ s \in DOMAIN pool.slots /\ f = HandleAt(pool, s)
      /\ f \in HandleType /\ pool.slots[s].live /\ pool.slots[s].generation = f.generation
      /\ u \in LiveSlots(pool) /\ u \in DOMAIN pool.slots /\ dying = HandleAt(pool, u)
      /\ dying \in HandleType /\ pool.slots[u].live
      /\ pool.slots[u].generation = dying.generation
  BY LiveHandle
<1>3. Written(f) \in Value /\ Written(f).element = pool.slots[s].value.element
  BY WrittenKeeps
<1>4. u # s
  BY <1>2
<1>5. /\ p \in Pool /\ Linked(p) /\ SameBut(p, pool, s)
      /\ p.slots[s].live /\ p.slots[s].value = Written(f)
      /\ p.slots[s].generation = f.generation
  BY <1>3, WriteRewrites
<1> HIDE DEF p
<1>6. p.slots[u] = pool.slots[u] /\ dying \in LiveHandles(p)
  <2>1. u \in DOMAIN p.slots /\ p.slots[u] = pool.slots[u]
    BY <1>2, <1>4, <1>5 DEF SameBut
  <2>2. QED
    BY <1>2, <2>1 DEF LiveHandles, LiveSlots, HandleAt
<1>7. /\ q \in Pool /\ Linked(q) /\ SameBut(q, p, u)
      /\ ~q.slots[u].live /\ q.slots[u].generation = dying.generation + 1
  BY <1>5, <1>6, EraseKills
<1> HIDE DEF q
<1>8. /\ SameElsewhere(q, pool, {s, u}) /\ DOMAIN q.slots = DOMAIN pool.slots
      /\ q.slots[s] = p.slots[s]
  BY <1>2, <1>4, <1>5, <1>7 DEF SameBut, SameElsewhere
<1>9. /\ DeltaType(noted) /\ DOMAIN noted = DOMAIN delta \cup {u}
      /\ \A x \in DOMAIN delta : noted[x] = delta[x]
      /\ u \notin DOMAIN delta =>
            Says(Contents(pool), u, noted[u].existedBefore, noted[u].beforeId, noted[u].before)
  BY NoteEnters
<1> HIDE DEF noted
<1>10. /\ DeltaType(both) /\ DOMAIN both = DOMAIN noted \cup {s}
       /\ \A x \in DOMAIN noted : both[x] = noted[x]
       /\ s \notin DOMAIN noted =>
             Says(Contents(pool), s, both[s].existedBefore, both[s].beforeId, both[s].before)
  BY <1>9, NoteEnters
<1> HIDE DEF both
<1>11. /\ DeltaType(once) /\ DOMAIN once = DOMAIN both
       /\ \A x \in DOMAIN both : x # u => once[x] = both[x]
       /\ once[u].existedBefore = both[u].existedBefore
       /\ once[u].beforeId = both[u].beforeId
       /\ once[u].before = both[u].before
       /\ Says(Contents(q), u, once[u].existsAfter, once[u].afterId, once[u].after)
  BY <1>2, <1>7, <1>8, <1>9, <1>10, SyncSays
<1> HIDE DEF once
<1>12. /\ DeltaType(d) /\ DOMAIN d = DOMAIN once
       /\ \A x \in DOMAIN once : x # s => d[x] = once[x]
       /\ d[s].existedBefore = once[s].existedBefore
       /\ d[s].beforeId = once[s].beforeId
       /\ d[s].before = once[s].before
       /\ Says(Contents(q), s, d[s].existsAfter, d[s].afterId, d[s].after)
  BY <1>2, <1>7, <1>8, <1>10, <1>11, SyncSays
<1> HIDE DEF d
<1>13. Notes(d, delta, pool, q, {s, u})
  <2>1. /\ DOMAIN d = DOMAIN delta \cup {s, u}
        /\ \A x \in DOMAIN delta \ {s, u} : d[x] = delta[x]
    BY <1>9, <1>10, <1>11, <1>12
  <2>2. d[u] = once[u] /\ once[s] = both[s] /\ both[u] = noted[u]
    BY <1>4, <1>9, <1>10, <1>11, <1>12
  <2>3. /\ u \in DOMAIN delta => noted[u] = delta[u]
        /\ s \in DOMAIN delta => both[s] = delta[s]
        /\ s \notin DOMAIN delta => s \notin DOMAIN noted
    BY <1>4, <1>9, <1>10
  <2>4. /\ u \in DOMAIN delta =>
              /\ d[u].existedBefore = delta[u].existedBefore
              /\ d[u].beforeId = delta[u].beforeId
              /\ d[u].before = delta[u].before
        /\ u \notin DOMAIN delta =>
              Says(Contents(pool), u, d[u].existedBefore, d[u].beforeId, d[u].before)
        /\ Says(Contents(q), u, d[u].existsAfter, d[u].afterId, d[u].after)
    BY <1>9, <1>11, <2>2, <2>3
  <2>5. /\ s \in DOMAIN delta =>
              /\ d[s].existedBefore = delta[s].existedBefore
              /\ d[s].beforeId = delta[s].beforeId
              /\ d[s].before = delta[s].before
        /\ s \notin DOMAIN delta =>
              Says(Contents(pool), s, d[s].existedBefore, d[s].beforeId, d[s].before)
        /\ Says(Contents(q), s, d[s].existsAfter, d[s].afterId, d[s].after)
    BY <1>10, <1>12, <2>2, <2>3
  <2>6. QED
    BY <2>1, <2>4, <2>5 DEF Notes
<1>14. Leads(d, was, Contents(q))
  BY <1>8, <1>13, NotesLead
<1>15. \A t \in [id: HandleType, element: Nat] : Past(pool, t) => Past(q, t)
  <2>1. q.slots[u].generation > pool.slots[u].generation
    BY <1>2, <1>7 DEF HandleType
  <2>2. /\ q.slots[s].generation = pool.slots[s].generation /\ q.slots[s].live
        /\ q.slots[s].value.element = pool.slots[s].value.element
    BY <1>2, <1>3, <1>5, <1>8
  <2>3. QED
    BY <1>7, <1>8, <2>1, <2>2, PastStays
<1>16. Fed(Unindexed(index, {u}), q, {f}) = LiveIndex(q)
  <2> DEFINE i == Unindexed(Unindexed(index, {u}), {x.slot : x \in {f}})
  <2>1. LiveSlots(q) = LiveSlots(pool) \ {u}
    BY <1>2, <1>4, <1>5, <1>7, <1>8 DEF LiveSlots, SameElsewhere
  <2>2. DOMAIN i = LiveSlots(pool) \ {s, u} /\ \A x \in DOMAIN i : i[x] = HandleAt(pool, x)
    BY DEF Unindexed, IndexHoldsTheLive
  <2>3. Fed(Unindexed(index, {u}), q, {f}) = Indexed(i, q, {f})
    BY DEF Fed
  <2> HIDE DEF i
  <2>4. \A x \in DOMAIN i : x \in LiveSlots(q) /\ i[x] = HandleAt(q, x)
    BY <1>8, <2>1, <2>2 DEF HandleAt, SameElsewhere, LiveSlots
  <2>5. HandleAt(q, s) = f
    BY <1>2, <1>5, <1>8 DEF HandleAt, Handle, HandleType
  <2>6. \A x \in LiveSlots(q) \ DOMAIN i : HandleAt(q, x) \in {f}
    BY <2>1, <2>2, <2>5
  <2>7. QED
    BY <1>2, <1>7, <2>3, <2>4, <2>6, IndexedLive DEF LiveIndex
<1>17. d # EmptyDelta
  BY <1>9, <1>10, <1>11, <1>12 DEF EmptyDelta
<1>18. DOMAIN d \subseteq DOMAIN q.slots
  BY <1>2, <1>8, <1>9, <1>10, <1>11, <1>12
<1>19. Leaves(q, d, Fed(Unindexed(index, {u}), q, {f}), was)
  BY <1>7, <1>8, <1>12, <1>14, <1>15, <1>16, <1>17, <1>18 DEF Leaves
<1>20. QED
  BY <1>1, <1>19 DEF Sound, e

\* Every operator of a stamp.
LEMMA EffectsSound ==
    ASSUME pool \in Pool, Linked(pool), clock \in Nat, IndexHoldsTheLive,
           NEW delta, DeltaType(delta), DOMAIN delta \subseteq DOMAIN pool.slots,
           NEW was, Leads(delta, was, Contents(pool)),
           NEW effect \in Effects(delta)
    PROVE  Sound(effect, was)
<1>1. CASE \E f \in LiveHandles(pool) : effect = SplitEffect(delta, f)
  BY <1>1, SplitSound
<1>2. CASE \E f \in LiveHandles(pool) : effect = MoveEffect(delta, f)
  BY <1>2, MoveSound
<1>3. CASE \E a, b \in LiveHandles(pool) : a # b /\ effect = CollapseEffect(delta, a, b)
  BY <1>3, CollapseSound
<1>4. QED
  <2>1. \/ \E f \in LiveHandles(pool) : effect = SplitEffect(delta, f)
        \/ \E f \in LiveHandles(pool) : effect = MoveEffect(delta, f)
        \/ \E q \in LiveHandles(pool) \X LiveHandles(pool) :
              q[1] # q[2] /\ effect = CollapseEffect(delta, q[1], q[2])
    BY DEF Effects
  <2>2. ASSUME NEW q \in LiveHandles(pool) \X LiveHandles(pool),
               q[1] # q[2] /\ effect = CollapseEffect(delta, q[1], q[2])
        PROVE  \E a, b \in LiveHandles(pool) : a # b /\ effect = CollapseEffect(delta, a, b)
    <3>1. q[1] \in LiveHandles(pool) /\ q[2] \in LiveHandles(pool)
      OBVIOUS
    <3>2. QED
      BY <2>2, <3>1
  <2>3. QED
    BY <1>1, <1>2, <1>3, <2>1, <2>2

\* The handles of everything there is name their elements.
LEMMA NamedPast ==
    ASSUME NEW q \in Pool
    PROVE  /\ Named(q) \subseteq [id: HandleType, element: Nat]
           /\ \A t \in Named(q) : Past(q, t)
<1> SUFFICES ASSUME NEW id \in LiveHandles(q)
             PROVE  LET t == [id |-> id, element |-> q.slots[id.slot].value.element]
                    IN  t \in [id: HandleType, element: Nat] /\ Past(q, t)
  BY DEF Named
<1>1. QED
  BY LiveHandle DEF Past

\* The contents of a pool.
LEMMA ContentsType ==
    ASSUME NEW p \in Pool
    PROVE  ContentType(Contents(p))
<1>1. \A s \in LiveSlots(p) : Contents(p)[s] \in [generation: Nat, value: Value]
  <2> SUFFICES ASSUME NEW s \in LiveSlots(p)
               PROVE  Contents(p)[s] \in [generation: Nat, value: Value]
    OBVIOUS
  <2>1. p.slots[s].generation \in Nat /\ p.slots[s].value \in Value
    BY PoolSlots DEF LiveSlots
  <2>2. Contents(p)[s] = [generation |-> p.slots[s].generation, value |-> p.slots[s].value]
    BY ContentsSay
  <2>3. QED
    BY <2>1, <2>2
<1>2. DOMAIN Contents(p) = LiveSlots(p)
      /\ Contents(p) = [s \in LiveSlots(p) |-> Contents(p)[s]]
  BY ContentsSay
<1>3. QED
  BY <1>1, <1>2 DEF ContentType

\* A record that is empty is the one with nothing in it.
LEMMA EmptyIsNone ==
    ASSUME GestureTypeOK, NEW r \in Records, records[r].delta = EmptyDelta
    PROVE  records[r] = NoRecord
  BY DEF GestureTypeOK, Kept, RecordType

-----------------------------------------------------------------------------
(* The actions.                                                            *)

\* Marks draw on a counter that never rewinds, so a new end is no old one's.
LEMMA EndsGrow ==
    ASSUME GestureTypeOK, MarksNameContents,
           NEW m, NEW c, m.epoch = clock, clock' = clock + 1,
           Ends' \subseteq Ends \cup {<<m, c>>}
    PROVE  MarksNameContents'
<1>1. clock \in Nat
  BY DEF GestureTypeOK
<1>2. \A a \in Ends : a[1].epoch \in Nat
  <2>1. mark.epoch \in Nat
    BY DEF GestureTypeOK, Mark
  <2>2. \A r \in Kept : records[r].before.epoch \in Nat /\ records[r].after.epoch \in Nat
    BY DEF GestureTypeOK, RecordType, Mark
  <2>3. QED
    BY <2>1, <2>2 DEF Ends
<1>3. \A a \in Ends : a[1].epoch < clock
  BY DEF MarksNameContents
<1>4. \A a \in Ends' : a \in Ends \/ a = <<m, c>>
  OBVIOUS
<1>5. \A a \in Ends' : a[1].epoch < clock'
  <2> SUFFICES ASSUME NEW a \in Ends' PROVE a[1].epoch < clock'
    OBVIOUS
  <2>1. CASE a \in Ends
    BY <1>1, <1>2, <1>3, <2>1
  <2>2. CASE a = <<m, c>>
    BY <1>1, <2>2
  <2>3. QED
    BY <1>4, <2>1, <2>2
<1>6. \A a, b \in Ends' : a[1] = b[1] => a[2] = b[2]
  <2> SUFFICES ASSUME NEW a \in Ends', NEW b \in Ends', a[1] = b[1] PROVE a[2] = b[2]
    OBVIOUS
  <2>1. \A x \in Ends : x[1] # m
    BY <1>1, <1>2, <1>3
  <2>2. CASE a \in Ends /\ b \in Ends
    BY <2>2 DEF MarksNameContents
  <2>3. CASE a = <<m, c>> /\ b = <<m, c>>
    BY <2>3
  <2>4. QED
    BY <1>4, <2>1, <2>2, <2>3
<1>7. QED
  BY <1>5, <1>6 DEF MarksNameContents

\* What every stamp does to the surface.
LEMMA Stamped ==
    ASSUME GestureIInv, NEW effect, NEW was, Sound(effect, was), Takes(effect), Bump
    PROVE  /\ pool' \in Pool /\ Linked(pool')
           /\ DOMAIN pool.slots \subseteq DOMAIN pool'.slots
           /\ mark' \in Mark /\ mark'.epoch = clock
           /\ clock' \in Nat /\ clock' = clock + 1
           /\ taken' \subseteq [id: HandleType, element: Nat]
           /\ IndexHoldsTheLive'
           /\ HandlesPast => HandlesPast'
<1>1. /\ pool' = effect.pool /\ index' = effect.index
      /\ taken' = taken \cup Named(pool')
      /\ mark' = Fresh /\ clock' = clock + 1
  BY DEF Takes, Bump
<1>2. Leaves(pool', effect.delta, index', was)
  BY <1>1 DEF Sound
<1>3. /\ pool' \in Pool /\ Linked(pool')
      /\ DOMAIN pool.slots \subseteq DOMAIN pool'.slots
      /\ index' = LiveIndex(pool')
      /\ \A t \in [id: HandleType, element: Nat] : Past(pool, t) => Past(pool', t)
  BY <1>2 DEF Leaves
<1>4. mark' \in Mark /\ mark'.epoch = clock /\ clock' \in Nat
  BY <1>1 DEF GestureIInv, GestureTypeOK, Mark, Fresh
<1>5. IndexHoldsTheLive'
  BY <1>3 DEF IndexHoldsTheLive, LiveIndex
<1>6. Named(pool') \subseteq [id: HandleType, element: Nat] /\ \A t \in Named(pool') : Past(pool', t)
  BY <1>3, NamedPast
<1>7. taken \subseteq [id: HandleType, element: Nat]
  BY DEF GestureIInv, GestureTypeOK
<1>8. HandlesPast => HandlesPast'
  BY <1>1, <1>3, <1>6, <1>7 DEF HandlesPast
<1>9. QED
  BY <1>1, <1>3, <1>4, <1>5, <1>6, <1>7, <1>8

\* Initially there are two faces, nothing is dead and nothing recorded.
LEMMA GestureInit == Init => GestureIInv /\ HandlesPast
<1> SUFFICES ASSUME Init PROVE GestureIInv /\ HandlesPast
  OBVIOUS
<1> DEFINE new(s) == [value |-> [element |-> s, at |-> 0], generation |-> 0,
                      next |-> NoSlot, live |-> TRUE]
<1>1. /\ DOMAIN pool.slots = 1..2 /\ \A s \in 1..2 : pool.slots[s] = new(s)
      /\ pool.slots = [s \in 1..2 |-> pool.slots[s]]
      /\ pool = [slots |-> pool.slots, head |-> NoSlot, dead |-> 0]
  BY DEF Init
<1>2. \A s \in 1..2 : new(s) \in Slot /\ new(s).live /\ new(s).generation = 0
  BY DEF Slot, Value, NoSlot
<1> HIDE DEF new
<1>3. pool.slots \in Seq(Slot)
  <2>1. pool.slots \in [1..2 -> Slot]
    BY <1>1, <1>2
  <2>2. \A n \in Nat : [1..n -> Slot] \subseteq Seq(Slot)
    OBVIOUS
  <2>3. QED
    BY <2>1, <2>2
<1>4. pool \in Pool
  <2>1. pool.head \in Nat /\ pool.dead \in Nat
    BY <1>1 DEF NoSlot
  <2>2. DOMAIN pool = {"slots", "head", "dead"} /\ pool = [x \in DOMAIN pool |-> pool[x]]
    BY DEF Init
  <2>3. QED
    BY <1>3, <2>1, <2>2, FieldsMakeAPool
<1>5. LiveSlots(pool) = 1..2 /\ DeadSlots(pool) = {}
  BY <1>1, <1>2 DEF DeadSlots, LiveSlots
<1>6. Linked(pool)
  <2>1. pool.dead = 0 /\ pool.head = NoSlot
    BY <1>1
  <2>2. pool.dead = Cardinality(DeadSlots(pool))
    BY <1>5, <2>1, FS_EmptySet
  <2> DEFINE rank == [s \in DeadSlots(pool) |-> 1]
  <2>3. rank \in [DeadSlots(pool) -> 1..pool.dead]
    BY <1>5
  <2>4. Ranks(pool, rank)
    BY <1>5, <2>1 DEF Ranks
  <2>5. QED
    BY <2>2, <2>3, <2>4 DEF Linked
<1>7. mark \in Mark /\ mark.epoch = 2 /\ clock = 3
  BY DEF Init, Mark
<1>8. Kept = {} /\ records = [r \in Records |-> records[r]]
  BY DEF Init, Kept
<1>9. taken = Named(pool)
  BY DEF Init
<1>10. GestureTypeOK /\ HandlesPast
  BY <1>4, <1>7, <1>8, <1>9, NamedPast DEF GestureTypeOK, HandlesPast
<1>11. Ends = {<<mark, Contents(pool)>>}
  BY <1>8 DEF Ends
<1>12. MarksNameContents
  BY <1>7, <1>11 DEF MarksNameContents
<1>13. DeltasLead
  BY <1>8 DEF DeltasLead
<1>14. IndexHoldsTheLive
  <2>1. \A s \in 1..2 : HandleAt(pool, s) = Handle(s, 0)
    BY <1>1, <1>2 DEF HandleAt
  <2>2. index = [s \in 1..2 |-> Handle(s, 0)]
    BY DEF Init
  <2>3. QED
    BY <1>5, <2>1, <2>2 DEF IndexHoldsTheLive
<1>15. QED
  BY <1>6, <1>10, <1>12, <1>13, <1>14 DEF GestureIInv

\* stamp_recorded.
LEMMA StampRecordedKeeps ==
    ASSUME GestureIInv, NEW r \in Records, StampRecorded(r)
    PROVE  GestureIInv' /\ (HandlesPast => HandlesPast')
<1> DEFINE rec == records[r]
           begun == Begun(rec)
           before == begun.before
           was == begun.was
<1>1. /\ pool \in Pool /\ mark \in Mark /\ clock \in Nat /\ Linked(pool)
      /\ IndexHoldsTheLive /\ records = [x \in Records |-> records[x]]
      /\ \A x \in Kept : RecordType(records[x])
  BY DEF GestureIInv, GestureTypeOK
<1>2. /\ DeltaType(rec.delta) /\ DOMAIN rec.delta \subseteq DOMAIN pool.slots
      /\ before \in Mark /\ ContentType(was) /\ <<before, was>> \in Ends
      /\ Leads(rec.delta, was, Contents(pool))
      /\ DOMAIN begun = DOMAIN NoRecord
  <2>1. CASE rec.delta = EmptyDelta
    <3>1. rec = NoRecord
      BY <2>1, EmptyIsNone DEF GestureIInv
    <3>2. /\ DOMAIN begun = DOMAIN NoRecord
          /\ begun.before = mark /\ begun.was = Contents(pool)
      BY <2>1, <3>1 DEF Begun, NoRecord
    <3>3. DOMAIN EmptyDelta = {} /\ DeltaType(EmptyDelta)
      BY DEF EmptyDelta, DeltaType
    <3>4. Leads(EmptyDelta, Contents(pool), Contents(pool))
      BY <3>3 DEF Leads
    <3>5. before = mark /\ was = Contents(pool)
      BY <3>2
    <3>6. ContentType(was) /\ <<before, was>> \in Ends
      BY <1>1, <3>5, ContentsType DEF Ends
    <3> HIDE DEF before, was, begun
    <3>7. QED
      BY <1>1, <2>1, <3>2, <3>3, <3>4, <3>5, <3>6 DEF begun
  <2>2. CASE rec.delta # EmptyDelta
    <3>1. r \in Kept
      BY <2>2 DEF Kept, NoRecord
    <3>2. RecordType(rec) /\ begun = rec
      BY <1>1, <2>2, <3>1 DEF Begun
    <3>3. rec.after = mark
      BY <2>2 DEF StampRecorded, CanCapture
    <3>4. <<rec.after, rec.became>> \in Ends /\ <<mark, Contents(pool)>> \in Ends
          /\ <<rec.before, rec.was>> \in Ends
      BY <3>1 DEF Ends
    <3>5. rec.became = Contents(pool)
      BY <3>3, <3>4 DEF GestureIInv, MarksNameContents
    <3>6. Leads(rec.delta, rec.was, Contents(pool))
      BY <3>1, <3>5 DEF GestureIInv, DeltasLead
    <3>7. /\ DeltaType(rec.delta) /\ DOMAIN rec.delta \subseteq DOMAIN pool.slots
          /\ rec.before \in Mark /\ ContentType(rec.was) /\ DOMAIN rec = DOMAIN NoRecord
      BY <3>2 DEF RecordType
    <3>8. QED
      BY <3>2, <3>4, <3>6, <3>7
  <2>3. QED
    BY <2>1, <2>2
<1> HIDE DEF begun
<1>3. PICK effect \in Effects(rec.delta) :
         /\ Takes(effect)
         /\ Bump
         /\ records' = [records EXCEPT ![r] =
                [begun EXCEPT !.delta = effect.delta, !.after = Fresh,
                              !.became = Contents(effect.pool)]]
  BY DEF StampRecorded, begun
<1>4. Sound(effect, was)
  BY <1>1, <1>2, EffectsSound
<1>5. /\ pool' \in Pool /\ Linked(pool')
      /\ DOMAIN pool.slots \subseteq DOMAIN pool'.slots
      /\ mark' \in Mark /\ mark'.epoch = clock
      /\ clock' \in Nat /\ clock' = clock + 1
      /\ taken' \subseteq [id: HandleType, element: Nat]
      /\ IndexHoldsTheLive'
      /\ HandlesPast => HandlesPast'
  BY <1>3, <1>4, Stamped
<1> DEFINE new == [begun EXCEPT !.delta = effect.delta, !.after = Fresh,
                                !.became = Contents(effect.pool)]
<1>6. effect.pool = pool' /\ Fresh = mark'
  BY <1>3 DEF Takes, Bump
<1>7. records' = [records EXCEPT ![r] = new]
  BY <1>3
<1>8. /\ records' = [x \in Records |-> records'[x]]
      /\ records'[r] = new
      /\ \A x \in Records : x # r => records'[x] = records[x]
  BY <1>1, <1>7
<1>9. /\ DeltaType(effect.delta) /\ DOMAIN effect.delta \subseteq DOMAIN pool'.slots
      /\ effect.delta # EmptyDelta
      /\ Leads(effect.delta, was, Contents(pool'))
  BY <1>4, <1>6 DEF Sound, Leaves
<1>10. /\ new.delta = effect.delta /\ new.before = before /\ new.after = mark'
       /\ new.was = was /\ new.became = Contents(pool')
       /\ DOMAIN new = DOMAIN NoRecord
  BY <1>2, <1>6 DEF NoRecord
<1> HIDE DEF new, before, was
<1>11. new # NoRecord
  BY <1>9, <1>10 DEF NoRecord
<1>12. \A x \in Kept' : x = r \/ (x # r /\ x \in Kept /\ records'[x] = records[x])
  BY <1>8 DEF Kept
<1>13. \A x \in Kept' : RecordType(records[x])'
  <2> SUFFICES ASSUME NEW x \in Kept' PROVE RecordType(records[x])'
    OBVIOUS
  <2>1. CASE x = r
    BY <1>2, <1>5, <1>8, <1>9, <1>10, <2>1, ContentsType DEF RecordType
  <2>2. CASE x # r
    <3>1. RecordType(records[x]) /\ records'[x] = records[x]
      BY <1>1, <1>12, <2>2
    <3>2. QED
      BY <1>5, <3>1 DEF RecordType
  <2>3. QED
    BY <2>1, <2>2
<1>14. GestureTypeOK'
  BY <1>5, <1>8, <1>13 DEF GestureTypeOK
<1>15. Ends' \subseteq Ends \cup {<<mark', Contents(pool')>>}
  <2> SUFFICES ASSUME NEW x \in Kept'
               PROVE  {<<records'[x].before, records'[x].was>>,
                       <<records'[x].after, records'[x].became>>}
                      \subseteq Ends \cup {<<mark', Contents(pool')>>}
    BY DEF Ends
  <2>1. CASE x = r
    BY <1>2, <1>8, <1>10, <2>1
  <2>2. CASE x # r
    BY <1>12, <2>2 DEF Ends
  <2>3. QED
    BY <2>1, <2>2
<1>16. MarksNameContents'
  BY <1>5, <1>15, EndsGrow DEF GestureIInv
<1>17. DeltasLead'
  <2> SUFFICES ASSUME NEW x \in Kept'
               PROVE  Leads(records'[x].delta, records'[x].was, records'[x].became)
    BY DEF DeltasLead
  <2>1. CASE x = r
    BY <1>8, <1>9, <1>10, <2>1
  <2>2. CASE x # r
    BY <1>12, <2>2 DEF GestureIInv, DeltasLead
  <2>3. QED
    BY <2>1, <2>2
<1>18. QED
  BY <1>5, <1>14, <1>16, <1>17 DEF GestureIInv

\* What leaves the records alone and the pool no smaller keeps their types and
\* what they lead to.
LEMMA RecordsStay ==
    ASSUME GestureIInv, UNCHANGED records, DOMAIN pool.slots \subseteq DOMAIN pool'.slots
    PROVE  /\ Kept' = Kept
           /\ records' = [r \in Records |-> records'[r]]
           /\ \A r \in Kept' : RecordType(records[r])'
           /\ DeltasLead'
           /\ Ends' \subseteq Ends \cup {<<mark', Contents(pool')>>}
<1>1. Kept' = Kept
  BY DEF Kept
<1>2. records' = [r \in Records |-> records'[r]]
  BY DEF GestureIInv, GestureTypeOK
<1>3. \A r \in Kept' : RecordType(records[r])'
  <2> SUFFICES ASSUME NEW r \in Kept' PROVE RecordType(records[r])'
    OBVIOUS
  <2>1. RecordType(records[r]) /\ records'[r] = records[r]
    BY <1>1 DEF GestureIInv, GestureTypeOK
  <2>2. QED
    BY <2>1 DEF RecordType
<1>4. DeltasLead'
  BY <1>1 DEF GestureIInv, DeltasLead
<1>5. Ends' \subseteq Ends \cup {<<mark', Contents(pool')>>}
  BY <1>1 DEF Ends
<1>6. QED
  BY <1>1, <1>2, <1>3, <1>4, <1>5

\* stamp.
LEMMA StampKeeps ==
    ASSUME GestureIInv, Stamp
    PROVE  GestureIInv' /\ (HandlesPast => HandlesPast')
<1>1. PICK effect \in Effects(EmptyDelta) : Takes(effect)
  BY DEF Stamp
<1>2. Bump /\ UNCHANGED records
  BY DEF Stamp
<1>3. DOMAIN EmptyDelta = {} /\ DeltaType(EmptyDelta)
  BY DEF EmptyDelta, DeltaType
<1>4. Leads(EmptyDelta, Contents(pool), Contents(pool))
  BY <1>3 DEF Leads
<1>5. Sound(effect, Contents(pool))
  BY <1>3, <1>4, EffectsSound DEF GestureIInv, GestureTypeOK
<1>6. /\ pool' \in Pool /\ Linked(pool')
      /\ DOMAIN pool.slots \subseteq DOMAIN pool'.slots
      /\ mark' \in Mark /\ mark'.epoch = clock
      /\ clock' \in Nat /\ clock' = clock + 1
      /\ taken' \subseteq [id: HandleType, element: Nat]
      /\ IndexHoldsTheLive'
      /\ HandlesPast => HandlesPast'
  BY <1>1, <1>2, <1>5, Stamped
<1>7. GestureTypeOK' /\ DeltasLead'
  BY <1>2, <1>6, RecordsStay DEF GestureTypeOK
<1>8. MarksNameContents'
  BY <1>2, <1>6, RecordsStay, EndsGrow DEF GestureIInv
<1>9. QED
  BY <1>6, <1>7, <1>8 DEF GestureIInv

\* A pool holds what the end of a record says it does when its slots do.
LEMMA ContentsOfEnd ==
    ASSUME NEW c, ContentType(c), NEW q, LiveSlots(q) = DOMAIN c,
           \A s \in DOMAIN c : c[s] = [generation |-> q.slots[s].generation,
                                       value |-> q.slots[s].value]
    PROVE  Contents(q) = c
<1>1. c = [s \in DOMAIN c |-> c[s]]
  BY DEF ContentType
<1>2. QED
  BY <1>1 DEF Contents

\* What a replay puts back is the end of the record it goes to.
LEMMA ReplayReaches ==
    ASSUME pool \in Pool, NEW delta, DeltaType(delta), DOMAIN delta \subseteq DOMAIN pool.slots,
           NEW was, NEW became, ContentType(was), ContentType(became), Leads(delta, was, became),
           NEW revert \in BOOLEAN, Contents(pool) = IF revert THEN became ELSE was
    PROVE  Contents(RestoreKind(pool, delta, revert)) = IF revert THEN was ELSE became
<1> DEFINE q == RestoreKind(pool, delta, revert)
           c == IF revert THEN was ELSE became
           o == IF revert THEN became ELSE was
<1>1. /\ DOMAIN q.slots = DOMAIN pool.slots
      /\ \A x \in DOMAIN pool.slots \ DOMAIN delta :
            /\ q.slots[x].live = pool.slots[x].live
            /\ q.slots[x].value = pool.slots[x].value
            /\ q.slots[x].generation = pool.slots[x].generation
      /\ \A x \in DOMAIN delta :
            /\ q.slots[x].live <=> EndExists(delta, revert, x)
            /\ EndExists(delta, revert, x) =>
                  /\ q.slots[x].value = EndValue(delta, revert, x)
                  /\ q.slots[x].generation = EndId(delta, revert, x).generation
  BY RestoreReplays
<1> HIDE DEF q
<1>2. \A x \in DOMAIN delta :
         /\ EndExists(delta, revert, x) <=> x \in DOMAIN c
         /\ x \in DOMAIN c => c[x] = [generation |-> EndId(delta, revert, x).generation,
                                      value |-> EndValue(delta, revert, x)]
  BY DEF Leads, Says, EndExists, EndId, EndValue
<1>3. \A x : x \notin DOMAIN delta =>
         /\ x \in DOMAIN c <=> x \in DOMAIN o
         /\ x \in DOMAIN c => c[x] = o[x]
  BY DEF Leads
<1>4. ContentType(c)
  OBVIOUS
<1>5. DOMAIN o = LiveSlots(pool)
      /\ \A x \in LiveSlots(pool) : o[x] = [generation |-> pool.slots[x].generation,
                                            value |-> pool.slots[x].value]
  BY ContentsSay
<1> HIDE DEF c, o
<1>6. LiveSlots(q) = DOMAIN c
  <2>1. \A x \in DOMAIN delta : x \in DOMAIN q.slots /\ (x \in LiveSlots(q) <=> x \in DOMAIN c)
    BY <1>1, <1>2 DEF LiveSlots
  <2>2. \A x : x \notin DOMAIN delta => (x \in LiveSlots(q) <=> x \in LiveSlots(pool))
    BY <1>1 DEF LiveSlots
  <2>3. QED
    BY <1>3, <1>5, <2>1, <2>2
<1>7. \A s \in DOMAIN c : c[s] = [generation |-> q.slots[s].generation,
                                  value |-> q.slots[s].value]
  <2> SUFFICES ASSUME NEW s \in DOMAIN c
               PROVE  c[s] = [generation |-> q.slots[s].generation, value |-> q.slots[s].value]
    OBVIOUS
  <2>1. CASE s \in DOMAIN delta
    BY <1>1, <1>2, <2>1
  <2>2. CASE s \notin DOMAIN delta
    <3>1. s \in LiveSlots(pool) /\ c[s] = o[s]
      BY <1>3, <1>5, <2>2
    <3>2. QED
      BY <1>1, <1>5, <2>2, <3>1 DEF LiveSlots
  <2>3. QED
    BY <2>1, <2>2
<1>8. Contents(q) = c
  BY <1>4, <1>6, <1>7, ContentsOfEnd
<1>9. QED
  BY <1>8 DEF c, q

\* replay.
LEMMA ReplayKeeps ==
    ASSUME GestureIInv, NEW r \in Records, NEW revert \in BOOLEAN, Replay(r, revert)
    PROVE  GestureIInv' /\ ("keepHandles" \notin Calls /\ HandlesPast => HandlesPast')
<1> DEFINE rec == records[r]
           delta == rec.delta
           q == RestoreKind(pool, delta, revert)
           target == IF revert THEN rec.before ELSE rec.after
           source == IF revert THEN rec.after ELSE rec.before
           Target(s) == IF revert THEN delta[s].beforeId ELSE delta[s].afterId
           ids == {Target(s) : s \in DOMAIN delta}
<1>1. /\ Guard(rec, revert) = "Applied"
      /\ pool' = q /\ index' = Reindexed(index, q, ids, DOMAIN delta)
      /\ mark' = target
      /\ taken' = IF "keepHandles" \in Calls THEN taken ELSE Named(q)
      /\ clock' = clock /\ records' = records
  BY DEF Replay
<1>2. delta # EmptyDelta /\ mark = source
  BY <1>1 DEF Guard
<1>3. r \in Kept
  BY <1>2 DEF Kept, NoRecord
<1>4. RecordType(rec) /\ pool \in Pool /\ Linked(pool) /\ clock \in Nat
      /\ Leads(delta, rec.was, rec.became)
  BY <1>3 DEF GestureIInv, GestureTypeOK, DeltasLead
<1>5. DeltaType(delta) /\ DOMAIN delta \subseteq DOMAIN pool.slots
      /\ ContentType(rec.was) /\ ContentType(rec.became) /\ target \in Mark
  BY <1>4 DEF RecordType
<1>6. Contents(pool) = IF revert THEN rec.became ELSE rec.was
  <2>1. <<rec.before, rec.was>> \in Ends /\ <<rec.after, rec.became>> \in Ends
        /\ <<mark, Contents(pool)>> \in Ends
    BY <1>3 DEF Ends
  <2>2. QED
    BY <1>2, <2>1 DEF GestureIInv, MarksNameContents
<1>7. Contents(q) = IF revert THEN rec.was ELSE rec.became
  BY <1>4, <1>5, <1>6, ReplayReaches
<1>8. /\ q \in Pool /\ Linked(q)
      /\ DOMAIN q.slots = DOMAIN pool.slots
      /\ \A x \in DOMAIN pool.slots \ DOMAIN delta :
            /\ q.slots[x].live = pool.slots[x].live
            /\ q.slots[x].generation = pool.slots[x].generation
      /\ \A x \in DOMAIN delta :
            /\ q.slots[x].live <=> EndExists(delta, revert, x)
            /\ EndExists(delta, revert, x) =>
                  q.slots[x].generation = EndId(delta, revert, x).generation
  BY <1>4, <1>5, RestoreReplays
<1>9. ids \subseteq HandleType /\ \A s \in DOMAIN delta : Target(s) \in ids /\ Target(s).slot = s
      /\ Target(s) = EndId(delta, revert, s) /\ Target(s) \in HandleType
  BY <1>5 DEF DeltaType, Entry, EndId
<1> HIDE DEF q, ids, Target
<1>10. IndexHoldsTheLive'
  <2> DEFINE i == Unindexed(index, DOMAIN delta)
  <2>1. DOMAIN i = LiveSlots(pool) \ DOMAIN delta
        /\ \A s \in DOMAIN i : i[s] = HandleAt(pool, s)
    BY DEF GestureIInv, IndexHoldsTheLive, Unindexed
  <2>2. index' = Indexed(i, q, ids)
    BY <1>1 DEF Reindexed
  <2> HIDE DEF i
  <2>3. \A s : s \notin DOMAIN delta => (s \in LiveSlots(q) <=> s \in LiveSlots(pool))
    BY <1>8 DEF LiveSlots
  <2>4. DOMAIN i \subseteq LiveSlots(q) /\ \A s \in DOMAIN i : i[s] = HandleAt(q, s)
    BY <1>8, <2>1, <2>3 DEF HandleAt, LiveSlots
  <2>5. \A s \in LiveSlots(q) \ DOMAIN i : HandleAt(q, s) \in ids
    <3> SUFFICES ASSUME NEW s \in LiveSlots(q) \ DOMAIN i PROVE HandleAt(q, s) \in ids
      OBVIOUS
    <3>1. s \in DOMAIN delta
      BY <2>1, <2>3
    <3>2. q.slots[s].generation = Target(s).generation
      BY <1>8, <1>9, <3>1 DEF LiveSlots
    <3>3. HandleAt(q, s) = Target(s)
      BY <1>9, <3>1, <3>2 DEF HandleAt, Handle, HandleType
    <3>4. QED
      BY <1>9, <3>1, <3>3
  <2>6. QED
    BY <1>1, <1>8, <1>9, <2>2, <2>4, <2>5, IndexedLive DEF IndexHoldsTheLive
<1>11. DOMAIN pool.slots \subseteq DOMAIN pool'.slots
  BY <1>1, <1>8
<1>12. /\ Kept' = Kept
       /\ records' = [x \in Records |-> records'[x]]
       /\ \A x \in Kept' : RecordType(records[x])'
       /\ DeltasLead'
       /\ Ends' \subseteq Ends \cup {<<mark', Contents(pool')>>}
  BY <1>1, <1>11, RecordsStay
<1>13. taken' \subseteq [id: HandleType, element: Nat]
       /\ ("keepHandles" \notin Calls /\ HandlesPast => HandlesPast')
  <2>1. Named(q) \subseteq [id: HandleType, element: Nat] /\ \A t \in Named(q) : Past(q, t)
    BY <1>8, NamedPast
  <2>2. taken \subseteq [id: HandleType, element: Nat]
    BY DEF GestureIInv, GestureTypeOK
  <2>3. QED
    BY <1>1, <2>1, <2>2 DEF HandlesPast
<1>14. GestureTypeOK'
  BY <1>1, <1>4, <1>5, <1>8, <1>12, <1>13 DEF GestureTypeOK
<1>15. MarksNameContents'
  <2>1. <<mark', Contents(pool')>> \in Ends
    <3>1. <<rec.before, rec.was>> \in Ends /\ <<rec.after, rec.became>> \in Ends
      BY <1>3 DEF Ends
    <3>2. QED
      BY <1>1, <1>7, <3>1
  <2>2. Ends' \subseteq Ends
    BY <1>12, <2>1
  <2>3. QED
    BY <1>1, <2>2 DEF GestureIInv, MarksNameContents
<1>16. QED
  BY <1>1, <1>8, <1>10, <1>12, <1>13, <1>14, <1>15 DEF GestureIInv

\* clear.
LEMMA ClearRecordKeeps ==
    ASSUME GestureIInv, NEW r \in Records, ClearRecord(r)
    PROVE  GestureIInv' /\ (HandlesPast => HandlesPast')
<1>1. /\ records' = [records EXCEPT ![r] = NoRecord]
      /\ UNCHANGED <<pool, mark, clock, index, taken>>
  BY DEF ClearRecord
<1>2. records = [x \in Records |-> records[x]]
  BY DEF GestureIInv, GestureTypeOK
<1>3. /\ records' = [x \in Records |-> records'[x]] /\ records'[r] = NoRecord
      /\ \A x \in Records : x # r => records'[x] = records[x]
  BY <1>1, <1>2
<1>4. \A x \in Kept' : x \in Kept /\ records'[x] = records[x]
  BY <1>3 DEF Kept
<1>5. \A x \in Kept' : RecordType(records[x])'
  <2> SUFFICES ASSUME NEW x \in Kept' PROVE RecordType(records[x])'
    OBVIOUS
  <2>1. RecordType(records[x]) /\ records'[x] = records[x]
    BY <1>4 DEF GestureIInv, GestureTypeOK
  <2>2. QED
    BY <1>1, <2>1 DEF RecordType
<1>6. GestureTypeOK'
  BY <1>1, <1>3, <1>5 DEF GestureIInv, GestureTypeOK
<1>7. Ends' \subseteq Ends
  BY <1>1, <1>4 DEF Ends
<1>8. MarksNameContents'
  BY <1>1, <1>7 DEF GestureIInv, MarksNameContents
<1>9. DeltasLead'
  BY <1>4 DEF GestureIInv, DeltasLead
<1>10. Linked(pool)' /\ IndexHoldsTheLive'
  BY <1>1 DEF GestureIInv, IndexHoldsTheLive
<1>11. HandlesPast => HandlesPast'
  BY <1>1 DEF HandlesPast
<1>12. QED
  BY <1>6, <1>8, <1>9, <1>10, <1>11 DEF GestureIInv

\* Encoding and decoding.
LEMMA ReloadKeeps ==
    ASSUME GestureIInv, Reload
    PROVE  GestureIInv' /\ HandlesPast'
<1> DEFINE kept == [s \in DOMAIN pool.slots |->
                       IF pool.slots[s].live THEN pool.slots[s]
                       ELSE [pool.slots[s] EXCEPT !.generation = 0]]
           p == [pool EXCEPT !.slots = kept]
           q == RebuildFreeList(p)
<1>1. /\ pool' = q
      /\ mark' = [lineage |-> mark.lineage + 1, epoch |-> clock]
      /\ clock' = clock + 1
      /\ index' = [s \in LiveSlots(pool) |-> HandleAt(pool, s)]
      /\ taken' = Named(pool')
      /\ UNCHANGED records
  BY DEF Reload
<1>2. pool \in Pool /\ mark \in Mark /\ clock \in Nat
  BY DEF GestureIInv, GestureTypeOK
<1>3. p.slots = kept
  BY <1>2 DEF Pool
<1>4. /\ kept \in Slots /\ DOMAIN kept = DOMAIN pool.slots
      /\ \A s \in DOMAIN pool.slots :
            /\ kept[s].live = pool.slots[s].live
            /\ pool.slots[s].live => kept[s] = pool.slots[s]
  <2>1. \A s \in DOMAIN pool.slots : /\ kept[s] \in Slot
                                     /\ kept[s].live = pool.slots[s].live
    <3> SUFFICES ASSUME NEW s \in DOMAIN pool.slots
                 PROVE  kept[s] \in Slot /\ kept[s].live = pool.slots[s].live
      OBVIOUS
    <3>1. pool.slots[s] \in Slot
      BY <1>2, PoolSlots
    <3>2. kept[s] = IF pool.slots[s].live THEN pool.slots[s]
                    ELSE [pool.slots[s] EXCEPT !.generation = 0]
      OBVIOUS
    <3> HIDE DEF kept
    <3>3. QED
      BY <3>1, <3>2 DEF Slot
  <2>2. PICK n \in Nat : DOMAIN pool.slots = 1..n
    BY <1>2 DEF Pool
  <2>3. kept \in [1..n -> Slot]
    BY <2>1, <2>2
  <2>4. \A m \in Nat : [1..m -> Slot] \subseteq Seq(Slot)
    OBVIOUS
  <2> HIDE DEF kept
  <2>5. kept \in Slots
    BY <2>2, <2>3, <2>4 DEF Slots
  <2>6. DOMAIN kept = DOMAIN pool.slots
    BY DEF kept
  <2>7. QED
    BY <2>1, <2>5, <2>6 DEF kept
<1> HIDE DEF kept, p
<1>5. /\ q \in Pool /\ Linked(q)
      /\ DOMAIN q.slots = DOMAIN kept
      /\ \A s \in DOMAIN kept : /\ q.slots[s].live = kept[s].live
                                /\ q.slots[s].generation = kept[s].generation
  BY <1>3, <1>4, RebuildLinks
<1> HIDE DEF q
<1>6. LiveSlots(q) = LiveSlots(pool) /\ \A s \in LiveSlots(q) : HandleAt(q, s) = HandleAt(pool, s)
  BY <1>4, <1>5 DEF LiveSlots, HandleAt
<1>7. IndexHoldsTheLive'
  BY <1>1, <1>6 DEF IndexHoldsTheLive
<1>8. DOMAIN pool.slots \subseteq DOMAIN pool'.slots
  BY <1>1, <1>4, <1>5
<1>9. mark' \in Mark /\ mark'.epoch = clock /\ clock' \in Nat
  BY <1>1, <1>2 DEF Mark
<1>10. taken' \subseteq [id: HandleType, element: Nat] /\ HandlesPast'
  BY <1>1, <1>5, NamedPast DEF HandlesPast
<1>11. GestureTypeOK' /\ DeltasLead'
  BY <1>1, <1>5, <1>8, <1>9, <1>10, RecordsStay DEF GestureTypeOK
<1>12. MarksNameContents'
  BY <1>1, <1>8, <1>9, RecordsStay, EndsGrow DEF GestureIInv
<1>13. QED
  BY <1>1, <1>5, <1>7, <1>10, <1>11, <1>12 DEF GestureIInv

\* A step that changes nothing.
LEMMA GestureStutters ==
    ASSUME GestureIInv, UNCHANGED vars
    PROVE  GestureIInv' /\ (HandlesPast => HandlesPast')
<1>1. /\ pool' = pool /\ mark' = mark /\ clock' = clock /\ index' = index
      /\ records' = records /\ taken' = taken
  BY DEF vars
<1>2. DOMAIN pool.slots \subseteq DOMAIN pool'.slots
  BY <1>1
<1>3. GestureTypeOK' /\ DeltasLead'
  BY <1>1, <1>2, RecordsStay DEF GestureIInv, GestureTypeOK
<1>4. Ends' = Ends
  BY <1>1 DEF Ends, Kept
<1>5. MarksNameContents'
  BY <1>1, <1>4 DEF GestureIInv, MarksNameContents
<1>6. Linked(pool)' /\ IndexHoldsTheLive' /\ (HandlesPast => HandlesPast')
  BY <1>1 DEF GestureIInv, IndexHoldsTheLive, HandlesPast
<1>7. QED
  BY <1>3, <1>5, <1>6 DEF GestureIInv

\* Every step keeps the invariant.
LEMMA GestureStep == GestureIInv /\ [Next]_vars => GestureIInv'
<1> SUFFICES ASSUME GestureIInv, [Next]_vars PROVE GestureIInv'
  OBVIOUS
<1>1. ASSUME NEW r \in Records, StampRecorded(r) PROVE GestureIInv'
  BY <1>1, StampRecordedKeeps
<1>2. ASSUME NEW r \in Records, NEW revert \in BOOLEAN, Replay(r, revert) PROVE GestureIInv'
  BY <1>2, ReplayKeeps
<1>3. ASSUME NEW r \in Records, ClearRecord(r) PROVE GestureIInv'
  BY <1>3, ClearRecordKeeps
<1>4. CASE Stamp
  BY <1>4, StampKeeps
<1>5. CASE Reload
  BY <1>5, ReloadKeeps
<1>6. CASE UNCHANGED vars
  BY <1>6, GestureStutters
<1>7. QED
  BY <1>1, <1>2, <1>3, <1>4, <1>5, <1>6 DEF Next

\* Every step of a host that takes its handles again after a replay keeps them
\* naming their elements.
LEMMA HandlesStep ==
    ASSUME "keepHandles" \notin Calls
    PROVE  GestureIInv /\ HandlesPast /\ [Next]_vars => HandlesPast'
<1> SUFFICES ASSUME GestureIInv, HandlesPast, [Next]_vars PROVE HandlesPast'
  OBVIOUS
<1>1. ASSUME NEW r \in Records, StampRecorded(r) PROVE HandlesPast'
  BY <1>1, StampRecordedKeeps
<1>2. ASSUME NEW r \in Records, NEW revert \in BOOLEAN, Replay(r, revert) PROVE HandlesPast'
  BY <1>2, ReplayKeeps
<1>3. ASSUME NEW r \in Records, ClearRecord(r) PROVE HandlesPast'
  BY <1>3, ClearRecordKeeps
<1>4. CASE Stamp
  BY <1>4, StampKeeps
<1>5. CASE Reload
  BY <1>5, ReloadKeeps
<1>6. CASE UNCHANGED vars
  BY <1>6, GestureStutters
<1>7. QED
  BY <1>1, <1>2, <1>3, <1>4, <1>5, <1>6 DEF Next

-----------------------------------------------------------------------------
(* The theorems.                                                           *)

\* Whatever is stamped, replayed, cleared and reloaded: the pool's list is in
\* order, every mark stands for one contents, every record leads from the one
\* it began at to the one it ended at, and the index is the live faces.
THEOREM GestureInvariant == Spec => []GestureIInv
<1>1. Init => GestureIInv
  BY GestureInit
<1>2. GestureIInv /\ [Next]_vars => GestureIInv'
  BY GestureStep
<1>3. QED
  BY <1>1, <1>2, PTL DEF Spec

\* free_list_intact holds of every surface: create never walks for ever and
\* never hands out a live slot.
THEOREM FreeListAlwaysHolds == Spec => []FreeListHolds
<1>1. GestureIInv => FreeListHolds
  BY LinkedIsIntact DEF GestureIInv, GestureTypeOK, FreeListHolds
<1>2. QED
  BY <1>1, GestureInvariant, PTL

\* A surface marked with the end of a record holds what the record had there:
\* revert and apply land on the state the gesture left, to the handle.
THEOREM RecordEndsAlwaysAre == Spec => []RecordEndsAreTheState
<1>1. GestureIInv => RecordEndsAreTheState
  <2> SUFFICES ASSUME GestureIInv, NEW r \in Records
               PROVE  /\ mark = records[r].before => Contents(pool) = records[r].was
                      /\ mark = records[r].after => Contents(pool) = records[r].became
    BY DEF RecordEndsAreTheState
  <2>1. CASE r \in Kept
    <3>1. /\ <<mark, Contents(pool)>> \in Ends
          /\ <<records[r].before, records[r].was>> \in Ends
          /\ <<records[r].after, records[r].became>> \in Ends
      BY <2>1 DEF Ends
    <3>2. QED
      BY <3>1 DEF GestureIInv, MarksNameContents
  <2>2. CASE r \notin Kept
    <3>1. records[r].before = NoMark /\ records[r].after = NoMark
      BY <2>2 DEF Kept, NoRecord
    <3>2. mark # NoMark
      BY DEF GestureIInv, GestureTypeOK, Mark, NoMark
    <3>3. QED
      BY <3>1, <3>2
  <2>3. QED
    BY <2>1, <2>2
<1>2. QED
  BY <1>1, GestureInvariant, PTL

\* The face index holds the live faces by the handles they have now, through
\* every stamp, replay and reload.
THEOREM IndexAlwaysHolds == Spec => []IndexHoldsTheLive
<1>1. GestureIInv => IndexHoldsTheLive
  BY DEF GestureIInv
<1>2. QED
  BY <1>1, GestureInvariant, PTL

\* A handle names the element it was taken for or nothing, for a host that
\* takes its handles again after a replay: generations only grow otherwise.
THEOREM HandlesAlwaysName ==
    ASSUME "keepHandles" \notin Calls
    PROVE  Spec => []HandlesNameOneElement
<1>1. Init => GestureIInv /\ HandlesPast
  BY GestureInit
<1>2. GestureIInv /\ HandlesPast /\ [Next]_vars => GestureIInv' /\ HandlesPast'
  BY GestureStep, HandlesStep
<1>3. GestureIInv /\ HandlesPast => HandlesNameOneElement
  <2> SUFFICES ASSUME GestureIInv, HandlesPast, NEW t \in taken, Live(pool, t.id)
               PROVE  pool.slots[t.id.slot].value.element = t.element
    BY DEF HandlesNameOneElement
  <2>1. Past(pool, t) /\ t.id.slot \in DOMAIN pool.slots
        /\ pool.slots[t.id.slot].generation = t.id.generation
    BY DEF HandlesPast, Live
  <2>2. pool.slots[t.id.slot].generation \in Nat
    BY <2>1, PoolSlots DEF GestureIInv, GestureTypeOK
  <2>3. QED
    BY <2>1, <2>2 DEF Past
<1>4. QED
  BY <1>1, <1>2, <1>3, PTL DEF Spec
=============================================================================
