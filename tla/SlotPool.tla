------------------------------ MODULE SlotPool ------------------------------
(***************************************************************************)
(* mesh::SlotPool: storage whose indices survive unrelated deletions, with *)
(* a generation per slot and a free list linked through the dead slots.    *)
(*                                                                         *)
(* A pool is a record [slots, head, dead]; slots count from one and        *)
(* NoSlot ends the list.  A handle is a slot and the generation it had.    *)
(***************************************************************************)
EXTENDS Naturals, Sequences, FiniteSetsExt

NoSlot == 0
Handle(s, g) == [slot |-> s, generation |-> g]

Live(pool, id) ==
    /\ id.slot \in DOMAIN pool.slots
    /\ pool.slots[id.slot].live
    /\ pool.slots[id.slot].generation = id.generation

LiveSlots(pool) == {s \in DOMAIN pool.slots : pool.slots[s].live}
HandleAt(pool, s) == Handle(s, pool.slots[s].generation)   \* id_at
LiveHandles(pool) == {HandleAt(pool, s) : s \in LiveSlots(pool)}

\* What the handles of a pool name.
Contents(pool) ==
    [s \in LiveSlots(pool) |->
        [generation |-> pool.slots[s].generation, value |-> pool.slots[s].value]]

\* The free list from its head: link n, or NoSlot past the end.  One link
\* more than there are slots has to repeat one.
FreeList(pool) ==
    LET link[n \in 0..Len(pool.slots)] ==
            IF n = 0 THEN pool.head
            ELSE IF link[n - 1] = NoSlot THEN NoSlot
            ELSE pool.slots[link[n - 1]].next
    IN  link

\* free_list_intact: it names every dead slot, once, and nothing else.
FreeListIntact(pool) ==
    LET link == FreeList(pool)
        visited == {n \in DOMAIN link : link[n] # NoSlot}
    IN  /\ link[Len(pool.slots)] = NoSlot
        /\ \A n \in visited : ~pool.slots[link[n]].live
        /\ Cardinality(visited) = pool.dead

\* create passes over the links to slots that restore has revived.
FirstFree(pool) ==
    LET link == FreeList(pool)
        Stops(n) == link[n] = NoSlot \/ ~pool.slots[link[n]].live
    IN  link[Min({n \in DOMAIN link : Stops(n)})]

NewHandle(pool) ==
    IF FirstFree(pool) = NoSlot THEN Handle(Len(pool.slots) + 1, 0)
    ELSE HandleAt(pool, FirstFree(pool))

Create(pool, value) ==
    LET s == FirstFree(pool)
    IN  IF s = NoSlot
        THEN [pool EXCEPT !.head = NoSlot,
                          !.slots = Append(@, [value |-> value, generation |-> 0,
                                               next |-> NoSlot, live |-> TRUE])]
        ELSE [pool EXCEPT !.head = pool.slots[s].next,
                          !.slots[s].value = value,
                          !.slots[s].live = TRUE,
                          !.dead = @ - 1]

\* Mutant: the generation is left for the next owner of the slot.
EraseInPlace(pool, id) ==
    [pool EXCEPT !.slots[id.slot].live = FALSE,
                 !.slots[id.slot].next = pool.head,
                 !.head = id.slot,
                 !.dead = @ + 1]

\* erase, of a live handle: the generation moves at once.
Erase(pool, id) ==
    [pool EXCEPT !.slots[id.slot].live = FALSE,
                 !.slots[id.slot].generation = @ + 1,
                 !.slots[id.slot].next = pool.head,
                 !.head = id.slot,
                 !.dead = @ + 1]

Write(pool, id, value) == [pool EXCEPT !.slots[id.slot].value = value]

\* restore: a slot comes back in place and keeps its link.
Restore(pool, id, value) ==
    [pool EXCEPT !.slots[id.slot].value = value,
                 !.slots[id.slot].generation = id.generation,
                 !.slots[id.slot].live = TRUE,
                 !.dead = IF pool.slots[id.slot].live THEN @ ELSE @ - 1]

\* retire: pushed whatever the list already holds.
Retire(pool, id) ==
    IF ~pool.slots[id.slot].live THEN pool
    ELSE [pool EXCEPT !.slots[id.slot].live = FALSE,
                      !.slots[id.slot].generation = id.generation,
                      !.slots[id.slot].next = pool.head,
                      !.head = id.slot,
                      !.dead = @ + 1]

\* Mutant: a replay that trusts its two passes.
LinksLeft(pool) == pool

\* rebuild_free_list and decode_finish: every dead slot, lowest first.
RebuildFreeList(pool) ==
    LET dead == DOMAIN pool.slots \ LiveSlots(pool)
        After(s) == {d \in dead : d > s}
        Lowest(set) == IF set = {} THEN NoSlot ELSE Min(set)
    IN  [slots |-> [s \in DOMAIN pool.slots |->
                       IF s \in dead THEN [pool.slots[s] EXCEPT !.next = Lowest(After(s))]
                       ELSE pool.slots[s]],
         head  |-> Lowest(dead),
         dead  |-> Cardinality(dead)]
=============================================================================
