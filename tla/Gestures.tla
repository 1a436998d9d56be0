------------------------------ MODULE Gestures ------------------------------
(***************************************************************************)
(* Undo and redo of dynamic topology: mesh::TopologyDelta records what the *)
(* stamps of a gesture did to the slots of a surface, RecordedGesture adds *)
(* the marks it runs between, and DynamicSculptor replays it and keeps the *)
(* face index in step.                                                     *)
(*                                                                         *)
(* The four kinds of element go through the same templates; the pool here  *)
(* is the faces, the kind the index follows.  A surface's epoch is drawn   *)
(* from a counter that never rewinds.  A replay draws from it as well, and *)
(* sets the mark afterwards, so what it drew is never seen: the counter    *)
(* moves with the stamps alone.                                            *)
(***************************************************************************)
EXTENDS SlotPool, Functions

CONSTANTS Records,     \* the records a host keeps
          MaxEpoch,    \* bound on the states a surface is stamped into
          MaxSlots,    \* bound on the pool
          MaxLineage,  \* bound on reloads
          Calls        \* optional host behaviour of this run

ASSUME CallsAssumption == Calls \subseteq {"keepHandles"}

VARIABLES pool,     \* faces_
          mark,     \* mark_
          clock,    \* the process-wide epoch counter
          index,    \* DynamicBvh: the slots that have a leaf, and its handle
          records,  \* the host's RecordedGestures
          taken     \* handles the host holds, with the element each was taken for

vars == <<pool, mark, clock, index, records, taken>>

NoMark == [lineage |-> 0, epoch |-> 0]
EmptyDelta == [s \in {} |-> NoSlot]

\* `was` and `became` keep what the surface held at the two ends.
NoRecord == [delta |-> EmptyDelta, before |-> NoMark, after |-> NoMark,
             was |-> EmptyDelta, became |-> EmptyDelta]

-----------------------------------------------------------------------------
(* TopologyDelta: one entry a slot, the first `before`, the last `after`.  *)

Entered(delta, s, entry) == [x \in DOMAIN delta \cup {s} |-> IF x = s THEN entry ELSE delta[x]]

\* note_element
Note(delta, p, id) ==
    IF id.slot \in DOMAIN delta THEN delta
    ELSE LET v == p.slots[id.slot].value
         IN  Entered(delta, id.slot,
                [beforeId |-> id, afterId |-> id, before |-> v, after |-> v,
                 existedBefore |-> TRUE, existsAfter |-> TRUE])

\* note_new_element
NoteNew(delta, p, id) ==
    IF id.slot \in DOMAIN delta THEN delta
    ELSE LET v == p.slots[id.slot].value
         IN  Entered(delta, id.slot,
                [beforeId |-> id, afterId |-> id, before |-> v, after |-> v,
                 existedBefore |-> FALSE, existsAfter |-> TRUE])

\* sync_element, by the handle the operator had.
Sync(delta, p, id) ==
    LET slot == p.slots[id.slot]
    IN  IF slot.live
        THEN [delta EXCEPT ![id.slot].existsAfter = TRUE,
                           ![id.slot].after = slot.value,
                           ![id.slot].afterId = HandleAt(p, id.slot)]
        ELSE [delta EXCEPT ![id.slot].existsAfter = FALSE,
                           ![id.slot].afterId = id]

\* restore_kind: everything that must exist is revived, then everything that
\* must not is retired, then the free list is linked again.
RestoreKind(p, delta, toBefore) ==
    LET Exists(s) == IF toBefore THEN delta[s].existedBefore ELSE delta[s].existsAfter
        Id(s) == IF toBefore THEN delta[s].beforeId ELSE delta[s].afterId
        Value(s) == IF toBefore THEN delta[s].before ELSE delta[s].after
        Revive(s, q) == Restore(q, Id(s), Value(s))
        Kill(s, q) == Retire(q, Id(s))
        revived == FoldSet(Revive, p, {s \in DOMAIN delta : Exists(s)})
    IN  RebuildFreeList(FoldSet(Kill, revived, {s \in DOMAIN delta : ~Exists(s)}))

-----------------------------------------------------------------------------
(* The index: DynamicBvh::insert passes over a slot that has a leaf.       *)

Indexed(i, p, ids) ==
    LET new == {id \in ids : Live(p, id) /\ id.slot \notin DOMAIN i}
        At(s) == CHOOSE id \in new : id.slot = s
        added == {id.slot : id \in new}
    IN  [s \in DOMAIN i \cup added |-> IF s \in added THEN At(s) ELSE i[s]]

Unindexed(i, slots) == [s \in DOMAIN i \ slots |-> i[s]]

\* feed_index: by slot out, and in again when live.
Fed(i, p, ids) == Indexed(Unindexed(i, {id.slot : id \in ids}), p, ids)

-----------------------------------------------------------------------------
(* The operators of a stamp, each with the notes and the syncs it makes.   *)

Fresh == [mark EXCEPT !.epoch = clock]
Element(id) == pool.slots[id.slot].value.element
Written(id) == [element |-> Element(id), at |-> clock]

\* split_edge, as one of its sides sees it: a face becomes two.
SplitEffect(delta, f) ==
    LET id == NewHandle(pool)
        after == Write(Create(pool, [element |-> clock, at |-> clock]), f, Written(f))
        noted == NoteNew(Note(delta, pool, f), after, id)
    IN  [pool  |-> after,
         delta |-> Sync(Sync(noted, after, f), after, id),
         index |-> Fed(index, after, {f, id})]

\* collapse_edge: a face dies, one that met it is rewired.
CollapseEffect(delta, dying, f) ==
    LET after == Erase(Write(pool, f, Written(f)), dying)
        noted == Note(Note(delta, pool, dying), pool, f)
    IN  [pool  |-> after,
         delta |-> Sync(Sync(noted, after, dying), after, f),
         index |-> Fed(Unindexed(index, {dying.slot}), after, {f})]

\* write_positions and flip_edge: a face is rewritten in place.
MoveEffect(delta, f) ==
    LET after == Write(pool, f, Written(f))
    IN  [pool  |-> after,
         delta |-> Sync(Note(delta, pool, f), after, f),
         index |-> index]

Effects(delta) ==
    LET ids == LiveHandles(pool)
    IN  {SplitEffect(delta, f) : f \in ids}
        \cup {CollapseEffect(delta, fs[1], fs[2]) : fs \in {q \in ids \X ids : q[1] # q[2]}}
        \cup {MoveEffect(delta, f) : f \in ids}

\* The host takes a handle of everything there is.
Named(p) == {[id |-> id, element |-> p.slots[id.slot].value.element] : id \in LiveHandles(p)}

-----------------------------------------------------------------------------
(* RecordedGesture.                                                        *)

CanCapture(r) == r.delta = EmptyDelta \/ r.after = mark

\* begin_capture: an empty record binds to the state it finds.
Begun(r) == IF r.delta = EmptyDelta
            THEN [r EXCEPT !.before = mark, !.was = Contents(pool)] ELSE r

\* Mutant: nothing asks where the surface is.
GuardTrusts(r, revert) == IF r.delta = EmptyDelta THEN "NoOp" ELSE "Applied"

\* guard
Guard(r, revert) ==
    LET target == IF revert THEN r.before ELSE r.after
        source == IF revert THEN r.after ELSE r.before
    IN  CASE r.delta = EmptyDelta \/ mark = target -> "NoOp"
          [] r.delta # EmptyDelta /\ mark \notin {target, source} -> "Mismatch"
          [] OTHER -> "Applied"

-----------------------------------------------------------------------------
MayStamp == clock < MaxEpoch

Bump == mark' = Fresh /\ clock' = clock + 1

Takes(effect) ==
    /\ Len(effect.pool.slots) <= MaxSlots
    /\ pool' = effect.pool
    /\ index' = effect.index
    /\ taken' = taken \cup Named(effect.pool)

\* stamp_recorded
StampRecorded(r) ==
    /\ MayStamp
    /\ CanCapture(records[r])
    /\ \E effect \in Effects(records[r].delta) :
          /\ Takes(effect)
          /\ Bump
          /\ records' = [records EXCEPT ![r] =
                [Begun(records[r]) EXCEPT !.delta = effect.delta, !.after = Fresh,
                                          !.became = Contents(effect.pool)]]

\* stamp with no record
Stamp ==
    /\ MayStamp
    /\ \E effect \in Effects(EmptyDelta) : Takes(effect)
    /\ Bump
    /\ UNCHANGED records

\* Mutant: the index is told what came back, not what left.
ReindexedOnly(i, p, ids, slots) == Indexed(i, p, ids)

\* unindex_recorded_faces, then reindex_recorded_faces.
Reindexed(i, p, ids, slots) == Indexed(Unindexed(i, slots), p, ids)

\* replay
Replay(r, revert) ==
    LET record == records[r]
        delta == record.delta
        after == RestoreKind(pool, delta, revert)
        Target(s) == IF revert THEN delta[s].beforeId ELSE delta[s].afterId
    IN  /\ Guard(record, revert) = "Applied"
        /\ pool' = after
        /\ index' = Reindexed(index, after, {Target(s) : s \in DOMAIN delta}, DOMAIN delta)
        /\ mark' = IF revert THEN record.before ELSE record.after
        /\ taken' = IF "keepHandles" \in Calls THEN taken ELSE Named(after)
        /\ UNCHANGED <<clock, records>>

\* clear: the record is empty and unbound.
ClearRecord(r) ==
    /\ records[r] # NoRecord
    /\ records' = [records EXCEPT ![r] = NoRecord]
    /\ UNCHANGED <<pool, mark, clock, index, taken>>

\* The surface is encoded and decoded: live slots come back as they were, dead
\* ones at generation zero, under a lineage of its own.
Reload ==
    /\ mark.lineage < MaxLineage
    /\ pool' = RebuildFreeList([pool EXCEPT !.slots =
                  [s \in DOMAIN @ |-> IF @[s].live THEN @[s] ELSE [@[s] EXCEPT !.generation = 0]]])
    /\ mark' = [lineage |-> mark.lineage + 1, epoch |-> clock]
    /\ clock' = clock + 1
    /\ index' = [s \in LiveSlots(pool) |-> HandleAt(pool, s)]
    /\ taken' = Named(pool')
    /\ UNCHANGED records

Init ==
    /\ pool = [slots |-> [s \in 1..2 |-> [value |-> [element |-> s, at |-> 0],
                                          generation |-> 0, next |-> NoSlot, live |-> TRUE]],
               head |-> NoSlot, dead |-> 0]
    /\ mark = [lineage |-> 1, epoch |-> 2]
    /\ clock = 3
    /\ index = [s \in 1..2 |-> Handle(s, 0)]
    /\ records = [r \in Records |-> NoRecord]
    /\ taken = Named(pool)

Next ==
    \/ \E r \in Records :
          \/ StampRecorded(r)
          \/ \E revert \in BOOLEAN : Replay(r, revert)
          \/ ClearRecord(r)
    \/ Stamp
    \/ Reload

Spec == Init /\ [][Next]_vars

-----------------------------------------------------------------------------
(* Properties.                                                             *)

\* create never walks for ever and never hands out a live slot: whatever was
\* replayed, the list names every dead slot once (free_list_intact).
FreeListHolds == FreeListIntact(pool)

\* A record whose end the surface is marked with describes the surface: the
\* same elements at the same handles with the same contents, whatever was
\* stamped, replayed, cleared or reloaded in between (revert, apply, set_mark).
RecordEndsAreTheState ==
    \A r \in Records :
        /\ mark = records[r].before => Contents(pool) = records[r].was
        /\ mark = records[r].after => Contents(pool) = records[r].became

\* The index holds the live faces, each by the handle it has now
\* (replay_delta keeps it in step).
IndexHoldsTheLive ==
    index = [s \in LiveSlots(pool) |-> HandleAt(pool, s)]

\* A handle names the element it was taken for, or nothing: a slot's next owner
\* does not answer to the handles of the last one (slot_pool.h, on generations).
HandlesNameOneElement ==
    \A t \in taken :
        Live(pool, t.id) => pool.slots[t.id.slot].value.element = t.element
=============================================================================
