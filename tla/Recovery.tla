------------------------------ MODULE Recovery ------------------------------
(***************************************************************************)
(* Surviving a crash: a snapshot of the document plus the journal since it *)
(* (History::journal_since and History::replay in                          *)
(* src/src/session/history.cpp, clay_document_replay_journal and           *)
(* clay_document_enable_undo in src/bindings/c/clay_c.cpp).                *)
(*                                                                         *)
(* The session of History runs, saves and journals until it crashes.  What *)
(* the host kept is a snapshot and the journal from an index it saved at,  *)
(* possibly not the same one.  The recovering process loads the snapshot,  *)
(* enables undo, and replays the events one at a time through the calls    *)
(* that recorded them, which is why this module extends History rather     *)
(* than describing a second history.                                       *)
(***************************************************************************)
EXTENDS History

VARIABLES
    phase,      \* "live", "replaying" or "recovered"
    pending,    \* the events still to replay
    outcome,    \* how the replay ended
    lost        \* what the crash took, and whether the journal kept names its
                \* snapshot, as all but an empty one do

recoveryVars == <<phase, pending, outcome, lost>>

Outcome == {"none", "complete", "barrier", "refused", "mismatch"}

Nothing == [image |-> NoSnapshot, steps |-> <<>>, redo |-> <<>>, from |-> 0,
            named |-> FALSE]

RecoveryInit ==
    /\ Init
    /\ phase = "live"
    /\ pending = <<>>
    /\ outcome = "none"
    /\ lost = Nothing

Live ==
    /\ phase = "live"
    /\ Next
    /\ UNCHANGED recoveryVars

\* Mutant: the two identities are not compared.
AnyPair(stamp, image) == TRUE

\* A segment that names no snapshot is taken on trust.
Matches(stamp, image) == stamp \in {NoSnapshot, image}

(***************************************************************************)
(* A crash, and the start of the recovery with the snapshot written at     *)
(* index `at` and the journal taken from an index `from` inside the window *)
(* clay_document_journal_range reports: load_memory gives the document     *)
(* without a history, enable_undo starts one that continues from that      *)
(* snapshot, and replay compares the two identities before it applies      *)
(* anything.                                                               *)
(***************************************************************************)
Crash(at, from) ==
    LET image == snapshots[at]
        segment == JournalSince(from)
        matches == Matches(segment.stamp, image)
    IN  /\ phase = "live"
        /\ from >= base
        /\ phase' = IF matches THEN "replaying" ELSE "recovered"
        /\ outcome' = IF matches THEN "none" ELSE "mismatch"
        /\ pending' = IF matches THEN segment.events ELSE <<>>
        /\ lost' = [image |-> Image(world), steps |-> steps, redo |-> redo, from |-> from,
                     named |-> at = from \/ segment.stamp # NoSnapshot]
        /\ world' = [doc |-> image.doc, content |-> image.content, commands |-> EmptyStack]
        /\ steps' = <<>>
        /\ redo' = <<>>
        /\ depth' = 0
        /\ start' = 0
        /\ budget' = 0
        /\ dropped' = 0
        /\ journal' = <<>>
        /\ base' = 0
        /\ snapshots' = [i \in {0} |-> image]
        /\ UNCHANGED present

-----------------------------------------------------------------------------
(* Replaying one event. *)

\* A recorded payload is put back as its cells stand in the event, and recorded again.
ReplayPayload(event) ==
    /\ event.layer \in present
    /\ world' = [world EXCEPT !.content[event.layer] = event.after]
    /\ Record(event)
    /\ SetLists(Push(Lists, world.commands, Grouping, <<event>>))
    /\ UNCHANGED <<present, depth, start, budget>>

\* Mutant: brackets are opened and not closed.
GroupEndIgnored == UNCHANGED vars

\* An end without its begin, which is what a segment cut inside a bracket starts with.
ReplayGroupEnd == EndGroup \/ (~Grouping /\ UNCHANGED vars)

\* The events replay refuses, for what it finds on the document or in the lists.
Refused(event) ==
    CASE event.kind = "Command" -> ~Applicable(world.doc, event.command)
      [] event.kind = "Payload" -> event.layer \notin present
      [] event.kind = "Undo"    -> ~(CanUndo /\ ApplyStep(present, world, Last(steps), FALSE).ok)
      [] event.kind = "Redo"    -> ~(CanRedo /\ ApplyStep(present, world, Last(redo), TRUE).ok)
      [] OTHER                  -> FALSE

Replayed(event) ==
    \/ event.kind = "Command" /\ Perform(event.command)
    \/ event.kind = "Payload" /\ ReplayPayload(event)
    \/ event.kind = "GroupBegin" /\ BeginGroup
    \/ event.kind = "GroupEnd" /\ ReplayGroupEnd
    \/ event.kind = "Undo" /\ TakeBack
    \/ event.kind = "Redo" /\ BringBack

ReplayEvent ==
    /\ phase = "replaying"
    /\ pending # <<>>
    /\ Head(pending).kind # "Barrier"
    /\ ~Refused(Head(pending))
    /\ Replayed(Head(pending))
    /\ pending' = Tail(pending)
    /\ UNCHANGED <<phase, outcome, lost>>

\* The replay is over: at the end, at a barrier, or at an event it refuses.
ReplayEnds ==
    /\ phase = "replaying"
    /\ \/ pending = <<>> /\ outcome' = "complete"
       \/ pending # <<>> /\ Head(pending).kind = "Barrier" /\ outcome' = "barrier"
       \/ pending # <<>> /\ Refused(Head(pending)) /\ outcome' = "refused"
    /\ phase' = "recovered"
    /\ UNCHANGED <<vars, pending, lost>>

RecoveryNext ==
    \/ Live
    \/ \E at, from \in DOMAIN snapshots : Crash(at, from)
    \/ ReplayEvent
    \/ ReplayEnds

RecoverySpec == RecoveryInit /\ [][RecoveryNext]_<<vars, recoveryVars>>

-----------------------------------------------------------------------------
(* Properties. *)

RecoveryTypeOK ==
    /\ TypeOK
    /\ phase \in {"live", "replaying", "recovered"}
    /\ pending \in Seq(Event)
    /\ outcome \in Outcome
    /\ lost.steps \in Seq(Step) /\ lost.redo \in Seq(Step)

(***************************************************************************)
(* A replay that reports success without stopping at a barrier hands back  *)
(* the document and the payloads the crash took, whichever of the kept     *)
(* snapshots it was paired with: a wrong pair is refused by the identity,  *)
(* and an undo that was journaled takes back the same work.  An empty      *)
(* journal names no snapshot and is exempt (journal_since decides so).     *)
(***************************************************************************)
RecoveryIsFaithful ==
    outcome = "complete" /\ lost.named => Image(world) = lost.image

(***************************************************************************)
(* A session journaled from its first event comes back with its undo: the  *)
(* recovered lists are those of the crashed session, folds included        *)
(* (replay goes back through perform, begin_group and end_group rather     *)
(* than re-deriving the steps).                                            *)
(***************************************************************************)
UndoSurvivesTheCrash ==
    outcome = "complete" /\ lost.named /\ lost.from = 0 => steps = lost.steps /\ redo = lost.redo
=============================================================================
