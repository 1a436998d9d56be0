---------------------------- MODULE SceneSession ----------------------------
(***************************************************************************)
(* A session of scene edits: the calls of the C API that reach the command *)
(* vocabulary (src/bindings/c/clay_c.cpp), the stack that takes them back  *)
(* (scene::UndoStack in src/src/scene/commands.cpp) and the journal a      *)
(* crash is recovered from (src/src/session/history.cpp).                  *)
(*                                                                         *)
(* History and UndoStack say how steps, brackets, budgets and barriers     *)
(* combine, over a flat list of nodes.  This module asks of the real       *)
(* vocabulary what those rest on: that what apply() answers is an inverse, *)
(* and that what serialize() writes is the command that was performed.     *)
(***************************************************************************)
EXTENDS SceneCommands

CONSTANTS
    Loaded,     \* the document the session starts from, its first snapshot
    Points,     \* the control points a call appends
    Looks,      \* the values a setter writes
    MaxEdits,   \* bound: calls that change the document
    MaxEvents,  \* bound: calls journaled, undo and redo among them
    Calls       \* what the host allows itself beyond the documented use

(***************************************************************************)
(* The calls a host may be allowed:                                        *)
(*   "trimsAnything"  trim_stroke on a node that is not a placed stroke    *)
(*   "copiesLocks"    an instance of a layer that is protected             *)
(*   "drainsLate"     edits of a layer added since the journal was drained *)
(***************************************************************************)
ASSUME CallsAssumption == Calls \subseteq {"trimsAnything", "copiesLocks", "drainsLate"}

(***************************************************************************)
(* The documents of a session, of the values its calls write and those it  *)
(* was loaded with.                                                        *)
(***************************************************************************)
LoadedNodes == UNION {Loaded.trees[i].nodes : i \in DOMAIN Loaded.trees}
LoadedLayers == ToSet(Loaded.layers)

AllPoints == Points \cup UNION {ToSet(n.points) : n \in LoadedNodes}

AllLooks ==
    Looks \cup {"plain"} \cup {n.look : n \in LoadedNodes}
          \cup UNION {{l.look, l.symmetry, l.composition} : l \in LoadedLayers}

\* What set_prim writes: the primitives of parameters alone, the armature among them.
Replacements == {"sphere", "armature"}

Prims == {"none", "stroke"} \cup Replacements \cup {n.prim : n \in LoadedNodes}

Ids == Nat \ {0}

Nodes ==
    [id : Ids, group : BOOLEAN, prim : Prims, look : AllLooks, points : Seq(AllPoints),
     parents : Nat, children : Seq(Ids)]

Trees == [roots : Seq(Ids), nodes : SUBSET Nodes, next : Ids]

Layers ==
    [id : Ids, tree : Nat, look : AllLooks, symmetry : AllLooks, composition : AllLooks,
     locked : BOOLEAN]

IsDocument(d) ==
    /\ d \in [layers : Seq(Layers), trees : Seq(Trees), next : Ids]
    /\ \A i, j \in DOMAIN d.layers : d.layers[i].id = d.layers[j].id => i = j
    /\ \A i \in DOMAIN d.layers : d.layers[i].id < d.next /\ d.layers[i].tree <= Len(d.trees)
    /\ \A i \in DOMAIN d.trees : IsFiniteSet(d.trees[i].nodes) /\ IsWhole(d.trees[i])

ASSUME LoadedAssumption == IsDocument(Loaded)

VARIABLES
    session,   \* [scene, undo, redo]: the document and the stacks of entries
    journal    \* the events: the drained ones as written, the rest by reference

vars == <<session, journal>>

Fresh == [scene |-> Loaded, undo |-> <<>>, redo |-> <<>>]

Init ==
    /\ session = Fresh
    /\ journal = <<>>

-----------------------------------------------------------------------------
(* scene::UndoStack. *)

\* try_coalesce: an append merges into a trim of the same node alone on top.
Coalesces(undo, c) ==
    /\ c.op = "AppendStroke"
    /\ undo # <<>>
    /\ Len(Last(undo)) = 1
    /\ LET top == Last(undo)[1] IN
       top.op = "TrimStroke" /\ top.layer = c.layer /\ top.node = c.node

(***************************************************************************)
(* perform: an inverse joins the bracket's entry, merges into the entry on *)
(* top, or is an entry of its own.                                         *)
(***************************************************************************)
Recorded(s, c, inBracket, answer) ==
    IF ~answer.ok THEN [s EXCEPT !.scene = answer.doc]
    ELSE [scene |-> answer.doc,
          redo  |-> <<>>,
          undo  |->
            IF inBracket
            THEN Append(Front(s.undo), Append(Last(s.undo), answer.inverse))
            ELSE IF Coalesces(s.undo, c)
            THEN Append(Front(s.undo), <<[Last(s.undo)[1] EXCEPT !.count = @ + answer.inverse.count]>>)
            ELSE Append(s.undo, <<answer.inverse>>)]

Performed(s, c, inBracket) == Recorded(s, c, inBracket, Apply(s.scene, c))

\* end_group: a bracket that collected nothing is dropped again.
Closed(s) == IF Last(s.undo) = <<>> THEN [s EXCEPT !.undo = Front(@)] ELSE s

PerformedTogether(s, commands) ==
    LET PerformedNext(acc, c) == Performed(acc, c, TRUE)
    IN  Closed(FoldLeft(PerformedNext, [s EXCEPT !.undo = Append(@, <<>>)], commands))

PerformedAs(s, commands) ==
    IF Len(commands) = 1 THEN Performed(s, commands[1], FALSE)
    ELSE PerformedTogether(s, commands)

\* replay: an entry newest first, the refused inverses skipped.
Collected(acc, answer) ==
    [doc |-> answer.doc,
     opposite |-> IF answer.ok THEN Append(acc.opposite, answer.inverse) ELSE acc.opposite]

Replayed(d, entry) ==
    LET ReplayedNext(acc, c) == Collected(acc, Apply(acc.doc, c))
    IN  FoldLeft(ReplayedNext, [doc |-> d, opposite |-> <<>>], Reverse(entry))

TakenBack(s, replay) ==
    [scene |-> replay.doc, undo |-> Front(s.undo), redo |-> Append(s.redo, replay.opposite)]

BroughtAgain(s, replay) ==
    [scene |-> replay.doc, redo |-> Front(s.redo), undo |-> Append(s.undo, replay.opposite)]

Undone(s) == TakenBack(s, Replayed(s.scene, Last(s.undo)))
Redone(s) == BroughtAgain(s, Replayed(s.scene, Last(s.redo)))

-----------------------------------------------------------------------------
(* The journal. *)

Edit(commands) == [kind |-> "Edit", commands |-> commands]
Undo == [kind |-> "Undo", commands |-> <<>>]
Redo == [kind |-> "Redo", commands |-> <<>>]

\* Mutant: an instance is written with the name of no source.
WrittenAlone(d, event) ==
    [event EXCEPT !.commands =
        [i \in DOMAIN @ |-> Serialized(d, IF @[i].op = "AddLayer"
                                          THEN [@[i] EXCEPT !.source = NoLayer] ELSE @[i])]]

\* journal_since: an event is serialized when the journal is drained.
WrittenNow(d, event) ==
    [event EXCEPT !.commands = [i \in DOMAIN @ |-> Serialized(d, @[i])]]

Drained(d, events) == [i \in DOMAIN events |-> WrittenNow(d, events[i])]

\* The trees an event not drained yet refers to, and its serialization will read.
ReferredTo(events) ==
    LET addsOwn(event) == {c \in ToSet(event.commands) : c.op = "AddLayer" /\ c.source = NoLayer}
    IN  UNION {{c.layer.tree : c \in addsOwn(events[i])} : i \in DOMAIN events}

\* replay: each event through the call that recorded it, to the first it refuses.
Recovered(events) ==
    LET next(acc, event) ==
            LET s == acc.session IN
            CASE event.kind = "Edit" ->
                    [session |-> PerformedAs(s, event.commands),
                     ok |-> acc.ok /\ Apply(s.scene, event.commands[1]).ok]
              [] event.kind = "Undo" -> [acc EXCEPT !.session = Undone(s)]
              [] event.kind = "Redo" -> [acc EXCEPT !.session = Redone(s)]
    IN  FoldLeft(next, [session |-> Fresh, ok |-> TRUE], events)

-----------------------------------------------------------------------------
(* The calls of the host. *)

Scene == session.scene

Edits == Cardinality({i \in DOMAIN journal : journal[i].kind = "Edit"})

\* The guards every edit passes, and the bounds.
MayEdit(commands) ==
    /\ Edits < MaxEdits
    /\ Len(journal) < MaxEvents
    /\ ~AlreadySet(Scene, commands[1])
    /\ Apply(Scene, commands[1]).ok

\* An edit of a document in which ids may have been reserved for it.
Perform(d, commands) ==
    /\ MayEdit(commands)
    /\ session' = PerformedAs([session EXCEPT !.scene = d], commands)
    /\ journal' = Append(journal, Edit(commands))

\* Edits of a tree wait for the drain of the event that will be written with it.
EditsTree(layer) ==
    "drainsLate" \in Calls \/ LayerOf(Scene, layer).tree \notin ReferredTo(journal)

TreeLayers == {id \in LayerIds(Scene) : HasTree(Scene, id) /\ EditsTree(id)}

NodesOf(layer) == IdsOf(TreeOf(Scene, layer).nodes)

NewNode(id, group) ==
    [id |-> id, group |-> group, prim |-> IF group THEN "none" ELSE "stroke", look |-> "plain",
     points |-> <<>>, parents |-> 0, children |-> <<>>]

\* insert_node: a new node under a checked parent, its id reserved first.
InsertNode(layer, parent, index, group) ==
    LET tree == TreeOf(Scene, layer) IN
    /\ TakesChildren(tree, parent)
    /\ Perform(WithTree(Scene, layer, Reserved(tree)),
               <<[op |-> "AddNode", layer |-> layer, parent |-> parent, index |-> index,
                  subtree |-> [root |-> tree.next, nodes |-> {NewNode(tree.next, group)}]]>>)

DeleteNode(layer, node) ==
    Perform(Scene, <<[op |-> "RemoveNode", layer |-> layer, node |-> node]>>)

ReparentNode(layer, node, parent, index) ==
    Perform(Scene, <<[op |-> "MoveNode", layer |-> layer, node |-> node,
                      parent |-> parent, index |-> index]>>)

RestyleNode(layer, node, look) ==
    Perform(Scene, <<[op |-> "SetLook", layer |-> layer, node |-> node, look |-> look]>>)

\* set_prim: whatever the node was, and whatever points it keeps.
ReplacePrim(layer, node, prim) ==
    Perform(Scene, <<[op |-> "SetPrim", layer |-> layer, node |-> node, prim |-> prim]>>)

ExtendStroke(layer, node, point) ==
    Perform(Scene, <<[op |-> "AppendStroke", layer |-> layer, node |-> node,
                      points |-> <<point>>]>>)

ShortenStroke(layer, node) ==
    /\ NodeAt(Scene, layer, node).prim = "stroke" \/ "trimsAnything" \in Calls
    /\ Perform(Scene, <<[op |-> "TrimStroke", layer |-> layer, node |-> node, count |-> 1]>>)

ReplacePoints(layer, node, point) ==
    Perform(Scene, <<[op |-> "SetStrokePoints", layer |-> layer, node |-> node,
                      points |-> <<point>>]>>)

\* armature_edit, adding a child: the node's own lists, each one longer.
GrowArmature(layer, node, point) ==
    LET n == NodeAt(Scene, layer, node) IN
    Perform(Scene, <<[op |-> "SetArmature", layer |-> layer, node |-> node,
                      points |-> Append(n.points, point), parents |-> n.parents + 1]>>)

NewLayer(tree) ==
    [id |-> Scene.next, tree |-> tree, look |-> "plain", symmetry |-> "plain",
     composition |-> "plain", locked |-> FALSE]

\* add_sdf_layer: a layer with a tree of its own.
CreateSdfLayer ==
    LET d == LayerReserved([Scene EXCEPT !.trees = Append(@, EmptyTree)]) IN
    Perform(d, <<[op |-> "AddLayer", layer |-> NewLayer(Len(d.trees)), index |-> -1,
                  source |-> NoLayer, read |-> <<>>]>>)

\* instance_layer: a copy of the layer, its tree shared and its source named.
InstanceLayer(source) ==
    LET l == LayerOf(Scene, source) IN
    /\ HasTree(Scene, source)
    /\ l.locked => "copiesLocks" \in Calls
    /\ Perform(LayerReserved(Scene),
               <<[op |-> "AddLayer", layer |-> [l EXCEPT !.id = Scene.next], index |-> -1,
                  source |-> source, read |-> <<>>]>>)

DeleteLayer(layer) ==
    Perform(Scene, <<[op |-> "RemoveLayer", layer |-> layer]>>)

\* move_layer: removed and reinserted in one bracket, its sharer taken before.
MoveLayer(layer, index) ==
    Perform(Scene, <<[op |-> "RemoveLayer", layer |-> layer],
                     [op |-> "AddLayer", layer |-> LayerOf(Scene, layer), index |-> index,
                      source |-> SharerOf(Scene, layer), read |-> <<>>]>>)

RestyleLayer(layer, look) ==
    \/ Perform(Scene, <<[op |-> "SetLayerLook", layer |-> layer, look |-> look]>>)
    \/ Perform(Scene, <<[op |-> "SetLayerSymmetry", layer |-> layer, symmetry |-> look]>>)
    \/ Perform(Scene, <<[op |-> "SetLayerComposition", layer |-> layer,
                         composition |-> look]>>)

ProtectLayer(layer, locked) ==
    Perform(Scene, <<[op |-> "SetLayerProtection", layer |-> layer, locked |-> locked]>>)

StepBack ==
    /\ session.undo # <<>>
    /\ Len(journal) < MaxEvents
    /\ session' = Undone(session)
    /\ journal' = Append(journal, Undo)

StepForward ==
    /\ session.redo # <<>>
    /\ Len(journal) < MaxEvents
    /\ session' = Redone(session)
    /\ journal' = Append(journal, Redo)

\* The host takes the journal and keeps it.
Drain ==
    /\ Drained(Scene, journal) # journal
    /\ journal' = Drained(Scene, journal)
    /\ UNCHANGED session

TreeEdit(layer) ==
    \/ \E parent \in NodesOf(layer) \cup {NoNode} : InsertNode(layer, parent, -1, FALSE)
    \/ InsertNode(layer, NoNode, 0, TRUE)
    \/ \E node \in NodesOf(layer) :
        \/ DeleteNode(layer, node)
        \/ \E parent \in NodesOf(layer) \cup {NoNode}, index \in {-1, 0} :
               ReparentNode(layer, node, parent, index)
        \/ \E look \in Looks : RestyleNode(layer, node, look)
        \/ \E prim \in Replacements : ReplacePrim(layer, node, prim)
        \/ \E point \in Points :
            \/ ExtendStroke(layer, node, point)
            \/ ReplacePoints(layer, node, point)
            \/ GrowArmature(layer, node, point)
        \/ ShortenStroke(layer, node)

StackEdit ==
    \/ CreateSdfLayer
    \/ \E layer \in LayerIds(Scene) :
        \/ InstanceLayer(layer)
        \/ DeleteLayer(layer)
        \/ \E index \in {-1, 0} : MoveLayer(layer, index)
        \/ \E look \in Looks : RestyleLayer(layer, look)
        \/ ProtectLayer(layer, ~LayerOf(Scene, layer).locked)

Next ==
    \/ \E layer \in TreeLayers : TreeEdit(layer)
    \/ StackEdit
    \/ StepBack
    \/ StepForward
    \/ Drain

Spec == Init /\ [][Next]_vars

-----------------------------------------------------------------------------
(* Properties. *)

\* r is a recovery that gave back this document, with its steps of history.
Rebuilt(r) ==
    /\ r.ok
    /\ Image(r.session.scene) = Image(Scene)
    /\ Len(r.session.undo) = Len(session.undo)
    /\ Len(r.session.redo) = Len(session.redo)

(***************************************************************************)
(* Whenever the process dies, the snapshot and the journal drained at that *)
(* moment give back the document and as many steps of undo and redo.       *)
(***************************************************************************)
JournalRebuildsTheScene == Rebuilt(Recovered(Drained(Scene, journal)))

(***************************************************************************)
(* No edit, undo or redo leaves a node outside the tree, in two places or  *)
(* below itself, where it would stop evaluating and be dropped on save     *)
(* (SdfContent::move), nor an id that a later node would be given again.   *)
(***************************************************************************)
TreesAreWhole == \A i \in DOMAIN Scene.trees : IsWhole(Scene.trees[i])
=============================================================================
