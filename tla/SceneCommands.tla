---------------------------- MODULE SceneCommands ---------------------------
(***************************************************************************)
(* The command vocabulary of the scene: scene::apply and the inverse each  *)
(* command yields (src/src/scene/commands.cpp), over the layers of a       *)
(* Document that may share one edit tree (src/include/clay/scene/          *)
(* document.h).                                                            *)
(*                                                                         *)
(* A document is a record [layers, trees, next]: the layer stack, the      *)
(* trees the layers' shared pointers lead to, never freed here, and the    *)
(* next layer id.  A pointer is a position in `trees`, NoTree the null one *)
(* of a voxel or mesh layer.  Setters that overwrite a field and keep the  *)
(* old one in their inverse are told apart only where they refuse: a       *)
(* node's `look` stands for its transform, colour, mirror, operator, blend *)
(* and deformers, a layer's for its visibility, transform and name, and    *)
(* its `symmetry` for the mirror and the radial mode.                      *)
(***************************************************************************)
EXTENDS EditTree

NoTree == 0
NoLayer == 0

EmptyDocument == [layers |-> <<>>, trees |-> <<>>, next |-> 1]

\* The document after reserve_layer_id.
LayerReserved(d) == [d EXCEPT !.next = @ + 1]

LayerIds(d) == {d.layers[i].id : i \in DOMAIN d.layers}

IndexOfLayer(d, id) == SelectInSeq(d.layers, LAMBDA l : l.id = id)

LayerOf(d, id) == d.layers[IndexOfLayer(d, id)]

\* content_of: whether a layer has an edit tree, and which.
HasTree(d, layer) == layer \in LayerIds(d) /\ LayerOf(d, layer).tree # NoTree

TreeOf(d, layer) == d.trees[LayerOf(d, layer).tree]

HasNode(d, layer, node) == HasTree(d, layer) /\ node \in IdsOf(TreeOf(d, layer).nodes)

NodeAt(d, layer, node) == NodeOf(TreeOf(d, layer), node)

WithTree(d, layer, tree) == [d EXCEPT !.trees[LayerOf(d, layer).tree] = tree]

WithNode(d, layer, n) == WithTree(d, layer, Stored(TreeOf(d, layer), n))

WithLayer(d, layer) == [d EXCEPT !.layers[IndexOfLayer(d, layer.id)] = layer]

\* content_sharer_of: another layer with this layer's tree, the lowest in the stack.
SharerOf(d, layer) ==
    LET sharers == {i \in DOMAIN d.layers : /\ HasTree(d, layer)
                                            /\ d.layers[i].id # layer
                                            /\ d.layers[i].tree = LayerOf(d, layer).tree}
    IN  IF sharers = {} THEN NoLayer ELSE d.layers[Min(sharers)].id

-----------------------------------------------------------------------------
(* What apply answers: the document it leaves, and the inverse if it is ok. *)

Refusal(d) == [ok |-> FALSE, doc |-> d]

Answer(d, inverse) == [ok |-> TRUE, doc |-> d, inverse |-> inverse]

AddNode(d, c) ==
    LET r == Reinsert(TreeOf(d, c.layer), c.subtree, c.parent, c.index) IN
    IF ~HasTree(d, c.layer) THEN Refusal(d)
    ELSE IF ~r.ok THEN Refusal(WithTree(d, c.layer, r.tree))
    ELSE Answer(WithTree(d, c.layer, r.tree),
                [op |-> "RemoveNode", layer |-> c.layer, node |-> c.subtree.root])

RemoveNode(d, c) ==
    LET tree == TreeOf(d, c.layer)
        at   == Locate(tree, c.node)
    IN  IF ~(HasTree(d, c.layer) /\ IsLocated(tree, c.node)) THEN Refusal(d)
        ELSE Answer(WithTree(d, c.layer, Without(tree, c.node)),
                    [op |-> "AddNode", layer |-> c.layer, parent |-> at.parent,
                     index |-> at.index, subtree |-> Subtree(tree, c.node)])

MoveNode(d, c) ==
    LET tree == TreeOf(d, c.layer)
        at   == Locate(tree, c.node)
    IN  IF ~(HasTree(d, c.layer) /\ MayMove(tree, c.node, c.parent)) THEN Refusal(d)
        ELSE Answer(WithTree(d, c.layer, Moved(tree, c.node, c.parent, c.index)),
                    [c EXCEPT !.parent = at.parent, !.index = at.index])

\* apply_field: every setter of a node's fields that refuses only a missing node.
SetLook(d, c) ==
    LET n == NodeAt(d, c.layer, c.node) IN
    IF ~HasNode(d, c.layer, c.node) THEN Refusal(d)
    ELSE Answer(WithNode(d, c.layer, [n EXCEPT !.look = c.look]),
                [c EXCEPT !.look = n.look])

SetPrim(d, c) ==
    LET n == NodeAt(d, c.layer, c.node) IN
    IF ~HasNode(d, c.layer, c.node) THEN Refusal(d)
    ELSE Answer(WithNode(d, c.layer, [n EXCEPT !.prim = c.prim]),
                [c EXCEPT !.prim = n.prim])

\* Only a stroke can be appended to.
AppendStroke(d, c) ==
    LET n == NodeAt(d, c.layer, c.node) IN
    IF ~(HasNode(d, c.layer, c.node) /\ n.prim = "stroke") THEN Refusal(d)
    ELSE Answer(WithNode(d, c.layer, [n EXCEPT !.points = @ \o c.points]),
                [op |-> "TrimStroke", layer |-> c.layer, node |-> c.node,
                 count |-> Len(c.points)])

\* Any node that holds that many points can be trimmed.
TrimStroke(d, c) ==
    LET n    == NodeAt(d, c.layer, c.node)
        left == Len(n.points) - c.count
    IN  IF ~(HasNode(d, c.layer, c.node) /\ left >= 0) THEN Refusal(d)
        ELSE Answer(WithNode(d, c.layer, [n EXCEPT !.points = SubSeq(@, 1, left)]),
                    [op |-> "AppendStroke", layer |-> c.layer, node |-> c.node,
                     points |-> SubSeq(n.points, left + 1, Len(n.points))])

\* The whole control-point list of a stroke or of a sweep's guide.
SetStrokePoints(d, c) ==
    LET n == NodeAt(d, c.layer, c.node) IN
    IF ~(HasNode(d, c.layer, c.node) /\ n.prim \in {"stroke", "sweep"}) THEN Refusal(d)
    ELSE Answer(WithNode(d, c.layer, [n EXCEPT !.points = c.points]),
                [c EXCEPT !.points = n.points])

(***************************************************************************)
(* The nodes and the parents of an armature, which have to agree: of what  *)
(* armature_is_valid asks, that there is one parent for every node.        *)
(***************************************************************************)
SetArmature(d, c) ==
    LET n == NodeAt(d, c.layer, c.node) IN
    IF ~(/\ HasNode(d, c.layer, c.node)
         /\ n.prim = "armature"
         /\ c.parents = Len(c.points))
    THEN Refusal(d)
    ELSE Answer(WithNode(d, c.layer,
                         [n EXCEPT !.points = c.points, !.parents = c.parents]),
                [c EXCEPT !.points = n.points, !.parents = n.parents])

\* insert_layer.
Inserted(d, layer, index) ==
    [d EXCEPT !.layers = Place(@, layer, index),
              !.next = Max({@, layer.id + 1})]

(***************************************************************************)
(* A layer comes with the tree its pointer leads to; read from a stream, a *)
(* layer of its own comes with a tree nobody shares, and an instance with  *)
(* the name of the layer to share with, which has to be there.             *)
(***************************************************************************)
AddLayer(d, c) ==
    LET layer   == c.layer
        named   == layer.tree = NoTree /\ c.source # NoLayer
        arrived == CASE named -> [layer EXCEPT !.tree = LayerOf(d, c.source).tree]
                     [] c.read # <<>> -> [layer EXCEPT !.tree = Len(d.trees) + 1]
                     [] OTHER -> layer
    IN  IF named /\ ~HasTree(d, c.source) THEN Refusal(d)
        ELSE Answer(Inserted([d EXCEPT !.trees = @ \o c.read], arrived, c.index),
                    [op |-> "RemoveLayer", layer |-> layer.id])

RemoveLayer(d, c) ==
    LET at == IndexOfLayer(d, c.layer) IN
    IF c.layer \notin LayerIds(d) THEN Refusal(d)
    ELSE Answer([d EXCEPT !.layers = RemoveAt(@, at)],
                [op |-> "AddLayer", layer |-> d.layers[at], index |-> at - 1,
                 source |-> NoLayer, read |-> <<>>])

SetLayerLook(d, c) ==
    LET l == LayerOf(d, c.layer) IN
    IF c.layer \notin LayerIds(d) THEN Refusal(d)
    ELSE Answer(WithLayer(d, [l EXCEPT !.look = c.look]), [c EXCEPT !.look = l.look])

SetLayerProtection(d, c) ==
    LET l == LayerOf(d, c.layer) IN
    IF c.layer \notin LayerIds(d) THEN Refusal(d)
    ELSE Answer(WithLayer(d, [l EXCEPT !.locked = c.locked]),
                [c EXCEPT !.locked = l.locked])

\* already_set: a set to the value that is there is no edit.
AlreadySet(d, c) ==
    /\ c.op = "SetLayerSymmetry"
    /\ c.layer \in LayerIds(d)
    /\ LayerOf(d, c.layer).symmetry = c.symmetry

SetLayerSymmetry(d, c) ==
    LET l == LayerOf(d, c.layer) IN
    IF c.layer \notin LayerIds(d) \/ AlreadySet(d, c) THEN Refusal(d)
    ELSE Answer(WithLayer(d, [l EXCEPT !.symmetry = c.symmetry]),
                [c EXCEPT !.symmetry = l.symmetry])

\* Refused on a layer that is not an SDF layer.
SetLayerComposition(d, c) ==
    LET l == LayerOf(d, c.layer) IN
    IF ~HasTree(d, c.layer) THEN Refusal(d)
    ELSE Answer(WithLayer(d, [l EXCEPT !.composition = c.composition]),
                [c EXCEPT !.composition = l.composition])

\* edited_layer: adding a layer edits none, and releasing one is always allowed.
EditsProtected(d, c) ==
    /\ c.op \notin {"AddLayer", "SetLayerProtection"}
    /\ c.layer \in LayerIds(d)
    /\ LayerOf(d, c.layer).locked

ApplyOne(d, c) ==
    CASE c.op = "AddNode"             -> AddNode(d, c)
      [] c.op = "RemoveNode"          -> RemoveNode(d, c)
      [] c.op = "MoveNode"            -> MoveNode(d, c)
      [] c.op = "SetLook"             -> SetLook(d, c)
      [] c.op = "SetPrim"             -> SetPrim(d, c)
      [] c.op = "AppendStroke"        -> AppendStroke(d, c)
      [] c.op = "TrimStroke"          -> TrimStroke(d, c)
      [] c.op = "SetStrokePoints"     -> SetStrokePoints(d, c)
      [] c.op = "SetArmature"         -> SetArmature(d, c)
      [] c.op = "AddLayer"            -> AddLayer(d, c)
      [] c.op = "RemoveLayer"         -> RemoveLayer(d, c)
      [] c.op = "SetLayerLook"        -> SetLayerLook(d, c)
      [] c.op = "SetLayerProtection"  -> SetLayerProtection(d, c)
      [] c.op = "SetLayerSymmetry"    -> SetLayerSymmetry(d, c)
      [] c.op = "SetLayerComposition" -> SetLayerComposition(d, c)

Apply(d, c) == IF EditsProtected(d, c) THEN Refusal(d) ELSE ApplyOne(d, c)

-----------------------------------------------------------------------------
(* What is seen of a document, and what a stream carries of a command. *)

(***************************************************************************)
(* The layers with the trees they lead to, and who shares with whom: not   *)
(* the identity of a tree, nor the ids a later edit would be given.        *)
(***************************************************************************)
Image(d) ==
    [i \in DOMAIN d.layers |->
        LET layer == d.layers[i]
            tree  == d.trees[layer.tree]
        IN  [layer  |-> [layer EXCEPT !.tree = NoTree],
             tree   |-> IF layer.tree = NoTree THEN <<>> ELSE <<tree.roots, tree.nodes>>,
             shares |-> {j \in DOMAIN d.layers :
                            layer.tree # NoTree /\ d.layers[j].tree = layer.tree}]]

(***************************************************************************)
(* serialize, then deserialize: a layer of its own is written with its     *)
(* tree as it stands at that moment, an instance with its source's name.   *)
(***************************************************************************)
Serialized(d, c) ==
    IF c.op # "AddLayer" \/ c.layer.tree = NoTree THEN c
    ELSE [c EXCEPT !.layer.tree = NoTree,
                   !.read = IF c.source # NoLayer THEN <<>>
                            ELSE <<Written(d.trees[c.layer.tree])>>]
=============================================================================
