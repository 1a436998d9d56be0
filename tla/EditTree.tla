------------------------------ MODULE EditTree ------------------------------
(***************************************************************************)
(* scene::SdfContent: the node arena of one edit tree                      *)
(* (src/include/clay/scene/document.h).                                    *)
(*                                                                         *)
(* A tree is a record [roots, nodes, next]: the ids of the root list, the  *)
(* nodes, and the id the next reserve_id hands out.  A node carries its id *)
(* and its children, so the shape of the tree lives in the sibling lists   *)
(* alone.  The location index (`where_`) is a cache that locate() verifies *)
(* before it trusts and repairs when it is stale, so it has no state here. *)
(* Positions are the code's: from 0, and -1 appends.                       *)
(***************************************************************************)
EXTENDS Integers, Sequences, SequencesExt, FiniteSetsExt, TLC

NoNode == 0

EmptyTree == [roots |-> <<>>, nodes |-> {}, next |-> 1]

\* The tree after reserve_id.
Reserved(tree) == [tree EXCEPT !.next = @ + 1]

IdsOf(nodes) == {n.id : n \in nodes}

\* find, of an id in the arena.
NodeOf(tree, id) == CHOOSE n \in tree.nodes : n.id = id

Stored(tree, node) ==
    [tree EXCEPT !.nodes = {n \in @ : n.id # node.id} \cup {node}]

Siblings(tree, parent) ==
    IF parent = NoNode THEN tree.roots ELSE NodeOf(tree, parent).children

Relisted(tree, parent, list) ==
    IF parent = NoNode THEN [tree EXCEPT !.roots = list]
    ELSE Stored(tree, [NodeOf(tree, parent) EXCEPT !.children = list])

\* What a node can be placed under: the root list or a group.
TakesChildren(tree, parent) ==
    parent = NoNode \/ (parent \in IdsOf(tree.nodes) /\ NodeOf(tree, parent).group)

\* The lists a node is in, one in every tree whose nodes are listed once.
ParentsOf(tree, id) ==
    {parent \in IdsOf(tree.nodes) \cup {NoNode} : id \in ToSet(Siblings(tree, parent))}

IsLocated(tree, id) == ParentsOf(tree, id) # {}

\* locate: the list a node is in, and its position there.
Locate(tree, id) ==
    LET parent == CHOOSE p \in ParentsOf(tree, id) : TRUE
        list   == Siblings(tree, parent)
    IN  [parent |-> parent, index |-> SelectInSeq(list, LAMBDA n : n = id) - 1]

\* Mutant: the position counts from one.
PlaceOneOn(list, id, index) ==
    IF index < 0 \/ index + 1 > Len(list) THEN Append(list, id)
    ELSE InsertAt(list, index + 2, id)

\* place: at `index`, or last when that is out of range.
Place(list, id, index) ==
    IF index < 0 \/ index > Len(list) THEN Append(list, id)
    ELSE InsertAt(list, index + 1, id)

Detached(tree, at) ==
    Relisted(tree, at.parent, RemoveAt(Siblings(tree, at.parent), at.index + 1))

\* Whether a set of ids has the children of each of its nodes.
HasChildren(tree, ids) ==
    \A n \in tree.nodes : n.id \in ids => ToSet(n.children) \cap IdsOf(tree.nodes) \subseteq ids

\* collect: the nodes at or below those of `ids`, the least set with their children.
Below(tree, ids) ==
    LET stored == IdsOf(tree.nodes)
        wider  == {s \in SUBSET stored : ids \cap stored \subseteq s /\ HasChildren(tree, s)}
    IN  {id \in stored : \A s \in wider : id \in s}

NodesBelow(tree, ids) == {n \in tree.nodes : n.id \in Below(tree, ids)}

\* A node with all below it; of the order of the vector, that the node comes first.
Subtree(tree, id) == [root |-> id, nodes |-> NodesBelow(tree, {id})]

\* Mutant: a node may move below itself.
IsUnderItself(tree, root, id) == root = id

\* contains: whether id is root or below it.
IsUnder(tree, root, id) == root = id \/ id \in Below(tree, {root})

\* remove: the node leaves its list, and its subtree the arena.
Without(tree, id) ==
    [Detached(tree, Locate(tree, id)) EXCEPT !.nodes = {n \in @ : n.id \notin Below(tree, {id})}]

(***************************************************************************)
(* reinsert: the nodes of the subtree enter the arena, where an id already *)
(* there keeps its node; then the first is placed, or the call refuses the *)
(* parent with the nodes left behind.                                      *)
(***************************************************************************)
Reinsert(tree, subtree, parent, index) ==
    LET arrivals == {n \in subtree.nodes : n.id \notin IdsOf(tree.nodes)}
        stored   == [tree EXCEPT !.nodes = @ \cup arrivals,
                                 !.next = Max(IdsOf(subtree.nodes) \cup {@ - 1}) + 1]
    IN  IF TakesChildren(stored, parent)
        THEN [ok |-> TRUE,
              tree |-> Relisted(stored, parent,
                                Place(Siblings(stored, parent), subtree.root, index))]
        ELSE [ok |-> FALSE, tree |-> stored]

\* move: what it refuses, and what it leaves.
MayMove(tree, id, parent) ==
    /\ IsLocated(tree, id)
    /\ ~(parent # NoNode /\ IsUnder(tree, id, parent))
    /\ TakesChildren(tree, parent)

Moved(tree, id, parent, index) ==
    LET left == Detached(tree, Locate(tree, id))
    IN  Relisted(left, parent, Place(Siblings(left, parent), id, index))

(***************************************************************************)
(* The tree a reader of the stream write_content leaves comes to: what the *)
(* root list reaches.                                                      *)
(***************************************************************************)
Written(tree) ==
    LET nodes == NodesBelow(tree, ToSet(tree.roots))
    IN  [roots |-> tree.roots, nodes |-> nodes, next |-> Max(IdsOf(nodes) \cup {0}) + 1]

(***************************************************************************)
(* A tree whose nodes are all reached from the root list, each listed      *)
(* once, under a group or the root list.                                   *)
(***************************************************************************)
IsWhole(tree) ==
    LET ids == IdsOf(tree.nodes)
    IN  /\ \A m, n \in tree.nodes : m.id = n.id => m = n
        /\ \A p \in ids \cup {NoNode} :
               /\ IsInjective(Siblings(tree, p)) /\ ToSet(Siblings(tree, p)) \subseteq ids
               /\ TakesChildren(tree, p) \/ Siblings(tree, p) = <<>>
        /\ \A n \in tree.nodes : Cardinality(ParentsOf(tree, n.id)) = 1 /\ n.id < tree.next
        /\ Written(tree).nodes = tree.nodes
=============================================================================
