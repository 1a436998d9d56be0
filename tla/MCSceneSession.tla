--------------------------- MODULE MCSceneSession ---------------------------
(***************************************************************************)
(* A small instance of SceneSession: a loaded document of one layer that   *)
(* holds a group with an armature of one node in it.                       *)
(***************************************************************************)
EXTENDS SceneRefinement

CONSTANTS p, q, vivid

LoadedNode(id, prim, points, children) ==
    [id |-> id, group |-> prim = "none", prim |-> prim, look |-> "plain", points |-> points,
     parents |-> IF prim = "armature" THEN Len(points) ELSE 0, children |-> children]

LoadedTree ==
    [roots |-> <<1>>, next |-> 3,
     nodes |-> {LoadedNode(1, "none", <<>>, <<2>>),
                LoadedNode(2, "armature", <<p>>, <<>>)}]

OneLayer ==
    [layers |-> <<[id |-> 1, tree |-> 1, look |-> "plain", symmetry |-> "plain",
                   composition |-> "plain", locked |-> FALSE]>>,
     trees  |-> <<LoadedTree>>,
     next   |-> 2]

PlainUse == {}
TrimsAnything == {"trimsAnything"}
CopiesLocks == {"copiesLocks"}
DrainsLate == {"drainsLate"}
=============================================================================
