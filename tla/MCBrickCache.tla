---------------------------- MODULE MCBrickCache ----------------------------
(***************************************************************************)
(* A small instance of BrickCache: one whole coarse block and one brick    *)
(* further out, so that the block's inner corner lies strictly inside the  *)
(* box when all are surface bricks.                                        *)
(***************************************************************************)
EXTENDS BrickCache

CONSTANT s      \* a surface lattice

Block == {<<0, 0>>, <<1, 0>>, <<0, 1>>, <<1, 1>>}
Cells == Block \cup {<<2, 2>>}
Lines == 0 .. 2

(* An edit that leaves a surface everywhere, one that clears a corner, and an
   unbounded one that makes everything solid. *)
AllSurface == [k \in Cells |-> s]
CornerCleared == [k \in {<<0, 0>>} |-> "outside"]
SmallEdits == {AllSurface, CornerCleared}
Flood == {[k \in Cells |-> "inside"]}
NoFlood == {}
OneBrickEdits == {[k \in {<<0, 0>>} |-> s], [k \in {<<0, 0>>} |-> "outside"]}
NoCalls == {}
ForgetAnyTime == {"forgetUnsettled"}
=============================================================================
