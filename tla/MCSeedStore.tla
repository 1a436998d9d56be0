----------------------------- MODULE MCSeedStore -----------------------------
(* Two bricks, and documents of one or two layers, for SeedStore.           *)
EXTENDS SeedStore
CONSTANTS b1, b2

AnItem(n, shape, at) == [node |-> n, shape |-> shape, at |-> at]
ALayer(id, visible, hard, roots) ==
    [id |-> id, visible |-> visible, hard |-> hard, roots |-> roots, next |-> Len(roots) + 1]

OneLayer == <<ALayer(1, TRUE, TRUE, <<AnItem(1, 1, {b1, b2}), AnItem(2, 1, {b2})>>)>>
TwoLayers == <<ALayer(1, TRUE, TRUE, <<AnItem(1, 1, {b1, Space})>>),
               ALayer(2, TRUE, TRUE, <<AnItem(1, 1, {b1, b2})>>)>>
TwoDocuments == {OneLayer, TwoLayers}

TwoBatches == {<<b1>>, <<b2, b1>>}
OneReach == {{b1}}

OneOnly == {OneLayer}
EditsUnderPrefix == {"editPrefix"}
Drags == {"coldOverHalf", "drag"}
NewTops == {"newTopLayer"}
TwoOnly == {TwoLayers}
=============================================================================
