---------------------------- MODULE LayeredField ----------------------------
(***************************************************************************)
(* What a document evaluates to at a brick, as far as the caches of        *)
(* bindings/c/clay_c.cpp can tell two documents apart.                     *)
(*                                                                         *)
(* A document is a sequence of SDF layers.  A layer holds its roots in     *)
(* order; an item is a node id that means something in its own layer only, *)
(* a shape, and the bricks its influence reaches.  A brick's tape keeps    *)
(* the items that reach the brick, so the value of a layer there is the    *)
(* chain of their shapes: items combine by arbitrary operators, in order,  *)
(* and two chains are one value only when they are equal.  Layers fold     *)
(* into the ones beneath; only a hard union can be split in two halves and *)
(* rejoined, which is all that is kept of a layer's composition.           *)
(***************************************************************************)
EXTENDS Naturals, Sequences, SequencesExt, FiniteSets

CONSTANTS Bricks,      \* the bricks a host asks for
          Space        \* a reach that holds Space is infinite

\* The members of a sequence that lie in S, in order.
Only(seq, S) ==
    LET first[k \in 0..Len(seq)] ==
            IF k = 0 THEN << >>
            ELSE IF seq[k] \in S THEN Append(first[k - 1], seq[k]) ELSE first[k - 1]
    IN  first[Len(seq)]

VisibleLayers(doc) == Only(doc, {layer \in ToSet(doc) : layer.visible})

\* last_visible_sdf_layer: the only layer an append can extend.
HasActive(doc) == VisibleLayers(doc) # << >>
Active(doc) == Last(VisibleLayers(doc))
HasBelow(doc) == Len(VisibleLayers(doc)) > 1

\* layer_join_is_hard_union: with one visible layer there is no join.
JoinIsHardUnion(doc) == HasBelow(doc) => Active(doc).hard

\* The chain a list of roots leaves at a brick, after the cull.
Chain(roots, b) ==
    LET kept == Only(roots, {item \in ToSet(roots) : b \in item.at})
    IN  [k \in DOMAIN kept |-> kept[k].shape]

\* The layers' values at a brick, a layer with nothing there left out.
Parts(layers, b) ==
    LET parts == [k \in DOMAIN layers |->
                    [hard |-> layers[k].hard, chain |-> Chain(layers[k].roots, b)]]
    IN  Only(parts, {part \in ToSet(parts) : part.chain # << >>})

\* A value folded into nothing takes no operator.
AsField(parts) ==
    IF parts = << >> THEN parts ELSE [parts EXCEPT ![1].hard = TRUE]

Field(doc, b) == AsField(Parts(VisibleLayers(doc), b))

\* The half beneath the active layer, and the rejoin of the two in host floats.
HalfBelow(doc, b) == AsField(Parts(Front(VisibleLayers(doc)), b))

FoldLayersBelow(below, chain) ==
    AsField(IF chain = << >> THEN below
            ELSE Append(below, [hard |-> TRUE, chain |-> chain]))

\* Where a layer's items reach.
Influence(roots) == UNION {roots[k].at : k \in DOMAIN roots}

NodeIds(roots) == [k \in DOMAIN roots |-> roots[k].node]

\* appended_is_tail_of
IsTailOf(nodes, roots) == IsSuffix(nodes, NodeIds(roots))
=============================================================================
