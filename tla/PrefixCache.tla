----------------------------- MODULE PrefixCache -----------------------------
(***************************************************************************)
(* session::SdfPrefixCache: the values of the first roots of a layer,      *)
(* baked into a volume, most recently used first.                          *)
(*                                                                         *)
(* An entry is the roots it was baked from: they stand for the volume's    *)
(* samples and for the digest that says whether the layer still has them.  *)
(* Digesting is proportional to the prefix, so a caller may hand in a      *)
(* witness that is to move whenever a root can have changed, and an entry  *)
(* verified under the present witness is not digested again.               *)
(***************************************************************************)
EXTENDS LayeredField

NoWitness == 0
EmptyCache(budget) == [entries |-> << >>, witness |-> NoWitness, budget |-> budget]

\* evict_to_budget, one unit an entry, least recently used first.  A budget of
\* zero is the host's OFF: it clears the cache, and builds nothing.
PrefixEvict(cache) ==
    [cache EXCEPT !.entries = SubSeq(@, 1, IF Len(@) < cache.budget THEN Len(@) ELSE cache.budget)]

HasRoots(entry, layer) ==
    /\ entry.layer = layer.id
    /\ IsPrefix(entry.roots, layer.roots)

\* verify, for the entry at position k: trusted, or digested, or dropped.
Trusted(cache, k) == cache.witness # NoWitness /\ cache.entries[k].verified = cache.witness
Verifies(cache, k, layer) == Trusted(cache, k) \/ HasRoots(cache.entries[k], layer)

AfterVerify(cache, k, layer) ==
    LET rest == RemoveAt(cache.entries, k)
    IN  [cache EXCEPT !.entries =
            IF Verifies(cache, k, layer)
            THEN <<[cache.entries[k] EXCEPT !.verified = cache.witness]>> \o rest
            ELSE rest]

\* find_usable: the longest cached prefix that leaves the layer a suffix.
Usable(cache, layer) ==
    {k \in DOMAIN cache.entries :
        /\ cache.entries[k].layer = layer.id
        /\ Len(cache.entries[k].roots) < Len(layer.roots)}

BestUsable(cache, layer) ==
    CHOOSE k \in Usable(cache, layer) :
        \A j \in Usable(cache, layer) :
            Len(cache.entries[j].roots) <= Len(cache.entries[k].roots)

FindsUsable(cache, layer) ==
    Usable(cache, layer) # {} /\ Verifies(cache, BestUsable(cache, layer), layer)

AfterFindUsable(cache, layer) ==
    IF Usable(cache, layer) = {} THEN cache
    ELSE AfterVerify(cache, BestUsable(cache, layer), layer)

\* build, at the boundary prefix_boundary_for chose; what is there already and
\* verifies is kept.
Keyed(cache, layer, boundary) ==
    {k \in DOMAIN cache.entries :
        cache.entries[k].layer = layer.id /\ Len(cache.entries[k].roots) = boundary}

AfterFind(cache, layer, boundary) ==
    LET found == Keyed(cache, layer, boundary)
    IN  IF found = {} THEN cache
        ELSE AfterVerify(cache, CHOOSE k \in found : TRUE, layer)

AfterBuild(cache, layer, boundary) ==
    LET looked == AfterFind(cache, layer, boundary)
        built == [layer |-> layer.id, roots |-> SubSeq(layer.roots, 1, boundary),
                  verified |-> NoWitness]
    IN  IF Keyed(looked, layer, boundary) # {} THEN looked
        ELSE PrefixEvict([looked EXCEPT !.entries = <<built>> \o @])

\* prefix_boundary_for
PrefixBoundary(layer, keepLive) ==
    IF Len(layer.roots) > keepLive THEN Len(layer.roots) - keepLive ELSE 0

\* invalidate_layer
AfterInvalidate(cache, id) ==
    [cache EXCEPT !.entries = Only(@, {entry \in ToSet(@) : entry.layer # id})]
=============================================================================
