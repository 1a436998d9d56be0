-------------------------- MODULE SeedStoreProofs ---------------------------
(***************************************************************************)
(* The refill of SeedStore, for documents of any layers and roots and any  *)
(* number of readers and edits: what plan_resume takes from the append log *)
(* is the tail of the layer it names, the store and its order agree and    *)
(* stay within the budget, no seed goes back, and the prefix a drag keeps  *)
(* is the value of the roots the drag leaves alone.                        *)
(*                                                                         *)
(* First the log, then the kinds of the state and what the loops of a      *)
(* refill leave (folds, taken with FoldLemmas), then one lemma an action.  *)
(***************************************************************************)
EXTENDS SeedStore, SequenceTheorems, FoldLemmas

Log == [valid: BOOLEAN, layer: Nat, base: Nat, at: Nat, nodes: Seq(Nat), reaches: Seq(Reach)]

\* Layers of the right kind, numbered bottom first.
Numbered(d) ==
    /\ d \in Seq(Layer)
    /\ \A l \in 1..Len(d) : d[l].id = l

LogTyped ==
    /\ revision \in Nat
    /\ log \in Log

\* The log starts at `base`, grows by one entry a revision, and its last
\* entry was made to a layer of the document whose roots it ends.
LogFollows ==
    log.valid =>
        /\ log.at = revision
        /\ log.base + Len(log.nodes) = revision
        /\ log.layer \in 1..Len(doc)
        /\ IsTailOf(log.nodes, doc[log.layer].roots)

LogIInv == Numbered(doc) /\ LogTyped /\ LogFollows

-----------------------------------------------------------------------------
\* A suffix, element by element.
LEMMA SuffixPointwise ==
    ASSUME NEW S, NEW s \in Seq(S), NEW t \in Seq(S)
    PROVE  IsSuffix(s, t) <=>
               /\ Len(s) <= Len(t)
               /\ \A k \in 1..Len(s) : s[k] = t[Len(t) - Len(s) + k]
  <1> DEFINE n == Len(s)
             m == Len(t)
             rs == Reverse(s)
             rt == Reverse(t)
  <1>1. n \in Nat /\ m \in Nat
    OBVIOUS
  <1>2. /\ rs \in Seq(S) /\ Len(rs) = n
        /\ \A i \in 1..n : rs[i] = s[n - i + 1]
    BY <1>1 DEF Reverse
  <1>3. /\ rt \in Seq(S) /\ Len(rt) = m
        /\ \A i \in 1..m : rt[i] = t[m - i + 1]
    BY <1>1 DEF Reverse
  <1> HIDE DEF rs, rt
  <1>4. n <= m => /\ SubSeq(rs, 1, n) \in Seq(S) /\ Len(SubSeq(rs, 1, n)) = n
                  /\ SubSeq(rt, 1, n) \in Seq(S) /\ Len(SubSeq(rt, 1, n)) = n
                  /\ \A i \in 1..n : SubSeq(rs, 1, n)[i] = s[n - i + 1]
                  /\ \A i \in 1..n : SubSeq(rt, 1, n)[i] = t[m - i + 1]
    BY <1>1, <1>2, <1>3
  <1>5. n <= m => (SubSeq(rs, 1, n) = SubSeq(rt, 1, n) <=>
                      \A i \in 1..n : s[n - i + 1] = t[m - i + 1])
    BY <1>1, <1>4, SeqEqual
  <1>6. n <= m => ((\A i \in 1..n : s[n - i + 1] = t[m - i + 1]) <=>
                   (\A k \in 1..n : s[k] = t[m - n + k]))
    <2> SUFFICES ASSUME n <= m
                 PROVE  (\A i \in 1..n : s[n - i + 1] = t[m - i + 1]) <=>
                        (\A k \in 1..n : s[k] = t[m - n + k])
      OBVIOUS
    <2>1. ASSUME \A i \in 1..n : s[n - i + 1] = t[m - i + 1], NEW k \in 1..n
          PROVE  s[k] = t[m - n + k]
      <3>1. n - k + 1 \in 1..n /\ n - (n - k + 1) + 1 = k /\ m - (n - k + 1) + 1 = m - n + k
        BY <1>1
      <3> QED
        BY <2>1, <3>1
    <2>2. ASSUME \A k \in 1..n : s[k] = t[m - n + k], NEW i \in 1..n
          PROVE  s[n - i + 1] = t[m - i + 1]
      <3>1. n - i + 1 \in 1..n /\ m - n + (n - i + 1) = m - i + 1
        BY <1>1
      <3> QED
        BY <2>2, <3>1
    <2> QED
      BY <2>1, <2>2
  <1> QED
    BY <1>1, <1>2, <1>3, <1>5, <1>6 DEF IsSuffix, IsPrefix, rs, rt

\* A suffix stays one when both sequences grow by the same element.
LEMMA SuffixGrows ==
    ASSUME NEW S, NEW s \in Seq(S), NEW t \in Seq(S), NEW x \in S, IsSuffix(s, t)
    PROVE  IsSuffix(Append(s, x), Append(t, x))
  <1> DEFINE u == Append(s, x)
             v == Append(t, x)
  <1>1. /\ u \in Seq(S) /\ Len(u) = Len(s) + 1 /\ u[Len(s) + 1] = x
        /\ v \in Seq(S) /\ Len(v) = Len(t) + 1 /\ v[Len(t) + 1] = x
        /\ \A k \in 1..Len(s) : u[k] = s[k]
        /\ \A k \in 1..Len(t) : v[k] = t[k]
        /\ Len(s) \in Nat /\ Len(t) \in Nat
    BY AppendProperties
  <1>2. Len(s) <= Len(t) /\ \A k \in 1..Len(s) : s[k] = t[Len(t) - Len(s) + k]
    BY SuffixPointwise
  <1> HIDE DEF u, v
  <1>3. Len(u) <= Len(v)
    BY <1>1, <1>2
  <1>4. ASSUME NEW k \in 1..Len(u) PROVE u[k] = v[Len(v) - Len(u) + k]
    <2>1. CASE k = Len(u)
      BY <2>1, <1>1, <1>2
    <2>2. CASE k # Len(u)
      <3>1. k \in 1..Len(s) /\ Len(v) - Len(u) + k = Len(t) - Len(s) + k
        BY <2>2, <1>1
      <3>2. Len(t) - Len(s) + k \in 1..Len(t)
        BY <3>1, <1>1, <1>2
      <3> QED
        BY <3>1, <3>2, <1>1, <1>2
    <2> QED
      BY <2>1, <2>2
  <1>5. IsSuffix(u, v)
    BY <1>1, <1>3, <1>4, SuffixPointwise
  <1> QED
    BY <1>5 DEF u, v

\* The empty sequence is a suffix of every sequence.
LEMMA EmptySuffix ==
    ASSUME NEW S, NEW t \in Seq(S)
    PROVE  IsSuffix(<< >>, t)
  <1>1. << >> \in Seq(S) /\ Len(<< >>) = 0 /\ Len(t) \in Nat
    OBVIOUS
  <1>2. \A k \in 1..Len(<< >>) : FALSE
    BY <1>1
  <1>3. IsSuffix(<< >>, t) <=>
            /\ Len(<< >>) <= Len(t)
            /\ \A k \in 1..Len(<< >>) : << >>[k] = t[Len(t) - Len(<< >>) + k]
    BY <1>1, SuffixPointwise, Zenon
  <1> QED
    BY <1>1, <1>2, <1>3

\* The ids of a layer's roots, and of one root more.
LEMMA IdsOfRoots ==
    ASSUME NEW roots \in Seq(Item)
    PROVE  /\ NodeIds(roots) \in Seq(Nat)
           /\ Len(NodeIds(roots)) = Len(roots)
           /\ \A k \in 1..Len(roots) : NodeIds(roots)[k] = roots[k].node
  <1>1. Len(roots) \in Nat /\ DOMAIN roots = 1..Len(roots)
    OBVIOUS
  <1>2. \A k \in 1..Len(roots) : roots[k].node \in Nat
    <2> TAKE k \in 1..Len(roots)
    <2>1. roots[k] \in Item
      BY ElementOfSeq
    <2> QED
      BY <2>1 DEF Item
  <1>3. NodeIds(roots) = [k \in 1..Len(roots) |-> roots[k].node]
    BY <1>1 DEF NodeIds
  <1>4. NodeIds(roots) \in [1..Len(roots) -> Nat]
    BY <1>2, <1>3
  <1>5. NodeIds(roots) \in Seq(Nat)
    BY <1>1, <1>4, SeqDef
  <1>6. DOMAIN NodeIds(roots) = 1..Len(NodeIds(roots))
    BY <1>5, LenProperties
  <1> QED
    BY <1>1, <1>3, <1>5, <1>6

\* A root appended appends its id.
LEMMA IdsOfAppend ==
    ASSUME NEW roots \in Seq(Item), NEW item \in Item
    PROVE  NodeIds(Append(roots, item)) = Append(NodeIds(roots), item.node)
  <1> DEFINE more == Append(roots, item)
             ids == NodeIds(roots)
             moreIds == NodeIds(more)
  <1>1. /\ more \in Seq(Item) /\ Len(more) = Len(roots) + 1 /\ Len(roots) \in Nat
        /\ more[Len(roots) + 1] = item
        /\ \A k \in 1..Len(roots) : more[k] = roots[k]
    BY AppendProperties
  <1>2. ids \in Seq(Nat) /\ Len(ids) = Len(roots) /\ \A k \in 1..Len(roots) : ids[k] = roots[k].node
    BY IdsOfRoots
  <1> HIDE DEF more
  <1>3. /\ moreIds \in Seq(Nat) /\ Len(moreIds) = Len(roots) + 1
        /\ \A k \in 1..Len(roots) + 1 : moreIds[k] = more[k].node
    BY <1>1, IdsOfRoots
  <1> HIDE DEF ids, moreIds
  <1>4. item.node \in Nat
    BY DEF Item
  <1>5. /\ Append(ids, item.node) \in Seq(Nat)
        /\ Len(Append(ids, item.node)) = Len(roots) + 1
        /\ \A k \in 1..Len(roots) : Append(ids, item.node)[k] = ids[k]
        /\ Append(ids, item.node)[Len(roots) + 1] = item.node
    BY <1>2, <1>4, AppendProperties
  <1>6. \A k \in 1..Len(roots) + 1 : moreIds[k] = Append(ids, item.node)[k]
    BY <1>1, <1>2, <1>3, <1>5, SMTT(30)
  <1>7. moreIds = Append(ids, item.node)
    BY <1>3, <1>5, <1>6, SeqEqual
  <1> QED
    BY <1>7 DEF ids, moreIds, more

-----------------------------------------------------------------------------
\* A layer changed in place: the document stays numbered.
LEMMA LayerChanged ==
    ASSUME NEW d, Numbered(d), NEW l \in DOMAIN d, NEW layer \in Layer, layer.id = d[l].id
    PROVE  /\ Numbered([d EXCEPT ![l] = layer])
           /\ Len([d EXCEPT ![l] = layer]) = Len(d)
           /\ [d EXCEPT ![l] = layer][l] = layer
  <1>1. Len(d) \in Nat /\ DOMAIN d = 1..Len(d)
    BY DEF Numbered
  <1>2. /\ [d EXCEPT ![l] = layer] \in Seq(Layer)
        /\ Len([d EXCEPT ![l] = layer]) = Len(d)
        /\ \A k \in 1..Len(d) : [d EXCEPT ![l] = layer][k] = IF k = l THEN layer ELSE d[k]
    BY <1>1, ExceptSeq DEF Numbered
  <1> QED
    BY <1>1, <1>2 DEF Numbered

\* Other roots in a layer: what AddNode, RemoveNode and the setters leave.
LEMMA RootsChanged ==
    ASSUME Numbered(doc), NEW l \in DOMAIN doc, NEW roots \in Seq(Item), NEW next \in Nat
    PROVE  /\ Numbered(WithRoots(l, roots, next))
           /\ Len(WithRoots(l, roots, next)) = Len(doc)
           /\ WithRoots(l, roots, next)[l].roots = roots
  <1> DEFINE layer == [doc[l] EXCEPT !.roots = roots, !.next = next]
  <1>1. doc[l] \in Layer
    BY DEF Numbered
  <1>2. layer \in Layer /\ layer.id = doc[l].id /\ layer.roots = roots
    BY <1>1 DEF Layer
  <1>3. WithRoots(l, roots, next) = [doc EXCEPT ![l] = layer]
    BY <1>1 DEF WithRoots, Layer, Numbered
  <1> HIDE DEF layer
  <1>4. /\ Numbered([doc EXCEPT ![l] = layer])
        /\ Len([doc EXCEPT ![l] = layer]) = Len(doc)
        /\ [doc EXCEPT ![l] = layer][l] = layer
    BY <1>2, LayerChanged
  <1> QED
    BY <1>2, <1>3, <1>4

\* One root changed in place: what a setter and touch() leave.
LEMMA RootChanged ==
    ASSUME Numbered(doc), NEW l \in DOMAIN doc, NEW k \in DOMAIN doc[l].roots,
           NEW item \in Item
    PROVE  Numbered([doc EXCEPT ![l].roots[k] = item])
  <1> DEFINE roots == [doc[l].roots EXCEPT ![k] = item]
             layer == [doc[l] EXCEPT !.roots = roots]
  <1>1. doc[l] \in Layer /\ doc[l].roots \in Seq(Item)
    <2>1. doc[l] \in Layer
      BY DEF Numbered
    <2> QED
      BY <2>1 DEF Layer
  <1>2. roots \in Seq(Item)
    BY <1>1, ExceptSeq, LenProperties
  <1> HIDE DEF roots
  <1>3. layer \in Layer /\ layer.id = doc[l].id
    BY <1>1, <1>2 DEF Layer
  <1>4. [doc EXCEPT ![l].roots[k] = item] = [doc EXCEPT ![l] = layer]
    BY DEF roots
  <1> HIDE DEF layer
  <1>5. Numbered([doc EXCEPT ![l] = layer])
    BY <1>3, LayerChanged
  <1> QED
    BY <1>4, <1>5

\* A new item, wherever it goes.
LEMMA NewItemTyped ==
    ASSUME Numbered(doc), LogTyped, NEW l \in DOMAIN doc, NEW at \in Reaches
    PROVE  /\ NewItem(l, at) \in Item
           /\ NewItem(l, at).node = doc[l].next
           /\ doc[l].next + 1 \in Nat
           /\ doc[l].id = l
           /\ doc[l].roots \in Seq(Item)
  <1>1. doc[l] \in Layer /\ doc[l].id = l
    BY DEF Numbered
  <1>2. at \in Reach
    BY DocumentsAssumption
  <1> QED
    BY <1>1, <1>2 DEF NewItem, Fresh, Item, Layer, LogTyped

\* An edit that is no append leaves no log to follow.
LEMMA Invalidated ==
    ASSUME LogTyped, revision' = revision + 1, log' = Forgotten(log)
    PROVE  LogTyped' /\ LogFollows'
  <1>1. << >> \in Seq(Nat) /\ << >> \in Seq(Reach)
    OBVIOUS
  <1>2. Forgotten(log) \in Log /\ ~Forgotten(log).valid
    BY <1>1 DEF LogTyped, Forgotten, Log
  <1>3. revision + 1 \in Nat
    BY DEF LogTyped
  <1> QED
    BY <1>2, <1>3 DEF LogTyped, LogFollows

\* An append extends the log and the roots of its layer alike.
LEMMA AppendStep ==
    ASSUME LogIInv, NEW l \in DOMAIN doc, NEW at \in Reaches, AppendItem(l, at)
    PROVE  LogIInv'
  <1> DEFINE item == NewItem(l, at)
             roots == doc[l].roots
             node == doc[l].next
             newRoots == Append(roots, item)
  <1>1. /\ item \in Item /\ item.node = node /\ node + 1 \in Nat
        /\ doc[l].id = l /\ roots \in Seq(Item)
    BY NewItemTyped DEF LogIInv
  <1>2. node \in Nat /\ l \in 1..Len(doc)
    <2>1. doc[l] \in Layer /\ l \in 1..Len(doc)
      BY DEF LogIInv, Numbered
    <2> QED
      BY <2>1 DEF Layer
  <1>3. newRoots \in Seq(Item)
    BY <1>1
  <1>4. /\ doc' = WithRoots(l, newRoots, node + 1)
        /\ log' = LogAppend(log, l, node, at)
        /\ revision' = revision + 1
    BY <1>1 DEF AppendItem, TouchAppended
  <1>5. NodeIds(newRoots) = Append(NodeIds(roots), node)
    BY <1>1, IdsOfAppend
  <1>6. NodeIds(roots) \in Seq(Nat)
    BY <1>1, IdsOfRoots
  <1> HIDE DEF newRoots, item, roots
  <1>7. Numbered(doc') /\ Len(doc') = Len(doc) /\ doc'[l].roots = newRoots
    BY <1>1, <1>3, <1>4, RootsChanged DEF LogIInv
  <1>8. at \in Reach
    BY DocumentsAssumption
  <1> DEFINE goesOn == log.valid /\ log.layer = l /\ log.at = revision
             before == IF goesOn THEN log.nodes ELSE << >>
  <1>9. before \in Seq(Nat) /\ IsSuffix(before, NodeIds(roots))
    <2>1. CASE goesOn
      BY <2>1 DEF LogIInv, LogTyped, Log, LogFollows, IsTailOf, roots
    <2>2. CASE ~goesOn
      <3>1. IsSuffix(<< >>, NodeIds(roots))
        BY <1>6, EmptySuffix
      <3> QED
        BY <2>2, <3>1
    <2> QED
      BY <2>1, <2>2
  <1>10. log'.nodes = Append(before, node)
    BY <1>4 DEF LogAppend
  <1>11. Append(before, node) \in Seq(Nat) /\ Len(Append(before, node)) = Len(before) + 1
    BY <1>2, <1>9
  <1>12. IsTailOf(log'.nodes, newRoots)
    BY <1>2, <1>5, <1>6, <1>9, <1>10, SuffixGrows DEF IsTailOf
  <1>13. LogTyped'
    BY <1>2, <1>4, <1>8 DEF LogIInv, LogTyped, Log, LogAppend
  <1>14. /\ log'.valid /\ log'.layer = l /\ log'.at = revision'
         /\ log'.base + Len(log'.nodes) = revision'
    <2>1. Len(before) \in Nat /\ revision \in Nat
      BY <1>9 DEF LogIInv, LogTyped
    <2>4. log'.valid /\ log'.layer = l /\ log'.at = revision'
      BY <1>4 DEF LogAppend
    <2>5. Len(log'.nodes) = Len(before) + 1
      BY <1>10, <1>11
    <2> HIDE DEF before
    <2>2. CASE goesOn
      <3>1. log'.base = log.base /\ log.base + Len(before) = revision /\ log.base \in Nat
        BY <2>2, <1>4 DEF before, LogAppend, LogIInv, LogFollows, LogTyped, Log
      <3> QED
        BY <2>1, <2>4, <2>5, <3>1, <1>4
    <2>3. CASE ~goesOn
      <3>1. log'.base = revision
        BY <2>3, <1>1, <1>4 DEF LogAppend
      <3>2. before = << >>
        BY <2>3 DEF before
      <3>3. Len(before) = 0
        BY <3>2
      <3> QED
        BY <2>1, <2>4, <2>5, <3>1, <3>3, <1>4
    <2> QED
      BY <2>2, <2>3
  <1>15. LogFollows'
    BY <1>2, <1>7, <1>12, <1>14 DEF LogFollows
  <1> QED
    BY <1>7, <1>13, <1>15 DEF LogIInv

\* What the edits write, one by one: the document stays numbered.
LEMMA EditsKeepNumbered ==
    ASSUME Numbered(doc), LogTyped, NEW l \in DOMAIN doc
    PROVE  /\ \A at \in Reaches, k \in DOMAIN doc[l].roots :
                 InsertItem(l, k, at) \/ SetItem(l, k, at) => Numbered(doc')
           /\ \A k \in DOMAIN doc[l].roots : RemoveItem(l, k) \/ Touch(l, k) => Numbered(doc')
           /\ SetVisible(l) \/ SetComposition(l) => Numbered(doc')
  <1> DEFINE roots == doc[l].roots
  <1>1. doc[l] \in Layer
    BY DEF Numbered
  <1>2. /\ doc[l].id = l /\ roots \in Seq(Item) /\ doc[l].next \in Nat
        /\ doc[l].visible \in BOOLEAN /\ doc[l].hard \in BOOLEAN
        /\ Len(roots) \in Nat /\ DOMAIN roots = 1..Len(roots)
    BY <1>1, SMTT(30) DEF Numbered, Layer
  <1>3. \A k \in DOMAIN roots : roots[k] \in Item
    BY <1>2
  <1>4. Fresh \in Nat
    BY DEF Fresh, LogTyped
  <1>5. ASSUME NEW at \in Reaches, NEW k \in DOMAIN roots, InsertItem(l, k, at)
        PROVE  Numbered(doc')
    <2>1. NewItem(l, at) \in Item /\ doc[l].next + 1 \in Nat
      BY NewItemTyped
    <2>2. InsertAt(roots, k, NewItem(l, at)) \in Seq(Item)
      BY <1>2, <1>3, <2>1 DEF InsertAt
    <2> HIDE DEF roots
    <2>3. doc' = WithRoots(l, InsertAt(roots, k, NewItem(l, at)), doc[l].next + 1)
      BY <1>5 DEF InsertItem, roots
    <2> QED
      BY <2>1, <2>2, <2>3, RootsChanged
  <1>6. ASSUME NEW k \in DOMAIN roots, RemoveItem(l, k)
        PROVE  Numbered(doc')
    <2>1. RemoveAt(roots, k) \in Seq(Item)
      BY <1>2, <1>3 DEF RemoveAt
    <2> HIDE DEF roots
    <2>2. doc' = WithRoots(l, RemoveAt(roots, k), doc[l].next)
      BY <1>6 DEF RemoveItem, roots
    <2> QED
      BY <1>2, <2>1, <2>2, RootsChanged
  <1>7. ASSUME NEW at \in Reaches, NEW k \in DOMAIN roots, SetItem(l, k, at)
        PROVE  Numbered(doc')
    <2> DEFINE item == [roots[k] EXCEPT !.shape = Fresh, !.at = at]
    <2>1. at \in Reach
      BY DocumentsAssumption
    <2>2. item \in Item
      BY <1>3, <1>4, <2>1 DEF Item
    <2>3. doc' = [doc EXCEPT ![l].roots[k] = item]
      BY <1>7 DEF SetItem
    <2> HIDE DEF item
    <2> QED
      BY <2>2, <2>3, RootChanged
  <1>8. ASSUME NEW k \in DOMAIN roots, Touch(l, k)
        PROVE  Numbered(doc')
    <2> DEFINE item == [roots[k] EXCEPT !.shape = Fresh]
    <2>1. item \in Item
      BY <1>3, <1>4 DEF Item
    <2>2. doc' = [doc EXCEPT ![l].roots[k] = item]
      BY <1>8 DEF Touch
    <2> HIDE DEF item
    <2> QED
      BY <2>1, <2>2, RootChanged
  <1>9. ASSUME SetVisible(l) PROVE Numbered(doc')
    <2> DEFINE layer == [doc[l] EXCEPT !.visible = ~@]
    <2>1. layer \in Layer /\ layer.id = doc[l].id
      BY <1>1, <1>2 DEF Layer
    <2>2. doc' = [doc EXCEPT ![l] = layer]
      BY <1>9 DEF SetVisible
    <2> HIDE DEF layer
    <2> QED
      BY <2>1, <2>2, LayerChanged
  <1>10. ASSUME SetComposition(l) PROVE Numbered(doc')
    <2> DEFINE layer == [doc[l] EXCEPT !.hard = ~@]
    <2>1. layer \in Layer /\ layer.id = doc[l].id
      BY <1>1, <1>2 DEF Layer
    <2>2. doc' = [doc EXCEPT ![l] = layer]
      BY <1>10 DEF SetComposition
    <2> HIDE DEF layer
    <2> QED
      BY <2>1, <2>2, LayerChanged
  <1> QED
    BY <1>5, <1>6, <1>7, <1>8, <1>9, <1>10

\* A layer added on top takes the next number.
LEMMA AddLayerStep ==
    ASSUME Numbered(doc), NEW hard \in BOOLEAN, AddLayer(hard)
    PROVE  Numbered(doc')
  <1> DEFINE layer == [id |-> Len(doc) + 1, visible |-> TRUE, hard |-> hard,
                       roots |-> << >>, next |-> 1]
  <1>1. doc \in Seq(Layer) /\ Len(doc) \in Nat
    BY DEF Numbered
  <1>2. layer \in Layer /\ layer.id = Len(doc) + 1
    BY <1>1 DEF Layer
  <1>3. doc' = Append(doc, layer)
    BY DEF AddLayer
  <1> HIDE DEF layer
  <1>4. /\ doc' \in Seq(Layer) /\ Len(doc') = Len(doc) + 1
        /\ \A l \in 1..Len(doc) : doc'[l] = doc[l]
        /\ doc'[Len(doc) + 1] = layer
    BY <1>1, <1>2, <1>3, AppendProperties
  <1> QED
    BY <1>1, <1>2, <1>4 DEF Numbered

\* Every edit keeps the invariant: an append extends the log, any other drops it.
LEMMA EditStep == LogIInv /\ Edit => LogIInv'
  <1> SUFFICES ASSUME LogIInv, Edit PROVE LogIInv'
    OBVIOUS
  <1> USE DEF LogIInv
  <1>1. ASSUME NEW l \in DOMAIN doc, NEW at \in Reaches, AppendItem(l, at) PROVE LogIInv'
    BY <1>1, AppendStep
  <1>2. ASSUME NEW l \in DOMAIN doc, NEW at \in Reaches, NEW k \in DOMAIN doc[l].roots,
               InsertItem(l, k, at) \/ SetItem(l, k, at)
        PROVE  LogIInv'
    <2>1. revision' = revision + 1 /\ log' = Forgotten(log)
      BY <1>2 DEF InsertItem, SetItem, TouchRegionStructural, TouchRegionFrom
    <2> QED
      BY <1>2, <2>1, EditsKeepNumbered, Invalidated
  <1>3. ASSUME NEW l \in DOMAIN doc, NEW k \in DOMAIN doc[l].roots,
               RemoveItem(l, k) \/ Touch(l, k)
        PROVE  LogIInv'
    <2>1. revision' = revision + 1 /\ log' = Forgotten(log)
      BY <1>3 DEF RemoveItem, Touch, TouchRegionStructural
    <2> QED
      BY <1>3, <2>1, EditsKeepNumbered, Invalidated
  <1>4. ASSUME NEW l \in DOMAIN doc, SetVisible(l) \/ SetComposition(l) PROVE LogIInv'
    <2>1. revision' = revision + 1 /\ log' = Forgotten(log)
      BY <1>4 DEF SetVisible, SetComposition, TouchRegionStructural, TouchRegionFrom
    <2> QED
      BY <1>4, <2>1, EditsKeepNumbered, Invalidated
  <1>5. ASSUME NEW hard \in BOOLEAN, AddLayer(hard) PROVE LogIInv'
    <2>1. revision' = revision + 1 /\ log' = Forgotten(log)
      BY <1>5 DEF AddLayer, TouchRegionStructural
    <2> QED
      BY <1>5, <2>1, AddLayerStep, Invalidated
  <1> QED
    BY <1>1, <1>2, <1>3, <1>4, <1>5 DEF Edit

\* A refill, a drag and a host's call read the log and leave it.
LEMMA LogStep == LogIInv /\ [Next]_vars => LogIInv'
  <1> SUFFICES ASSUME LogIInv, [Next]_vars PROVE LogIInv'
    OBVIOUS
  <1>1. CASE Edit
    BY <1>1, EditStep
  <1>2. ASSUME UNCHANGED <<doc, revision, log>> PROVE LogIInv'
    BY <1>2 DEF LogIInv, LogTyped, LogFollows
  <1>3. Refill => UNCHANGED <<doc, revision, log>>
    BY DEF Refill, BeginRefill, StoreResumed, WalkMissing
  <1>4. (\E warps \in SUBSET (0 .. Len(Active(doc).roots) - 1) : PrepareDrag(warps))
            => UNCHANGED <<doc, revision, log>>
    BY DEF PrepareDrag
  <1>5. StorePrefixes => UNCHANGED <<doc, revision, log>>
    BY DEF StorePrefixes
  <1>6. \A cache : HostCalls(cache) => UNCHANGED <<doc, revision, log>>
    BY DEF HostCalls
  <1>7. CASE UNCHANGED vars
    BY <1>2, <1>7 DEF vars
  <1>8. (\E l \in DOMAIN doc : BuildPrefix(l) \/ InvalidatePrefixes(l))
            => UNCHANGED <<doc, revision, log>>
    BY <1>6 DEF BuildPrefix, InvalidatePrefixes
  <1>9. ClearPrefixes \/ (\E budget \in PrefixBudgets : SetPrefixBudget(budget))
            => UNCHANGED <<doc, revision, log>>
    BY <1>6 DEF ClearPrefixes, SetPrefixBudget
  <1> QED
    BY <1>1, <1>2, <1>3, <1>4, <1>5, <1>7, <1>8, <1>9 DEF Next

(***************************************************************************)
(* The log a refill reads under the lock is never behind the document: it  *)
(* reaches the present revision, and its entries are the last roots of the *)
(* layer it names, so folding them onto a seed of an earlier revision      *)
(* repeats no root and misses none (touch_appended, appends_since).        *)
(***************************************************************************)
THEOREM LogIsCurrent == Spec => []LogReachesNow
  <1>1. Init => LogIInv
    <2> SUFFICES ASSUME Init PROVE LogIInv
      OBVIOUS
    <2>1. Numbered(doc)
      BY DocumentsAssumption DEF Init, Numbered
    <2>2. EmptyLog \in Log /\ ~EmptyLog.valid
      BY DEF EmptyLog, Log
    <2> QED
      BY <2>1, <2>2 DEF Init, LogIInv, LogTyped, LogFollows
  <1>2. LogIInv => LogReachesNow
    BY DEF LogIInv, Numbered, LogFollows, LogReachesNow
  <1> QED
    BY <1>1, <1>2, LogStep, PTL DEF Spec

-----------------------------------------------------------------------------
(* The helper the field and the store filter sequences with.               *)

\* The function Only runs, prefix after prefix.
Filters(f, seq, S) ==
    f = [k \in 0..Len(seq) |->
            IF k = 0 THEN << >>
            ELSE IF seq[k] \in S THEN Append(f[k - 1], seq[k]) ELSE f[k - 1]]

\* The same, prefix after prefix, with the type of what it leaves.
FiltersTo(f, seq, S, T) ==
    /\ f \in [0..Len(seq) -> Seq(T)]
    /\ f[0] = << >>
    /\ \A k \in 1..Len(seq) :
          f[k] = IF seq[k] \in S THEN Append(f[k - 1], seq[k]) ELSE f[k - 1]

\* The recursion of Only defines a function.
LEMMA OnlyExists ==
    ASSUME NEW T, NEW seq \in Seq(T), NEW S
    PROVE  \E f : Filters(f, seq, S)
  <1> DEFINE KeptBy(f, n) == f = [k \in 0..n |->
                 IF k = 0 THEN << >>
                 ELSE IF seq[k] \in S THEN Append(f[k - 1], seq[k]) ELSE f[k - 1]]
             Good == {n \in Nat : \E f : KeptBy(f, n)}
  <1>1. 0 \in Good
    <2> DEFINE f == [k \in 0..0 |-> << >>]
    <2>1. \A k \in 0..0 : k = 0
      OBVIOUS
    <2>2. f = [k \in 0..0 |->
                 IF k = 0 THEN << >>
                 ELSE IF seq[k] \in S THEN Append(f[k - 1], seq[k]) ELSE f[k - 1]]
      BY <2>1
    <2> QED
      BY <2>2
  <1>2. ASSUME NEW n \in Nat, n \in Good PROVE n + 1 \in Good
    <2>1. PICK f : KeptBy(f, n)
      BY <1>2
    <2> DEFINE g == [k \in 0..n + 1 |->
                 IF k = 0 THEN << >>
                 ELSE IF seq[k] \in S THEN Append(f[k - 1], seq[k]) ELSE f[k - 1]]
    <2>2. \A k \in 0..n : k \in 0..n + 1 /\ g[k] = f[k]
      <3>1. \A k \in 0..n : k \in 0..n + 1
        OBVIOUS
      <3>2. \A k \in 0..n : f[k] = IF k = 0 THEN << >>
                 ELSE IF seq[k] \in S THEN Append(f[k - 1], seq[k]) ELSE f[k - 1]
        BY <2>1
      <3> QED
        BY <3>1, <3>2
    <2>3. \A k \in 0..n + 1 : k # 0 => k - 1 \in 0..n
      OBVIOUS
    <2>4. \A k \in 0..n + 1 : k # 0 => g[k - 1] = f[k - 1]
      BY <2>2, <2>3
    <2>5. \A k \in 0..n + 1 :
             g[k] = IF k = 0 THEN << >>
                    ELSE IF seq[k] \in S THEN Append(g[k - 1], seq[k]) ELSE g[k - 1]
      BY <2>4
    <2>6. g = [k \in 0..n + 1 |-> g[k]]
      OBVIOUS
    <2> HIDE DEF g
    <2>7. KeptBy(g, n + 1)
      BY <2>5, <2>6
    <2> HIDE DEF KeptBy
    <2> QED
      BY <2>7
  <1>3. Nat \subseteq Good
    <2> HIDE DEF Good
    <2> QED
      BY <1>1, <1>2, NatSetInduction
  <1>4. Len(seq) \in Good
    <2> HIDE DEF Good
    <2>1. Len(seq) \in Nat
      OBVIOUS
    <2> QED
      BY <1>3, <2>1
  <1> QED
    BY <1>4 DEF Filters

\* Only runs through sequences of the same kind.
LEMMA OnlyRuns ==
    ASSUME NEW T, NEW seq \in Seq(T), NEW S
    PROVE  \E f : FiltersTo(f, seq, S, T) /\ Only(seq, S) = f[Len(seq)]
  <1> DEFINE f == CHOOSE f : Filters(f, seq, S)
             n == Len(seq)
  <1>1. Filters(f, seq, S)
    <2> HIDE DEF Filters
    <2> QED
      BY OnlyExists
  <1>2. Only(seq, S) = f[n]
    BY DEF Only, Filters
  <1>0. n \in Nat /\ \A k \in 1..n : seq[k] \in T
    OBVIOUS
  <1>3. \A k \in 0..n : f[k] = IF k = 0 THEN << >>
                    ELSE IF seq[k] \in S THEN Append(f[k - 1], seq[k]) ELSE f[k - 1]
    BY <1>1 DEF Filters
  <1>3a. f = [k \in 0..n |-> f[k]]
    BY <1>1 DEF Filters
  <1> HIDE DEF f, n
  <1>4. f[0] = << >> /\ \A k \in 1..n :
             f[k] = IF seq[k] \in S THEN Append(f[k - 1], seq[k]) ELSE f[k - 1]
    BY <1>0, <1>3
  <1> DEFINE P == {k \in Nat : k <= n => f[k] \in Seq(T)}
  <1>5. Nat \subseteq P
    <2>0. << >> \in Seq(T)
      OBVIOUS
    <2>1. 0 \in P
      BY <1>4, <2>0
    <2>2. ASSUME NEW k \in Nat, k \in P PROVE k + 1 \in P
      <3> SUFFICES ASSUME k + 1 <= n PROVE f[k + 1] \in Seq(T)
        OBVIOUS
      <3>1. k + 1 \in 1..n /\ (k + 1) - 1 = k /\ f[k] \in Seq(T)
        BY <1>0, <2>2
      <3>2. f[k + 1] = IF seq[k + 1] \in S THEN Append(f[k], seq[k + 1]) ELSE f[k]
        BY <1>4, <3>1
      <3> QED
        BY <1>0, <3>1, <3>2
    <2> HIDE DEF P
    <2> QED
      BY <2>1, <2>2, NatSetInduction
  <1>6. f \in [0..n -> Seq(T)]
    BY <1>0, <1>3a, <1>5
  <1>7. FiltersTo(f, seq, S, T)
    BY <1>4, <1>6 DEF FiltersTo, n
  <1> QED
    BY <1>2, <1>7 DEF n

\* Two sequences that keep the same elements at the same places, up to n.
AgreeUpTo(seq, S, other, R, n) ==
    \A k \in 1..n :
        /\ seq[k] \in S <=> other[k] \in R
        /\ seq[k] \in S => seq[k] = other[k]

\* Filters that agree on the elements agree on what they leave.
LEMMA RunsAgree ==
    ASSUME NEW T, NEW seq \in Seq(T), NEW S, NEW f, FiltersTo(f, seq, S, T),
           NEW other \in Seq(T), NEW R, NEW g, FiltersTo(g, other, R, T),
           NEW n \in Nat, n <= Len(seq), n <= Len(other), AgreeUpTo(seq, S, other, R, n)
    PROVE  f[n] = g[n]
  <1> DEFINE P == {k \in Nat : k <= n => f[k] = g[k]}
  <1>1. 0 \in P
    BY DEF FiltersTo
  <1>2. ASSUME NEW k \in Nat, k \in P PROVE k + 1 \in P
    <2> SUFFICES ASSUME k + 1 <= n PROVE f[k + 1] = g[k + 1]
      OBVIOUS
    <2>1. /\ k + 1 \in 1..n /\ k + 1 \in 1..Len(seq) /\ k + 1 \in 1..Len(other)
          /\ (k + 1) - 1 = k /\ f[k] = g[k]
      BY <1>2
    <2>2. /\ f[k + 1] = IF seq[k + 1] \in S THEN Append(f[k], seq[k + 1]) ELSE f[k]
          /\ g[k + 1] = IF other[k + 1] \in R THEN Append(g[k], other[k + 1]) ELSE g[k]
      BY <2>1 DEF FiltersTo
    <2>3. seq[k + 1] \in S <=> other[k + 1] \in R
      BY <2>1 DEF AgreeUpTo
    <2>4. seq[k + 1] \in S => seq[k + 1] = other[k + 1]
      BY <2>1 DEF AgreeUpTo
    <2> QED
      BY <2>1, <2>2, <2>3, <2>4
  <1>3. Nat \subseteq P
    <2> HIDE DEF P
    <2> QED
      BY <1>1, <1>2, NatSetInduction
  <1> QED
    BY <1>3

\* A run past elements it does not keep stands still.
LEMMA RunStays ==
    ASSUME NEW T, NEW seq \in Seq(T), NEW S, NEW f, FiltersTo(f, seq, S, T),
           NEW n \in 0..Len(seq), \A k \in n + 1..Len(seq) : seq[k] \notin S
    PROVE  f[Len(seq)] = f[n]
  <1> DEFINE P == {k \in Nat : n + k <= Len(seq) => f[n + k] = f[n]}
  <1>1. 0 \in P
    OBVIOUS
  <1>2. ASSUME NEW k \in Nat, k \in P PROVE k + 1 \in P
    <2> SUFFICES ASSUME n + (k + 1) <= Len(seq) PROVE f[n + (k + 1)] = f[n]
      OBVIOUS
    <2>1. /\ n + (k + 1) \in 1..Len(seq) /\ n + (k + 1) \in n + 1..Len(seq)
          /\ (n + (k + 1)) - 1 = n + k /\ f[n + k] = f[n]
      BY <1>2
    <2>2. f[n + (k + 1)] = f[n + k]
      BY <2>1 DEF FiltersTo
    <2> QED
      BY <2>1, <2>2
  <1>3. Len(seq) - n \in P
    <2>1. Nat \subseteq P
      <3> HIDE DEF P
      <3> QED
        BY <1>1, <1>2, NatSetInduction
    <2>2. Len(seq) - n \in Nat
      OBVIOUS
    <2> QED
      BY <2>1, <2>2
  <1>4. n + (Len(seq) - n) = Len(seq)
    OBVIOUS
  <1> QED
    BY <1>3, <1>4

\* Sequences that keep the same elements at the same places filter alike.
LEMMA OnlySame ==
    ASSUME NEW T, NEW seq \in Seq(T), NEW S, NEW other \in Seq(T), NEW R,
           Len(seq) = Len(other), AgreeUpTo(seq, S, other, R, Len(seq))
    PROVE  Only(seq, S) = Only(other, R)
  <1>1. PICK f : FiltersTo(f, seq, S, T) /\ Only(seq, S) = f[Len(seq)]
    BY OnlyRuns
  <1>2. PICK g : FiltersTo(g, other, R, T) /\ Only(other, R) = g[Len(other)]
    BY OnlyRuns
  <1>3. Len(seq) \in Nat
    OBVIOUS
  <1>4. f[Len(seq)] = g[Len(seq)]
    BY <1>1, <1>2, <1>3, RunsAgree
  <1> QED
    BY <1>1, <1>2, <1>4

\* With nothing to keep, nothing is left.
LEMMA OnlyNone ==
    ASSUME NEW T, NEW seq \in Seq(T), NEW S, \A k \in 1..Len(seq) : seq[k] \notin S
    PROVE  Only(seq, S) = << >>
  <1>1. PICK f : FiltersTo(f, seq, S, T) /\ Only(seq, S) = f[Len(seq)]
    BY OnlyRuns
  <1>2. 0 \in 0..Len(seq) /\ 0 + 1 = 1
    OBVIOUS
  <1>3. f[Len(seq)] = f[0]
    BY <1>1, <1>2, RunStays
  <1> QED
    BY <1>1, <1>3 DEF FiltersTo

\* What is left ends with the last element kept, after what comes before it.
LEMMA OnlyLast ==
    ASSUME NEW T, NEW seq \in Seq(T), NEW S, NEW l \in 1..Len(seq), seq[l] \in S,
           \A k \in l + 1..Len(seq) : seq[k] \notin S
    PROVE  Only(seq, S) = Append(Only(SubSeq(seq, 1, l - 1), S), seq[l])
  <1> DEFINE front == SubSeq(seq, 1, l - 1)
  <1>1. PICK f : FiltersTo(f, seq, S, T) /\ Only(seq, S) = f[Len(seq)]
    BY OnlyRuns
  <1>2. /\ front \in Seq(T) /\ Len(front) = l - 1 /\ l - 1 \in Nat /\ l \in 0..Len(seq)
        /\ \A k \in 1..l - 1 : front[k] = seq[k]
    OBVIOUS
  <1> HIDE DEF front
  <1>3. PICK g : FiltersTo(g, front, S, T) /\ Only(front, S) = g[Len(front)]
    BY <1>2, OnlyRuns
  <1>4. f[Len(seq)] = f[l]
    BY <1>1, <1>2, RunStays
  <1>5. f[l] = Append(f[l - 1], seq[l])
    BY <1>1 DEF FiltersTo
  <1>6. f[l - 1] = g[l - 1]
    <2>1. AgreeUpTo(seq, S, front, S, l - 1)
      BY <1>2 DEF AgreeUpTo
    <2>2. l - 1 <= Len(seq) /\ l - 1 <= Len(front)
      BY <1>2
    <2> QED
      BY <1>1, <1>2, <1>3, <2>1, <2>2, RunsAgree
  <1> QED
    BY <1>1, <1>2, <1>3, <1>4, <1>5, <1>6 DEF front

-----------------------------------------------------------------------------
\* What a sequence lists, with one element more.
LEMMA ListsAppend ==
    ASSUME NEW T, NEW s \in Seq(T), NEW x \in T
    PROVE  /\ ToSet(Append(s, x)) = ToSet(s) \cup {x}
           /\ IsInjective(s) /\ x \notin ToSet(s) => IsInjective(Append(s, x))
  <1> DEFINE t == Append(s, x)
  <1>1. /\ t \in Seq(T) /\ Len(t) = Len(s) + 1 /\ Len(s) \in Nat
        /\ \A k \in 1..Len(s) : t[k] = s[k]
        /\ t[Len(s) + 1] = x
    BY AppendProperties
  <1> HIDE DEF t
  <1>2. DOMAIN t = 1..Len(s) + 1 /\ DOMAIN s = 1..Len(s)
    BY <1>1
  <1>3. \A k \in 1..Len(s) + 1 : k \in 1..Len(s) \/ k = Len(s) + 1
    BY <1>1
  <1>3a. \A k \in 1..Len(s) : k \in 1..Len(s) + 1 /\ k # Len(s) + 1
    BY <1>1
  <1>3b. Len(s) + 1 \in 1..Len(s) + 1
    BY <1>1
  <1>4. ToSet(t) = ToSet(s) \cup {x}
    <2>1. \A y \in ToSet(t) : y \in ToSet(s) \cup {x}
      BY <1>1, <1>2, <1>3 DEF ToSet
    <2>2. \A y \in ToSet(s) : y \in ToSet(t)
      BY <1>1, <1>2, <1>3a DEF ToSet
    <2>3. x \in ToSet(t)
      BY <1>1, <1>2, <1>3b DEF ToSet
    <2> QED
      BY <2>1, <2>2, <2>3
  <1>5. ASSUME IsInjective(s), x \notin ToSet(s), NEW a \in DOMAIN t, NEW b \in DOMAIN t, t[a] = t[b]
        PROVE  a = b
    <2>1. \A k \in 1..Len(s) : s[k] # x
      BY <1>2, <1>5 DEF ToSet
    <2>2. a \in 1..Len(s) /\ b \in 1..Len(s) => a = b
      BY <1>1, <1>2, <1>5 DEF IsInjective
    <2> QED
      BY <1>1, <1>2, <1>3, <1>5, <2>1, <2>2
  <1> QED
    BY <1>4, <1>5 DEF t, IsInjective

\* The elements left are the ones kept, each as often as it came.
LEMMA OnlyLists ==
    ASSUME NEW T, NEW seq \in Seq(T), NEW S
    PROVE  /\ Only(seq, S) \in Seq(T)
           /\ ToSet(Only(seq, S)) = ToSet(seq) \cap S
           /\ IsInjective(seq) => IsInjective(Only(seq, S))
  <1>1. PICK f : FiltersTo(f, seq, S, T) /\ Only(seq, S) = f[Len(seq)]
    BY OnlyRuns
  <1> DEFINE n == Len(seq)
             upTo(k) == {seq[j] : j \in 1..k} \cap S
             Listed(k) == /\ ToSet(f[k]) = upTo(k)
                          /\ IsInjective(seq) => IsInjective(f[k])
             P == {k \in Nat : k <= n => Listed(k)}
  <1>2. n \in Nat /\ DOMAIN seq = 1..n /\ \A k \in 1..n : seq[k] \in T
    OBVIOUS
  <1>3. \A k \in 0..n : f[k] \in Seq(T)
    BY <1>1 DEF FiltersTo
  <1>4. 0 \in P
    <2>1. f[0] = << >>
      BY <1>1 DEF FiltersTo
    <2>2. ToSet(<< >>) = {} /\ IsInjective(<< >>)
      BY DEF ToSet, IsInjective
    <2>3. upTo(0) = {}
      OBVIOUS
    <2> QED
      BY <2>1, <2>2, <2>3
  <1>5. ASSUME NEW k \in Nat, k \in P, k + 1 <= n PROVE Listed(k + 1)
    <2>1. k + 1 \in 1..n /\ (k + 1) - 1 = k /\ k \in 0..n /\ Listed(k)
      BY <1>2, <1>5
    <2>2. f[k + 1] = IF seq[k + 1] \in S THEN Append(f[k], seq[k + 1]) ELSE f[k]
      BY <1>1, <2>1 DEF FiltersTo
    <2>3. 1..k + 1 = 1..k \cup {k + 1}
      OBVIOUS
    <2>4. {seq[j] : j \in 1..k + 1} = {seq[j] : j \in 1..k} \cup {seq[k + 1]}
      BY <2>3
    <2>5. CASE seq[k + 1] \in S
      <3>1. seq[k + 1] \in T /\ f[k] \in Seq(T)
        BY <1>2, <1>3, <2>1
      <3>2. ToSet(f[k + 1]) = ToSet(f[k]) \cup {seq[k + 1]}
        BY <2>2, <2>5, <3>1, ListsAppend
      <3>3. ToSet(f[k + 1]) = upTo(k + 1)
        BY <2>1, <2>4, <2>5, <3>2
      <3>4. ASSUME IsInjective(seq) PROVE IsInjective(f[k + 1])
        <4>1. \A j \in 1..k : j \in 1..n /\ j # k + 1
          BY <2>1
        <4>2. \A j \in 1..k : seq[j] # seq[k + 1]
          BY <1>2, <2>1, <3>4, <4>1 DEF IsInjective
        <4>3. seq[k + 1] \notin ToSet(f[k])
          BY <2>1, <4>2
        <4> QED
          BY <2>1, <2>2, <2>5, <3>1, <3>4, <4>3, ListsAppend
      <3> QED
        BY <3>3, <3>4
    <2>6. CASE seq[k + 1] \notin S
      <3>1. f[k + 1] = f[k]
        BY <2>2, <2>6
      <3>2. upTo(k + 1) = upTo(k)
        BY <2>4, <2>6
      <3> QED
        BY <2>1, <3>1, <3>2
    <2> QED
      BY <2>5, <2>6
  <1>6. Listed(n)
    <2>1. Nat \subseteq P
      <3>1. \A k \in Nat : k \in P => k + 1 \in P
        <4> HIDE DEF Listed
        <4> QED
          BY <1>5
      <3> HIDE DEF P
      <3> QED
        BY <1>4, <3>1, NatSetInduction
    <2> HIDE DEF Listed
    <2> QED
      BY <1>2, <2>1
  <1>7. upTo(n) = ToSet(seq) \cap S
    BY <1>2 DEF ToSet
  <1>8. n \in 0..n
    BY <1>2
  <1> QED
    BY <1>1, <1>3, <1>6, <1>7, <1>8

-----------------------------------------------------------------------------
(* The field.                                                              *)

Part == [hard: BOOLEAN, chain: Seq(Nat)]

\* A layer's chain at a brick is a sequence of shapes.
LEMMA ChainTyped ==
    ASSUME NEW roots \in Seq(Item), NEW b
    PROVE  Chain(roots, b) \in Seq(Nat)
  <1> DEFINE kept == Only(roots, {item \in ToSet(roots) : b \in item.at})
  <1>1. kept \in Seq(Item)
    BY OnlyLists
  <1>2. Chain(roots, b) = [k \in DOMAIN kept |-> kept[k].shape]
    BY DEF Chain
  <1> HIDE DEF kept
  <1>3. DOMAIN kept = 1..Len(kept) /\ Len(kept) \in Nat
    BY <1>1
  <1>4. \A k \in 1..Len(kept) : kept[k].shape \in Nat
    <2> TAKE k \in 1..Len(kept)
    <2>1. kept[k] \in Item
      BY <1>1, ElementOfSeq
    <2> QED
      BY <2>1 DEF Item
  <1>5. Chain(roots, b) \in [1..Len(kept) -> Nat]
    BY <1>2, <1>3, <1>4
  <1> QED
    BY <1>3, <1>5, SeqDef

\* Roots that differ only where neither reaches the brick.
SameAt(roots, other, b) ==
    \A k \in 1..Len(roots) :
        \/ roots[k] = other[k]
        \/ b \notin roots[k].at /\ b \notin other[k].at

\* Such roots leave one chain: the cull drops the others.
LEMMA ChainSame ==
    ASSUME NEW roots \in Seq(Item), NEW other \in Seq(Item), NEW b,
           Len(roots) = Len(other), SameAt(roots, other, b)
    PROVE  Chain(roots, b) = Chain(other, b)
  <1> DEFINE S == {item \in ToSet(roots) : b \in item.at}
             R == {item \in ToSet(other) : b \in item.at}
  <1>1. AgreeUpTo(roots, S, other, R, Len(roots))
    <2> SUFFICES ASSUME NEW k \in 1..Len(roots)
                 PROVE  /\ roots[k] \in S <=> other[k] \in R
                        /\ roots[k] \in S => roots[k] = other[k]
      BY DEF AgreeUpTo
    <2>1. k \in DOMAIN roots /\ k \in DOMAIN other
      OBVIOUS
    <2>2. roots[k] \in ToSet(roots) /\ other[k] \in ToSet(other)
      BY <2>1 DEF ToSet
    <2>3. \/ roots[k] = other[k]
          \/ b \notin roots[k].at /\ b \notin other[k].at
      BY DEF SameAt
    <2> QED
      BY <2>2, <2>3
  <1> HIDE DEF S, R
  <1>2. Only(roots, S) = Only(other, R)
    BY <1>1, OnlySame
  <1> QED
    BY <1>2 DEF Chain, S, R

\* The value of layers at a brick, in parts.
LEMMA PartsTyped ==
    ASSUME NEW layers \in Seq(Layer), NEW b
    PROVE  Parts(layers, b) \in Seq(Part)
  <1> DEFINE parts == [k \in DOMAIN layers |->
                    [hard |-> layers[k].hard, chain |-> Chain(layers[k].roots, b)]]
  <1>1. DOMAIN layers = 1..Len(layers) /\ Len(layers) \in Nat
    OBVIOUS
  <1>2. ASSUME NEW k \in 1..Len(layers)
        PROVE  [hard |-> layers[k].hard, chain |-> Chain(layers[k].roots, b)] \in Part
    <2>1. layers[k] \in Layer
      BY ElementOfSeq
    <2>2. layers[k].hard \in BOOLEAN /\ layers[k].roots \in Seq(Item)
      BY <2>1 DEF Layer
    <2>3. Chain(layers[k].roots, b) \in Seq(Nat)
      BY <2>2, ChainTyped
    <2> QED
      BY <2>2, <2>3 DEF Part
  <1>3. parts \in [1..Len(layers) -> Part]
    BY <1>1, <1>2
  <1>4. parts \in Seq(Part)
    BY <1>1, <1>3, SeqDef
  <1>5. Parts(layers, b) = Only(parts, {part \in ToSet(parts) : part.chain # << >>})
    BY DEF Parts
  <1> HIDE DEF parts
  <1> QED
    BY <1>4, <1>5, OnlyLists

\* A value folded into nothing is a value in parts.
LEMMA AsFieldTyped ==
    ASSUME NEW parts \in Seq(Part)
    PROVE  AsField(parts) \in Seq(Part)
  <1>1. CASE parts = << >>
    BY <1>1 DEF AsField
  <1>2. CASE parts # << >>
    <2> DEFINE first == [parts[1] EXCEPT !.hard = TRUE]
    <2>1. 1 \in 1..Len(parts) /\ 1 \in DOMAIN parts
      BY <1>2
    <2>2. parts[1] \in Part
      BY <2>1, ElementOfSeq
    <2>3. first \in Part
      BY <2>2 DEF Part
    <2>4. AsField(parts) = [parts EXCEPT ![1] = first]
      BY <1>2 DEF AsField
    <2> HIDE DEF first
    <2> QED
      BY <2>1, <2>3, <2>4, ExceptSeq
  <1> QED
    BY <1>1, <1>2

-----------------------------------------------------------------------------
\* The topmost visible layer.
TopOf(d, l) ==
    /\ l \in 1..Len(d)
    /\ d[l].visible
    /\ \A k \in l + 1..Len(d) : ~d[k].visible

\* The visible layers are layers of the document.
LEMMA VisibleTyped ==
    ASSUME NEW d \in Seq(Layer)
    PROVE  VisibleLayers(d) \in Seq(Layer)
  <1> QED
    BY OnlyLists DEF VisibleLayers

\* The active layer is the topmost visible one, above the layers that are
\* visible beneath it.
LEMMA ActiveIsTop ==
    ASSUME NEW d \in Seq(Layer), NEW l, TopOf(d, l)
    PROVE  /\ HasActive(d) /\ Active(d) = d[l] /\ d[l] \in Layer
           /\ VisibleLayers(d) = Append(VisibleLayers(SubSeq(d, 1, l - 1)), d[l])
           /\ Front(VisibleLayers(d)) = VisibleLayers(SubSeq(d, 1, l - 1))
  <1> DEFINE S == {layer \in ToSet(d) : layer.visible}
             front == SubSeq(d, 1, l - 1)
             R == {layer \in ToSet(front) : layer.visible}
             below == Only(front, R)
  <1>1. /\ l \in 1..Len(d) /\ DOMAIN d = 1..Len(d) /\ Len(d) \in Nat /\ l - 1 \in Nat
        /\ d[l] \in Layer
    BY ElementOfSeq DEF TopOf
  <1>2. \A k \in 1..Len(d) : d[k] \in S <=> d[k].visible
    BY <1>1 DEF ToSet
  <1>3. \A k \in l + 1..Len(d) : d[k] \notin S
    <2>1. \A k \in l + 1..Len(d) : k \in 1..Len(d)
      BY <1>1
    <2> QED
      BY <1>2, <2>1 DEF TopOf
  <1>4. d[l] \in S
    BY <1>1, <1>2 DEF TopOf
  <1>5. front \in Seq(Layer) /\ Len(front) = l - 1 /\ DOMAIN front = 1..l - 1
        /\ \A k \in 1..l - 1 : front[k] = d[k] /\ k \in 1..Len(d)
    BY <1>1
  <1>6. \A k \in 1..l - 1 : front[k] \in R <=> front[k].visible
    <2> HIDE DEF front
    <2> QED
      BY <1>5 DEF ToSet
  <1> HIDE DEF S, R, front
  <1>7. Only(d, S) = Append(Only(front, S), d[l])
    BY <1>1, <1>3, <1>4, OnlyLast DEF front
  <1>8. AgreeUpTo(front, S, front, R, Len(front))
    BY <1>2, <1>5, <1>6 DEF AgreeUpTo
  <1>9. Only(front, S) = below
    BY <1>5, <1>8, OnlySame
  <1>10. below \in Seq(Layer)
    BY <1>5, OnlyLists
  <1> HIDE DEF below
  <1>11. VisibleLayers(d) = Append(below, d[l])
    BY <1>7, <1>9 DEF VisibleLayers, S
  <1>12. VisibleLayers(front) = below
    BY DEF VisibleLayers, R, below
  <1>13. /\ Append(below, d[l]) \in Seq(Layer) /\ Append(below, d[l]) # << >>
         /\ Len(Append(below, d[l])) = Len(below) + 1 /\ Len(below) \in Nat
         /\ Append(below, d[l])[Len(below) + 1] = d[l]
         /\ \A k \in 1..Len(below) : Append(below, d[l])[k] = below[k]
    BY <1>1, <1>10, AppendProperties
  <1>14. HasActive(d) /\ Active(d) = d[l]
    BY <1>11, <1>13 DEF HasActive, Active, Last
  <1>15. SubSeq(Append(below, d[l]), 1, Len(below)) = below
    BY <1>1, <1>10
  <1>16. Front(VisibleLayers(d)) = below
    BY <1>11, <1>13, <1>15 DEF Front
  <1> QED
    BY <1>1, <1>11, <1>12, <1>14, <1>16 DEF front

\* Whenever some layer is visible there is a topmost one.
LEMMA TopExists ==
    ASSUME NEW d \in Seq(Layer), HasActive(d)
    PROVE  \E l : TopOf(d, l)
  <1> DEFINE V == {k \in 1..Len(d) : d[k].visible}
             S == {layer \in ToSet(d) : layer.visible}
  <1>1. Len(d) \in Nat /\ DOMAIN d = 1..Len(d)
    OBVIOUS
  <1>2. V # {}
    <2> SUFFICES ASSUME V = {} PROVE FALSE
      OBVIOUS
    <2>1. \A k \in 1..Len(d) : d[k] \notin S
      OBVIOUS
    <2> HIDE DEF S
    <2>2. Only(d, S) = << >>
      BY <2>1, OnlyNone
    <2> QED
      BY <2>2 DEF HasActive, VisibleLayers, S
  <1>3. V \in SUBSET (1..Len(d))
    OBVIOUS
  <1>4. Max(V) \in V /\ \A k \in V : Max(V) >= k
    <2> HIDE DEF V
    <2> QED
      BY <1>1, <1>2, <1>3, GreatestIndex
  <1> DEFINE l == Max(V)
  <1>5. l \in V /\ \A k \in V : l >= k
    BY <1>4
  <1> HIDE DEF l
  <1>6. \A k \in l + 1..Len(d) : k \in 1..Len(d) /\ ~(l >= k)
    BY <1>1, <1>5
  <1>7. TopOf(d, l)
    BY <1>5, <1>6 DEF TopOf
  <1> QED
    BY <1>7

-----------------------------------------------------------------------------
(* The store.                                                              *)

Prefix == [boundary: Nat, structure: Nat, chain: Seq(Nat)]

Entry == [rev: Nat, active: Seq(Nat), below: Seq(Part) \cup {NoBelow}, dirty: Nat,
          prefix: Prefix, room: SUBSET {"below", "prefix"}]

Entries == UNION {[S -> Entry] : S \in SUBSET Bricks}

\* The order lists the entries once each.
Ordered(order, entries) ==
    /\ order \in Seq(Bricks)
    /\ ToSet(order) = DOMAIN entries
    /\ IsInjective(order)

\* Stamps and frontiers stay in their ranges.
InRange(e, now) == e.rev \in 1..now /\ e.dirty \in 0..Clean

Stores(now) ==
    {r \in [entries: Entries, order: Seq(Bricks)] :
        /\ Ordered(r.order, r.entries)
        /\ \A b \in DOMAIN r.entries : InRange(r.entries[b], now)}

\* An entry of the store is one.
LEMMA EntryOf ==
    ASSUME NEW now, NEW r \in Stores(now), NEW b \in DOMAIN r.entries
    PROVE  r.entries[b] \in Entry /\ b \in Bricks /\ InRange(r.entries[b], now)
  <1>1. r.entries \in Entries
    BY DEF Stores
  <1>2. PICK S \in SUBSET Bricks : r.entries \in [S -> Entry]
    BY <1>1 DEF Entries
  <1> QED
    BY <1>2 DEF Stores

\* A store with entries of the right kind, listed once each, is one.
LEMMA StoreOf ==
    ASSUME NEW now, NEW r, r = [entries |-> r.entries, order |-> r.order],
           NEW S \in SUBSET Bricks, r.entries \in [S -> Entry],
           Ordered(r.order, r.entries), \A b \in S : InRange(r.entries[b], now)
    PROVE  r \in Stores(now)
  <1>1. r.entries \in Entries /\ DOMAIN r.entries = S
    BY DEF Entries
  <1>2. r.order \in Seq(Bricks)
    BY DEF Ordered
  <1>3. r \in [entries: Entries, order: Seq(Bricks)]
    BY <1>1, <1>2
  <1> QED
    BY <1>1, <1>3 DEF Stores

\* The bounds are numbers.
LEMMA Numbers ==
    /\ MaxRoots \in Nat /\ Clean \in Nat /\ NoFrontier \in Nat /\ NoFrontier > Clean
    /\ MaxRevision \in Nat
  BY BoundsAssumption DEF Clean, NoFrontier

\* A store with nothing in it.
LEMMA NoSeedsStored ==
    ASSUME NEW now
    PROVE  NoSeeds \in Stores(now) /\ DOMAIN NoSeeds.entries = {}
  <1>1. NoSeeds.entries \in [{} -> Entry] /\ NoSeeds.order = << >>
    BY DEF NoSeeds
  <1>2. Ordered(<< >>, NoSeeds.entries)
    BY <1>1 DEF Ordered, ToSet, IsInjective
  <1>3. NoSeeds = [entries |-> NoSeeds.entries, order |-> NoSeeds.order]
    BY DEF NoSeeds
  <1>4. {} \in SUBSET Bricks /\ \A b \in {} : InRange(NoSeeds.entries[b], now)
    OBVIOUS
  <1> HIDE DEF NoSeeds
  <1> QED
    BY <1>1, <1>2, <1>3, <1>4, StoreOf

\* A use moves a brick to the back of the order.
LEMMA TouchedOrder ==
    ASSUME NEW order \in Seq(Bricks), IsInjective(order), NEW b \in Bricks
    PROVE  /\ Touched(order, b) \in Seq(Bricks)
           /\ ToSet(Touched(order, b)) = ToSet(order) \cup {b}
           /\ IsInjective(Touched(order, b))
  <1> DEFINE others == Only(order, ToSet(order) \ {b})
  <1>1. /\ others \in Seq(Bricks)
        /\ ToSet(others) = ToSet(order) \cap (ToSet(order) \ {b})
        /\ IsInjective(others)
    BY OnlyLists
  <1>2. Touched(order, b) = Append(others, b)
    BY DEF Touched
  <1> HIDE DEF others
  <1>3. /\ ToSet(Append(others, b)) = ToSet(others) \cup {b}
        /\ b \notin ToSet(others)
    BY <1>1, ListsAppend
  <1> QED
    BY <1>1, <1>2, <1>3, ListsAppend

\* An entry put in the store is in it, and the others are as they were.
LEMMA PutStored ==
    ASSUME NEW now, NEW r \in Stores(now), NEW b \in Bricks, NEW e \in Entry, InRange(e, now)
    PROVE  /\ Put(r, b, e) \in Stores(now)
           /\ DOMAIN Put(r, b, e).entries = DOMAIN r.entries \cup {b}
           /\ \A x \in DOMAIN r.entries \cup {b} :
                 Put(r, b, e).entries[x] = IF x = b THEN e ELSE r.entries[x]
  <1> DEFINE S == DOMAIN r.entries \cup {b}
             entries == [x \in S |-> IF x = b THEN e ELSE r.entries[x]]
  <1>1. \A x \in DOMAIN r.entries : r.entries[x] \in Entry /\ x \in Bricks /\ InRange(r.entries[x], now)
    BY EntryOf
  <1>2. Ordered(r.order, r.entries)
    BY DEF Stores
  <1>3. Put(r, b, e) = [entries |-> entries, order |-> Touched(r.order, b)]
    BY DEF Put
  <1>4. S \in SUBSET Bricks /\ entries \in [S -> Entry] /\ \A x \in S : InRange(entries[x], now)
    BY <1>1
  <1>4a. DOMAIN entries = S /\ \A x \in S : entries[x] = IF x = b THEN e ELSE r.entries[x]
    OBVIOUS
  <1>4b. DOMAIN r.entries \cup {b} = S
    OBVIOUS
  <1> HIDE DEF entries, S
  <1>5. Ordered(Touched(r.order, b), entries)
    BY <1>2, <1>4a, <1>4b, TouchedOrder DEF Ordered
  <1>6. /\ Put(r, b, e).entries = entries /\ Put(r, b, e).order = Touched(r.order, b)
        /\ Put(r, b, e) = [entries |-> Put(r, b, e).entries, order |-> Put(r, b, e).order]
    BY <1>3
  <1>7. Put(r, b, e) \in Stores(now)
    BY <1>4, <1>5, <1>6, StoreOf
  <1> QED
    BY <1>4a, <1>4b, <1>6, <1>7

\* The lattices of a store are finitely many.
LEMMA LatticesFinite ==
    ASSUME NEW order \in Seq(Bricks), NEW entries, DOMAIN entries \subseteq ToSet(order)
    PROVE  /\ IsFiniteSet(Lattices(entries)) /\ TotalSize(entries) \in Nat
           /\ \A L \in SUBSET Lattices(entries) : Cardinality(L) <= TotalSize(entries)
  <1>1. IsFiniteSet(ToSet(order))
    <2>1. IsFiniteSet(1..Len(order))
      BY FS_Interval
    <2>2. DOMAIN order = 1..Len(order)
      OBVIOUS
    <2> DEFINE f == [k \in 1..Len(order) |-> order[k]]
    <2>3. f \in Surjection(1..Len(order), ToSet(order))
      BY <2>2 DEF ToSet, Surjection
    <2> QED
      BY <2>1, <2>3, FS_Surjection
  <1>2. IsFiniteSet(DOMAIN entries)
    BY <1>1, FS_Subset
  <1>3. IsFiniteSet({"active", "below", "prefix"})
    <2>1. IsFiniteSet({"active"})
      BY FS_Singleton
    <2>2. IsFiniteSet({"active"} \cup {"below"})
      BY <2>1, FS_AddElement
    <2>3. IsFiniteSet(({"active"} \cup {"below"}) \cup {"prefix"})
      BY <2>2, FS_AddElement
    <2>4. ({"active"} \cup {"below"}) \cup {"prefix"} = {"active", "below", "prefix"}
      OBVIOUS
    <2> QED
      BY <2>3, <2>4
  <1>4. IsFiniteSet((DOMAIN entries) \X {"active", "below", "prefix"})
    BY <1>2, <1>3, FS_Product
  <1>5. Lattices(entries) \subseteq (DOMAIN entries) \X {"active", "below", "prefix"}
    BY DEF Lattices
  <1>6. IsFiniteSet(Lattices(entries))
    BY <1>4, <1>5, FS_Subset
  <1> QED
    BY <1>6, FS_CardinalityType, FS_Subset DEF TotalSize

\* Within the budget, save for one last entry.
Within(r) ==
    \/ TotalSize(r.entries) <= Budget
    \/ \A x, y \in DOMAIN r.entries : x = y

\* A sequence that lists a thing once has one element when it lists one thing.
LEMMA OneListed ==
    ASSUME NEW T, NEW s \in Seq(T), IsInjective(s)
    PROVE  Len(s) <= 1 <=> \A x, y \in ToSet(s) : x = y
  <1>1. Len(s) \in Nat /\ DOMAIN s = 1..Len(s)
    OBVIOUS
  <1>2. ASSUME Len(s) <= 1, NEW x \in ToSet(s), NEW y \in ToSet(s) PROVE x = y
    <2>1. PICK i \in 1..Len(s), j \in 1..Len(s) : x = s[i] /\ y = s[j]
      BY <1>1 DEF ToSet
    <2>2. i = j
      BY <1>1, <1>2
    <2> QED
      BY <2>1, <2>2
  <1>3. ASSUME ~(Len(s) <= 1), \A x, y \in ToSet(s) : x = y PROVE FALSE
    <2>1. 1 \in 1..Len(s) /\ 2 \in 1..Len(s)
      BY <1>1, <1>3
    <2>2. s[1] \in ToSet(s) /\ s[2] \in ToSet(s)
      BY <1>1, <2>1 DEF ToSet
    <2>3. s[1] = s[2]
      BY <1>3, <2>2
    <2>4. 1 = 2
      BY <1>1, <2>1, <2>3 DEF IsInjective
    <2> QED
      BY <2>4
  <1> QED
    BY <1>2, <1>3

\* The end of an order lists what it lists once.
LEMMA RestListed ==
    ASSUME NEW order \in Seq(Bricks), IsInjective(order), NEW k \in 0..Len(order)
    PROVE  /\ SubSeq(order, k + 1, Len(order)) \in Seq(Bricks)
           /\ Len(SubSeq(order, k + 1, Len(order))) = Len(order) - k
           /\ ToSet(SubSeq(order, k + 1, Len(order))) \subseteq ToSet(order)
           /\ IsInjective(SubSeq(order, k + 1, Len(order)))
  <1> DEFINE rest == SubSeq(order, k + 1, Len(order))
             n == Len(order)
  <1>1. n \in Nat /\ DOMAIN order = 1..n /\ k \in Nat /\ k <= n
    OBVIOUS
  <1>2. rest \in Seq(Bricks) /\ Len(rest) = n - k /\ \A j \in 1..n - k : rest[j] = order[k + j]
    <2>1. k + 1 \in 1..n + 1 /\ k + 1 \in Nat
      BY <1>1
    <2>2. \A j \in k + 1..n : order[j] \in Bricks
      BY <1>1
    <2>3. /\ rest \in Seq(Bricks)
          /\ Len(rest) = IF k + 1 <= n THEN n - (k + 1) + 1 ELSE 0
      <3>1. k + 1 \in Int /\ n \in Int
        BY <1>1
      <3> QED
        BY <2>2, <3>1, SubSeqProperties, ZenonT(30)
    <2>4. Len(rest) = n - k
      <3>1. CASE k + 1 <= n
        <4>1. n - (k + 1) + 1 = n - k
          BY <1>1
        <4> QED
          BY <2>3, <3>1, <4>1
      <3>2. CASE ~(k + 1 <= n)
        <4>1. n \in Nat /\ k \in Nat /\ k <= n /\ n < k + 1
          BY <1>1, <3>2
        <4>2. n - k = 0
          BY <4>1
        <4> QED
          BY <2>3, <3>2, <4>2
      <3> QED
        BY <3>1, <3>2
    <2>5. ASSUME NEW j \in 1..n - k PROVE rest[j] = order[k + j]
      <3>1. rest[j] = order[(k + 1) + j - 1] /\ (k + 1) + j - 1 = k + j
        BY <1>1, <2>1
      <3> QED
        BY <3>1
    <2> QED
      BY <2>3, <2>4, <2>5
  <1> HIDE DEF rest, n
  <1>3. DOMAIN rest = 1..n - k
    BY <1>2
  <1>4. \A j \in 1..n - k : k + j \in 1..n
    BY <1>1
  <1>5. ToSet(rest) \subseteq ToSet(order)
    BY <1>1, <1>2, <1>3, <1>4 DEF ToSet
  <1>6. IsInjective(rest)
    <2> SUFFICES ASSUME NEW i \in DOMAIN rest, NEW j \in DOMAIN rest, rest[i] = rest[j]
                 PROVE  i = j
      BY DEF IsInjective
    <2>1. i \in 1..n - k /\ j \in 1..n - k
      BY <1>3
    <2>2. order[k + i] = order[k + j] /\ k + i \in 1..n /\ k + j \in 1..n
      BY <1>2, <1>4, <2>1
    <2>3. k + i = k + j
      BY <1>1, <2>2 DEF IsInjective
    <2> QED
      BY <1>1, <2>1, <2>3
  <1> QED
    BY <1>2, <1>5, <1>6 DEF rest, n

\* Eviction drops the oldest entries, changes none, and ends within the budget.
LEMMA EvictStored ==
    ASSUME NEW now, NEW r \in Stores(now)
    PROVE  /\ Evict(r) \in Stores(now)
           /\ DOMAIN Evict(r).entries \subseteq DOMAIN r.entries
           /\ \A b \in DOMAIN Evict(r).entries : Evict(r).entries[b] = r.entries[b]
           /\ Within(Evict(r))
  <1> DEFINE n == Len(r.order)
             Rest(k) == SubSeq(r.order, k + 1, n)
             Enough(k) == \/ TotalSize(KeepOnly(r.entries, ToSet(Rest(k)))) <= Budget
                          \/ Len(Rest(k)) <= 1
             K == {k \in 0..n : Enough(k)}
             dropped == Min(K)
             order == Rest(dropped)
             entries == KeepOnly(r.entries, ToSet(order))
  <1>1. Evict(r) = [entries |-> entries, order |-> order]
    BY DEF Evict, EvictTo
  <1>2. r.order \in Seq(Bricks) /\ IsInjective(r.order) /\ ToSet(r.order) = DOMAIN r.entries
    BY DEF Stores, Ordered
  <1>3. n \in Nat
    BY <1>2
  <1>4. \A k \in 0..n : Rest(k) \in Seq(Bricks) /\ Len(Rest(k)) = n - k
                        /\ ToSet(Rest(k)) \subseteq ToSet(r.order) /\ IsInjective(Rest(k))
    BY <1>2, RestListed
  <1> HIDE DEF n, Rest
  <1>5. n \in K
    <2>1. n \in 0..n /\ n - n = 0
      BY <1>3
    <2>2. Len(Rest(n)) = 0
      BY <1>4, <2>1
    <2> QED
      BY <2>1, <2>2
  <1>6. dropped \in K
    <2> HIDE DEF Enough
    <2>1. K \in SUBSET Nat /\ K # {}
      BY <1>3, <1>5
    <2> HIDE DEF K
    <2>2. \E m \in K : \A j \in K : m <= j
      BY <2>1, LeastNat
    <2> QED
      BY <2>2 DEF Min
  <1>7. dropped \in 0..n /\ Enough(dropped)
    BY <1>6
  <1> HIDE DEF K, dropped, Enough
  <1>8. /\ order \in Seq(Bricks) /\ IsInjective(order) /\ ToSet(order) \subseteq DOMAIN r.entries
    BY <1>2, <1>4, <1>7
  <1>9. \/ TotalSize(entries) <= Budget
        \/ Len(order) <= 1
    BY <1>7 DEF Enough
  <1> HIDE DEF order
  <1>10. \A b \in ToSet(order) : r.entries[b] \in Entry /\ b \in Bricks /\ InRange(r.entries[b], now)
    BY <1>8, EntryOf
  <1>11. /\ DOMAIN entries = ToSet(order)
         /\ \A b \in ToSet(order) : entries[b] = r.entries[b]
         /\ entries \in [ToSet(order) -> Entry]
    BY <1>10 DEF KeepOnly
  <1> HIDE DEF entries
  <1>12. Ordered(order, entries)
    BY <1>8, <1>11 DEF Ordered
  <1>13. /\ Evict(r) = [entries |-> Evict(r).entries, order |-> Evict(r).order]
         /\ Evict(r).entries = entries /\ Evict(r).order = order
    BY <1>1
  <1>14. ToSet(order) \in SUBSET Bricks /\ \A b \in ToSet(order) : InRange(entries[b], now)
    BY <1>10, <1>11
  <1>15. Evict(r) \in Stores(now)
    BY <1>11, <1>12, <1>13, <1>14, StoreOf
  <1>16. Within(Evict(r))
    BY <1>8, <1>9, <1>11, <1>13, OneListed DEF Within
  <1> QED
    BY <1>8, <1>11, <1>13, <1>15, <1>16

-----------------------------------------------------------------------------
(* The kinds of the variables.                                             *)

Tasks == UNION {[S -> Seq(Nat)] : S \in SUBSET Bricks}

Refills ==
    {Idle}
        \cup [phase: {"walked"}, now: Nat, tasks: Tasks, batch: Seq(Bricks), missed: SUBSET Bricks]
        \cup [phase: {"missing"}, batch: Seq(Bricks)]

Passes ==
    {Idle} \cup [phase: {"prepared"}, now: Nat, structure: Nat,
                 prefixes: UNION {[S -> Prefix] : S \in SUBSET Bricks}]

Cached == [layer: Nat, roots: Seq(Item), verified: Nat]

Caches == [entries: Seq(Cached), witness: Nat, budget: Nat]

\* What the code's types and asserts promise of the state.
SeedTyped ==
    /\ Numbered(doc)
    /\ revision \in 1..MaxRevision /\ structure \in 1..revision
    /\ log \in Log /\ Len(log.nodes) = Len(log.reaches)
    /\ resume \in Stores(revision)
    /\ refills \in [Readers -> Refills]
    /\ drag \in Passes
    /\ prefixes \in Caches

\* The numbers of it.
LEMMA SeedNumbers ==
    ASSUME SeedTyped
    PROVE  /\ revision \in Nat /\ structure \in Nat /\ revision >= 1 /\ structure >= 1
           /\ structure <= revision /\ revision <= MaxRevision
           /\ doc \in Seq(Layer) /\ Len(doc) \in Nat /\ DOMAIN doc = 1..Len(doc)
           /\ LogTyped
  BY Numbers DEF SeedTyped, Numbered, LogTyped

-----------------------------------------------------------------------------
(* The prefix cache.                                                       *)

\* Some entry usable for a layer is the longest of them.
LEMMA BestIsUsable ==
    ASSUME NEW cache \in Caches, NEW layer \in Layer, Usable(cache, layer) # {}
    PROVE  /\ BestUsable(cache, layer) \in Usable(cache, layer)
           /\ \A j \in Usable(cache, layer) :
                 Len(cache.entries[j].roots) <= Len(cache.entries[BestUsable(cache, layer)].roots)
  <1> DEFINE U == Usable(cache, layer)
             n == Len(layer.roots)
             size(k) == Len(cache.entries[k].roots)
             T == {n - size(k) : k \in U}
  <1>1. layer.roots \in Seq(Item) /\ n \in Nat
    BY DEF Layer
  <1>2. ASSUME NEW k \in U PROVE size(k) \in Nat /\ size(k) < n
    <2>1. k \in DOMAIN cache.entries /\ size(k) < n /\ cache.entries \in Seq(Cached)
      BY DEF Usable, Caches
    <2>2. cache.entries[k] \in Cached
      BY <2>1
    <2>3. cache.entries[k].roots \in Seq(Item)
      BY <2>2 DEF Cached
    <2> QED
      BY <2>1, <2>3
  <1> HIDE DEF U, n, size
  <1>3. T \in SUBSET Nat /\ T # {}
    <2>1. \A k \in U : n - size(k) \in Nat
      BY <1>1, <1>2
    <2>2. U # {}
      BY DEF U
    <2> QED
      BY <2>1, <2>2
  <1>4. PICK m \in T : \A t \in T : m <= t
    <2> HIDE DEF T
    <2> QED
      BY <1>3, LeastNat
  <1>5. PICK k \in U : m = n - size(k)
    BY <1>4
  <1>6. \A j \in U : size(j) <= size(k)
    <2> SUFFICES ASSUME NEW j \in U PROVE size(j) <= size(k)
      OBVIOUS
    <2>1. n - size(k) <= n - size(j)
      BY <1>4, <1>5
    <2>2. size(j) \in Nat /\ size(k) \in Nat
      BY <1>2
    <2> QED
      BY <1>1, <2>1, <2>2
  <1>7. \E i \in U : \A j \in U : size(j) <= size(i)
    BY <1>6
  <1>8. BestUsable(cache, layer) = CHOOSE i \in U : \A j \in U : size(j) <= size(i)
    BY DEF BestUsable, U, size
  <1> DEFINE best == BestUsable(cache, layer)
  <1>9. best \in U /\ \A j \in U : size(j) <= size(best)
    BY <1>7, <1>8
  <1> QED
    BY <1>9 DEF U, size

\* An entry of the cache is one.
LEMMA CachedAt ==
    ASSUME NEW cache \in Caches, NEW k \in DOMAIN cache.entries
    PROVE  /\ cache.entries[k] \in Cached /\ cache.entries[k].roots \in Seq(Item)
           /\ k \in 1..Len(cache.entries) /\ Len(cache.entries) \in Nat
           /\ DOMAIN cache.entries = 1..Len(cache.entries)
  <1>1. cache.entries \in Seq(Cached)
    BY DEF Caches
  <1>2. cache.entries[k] \in Cached
    BY <1>1
  <1> QED
    BY <1>1, <1>2 DEF Cached

\* Other entries in a cache.
LEMMA CacheOf ==
    ASSUME NEW cache \in Caches, NEW entries \in Seq(Cached)
    PROVE  [cache EXCEPT !.entries = entries] \in Caches
  BY DEF Caches

\* A digest leaves a cache, and drops at most the entry it looked at.
LEMMA VerifyTyped ==
    ASSUME NEW cache \in Caches, NEW k \in DOMAIN cache.entries, NEW layer \in Layer
    PROVE  AfterVerify(cache, k, layer) \in Caches
  <1> DEFINE es == cache.entries
             rest == RemoveAt(es, k)
             verified == [es[k] EXCEPT !.verified = cache.witness]
             kept == <<verified>> \o rest
  <1>1. /\ es \in Seq(Cached) /\ es[k] \in Cached /\ k \in 1..Len(es) /\ Len(es) \in Nat
        /\ cache.witness \in Nat
    BY CachedAt DEF Caches
  <1>2. rest \in Seq(Cached)
    BY <1>1 DEF RemoveAt
  <1>3. verified \in Cached
    BY <1>1 DEF Cached
  <1> HIDE DEF verified, rest
  <1>4. kept \in Seq(Cached)
    BY <1>2, <1>3
  <1>5. AfterVerify(cache, k, layer) =
            [cache EXCEPT !.entries = IF Verifies(cache, k, layer) THEN kept ELSE rest]
    BY DEF AfterVerify, verified, rest
  <1> HIDE DEF kept
  <1> QED
    BY <1>2, <1>4, <1>5, CacheOf

\* What eviction to the budget leaves.
LEMMA EvictTyped ==
    ASSUME NEW cache \in Caches
    PROVE  PrefixEvict(cache) \in Caches
  <1> DEFINE es == cache.entries
             n == IF Len(es) < cache.budget THEN Len(es) ELSE cache.budget
  <1>1. es \in Seq(Cached) /\ cache.budget \in Nat /\ Len(es) \in Nat
    BY DEF Caches
  <1>2. n \in 0..Len(es)
    BY <1>1
  <1>3. PrefixEvict(cache) = [cache EXCEPT !.entries = SubSeq(es, 1, n)]
    BY DEF PrefixEvict
  <1> HIDE DEF n
  <1>4. SubSeq(es, 1, n) \in Seq(Cached)
    BY <1>1, <1>2
  <1> QED
    BY <1>3, <1>4, CacheOf

\* What a lookup leaves.
LEMMA LookupTyped ==
    ASSUME NEW cache \in Caches, NEW layer \in Layer
    PROVE  /\ AfterFindUsable(cache, layer) \in Caches
           /\ \A boundary : AfterFind(cache, layer, boundary) \in Caches
  <1>1. AfterFindUsable(cache, layer) \in Caches
    <2>1. CASE Usable(cache, layer) = {}
      BY <2>1 DEF AfterFindUsable
    <2>2. CASE Usable(cache, layer) # {}
      <3>1. BestUsable(cache, layer) \in DOMAIN cache.entries
        BY <2>2, BestIsUsable DEF Usable
      <3>2. AfterVerify(cache, BestUsable(cache, layer), layer) \in Caches
        BY <3>1, VerifyTyped
      <3> QED
        BY <2>2, <3>2 DEF AfterFindUsable
    <2> QED
      BY <2>1, <2>2
  <1>2. ASSUME NEW boundary PROVE AfterFind(cache, layer, boundary) \in Caches
    <2> DEFINE found == Keyed(cache, layer, boundary)
               k == CHOOSE k \in found : TRUE
    <2>1. CASE found = {}
      BY <2>1 DEF AfterFind
    <2>2. CASE found # {}
      <3>1. k \in found
        BY <2>2
      <3>2. k \in DOMAIN cache.entries
        BY <3>1 DEF Keyed
      <3>3. AfterFind(cache, layer, boundary) = AfterVerify(cache, k, layer)
        BY <2>2 DEF AfterFind
      <3> HIDE DEF k
      <3> QED
        BY <3>2, <3>3, VerifyTyped
    <2> QED
      BY <2>1, <2>2
  <1> QED
    BY <1>1, <1>2

\* What a build leaves: at a boundary of the layer.
LEMMA BuildTyped ==
    ASSUME NEW cache \in Caches, NEW layer \in Layer, NEW boundary \in 0..Len(layer.roots)
    PROVE  AfterBuild(cache, layer, boundary) \in Caches
  <1> DEFINE looked == AfterFind(cache, layer, boundary)
             built == [layer |-> layer.id, roots |-> SubSeq(layer.roots, 1, boundary),
                       verified |-> NoWitness]
             more == <<built>> \o looked.entries
  <1>1. looked \in Caches
    BY LookupTyped
  <1>2. layer.roots \in Seq(Item) /\ layer.id \in Nat
    BY DEF Layer
  <1>3. SubSeq(layer.roots, 1, boundary) \in Seq(Item)
    BY <1>2
  <1>4. built \in Cached
    BY <1>2, <1>3 DEF Cached, NoWitness
  <1>5. AfterBuild(cache, layer, boundary) =
            IF Keyed(looked, layer, boundary) # {} THEN looked
            ELSE PrefixEvict([looked EXCEPT !.entries = more])
    BY DEF AfterBuild
  <1> HIDE DEF looked, built
  <1>6. more \in Seq(Cached)
    BY <1>1, <1>4 DEF Caches
  <1> HIDE DEF more
  <1>7. [looked EXCEPT !.entries = more] \in Caches
    BY <1>1, <1>6, CacheOf
  <1> DEFINE full == [looked EXCEPT !.entries = more]
  <1>8. full \in Caches
    BY <1>7
  <1>9. AfterBuild(cache, layer, boundary) =
            IF Keyed(looked, layer, boundary) # {} THEN looked ELSE PrefixEvict(full)
    BY <1>5
  <1> HIDE DEF full
  <1>10. PrefixEvict(full) \in Caches
    BY <1>8, EvictTyped
  <1> QED
    BY <1>1, <1>9, <1>10

-----------------------------------------------------------------------------
(* What a refill reads.                                                    *)

\* The active layer is a layer of the document.
LEMMA ActiveTyped ==
    ASSUME SeedTyped, HasActive(doc)
    PROVE  /\ Active(doc) \in Layer /\ Active(doc).roots \in Seq(Item)
           /\ Len(Active(doc).roots) \in Nat
           /\ \E l : TopOf(doc, l)
  <1>1. PICK l : TopOf(doc, l)
    BY SeedNumbers, TopExists
  <1>2. Active(doc) \in Layer
    BY <1>1, SeedNumbers, ActiveIsTop
  <1> QED
    BY <1>1, <1>2 DEF Layer

\* The chain of the last roots, of no more than there are.
LEMMA LastRootsTyped ==
    ASSUME SeedTyped, HasActive(doc), NEW n \in 0..Len(Active(doc).roots), NEW b
    PROVE  LastRoots(n, b) \in Seq(Nat)
  <1> DEFINE roots == Active(doc).roots
             last == SubSeq(roots, Len(roots) - n + 1, Len(roots))
  <1>1. roots \in Seq(Item) /\ Len(roots) \in Nat
    BY ActiveTyped
  <1>2. LastRoots(n, b) = Chain(last, b)
    BY DEF LastRoots
  <1>3. last \in Seq(Item)
    <2> HIDE DEF roots
    <2>1. Len(roots) - n + 1 \in 1..Len(roots) + 1
      BY <1>1 DEF roots
    <2> QED
      BY <1>1, <2>1
  <1> HIDE DEF last
  <1> QED
    BY <1>2, <1>3, ChainTyped

\* The prefix a lookup finds is shorter than the layer.
LEMMA SourceTyped ==
    ASSUME SeedTyped, PrefixFound
    PROVE  /\ SourceRoots \in Seq(Item)
           /\ Len(SourceRoots) \in 0..Len(Active(doc).roots)
           /\ Told \in Caches
  <1>1. Told \in Caches /\ Told.entries = prefixes.entries
    BY SeedNumbers DEF SeedTyped, Told, Caches
  <1>2. Active(doc) \in Layer /\ Len(Active(doc).roots) \in Nat
    BY ActiveTyped DEF PrefixFound
  <1>3. Usable(Told, Active(doc)) # {}
    BY DEF PrefixFound, FindsUsable
  <1> DEFINE k == BestUsable(Told, Active(doc))
  <1>4. k \in Usable(Told, Active(doc))
    BY <1>1, <1>2, <1>3, BestIsUsable
  <1>5. k \in DOMAIN Told.entries /\ Len(Told.entries[k].roots) < Len(Active(doc).roots)
    BY <1>4 DEF Usable
  <1>6. Told.entries[k].roots \in Seq(Item)
    BY <1>1, <1>5, CachedAt
  <1>7. Len(Told.entries[k].roots) \in 0..Len(Active(doc).roots)
    <2>1. Len(Told.entries[k].roots) \in Nat
      BY <1>6
    <2> QED
      BY <1>2, <1>5, <2>1
  <1> QED
    BY <1>1, <1>6, <1>7 DEF SourceRoots

\* The appends since a revision are node ids.
LEMMA SinceTyped ==
    ASSUME SeedTyped, NEW from \in Nat
    PROVE  AppendsSince(from) \in Seq(Nat)
  <1>1. log.nodes \in Seq(Nat) /\ log.base \in Nat /\ log.at \in Nat /\ Len(log.nodes) \in Nat
    BY DEF SeedTyped, Log
  <1>2. CASE log.valid /\ log.at = revision /\ from \in log.base..log.at
    <2>1. from - log.base + 1 \in Nat \ {0}
      BY <1>1, <1>2
    <2>2. SubSeq(log.nodes, from - log.base + 1, Len(log.nodes)) \in Seq(Nat)
      BY <1>1, <2>1
    <2> QED
      BY <1>2, <2>2 DEF AppendsSince
  <1>3. CASE ~(log.valid /\ log.at = revision /\ from \in log.base..log.at)
    BY <1>3 DEF AppendsSince
  <1> QED
    BY <1>2, <1>3

\* A prefix of roots and the chain of the rest.
LEMMA RefoldedTyped ==
    ASSUME SeedTyped, HasActive(doc), NEW prefix \in Seq(Nat),
           NEW n \in 0..Len(Active(doc).roots), NEW b
    PROVE  Refolded(prefix, n, b) \in Seq(Nat)
  <1>1. Len(Active(doc).roots) \in Nat
    BY ActiveTyped
  <1>2. Len(Active(doc).roots) - n \in 0..Len(Active(doc).roots)
    BY <1>1
  <1>3. LastRoots(Len(Active(doc).roots) - n, b) \in Seq(Nat)
    BY <1>2, LastRootsTyped
  <1> QED
    BY <1>3 DEF Refolded

\* What brings a stored value forward, case by case.
LEMMA ServeCases ==
    ASSUME NEW b
    PROVE  LET e == resume.entries[b]
               since == AppendsSince(e.rev)
           IN  \/ /\ ColdServes(b)
                  /\ Serve(b) = [how   |-> "prefix",
                                 chain |-> Refolded(Chain(SourceRoots, b), Len(SourceRoots), b)]
               \/ Serve(b) = [how |-> "walk"]
               \/ /\ HasSeed(b) /\ e.rev = revision
                  /\ Serve(b) = [how |-> "stored", chain |-> e.active]
               \/ /\ HasSeed(b) /\ PlanResumeUsable(e.rev) /\ SuffixCompiles(since)
                  /\ Serve(b) = [how |-> "suffix", chain |-> e.active \o LastRoots(Len(since), b)]
               \/ /\ HasSeed(b) /\ e.rev # revision /\ FrontierServes(b)
                  /\ Serve(b) = [how   |-> "frontier",
                                 chain |-> Refolded(e.prefix.chain, e.prefix.boundary, b)]
  <1> DEFINE e == resume.entries[b]
             since == AppendsSince(e.rev)
  <1>1. HasSeed(b) => ~ColdServes(b)
    BY DEF HasSeed, ColdServes
  <1>2. PlanResumeUsable(e.rev) => e.rev # revision
    BY DEF PlanResumeUsable
  <1>3. CASE ColdServes(b)
    BY <1>1, <1>3 DEF Serve
  <1>4. CASE ~HasSeed(b) /\ ~ColdServes(b)
    BY <1>4 DEF Serve
  <1>5. CASE HasSeed(b) /\ e.rev = revision
    BY <1>1, <1>2, <1>5 DEF Serve
  <1>6. CASE HasSeed(b) /\ PlanResumeUsable(e.rev)
    BY <1>1, <1>2, <1>6 DEF Serve
  <1>7. CASE HasSeed(b) /\ e.rev # revision /\ ~PlanResumeUsable(e.rev)
    BY <1>1, <1>7 DEF Serve
  <1> QED
    BY <1>3, <1>4, <1>5, <1>6, <1>7

\* What a refill stores is a chain.
LEMMA ServeTyped ==
    ASSUME SeedTyped, NEW b \in Bricks, Serve(b).how \in {"suffix", "frontier", "prefix"}
    PROVE  Serve(b).chain \in Seq(Nat)
  <1> DEFINE e == resume.entries[b]
             since == AppendsSince(e.rev)
  <1>1. CASE ColdServes(b) /\ Serve(b) = [how   |-> "prefix",
                             chain |-> Refolded(Chain(SourceRoots, b), Len(SourceRoots), b)]
    <2>1. PrefixFound /\ HasActive(doc)
      BY <1>1 DEF ColdServes, PrefixFound
    <2>2. Chain(SourceRoots, b) \in Seq(Nat)
      BY <2>1, SourceTyped, ChainTyped
    <2>3. Refolded(Chain(SourceRoots, b), Len(SourceRoots), b) \in Seq(Nat)
      BY <2>1, <2>2, SourceTyped, RefoldedTyped
    <2> QED
      BY <1>1, <2>3
  <1>2. ASSUME HasSeed(b) PROVE e \in Entry /\ InRange(e, revision)
    <2>1. b \in DOMAIN resume.entries /\ resume \in Stores(revision)
      BY <1>2 DEF HasSeed, IsShaped, SeedTyped
    <2> QED
      BY <2>1, EntryOf
  <1>3. CASE HasSeed(b) /\ PlanResumeUsable(e.rev) /\ SuffixCompiles(since)
             /\ Serve(b) = [how |-> "suffix", chain |-> e.active \o LastRoots(Len(since), b)]
    <2>1. HasActive(doc) /\ IsTailOf(since, Active(doc).roots)
      BY <1>3 DEF PlanResumeUsable, SuffixCompiles
    <2>2. e.active \in Seq(Nat) /\ e.rev \in Nat
      BY <1>2, <1>3 DEF Entry
    <2>3. since \in Seq(Nat)
      BY <2>2, SinceTyped
    <2> HIDE DEF since, e
    <2>4. Active(doc).roots \in Seq(Item) /\ Len(Active(doc).roots) \in Nat
      BY <2>1, ActiveTyped
    <2>5. NodeIds(Active(doc).roots) \in Seq(Nat) /\ Len(NodeIds(Active(doc).roots)) = Len(Active(doc).roots)
      BY <2>4, IdsOfRoots
    <2>6. Len(since) <= Len(Active(doc).roots)
      BY <2>1, <2>3, <2>5, SuffixPointwise DEF IsTailOf
    <2>7. Len(since) \in 0..Len(Active(doc).roots)
      BY <2>3, <2>4, <2>6
    <2>8. LastRoots(Len(since), b) \in Seq(Nat)
      BY <2>1, <2>7, LastRootsTyped
    <2>9. e.active \o LastRoots(Len(since), b) \in Seq(Nat)
      BY <2>2, <2>8
    <2> QED
      BY <1>3, <2>9
  <1>4. CASE HasSeed(b) /\ FrontierServes(b)
             /\ Serve(b) = [how   |-> "frontier",
                            chain |-> Refolded(e.prefix.chain, e.prefix.boundary, b)]
    <2>1. HasActive(doc) /\ e.prefix.boundary \in 1 .. Len(Active(doc).roots) - 1
      BY <1>4 DEF FrontierServes
    <2>2. e.prefix \in Prefix
      BY <1>2, <1>4 DEF Entry
    <2>3. e.prefix.chain \in Seq(Nat)
      BY <2>2 DEF Prefix
    <2> HIDE DEF e
    <2>4. e.prefix.boundary \in 0..Len(Active(doc).roots)
      BY <2>1, ActiveTyped
    <2>5. Refolded(e.prefix.chain, e.prefix.boundary, b) \in Seq(Nat)
      BY <2>1, <2>3, <2>4, RefoldedTyped
    <2> QED
      BY <1>4, <2>5
  <1>5. Serve(b) = [how |-> "walk"] => Serve(b).how = "walk"
    OBVIOUS
  <1>6. Serve(b) = [how |-> "stored", chain |-> e.active] => Serve(b).how = "stored"
    OBVIOUS
  <1> QED
    BY <1>1, <1>3, <1>4, <1>5, <1>6, ServeCases

-----------------------------------------------------------------------------
(* The loops of a refill.                                                  *)

\* One answer of seed_for, and all of a batch.
NextUse(order, b) == IF HasSeed(b) THEN Touched(order, b) ELSE order
LruOrder(batch) == FoldLeft(NextUse, resume.order, batch)

Orders == {order \in Seq(Bricks) : Ordered(order, resume.entries)}

\* A batch's uses reorder the store.
LEMMA LruStays ==
    ASSUME SeedTyped, NEW batch \in Seq(Bricks)
    PROVE  LruOrder(batch) \in Orders
  <1> DEFINE n == Len(batch)
             U == [k \in 1..n |-> [m \in Orders |-> NextUse(m, batch[k])]]
             Iter(it) == it = [s \in SUBSET DOMAIN batch |->
                                 IF s = {} THEN resume.order
                                 ELSE NextUse(it[s \ {Max(s)}], batch[Max(s)])]
             iter == CHOOSE it : Iter(it)
  <1>1. LruOrder(batch) = iter[DOMAIN batch]
    BY DEF LruOrder, NextUse, FoldLeft, MapThenFoldSet
  <1>2. n \in Nat /\ DOMAIN batch = 1..n /\ resume.order \in Orders
    BY DEF SeedTyped, Stores, Orders, Ordered
  <1>3. \A k \in 1..n, m \in Orders : NextUse(m, batch[k]) \in Orders
    <2> SUFFICES ASSUME NEW k \in 1..n, NEW m \in Orders PROVE NextUse(m, batch[k]) \in Orders
      OBVIOUS
    <2>1. batch[k] \in Bricks
      OBVIOUS
    <2>2. m \in Seq(Bricks) /\ Ordered(m, resume.entries)
      BY DEF Orders
    <2>3. HasSeed(batch[k]) => batch[k] \in DOMAIN resume.entries
      BY DEF HasSeed, IsShaped
    <2>4. CASE HasSeed(batch[k])
      <3>0. ToSet(m) = DOMAIN resume.entries /\ IsInjective(m)
        BY <2>2 DEF Ordered
      <3>1. /\ Touched(m, batch[k]) \in Seq(Bricks)
            /\ ToSet(Touched(m, batch[k])) = ToSet(m) \cup {batch[k]}
            /\ IsInjective(Touched(m, batch[k]))
        BY <2>1, <2>2, <3>0, TouchedOrder
      <3>2. ToSet(m) \cup {batch[k]} = DOMAIN resume.entries
        BY <2>3, <2>4, <3>0
      <3>3. Ordered(Touched(m, batch[k]), resume.entries)
        BY <3>1, <3>2 DEF Ordered
      <3> QED
        BY <2>4, <3>1, <3>3 DEF NextUse, Orders
    <2>5. CASE ~HasSeed(batch[k])
      BY <2>5 DEF NextUse
    <2> QED
      BY <2>4, <2>5
  <1>4. /\ U \in [1..n -> [Orders -> Orders]]
        /\ \A k \in 1..n, m \in Orders : U[k][m] = NextUse(m, batch[k])
    BY <1>3
  <1> HIDE DEF n, U
  <1>5. \E it : Iter(it)
    <2>1. PICK h : FoldsUp(h, n, Orders, resume.order, U)
      BY <1>2, <1>4, FoldLeftExists
    <2>2. ASSUME NEW s \in SUBSET (1..n), s # {}
          PROVE  h[s] = NextUse(h[s \ {Max(s)}], batch[Max(s)])
      <3>1. Max(s) \in 1..n /\ s \ {Max(s)} \in SUBSET (1..n)
        BY <1>2, <2>2, GreatestIndex
      <3>2. h[s] = U[Max(s)][h[s \ {Max(s)}]] /\ h[s \ {Max(s)}] \in Orders
        BY <2>1, <2>2, <3>1 DEF FoldsUp
      <3> QED
        BY <1>4, <3>1, <3>2
    <2>3. /\ h = [s \in SUBSET (1..n) |-> h[s]]
          /\ h[{}] = resume.order
      BY <2>1 DEF FoldsUp
    <2>4. Iter(h)
      BY <1>2, <2>2, <2>3
    <2> QED
      BY <2>4
  <1>6. Iter(iter)
    <2> HIDE DEF Iter
    <2> QED
      BY <1>5
  <1> HIDE DEF iter
  <1>7. iter[{}] = resume.order /\ \A s \in SUBSET (1..n) : s # {} =>
               iter[s] = NextUse(iter[s \ {Max(s)}], batch[Max(s)])
    BY <1>2, <1>6
  <1>8. ASSUME NEW k \in 1..n
        PROVE  iter[1..k] = NextUse(iter[1..(k - 1)], batch[k])
    <2>1. /\ 1..k \in SUBSET (1..n) /\ 1..k # {}
          /\ Max(1..k) = k /\ (1..k) \ {k} = 1..(k - 1)
      BY <1>2, FirstIndices
    <2>2. iter[1..k] = NextUse(iter[(1..k) \ {Max(1..k)}], batch[Max(1..k)])
      BY <1>7, <2>1
    <2> QED
      BY <2>1, <2>2
  <1>9. \A k \in 1..n : iter[1..(k - 1)] \in Orders => iter[1..k] = U[k][iter[1..(k - 1)]]
    BY <1>4, <1>8
  <1>10. StepsThrough(iter, n, Orders, resume.order, U)
    BY <1>2, <1>4, <1>7, <1>9 DEF StepsThrough
  <1>11. PICK P : Runs(P, n, Orders, resume.order, U) /\ P[n] = iter[1..n]
    BY <1>2, <1>10, FoldLeftRuns
  <1>12. n \in 0..n
    BY <1>2
  <1> QED
    BY <1>1, <1>2, <1>11, <1>12 DEF Runs

\* Beginning a refill leaves the entries and reorders the store.
LEMMA LruStored ==
    ASSUME SeedTyped, NEW batch \in Seq(Bricks)
    PROVE  /\ LruAfter(batch) \in Stores(revision)
           /\ LruAfter(batch).entries = resume.entries
  <1>1. LruAfter(batch) = [resume EXCEPT !.order = LruOrder(batch)]
    BY DEF LruAfter, LruOrder, NextUse, FoldLeft, MapThenFoldSet
  <1>2. LruOrder(batch) \in Orders
    BY LruStays
  <1>3. resume \in [entries: Entries, order: Seq(Bricks)]
    BY DEF SeedTyped, Stores
  <1>4. /\ LruAfter(batch) \in [entries: Entries, order: Seq(Bricks)]
        /\ LruAfter(batch).entries = resume.entries
        /\ LruAfter(batch).order = LruOrder(batch)
    BY <1>1, <1>2, <1>3 DEF Orders
  <1> QED
    BY <1>2, <1>4 DEF SeedTyped, Stores, Orders

-----------------------------------------------------------------------------
\* What a task makes of an entry, and the stores tasks can lead to.
Answered(e, chain) == [e EXCEPT !.rev = revision, !.active = chain, !.dirty = Clean]

AnsweredFrom(r, tasks) ==
    {s \in Stores(revision) :
        /\ DOMAIN s.entries = DOMAIN r.entries
        /\ \A b \in DOMAIN r.entries :
              \/ s.entries[b] = r.entries[b]
              \/ b \in DOMAIN tasks /\ s.entries[b] = Answered(r.entries[b], tasks[b])}

TasksStored(tasks, bricks) ==
    LET StoreTask(s, b) == StoreActive(s, b, revision, tasks[b])
    IN  FoldLeft(StoreTask, resume, bricks)

\* A task stored is a step from one of them to one of them.
LEMMA TaskStored ==
    ASSUME SeedTyped, NEW tasks \in Tasks, NEW s \in AnsweredFrom(resume, tasks), NEW b \in DOMAIN tasks
    PROVE  StoreActive(s, b, revision, tasks[b]) \in AnsweredFrom(resume, tasks)
  <1>1. /\ s \in Stores(revision) /\ DOMAIN s.entries = DOMAIN resume.entries
        /\ \A x \in DOMAIN resume.entries :
              \/ s.entries[x] = resume.entries[x]
              \/ x \in DOMAIN tasks /\ s.entries[x] = Answered(resume.entries[x], tasks[x])
    BY DEF AnsweredFrom
  <1>2. b \in Bricks /\ tasks[b] \in Seq(Nat)
    BY DEF Tasks
  <1>3. CASE b \notin DOMAIN s.entries
    BY <1>3 DEF StoreActive
  <1>4. CASE b \in DOMAIN s.entries
    <2> DEFINE e == Answered(s.entries[b], tasks[b])
    <2>1. StoreActive(s, b, revision, tasks[b]) = Put(s, b, e)
      BY <1>4 DEF StoreActive, Answered
    <2>2. s.entries[b] \in Entry /\ resume.entries[b] \in Entry
      BY <1>1, <1>4, EntryOf DEF SeedTyped
    <2>3. e \in Entry /\ e.rev = revision /\ e.dirty = Clean
      BY <1>2, <2>2, Numbers, SeedNumbers DEF Answered, Entry
    <2>4. InRange(e, revision)
      BY <2>3, Numbers, SeedNumbers DEF InRange
    <2>5. e = Answered(resume.entries[b], tasks[b])
      <3>1. CASE s.entries[b] = resume.entries[b]
        BY <3>1
      <3>2. CASE s.entries[b] = Answered(resume.entries[b], tasks[b])
        BY <2>2, <3>2 DEF Answered, Entry
      <3> QED
        BY <1>1, <1>4, <3>1, <3>2
    <2> HIDE DEF e
    <2>6. /\ Put(s, b, e) \in Stores(revision)
          /\ DOMAIN Put(s, b, e).entries = DOMAIN s.entries \cup {b}
          /\ \A x \in DOMAIN s.entries \cup {b} :
                Put(s, b, e).entries[x] = IF x = b THEN e ELSE s.entries[x]
      BY <1>1, <1>2, <2>3, <2>4, PutStored
    <2>7. DOMAIN s.entries \cup {b} = DOMAIN resume.entries
      BY <1>1, <1>4
    <2>8. \A x \in DOMAIN resume.entries :
              \/ Put(s, b, e).entries[x] = resume.entries[x]
              \/ x \in DOMAIN tasks /\ Put(s, b, e).entries[x] = Answered(resume.entries[x], tasks[x])
      BY <1>1, <2>5, <2>6, <2>7
    <2> QED
      BY <2>1, <2>6, <2>7, <2>8 DEF AnsweredFrom
  <1> QED
    BY <1>3, <1>4

\* So do the tasks of a refill, one after the other.
LEMMA TasksStay ==
    ASSUME SeedTyped, NEW tasks \in Tasks, NEW bricks \in Seq(Bricks),
           \A k \in 1..Len(bricks) : bricks[k] \in DOMAIN tasks
    PROVE  TasksStored(tasks, bricks) \in AnsweredFrom(resume, tasks)
  <1> DEFINE n == Len(bricks)
             U == [k \in 1..n |-> [m \in AnsweredFrom(resume, tasks) |-> StoreActive(m, bricks[k], revision, tasks[bricks[k]])]]
             Iter(it) == it = [s \in SUBSET DOMAIN bricks |->
                                 IF s = {} THEN resume
                                 ELSE StoreActive(it[s \ {Max(s)}], bricks[Max(s)], revision, tasks[bricks[Max(s)]])]
             iter == CHOOSE it : Iter(it)
  <1>1. TasksStored(tasks, bricks) = iter[DOMAIN bricks]
    BY DEF TasksStored, FoldLeft, MapThenFoldSet
  <1>2. n \in Nat /\ DOMAIN bricks = 1..n /\ resume \in AnsweredFrom(resume, tasks)
    BY DEF SeedTyped, AnsweredFrom
  <1>3. \A k \in 1..n, m \in AnsweredFrom(resume, tasks) :
            StoreActive(m, bricks[k], revision, tasks[bricks[k]]) \in AnsweredFrom(resume, tasks)
    BY TaskStored
  <1>4. /\ U \in [1..n -> [AnsweredFrom(resume, tasks) -> AnsweredFrom(resume, tasks)]]
        /\ \A k \in 1..n, m \in AnsweredFrom(resume, tasks) : U[k][m] = StoreActive(m, bricks[k], revision, tasks[bricks[k]])
    BY <1>3
  <1> HIDE DEF n, U
  <1>5. \E it : Iter(it)
    <2>1. PICK h : FoldsUp(h, n, AnsweredFrom(resume, tasks), resume, U)
      BY <1>2, <1>4, FoldLeftExists
    <2>2. ASSUME NEW s \in SUBSET (1..n), s # {}
          PROVE  h[s] = StoreActive(h[s \ {Max(s)}], bricks[Max(s)], revision, tasks[bricks[Max(s)]])
      <3>1. Max(s) \in 1..n /\ s \ {Max(s)} \in SUBSET (1..n)
        BY <1>2, <2>2, GreatestIndex
      <3>2. h[s] = U[Max(s)][h[s \ {Max(s)}]] /\ h[s \ {Max(s)}] \in AnsweredFrom(resume, tasks)
        BY <2>1, <2>2, <3>1 DEF FoldsUp
      <3> QED
        BY <1>4, <3>1, <3>2
    <2>3. /\ h = [s \in SUBSET (1..n) |-> h[s]]
          /\ h[{}] = resume
      BY <2>1 DEF FoldsUp
    <2>4. Iter(h)
      BY <1>2, <2>2, <2>3
    <2> QED
      BY <2>4
  <1>6. Iter(iter)
    <2> HIDE DEF Iter
    <2> QED
      BY <1>5
  <1> HIDE DEF iter
  <1>7. iter[{}] = resume /\ \A s \in SUBSET (1..n) : s # {} =>
               iter[s] = StoreActive(iter[s \ {Max(s)}], bricks[Max(s)], revision, tasks[bricks[Max(s)]])
    BY <1>2, <1>6
  <1>8. ASSUME NEW k \in 1..n
        PROVE  iter[1..k] = StoreActive(iter[1..(k - 1)], bricks[k], revision, tasks[bricks[k]])
    <2>1. /\ 1..k \in SUBSET (1..n) /\ 1..k # {}
          /\ Max(1..k) = k /\ (1..k) \ {k} = 1..(k - 1)
      BY <1>2, FirstIndices
    <2>2. iter[1..k] = StoreActive(iter[(1..k) \ {Max(1..k)}], bricks[Max(1..k)], revision, tasks[bricks[Max(1..k)]])
      BY <1>7, <2>1
    <2> QED
      BY <2>1, <2>2
  <1>9. \A k \in 1..n : iter[1..(k - 1)] \in AnsweredFrom(resume, tasks) => iter[1..k] = U[k][iter[1..(k - 1)]]
    BY <1>4, <1>8
  <1>10. StepsThrough(iter, n, AnsweredFrom(resume, tasks), resume, U)
    BY <1>2, <1>4, <1>7, <1>9 DEF StepsThrough
  <1>11. PICK P : Runs(P, n, AnsweredFrom(resume, tasks), resume, U) /\ P[n] = iter[1..n]
    BY <1>2, <1>10, FoldLeftRuns
  <1>12. n \in 0..n
    BY <1>2
  <1> QED
    BY <1>1, <1>2, <1>11, <1>12 DEF Runs

\* What the tasks of a refill leave: entries answered, or as they were.
LEMMA TasksAnswer ==
    ASSUME SeedTyped, NEW f \in Refills, f.phase = "walked"
    PROVE  /\ AfterTasks(f) \in AnsweredFrom(resume, f.tasks)
           /\ f.now # revision => AfterTasks(f) = resume
  <1>1. f.tasks \in Tasks /\ f.batch \in Seq(Bricks) /\ f.missed \in SUBSET Bricks
    BY DEF Refills, Idle
  <1> DEFINE bricks == Only(f.batch, DOMAIN f.tasks)
  <1>2. bricks \in Seq(Bricks) /\ ToSet(bricks) = ToSet(f.batch) \cap DOMAIN f.tasks
    BY <1>1, OnlyLists
  <1>3. f.now = revision => AfterTasks(f) = TasksStored(f.tasks, bricks)
    BY DEF AfterTasks, TasksStored, FoldLeft, MapThenFoldSet
  <1> HIDE DEF bricks
  <1>4. \A k \in 1..Len(bricks) : bricks[k] \in DOMAIN f.tasks
    BY <1>2 DEF ToSet
  <1>5. TasksStored(f.tasks, bricks) \in AnsweredFrom(resume, f.tasks)
    BY <1>1, <1>2, <1>4, TasksStay
  <1>6. resume \in AnsweredFrom(resume, f.tasks)
    BY DEF SeedTyped, AnsweredFrom
  <1>7. f.now # revision => AfterTasks(f) = resume
    BY DEF AfterTasks
  <1> QED
    BY <1>3, <1>5, <1>6, <1>7

-----------------------------------------------------------------------------
\* The halves a walk takes a brick in.
LEMMA HalvesTyped ==
    ASSUME SeedTyped, NEW b
    PROVE  Halves(b).active \in Seq(Nat) /\ Halves(b).below \in Seq(Part) \cup {NoBelow}
  <1>1. Halves(b).active \in Seq(Nat)
    <2>1. CASE HasActive(doc)
      <3>1. Chain(Active(doc).roots, b) \in Seq(Nat)
        BY <2>1, ActiveTyped, ChainTyped
      <3> QED
        BY <2>1, <3>1 DEF Halves
    <2>2. CASE ~HasActive(doc)
      <3>1. << >> \in Seq(Nat)
        OBVIOUS
      <3> QED
        BY <2>2, <3>1 DEF Halves
    <2> QED
      BY <2>1, <2>2
  <1>2. Halves(b).below \in Seq(Part) \cup {NoBelow}
    <2>1. CASE HasBelow(doc)
      <3>1. HasActive(doc)
        <4>1. VisibleLayers(doc) = << >> => Len(VisibleLayers(doc)) = 0
          OBVIOUS
        <4> QED
          BY <2>1, <4>1 DEF HasBelow, HasActive
      <3>2. PICK l : TopOf(doc, l)
        BY <3>1, ActiveTyped
      <3>3. doc \in Seq(Layer) /\ l \in 1..Len(doc) /\ Len(doc) \in Nat
        BY <3>2, SeedNumbers DEF TopOf
      <3>4. SubSeq(doc, 1, l - 1) \in Seq(Layer)
        BY <3>3
      <3>5. Front(VisibleLayers(doc)) \in Seq(Layer)
        BY <3>2, <3>3, <3>4, ActiveIsTop, VisibleTyped
      <3>6. HalfBelow(doc, b) \in Seq(Part)
        BY <3>5, PartsTyped, AsFieldTyped DEF HalfBelow
      <3> QED
        BY <2>1, <3>6 DEF Halves
    <2>2. CASE ~HasBelow(doc)
      BY <2>2 DEF Halves
    <2> QED
      BY <2>1, <2>2
  <1> QED
    BY <1>1, <1>2

\* What a walk writes of a brick, and the stores walks can lead to.
Walked(e, b) ==
    /\ e.rev = revision /\ e.dirty = Clean /\ e.prefix = NoPrefix
    /\ e.active = Halves(b).active /\ e.below = Halves(b).below

WalkedFrom(r) ==
    {s \in Stores(revision) :
        /\ Within(s)
        /\ \A b \in DOMAIN s.entries :
              \/ b \in DOMAIN r.entries /\ s.entries[b] = r.entries[b]
              \/ Walked(s.entries[b], b)}

StoreWalk(s, b) == StoreSeed(s, b, Halves(b))
WalksStored(bricks) == FoldLeft(StoreWalk, resume, bricks)

\* A walk stored is a step from one of them to one of them.
LEMMA WalkStored ==
    ASSUME SeedTyped, NEW s \in WalkedFrom(resume), NEW b \in Bricks
    PROVE  StoreWalk(s, b) \in WalkedFrom(resume)
  <1> DEFINE half == Halves(b)
             room == (IF b \in DOMAIN s.entries THEN s.entries[b].room ELSE {})
                        \cup (IF half.below = NoBelow THEN {} ELSE {"below"})
             e == [rev |-> revision, active |-> half.active, below |-> half.below,
                   dirty |-> Clean, prefix |-> NoPrefix, room |-> room]
             put == Put(s, b, e)
  <1>1. /\ s \in Stores(revision)
        /\ \A x \in DOMAIN s.entries :
              \/ x \in DOMAIN resume.entries /\ s.entries[x] = resume.entries[x]
              \/ Walked(s.entries[x], x)
    BY DEF WalkedFrom
  <1>2. StoreWalk(s, b) = Evict(put)
    BY DEF StoreWalk, StoreSeed
  <1>3. half.active \in Seq(Nat) /\ half.below \in Seq(Part) \cup {NoBelow}
    BY HalvesTyped
  <1>4. room \in SUBSET {"below", "prefix"}
    <2>1. b \in DOMAIN s.entries => s.entries[b].room \in SUBSET {"below", "prefix"}
      BY <1>1, EntryOf DEF Entry
    <2> QED
      BY <2>1
  <1> HIDE DEF room
  <1>5. NoPrefix \in Prefix
    <2>1. << >> \in Seq(Nat)
      OBVIOUS
    <2> QED
      BY <2>1 DEF NoPrefix, Prefix
  <1>6. e \in Entry /\ InRange(e, revision) /\ Walked(e, b)
    <2>1. revision \in Nat /\ revision \in 1..revision /\ Clean \in Nat /\ Clean \in 0..Clean
      BY SeedNumbers, Numbers
    <2> HIDE DEF half
    <2>2. e \in Entry
      BY <1>3, <1>4, <1>5, <2>1 DEF Entry
    <2>3. InRange(e, revision)
      BY <2>1 DEF InRange
    <2>4. Walked(e, b)
      BY DEF Walked, half
    <2> QED
      BY <2>2, <2>3, <2>4
  <1> HIDE DEF e
  <1>7. /\ put \in Stores(revision)
        /\ DOMAIN put.entries = DOMAIN s.entries \cup {b}
        /\ \A x \in DOMAIN s.entries \cup {b} :
              put.entries[x] = IF x = b THEN e ELSE s.entries[x]
    BY <1>1, <1>6, PutStored
  <1> HIDE DEF put
  <1>8. /\ Evict(put) \in Stores(revision)
        /\ DOMAIN Evict(put).entries \subseteq DOMAIN put.entries
        /\ \A x \in DOMAIN Evict(put).entries : Evict(put).entries[x] = put.entries[x]
        /\ Within(Evict(put))
    BY <1>7, EvictStored
  <1>9. ASSUME NEW x \in DOMAIN Evict(put).entries
        PROVE  \/ x \in DOMAIN resume.entries /\ Evict(put).entries[x] = resume.entries[x]
               \/ Walked(Evict(put).entries[x], x)
    <2>1. Evict(put).entries[x] = IF x = b THEN e ELSE s.entries[x]
      BY <1>7, <1>8
    <2>2. x # b => x \in DOMAIN s.entries
      BY <1>7, <1>8
    <2> QED
      BY <1>1, <1>6, <2>1, <2>2
  <1> QED
    BY <1>2, <1>8, <1>9 DEF WalkedFrom

\* So do the walks of a refill, one after the other.
LEMMA WalksStay ==
    ASSUME SeedTyped, Within(resume), NEW bricks \in Seq(Bricks)
    PROVE  WalksStored(bricks) \in WalkedFrom(resume)
  <1> DEFINE n == Len(bricks)
             U == [k \in 1..n |-> [m \in WalkedFrom(resume) |-> StoreWalk(m, bricks[k])]]
             Iter(it) == it = [s \in SUBSET DOMAIN bricks |->
                                 IF s = {} THEN resume
                                 ELSE StoreWalk(it[s \ {Max(s)}], bricks[Max(s)])]
             iter == CHOOSE it : Iter(it)
  <1>1. WalksStored(bricks) = iter[DOMAIN bricks]
    BY DEF WalksStored, FoldLeft, MapThenFoldSet
  <1>2. n \in Nat /\ DOMAIN bricks = 1..n /\ resume \in WalkedFrom(resume)
    BY DEF SeedTyped, WalkedFrom
  <1>3. \A k \in 1..n, m \in WalkedFrom(resume) : StoreWalk(m, bricks[k]) \in WalkedFrom(resume)
    <2>1. \A k \in 1..n : bricks[k] \in Bricks
      OBVIOUS
    <2> QED
      BY <2>1, WalkStored
  <1>4. /\ U \in [1..n -> [WalkedFrom(resume) -> WalkedFrom(resume)]]
        /\ \A k \in 1..n, m \in WalkedFrom(resume) : U[k][m] = StoreWalk(m, bricks[k])
    BY <1>3
  <1> HIDE DEF n, U
  <1>5. \E it : Iter(it)
    <2>1. PICK h : FoldsUp(h, n, WalkedFrom(resume), resume, U)
      BY <1>2, <1>4, FoldLeftExists
    <2>2. ASSUME NEW s \in SUBSET (1..n), s # {}
          PROVE  h[s] = StoreWalk(h[s \ {Max(s)}], bricks[Max(s)])
      <3>1. Max(s) \in 1..n /\ s \ {Max(s)} \in SUBSET (1..n)
        BY <1>2, <2>2, GreatestIndex
      <3>2. h[s] = U[Max(s)][h[s \ {Max(s)}]] /\ h[s \ {Max(s)}] \in WalkedFrom(resume)
        BY <2>1, <2>2, <3>1 DEF FoldsUp
      <3> QED
        BY <1>4, <3>1, <3>2
    <2>3. /\ h = [s \in SUBSET (1..n) |-> h[s]]
          /\ h[{}] = resume
      BY <2>1 DEF FoldsUp
    <2>4. Iter(h)
      BY <1>2, <2>2, <2>3
    <2> QED
      BY <2>4
  <1>6. Iter(iter)
    <2> HIDE DEF Iter
    <2> QED
      BY <1>5
  <1> HIDE DEF iter
  <1>7. iter[{}] = resume /\ \A s \in SUBSET (1..n) : s # {} =>
               iter[s] = StoreWalk(iter[s \ {Max(s)}], bricks[Max(s)])
    BY <1>2, <1>6
  <1>8. ASSUME NEW k \in 1..n
        PROVE  iter[1..k] = StoreWalk(iter[1..(k - 1)], bricks[k])
    <2>1. /\ 1..k \in SUBSET (1..n) /\ 1..k # {}
          /\ Max(1..k) = k /\ (1..k) \ {k} = 1..(k - 1)
      BY <1>2, FirstIndices
    <2>2. iter[1..k] = StoreWalk(iter[(1..k) \ {Max(1..k)}], bricks[Max(1..k)])
      BY <1>7, <2>1
    <2> QED
      BY <2>1, <2>2
  <1>9. \A k \in 1..n : iter[1..(k - 1)] \in WalkedFrom(resume) => iter[1..k] = U[k][iter[1..(k - 1)]]
    BY <1>4, <1>8
  <1>10. StepsThrough(iter, n, WalkedFrom(resume), resume, U)
    BY <1>2, <1>4, <1>7, <1>9 DEF StepsThrough
  <1>11. PICK P : Runs(P, n, WalkedFrom(resume), resume, U) /\ P[n] = iter[1..n]
    BY <1>2, <1>10, FoldLeftRuns
  <1>12. n \in 0..n
    BY <1>2
  <1> QED
    BY <1>1, <1>2, <1>11, <1>12 DEF Runs

-----------------------------------------------------------------------------
(* Invalidation.                                                           *)

\* A store that keeps fewer entries, or the room of the same ones, stays
\* within the budget.
LEMMA FewerWithin ==
    ASSUME NEW now, NEW r \in Stores(now), NEW s, Within(r),
           DOMAIN s.entries \subseteq DOMAIN r.entries,
           \A b \in DOMAIN s.entries : s.entries[b].room = r.entries[b].room
    PROVE  Within(s)
  <1>1. CASE \A x, y \in DOMAIN r.entries : x = y
    BY <1>1 DEF Within
  <1>2. CASE TotalSize(r.entries) <= Budget
    <2>1. r.order \in Seq(Bricks) /\ ToSet(r.order) = DOMAIN r.entries
      BY DEF Stores, Ordered
    <2>2. Lattices(s.entries) \subseteq Lattices(r.entries)
      BY DEF Lattices
    <2>3. Cardinality(Lattices(s.entries)) <= TotalSize(r.entries) /\ TotalSize(r.entries) \in Nat
      BY <2>1, <2>2, LatticesFinite
    <2>4. TotalSize(s.entries) \in Nat
      <3>1. DOMAIN s.entries \subseteq ToSet(r.order)
        BY <2>1
      <3> QED
        BY <2>1, <3>1, LatticesFinite
    <2> DEFINE x == TotalSize(s.entries)
               y == TotalSize(r.entries)
    <2>5. x <= y /\ y <= Budget /\ x \in Nat /\ y \in Nat /\ Budget \in Nat
      BY <1>2, <2>3, <2>4, BoundsAssumption DEF TotalSize
    <2> HIDE DEF x, y
    <2>6. x <= Budget
      BY <2>5
    <2> QED
      BY <2>6 DEF Within, x
  <1> QED
    BY <1>1, <1>2 DEF Within

\* One field of an entry changed.
LEMMA Restamped ==
    ASSUME NEW e \in Entry, NEW x \in Nat
    PROVE  /\ [e EXCEPT !.rev = x] \in Entry /\ [e EXCEPT !.dirty = x] \in Entry
           /\ [e EXCEPT !.rev = x].rev = x /\ [e EXCEPT !.dirty = x].dirty = x
           /\ [e EXCEPT !.rev = x].dirty = e.dirty /\ [e EXCEPT !.dirty = x].rev = e.rev
           /\ [e EXCEPT !.rev = x].room = e.room /\ [e EXCEPT !.dirty = x].room = e.room
           /\ [e EXCEPT !.rev = x].prefix = e.prefix /\ [e EXCEPT !.dirty = x].prefix = e.prefix
  <1>1. [e EXCEPT !.rev = x] \in Entry
    BY DEF Entry
  <1>2. [e EXCEPT !.dirty = x] \in Entry
    BY DEF Entry
  <1>3. [e EXCEPT !.rev = x].rev = x /\ [e EXCEPT !.dirty = x].dirty = x
    BY DEF Entry
  <1> QED
    BY <1>1, <1>2, <1>3

\* What an edit over `reach` makes of the entry of a brick it leaves.
Lagging(e, b, reach, frontier, newStructure) ==
    IF b \in reach
    THEN [e EXCEPT !.dirty = IF frontier < @ THEN frontier ELSE @]
    ELSE IF e.dirty = Clean /\ CarriedAcrossAppends(e.rev, b)
    THEN [e EXCEPT !.rev = revision + 1]
    ELSE e

\* The entries an edit leaves, of those there were.
RegionLeaves(r, reach, frontier, newStructure) ==
    /\ r \in Stores(revision + 1)
    /\ DOMAIN r.entries \subseteq DOMAIN resume.entries
    /\ DOMAIN r.entries # {} => Space \notin reach
    /\ \A b \in DOMAIN r.entries :
          /\ r.entries[b] = Lagging(resume.entries[b], b, reach, frontier, newStructure)
          /\ b \in reach => Keepable(resume.entries[b], frontier, newStructure)
          /\ resume.entries[b].room = r.entries[b].room
          /\ resume.entries[b].prefix = r.entries[b].prefix

\* An edit leaves the entries it cannot reach, and those it reaches that keep
\* a prefix ending before it.
LEMMA RegionTouched ==
    ASSUME SeedTyped, NEW reach, NEW frontier \in Nat, NEW newStructure
    PROVE  RegionLeaves(TouchRegion(reach, frontier, newStructure), reach, frontier, newStructure)
  <1> DEFINE kept == {b \in DOMAIN resume.entries :
                        b \in reach => Keepable(resume.entries[b], frontier, newStructure)}
             After(b) == Lagging(resume.entries[b], b, reach, frontier, newStructure)
             entries == [b \in kept |-> After(b)]
             order == Only(resume.order, kept)
             r == TouchRegion(reach, frontier, newStructure)
  <1>1. r = IF Space \in reach THEN NoSeeds ELSE [entries |-> entries, order |-> order]
    BY DEF TouchRegion, Lagging
  <1> HIDE DEF r
  <1>2. resume \in Stores(revision) /\ Ordered(resume.order, resume.entries)
    BY DEF SeedTyped, Stores
  <1>3. ASSUME NEW b \in DOMAIN resume.entries
        PROVE  /\ After(b) \in Entry /\ InRange(After(b), revision + 1) /\ b \in Bricks
               /\ After(b).room = resume.entries[b].room /\ After(b).prefix = resume.entries[b].prefix
    <2> DEFINE e == resume.entries[b]
    <2>1. e \in Entry /\ b \in Bricks /\ InRange(e, revision)
      BY <1>2, EntryOf
    <2> HIDE DEF e
    <2>2. revision \in Nat /\ Clean \in Nat
      BY SeedNumbers, Numbers
    <2>3. e.rev \in 1..revision + 1 /\ revision + 1 \in 1..revision + 1 /\ e.dirty \in 0..Clean
      BY <2>1, <2>2 DEF InRange
    <2>4. frontier < e.dirty => frontier \in 0..Clean
      BY <2>2, <2>3
    <2> DEFINE d == IF frontier < e.dirty THEN frontier ELSE e.dirty
    <2>5. d \in 0..Clean
      BY <2>3, <2>4
    <2>6. After(b) = IF b \in reach THEN [e EXCEPT !.dirty = d]
                     ELSE IF e.dirty = Clean /\ CarriedAcrossAppends(e.rev, b)
                     THEN [e EXCEPT !.rev = revision + 1] ELSE e
      BY DEF Lagging, e
    <2> HIDE DEF d, After
    <2>7. /\ [e EXCEPT !.dirty = d] \in Entry /\ InRange([e EXCEPT !.dirty = d], revision + 1)
          /\ [e EXCEPT !.dirty = d].room = e.room /\ [e EXCEPT !.dirty = d].prefix = e.prefix
      <3>1. d \in Nat
        BY <2>5
      <3> QED
        BY <2>1, <2>3, <2>5, <3>1, Restamped DEF InRange
    <2>8. /\ [e EXCEPT !.rev = revision + 1] \in Entry
          /\ InRange([e EXCEPT !.rev = revision + 1], revision + 1)
          /\ [e EXCEPT !.rev = revision + 1].room = e.room
          /\ [e EXCEPT !.rev = revision + 1].prefix = e.prefix
      <3>1. revision + 1 \in Nat
        BY <2>2
      <3> QED
        BY <2>1, <2>3, <3>1, Restamped DEF InRange
    <2>9. e \in Entry /\ InRange(e, revision + 1)
      BY <2>1, <2>3 DEF InRange
    <2> QED
      BY <2>1, <2>6, <2>7, <2>8, <2>9 DEF e
  <1>4. \A b \in kept : b \in DOMAIN resume.entries
    OBVIOUS
  <1>4a. \A b \in kept : b \in reach => Keepable(resume.entries[b], frontier, newStructure)
    OBVIOUS
  <1>5. order \in Seq(Bricks) /\ ToSet(order) = ToSet(resume.order) \cap kept /\ IsInjective(order)
    <2> HIDE DEF kept
    <2> QED
      BY <1>2, OnlyLists DEF Ordered
  <1> HIDE DEF After, kept
  <1>6. /\ kept \in SUBSET Bricks /\ entries \in [kept -> Entry] /\ DOMAIN entries = kept
        /\ \A b \in kept : entries[b] = After(b) /\ InRange(entries[b], revision + 1)
    BY <1>3, <1>4
  <1> HIDE DEF entries, order
  <1>7. ToSet(resume.order) \cap kept = kept
    BY <1>2, <1>4 DEF Ordered
  <1>8. Ordered(order, entries)
    BY <1>5, <1>6, <1>7 DEF Ordered
  <1>9. ASSUME Space \in reach PROVE RegionLeaves(r, reach, frontier, newStructure)
    <2>1. r = NoSeeds
      BY <1>1, <1>9
    <2>2. r \in Stores(revision + 1) /\ DOMAIN r.entries = {}
      BY <2>1, NoSeedsStored
    <2> QED
      BY <2>2 DEF RegionLeaves
  <1>10. ASSUME Space \notin reach PROVE RegionLeaves(r, reach, frontier, newStructure)
    <2>1. r = [entries |-> entries, order |-> order]
      BY <1>1, <1>10
    <2>2. r = [entries |-> r.entries, order |-> r.order] /\ r.entries = entries /\ r.order = order
      BY <2>1
    <2>3. r \in Stores(revision + 1)
      BY <1>6, <1>8, <2>2, StoreOf
    <2>4. \A b \in DOMAIN r.entries :
             /\ r.entries[b] = After(b) /\ b \in DOMAIN resume.entries
             /\ b \in reach => Keepable(resume.entries[b], frontier, newStructure)
             /\ resume.entries[b].room = r.entries[b].room
             /\ resume.entries[b].prefix = r.entries[b].prefix
      BY <1>3, <1>4, <1>4a, <1>6, <2>2
    <2> QED
      BY <1>10, <2>3, <2>4 DEF After, RegionLeaves
  <1> QED
    BY <1>9, <1>10 DEF r

-----------------------------------------------------------------------------
(* The edits, as the store and the counters see them.                      *)

EditMoves ==
    /\ revision' = revision + 1 /\ revision < MaxRevision
    /\ structure' \in {structure, structure + 1}
    /\ UNCHANGED <<refills, drag, prefixes>>
    /\ \/ resume' = resume /\ structure' = structure + 1
       \/ resume' = NoSeeds
       \/ \E reach, frontier :
             /\ frontier \in Nat
             /\ resume' = TouchRegion(reach, frontier, structure')
    /\ Len(log'.nodes) = Len(log'.reaches)

\* An edit that is no append forgets the log on both sides.
LEMMA ForgottenEven ==
    ASSUME SeedTyped
    PROVE  Len(Forgotten(log).nodes) = Len(Forgotten(log).reaches)
  <1>1. Forgotten(log).nodes = << >> /\ Forgotten(log).reaches = << >>
    BY DEF SeedTyped, Log, Forgotten
  <1> QED
    BY <1>1

\* An append grows it on both sides.
LEMMA AppendedEven ==
    ASSUME SeedTyped, NEW layer, NEW node \in Nat, NEW reach \in Reach
    PROVE  LET l == LogAppend(log, layer, node, reach) IN Len(l.nodes) = Len(l.reaches)
  <1> DEFINE goesOn == log.valid /\ log.layer = layer /\ log.at = revision
             nodes == IF goesOn THEN log.nodes ELSE << >>
             reaches == IF goesOn THEN log.reaches ELSE << >>
  <1>1. /\ log.nodes \in Seq(Nat) /\ log.reaches \in Seq(Reach)
        /\ Len(log.nodes) = Len(log.reaches)
    BY DEF SeedTyped, Log
  <1>2. << >> \in Seq(Nat) /\ << >> \in Seq(Reach)
    OBVIOUS
  <1>3. nodes \in Seq(Nat) /\ reaches \in Seq(Reach) /\ Len(nodes) = Len(reaches)
    BY <1>1, <1>2
  <1>4. LogAppend(log, layer, node, reach).nodes = Append(nodes, node)
    BY DEF LogAppend
  <1>5. LogAppend(log, layer, node, reach).reaches = Append(reaches, reach)
    BY DEF LogAppend
  <1> HIDE DEF nodes, reaches
  <1>6. Len(Append(nodes, node)) = Len(nodes) + 1 /\ Len(Append(reaches, reach)) = Len(reaches) + 1
    BY <1>3
  <1> QED
    BY <1>3, <1>4, <1>5, <1>6

\* The invalidations apply_edit chooses from.
LEMMA TouchesMove ==
    ASSUME SeedTyped, MayEdit
    PROVE  /\ \A layer, reach : \A node \in Nat :
                 reach \in Reach /\ TouchAppended(layer, node, reach) => EditMoves
           /\ \A reach : TouchRegionStructural(reach) => EditMoves
           /\ \A reach, frontier : frontier \in Nat /\ TouchRegionFrom(reach, frontier) => EditMoves
  <1>1. revision < MaxRevision
    BY DEF MayEdit
  <1>2. ASSUME NEW layer, NEW reach \in Reach, NEW node \in Nat, TouchAppended(layer, node, reach)
        PROVE  EditMoves
    <2>1. Len(log'.nodes) = Len(log'.reaches)
      BY <1>2, AppendedEven DEF TouchAppended
    <2> QED
      BY <1>1, <1>2, <2>1 DEF TouchAppended, EditMoves
  <1>3. ASSUME NEW reach, TouchRegionStructural(reach) PROVE EditMoves
    <2>1. Len(log'.nodes) = Len(log'.reaches)
      BY <1>3, ForgottenEven DEF TouchRegionStructural
    <2>2. structure' = structure + 1 /\ resume' = TouchRegion(reach, NoFrontier, structure')
      BY <1>3 DEF TouchRegionStructural
    <2>3. NoFrontier \in Nat
      BY Numbers
    <2> QED
      BY <1>1, <1>3, <2>1, <2>2, <2>3 DEF TouchRegionStructural, EditMoves
  <1>4. ASSUME NEW reach, NEW frontier \in Nat, TouchRegionFrom(reach, frontier) PROVE EditMoves
    <2>1. Len(log'.nodes) = Len(log'.reaches)
      BY <1>4, ForgottenEven DEF TouchRegionFrom
    <2>2. structure' = structure /\ resume' = TouchRegion(reach, frontier, structure')
      BY <1>4 DEF TouchRegionFrom
    <2> QED
      BY <1>1, <1>4, <2>1, <2>2 DEF TouchRegionFrom, EditMoves
  <1> QED
    BY <1>2, <1>3, <1>4

\* Every edit is one of them, and moves the revision by one.
LEMMA EditsMove ==
    ASSUME SeedTyped, Edit
    PROVE  EditMoves
  <1>0. MayEdit
    BY DEF Edit
  <1>1. ASSUME NEW l \in DOMAIN doc, NEW at \in Reaches, AppendItem(l, at) PROVE EditMoves
    <2>1. doc[l] \in Layer
      BY SeedNumbers
    <2>2. doc[l].next \in Nat /\ at \in Reach
      BY <2>1, DocumentsAssumption DEF Layer
    <2>3. TouchAppended(doc[l].id, doc[l].next, at)
      BY <1>1 DEF AppendItem
    <2> QED
      BY <1>0, <2>2, <2>3, TouchesMove
  <1>2. ASSUME NEW l \in DOMAIN doc, NEW at \in Reaches, NEW k \in DOMAIN doc[l].roots,
               InsertItem(l, k, at)
        PROVE  EditMoves
    <2>1. TouchRegionStructural(at)
      BY <1>2 DEF InsertItem
    <2> QED
      BY <1>0, <2>1, TouchesMove
  <1>3. ASSUME NEW l \in DOMAIN doc, NEW at \in Reaches, NEW k \in DOMAIN doc[l].roots,
               SetItem(l, k, at)
        PROVE  EditMoves
    <2> DEFINE onActive == HasActive(doc) /\ Active(doc).id = doc[l].id
               frontier == IF onActive THEN k - 1 ELSE NoFrontier
    <2>1. doc[l] \in Layer
      BY SeedNumbers
    <2>2. doc[l].roots \in Seq(Item)
      BY <2>1 DEF Layer
    <2>3. k - 1 \in Nat
      BY <2>2
    <2>4. frontier \in Nat
      BY <2>3, Numbers
    <2>5. TouchRegionFrom(doc[l].roots[k].at \cup at, frontier)
      BY <1>3 DEF SetItem
    <2> HIDE DEF frontier
    <2> QED
      BY <1>0, <2>4, <2>5, TouchesMove
  <1>4. ASSUME NEW l \in DOMAIN doc, NEW k \in DOMAIN doc[l].roots, RemoveItem(l, k) PROVE EditMoves
    <2>1. TouchRegionStructural(doc[l].roots[k].at)
      BY <1>4 DEF RemoveItem
    <2> QED
      BY <1>0, <2>1, TouchesMove
  <1>5. ASSUME NEW l \in DOMAIN doc, NEW k \in DOMAIN doc[l].roots, Touch(l, k) PROVE EditMoves
    <2>1. Len(log'.nodes) = Len(log'.reaches)
      BY <1>5, ForgottenEven DEF Touch
    <2> QED
      BY <1>0, <1>5, <2>1 DEF Touch, EditMoves, MayEdit
  <1>6. ASSUME NEW l \in DOMAIN doc, SetVisible(l) PROVE EditMoves
    <2>1. TouchRegionStructural(Influence(doc[l].roots))
      BY <1>6 DEF SetVisible
    <2> QED
      BY <1>0, <2>1, TouchesMove
  <1>7. ASSUME NEW l \in DOMAIN doc, SetComposition(l) PROVE EditMoves
    <2>1. TouchRegionFrom(Influence(doc[l].roots), NoFrontier)
      BY <1>7 DEF SetComposition
    <2>2. NoFrontier \in Nat
      BY Numbers
    <2> QED
      BY <1>0, <2>1, <2>2, TouchesMove
  <1>8. ASSUME NEW hard \in BOOLEAN, AddLayer(hard) PROVE EditMoves
    <2>1. TouchRegionStructural({})
      BY <1>8 DEF AddLayer
    <2> QED
      BY <1>0, <2>1, TouchesMove
  <1> QED
    BY <1>1, <1>2, <1>3, <1>4, <1>5, <1>6, <1>7, <1>8 DEF Edit

-----------------------------------------------------------------------------
(* The steps, as the store and its readers see them.                       *)

\* The kinds hold, and the store is within its budget.
SeedHeld == LogIInv /\ SeedTyped /\ Within(resume)

\* The entries an action leaves are stamped no earlier, and an edit's frontier
\* goes only with an answer at the current revision.
Advanced(e, f) ==
    /\ f.rev >= e.rev
    /\ e.dirty # Clean /\ f.dirty = Clean => f.rev = revision

SeedsAdvance ==
    \A b \in DOMAIN resume.entries \cap DOMAIN resume'.entries :
        Advanced(resume.entries[b], resume'.entries[b])

\* An entry left as it was has not gone back.
LEMMA SameAdvanced ==
    ASSUME SeedTyped, NEW b \in DOMAIN resume.entries
    PROVE  /\ Advanced(resume.entries[b], resume.entries[b])
           /\ resume.entries[b] \in Entry /\ InRange(resume.entries[b], revision)
           /\ resume.entries[b].rev \in Nat /\ resume.entries[b].rev <= revision
           /\ revision \in Nat /\ b \in Bricks
  <1>1. resume.entries[b] \in Entry /\ InRange(resume.entries[b], revision) /\ b \in Bricks
    BY EntryOf DEF SeedTyped
  <1>2. resume.entries[b].rev \in Nat /\ resume.entries[b].rev <= revision /\ revision \in Nat
    BY <1>1, SeedNumbers DEF InRange
  <1> QED
    BY <1>1, <1>2 DEF Advanced

\* A larger revision, and the same store.
LEMMA StoreLater ==
    ASSUME SeedTyped
    PROVE  resume \in Stores(revision + 1)
  <1>1. \A b \in DOMAIN resume.entries : InRange(resume.entries[b], revision + 1)
    <2> TAKE b \in DOMAIN resume.entries
    <2>1. InRange(resume.entries[b], revision) /\ revision \in Nat
      BY SameAdvanced
    <2> QED
      BY <2>1 DEF InRange
  <1> QED
    BY <1>1 DEF SeedTyped, Stores

\* Edits.
LEMMA EditHolds ==
    ASSUME SeedHeld, LogIInv', Edit
    PROVE  SeedTyped' /\ Within(resume)' /\ SeedsAdvance
  <1> USE DEF SeedHeld
  <1>1. EditMoves
    BY EditsMove
  <1>2. /\ revision' \in 1..MaxRevision /\ structure' \in 1..revision'
    BY <1>1, SeedNumbers, Numbers DEF EditMoves
  <1>3. revision' = revision + 1
    BY <1>1 DEF EditMoves
  <1>4. resume' \in Stores(revision + 1) /\ Within(resume') /\ SeedsAdvance
    <2>1. CASE resume' = resume
      BY <2>1, StoreLater, SameAdvanced DEF SeedsAdvance
    <2>2. CASE resume' = NoSeeds
      <3>1. resume' \in Stores(revision + 1) /\ DOMAIN resume'.entries = {}
        BY <2>2, NoSeedsStored
      <3> QED
        BY <3>1 DEF SeedsAdvance, Within
    <2>3. ASSUME NEW reach, NEW frontier \in Nat, resume' = TouchRegion(reach, frontier, structure')
          PROVE  resume' \in Stores(revision + 1) /\ Within(resume') /\ SeedsAdvance
      <3>1. /\ resume' \in Stores(revision + 1)
            /\ DOMAIN resume'.entries \subseteq DOMAIN resume.entries
            /\ \A b \in DOMAIN resume'.entries :
                  /\ resume'.entries[b] = Lagging(resume.entries[b], b, reach, frontier, structure')
                  /\ resume.entries[b].room = resume'.entries[b].room
        <4>1. RegionLeaves(resume', reach, frontier, structure')
          BY <2>3, RegionTouched
        <4> QED
          BY <4>1 DEF RegionLeaves
      <3>2. Within(resume')
        BY <3>1, FewerWithin DEF SeedTyped
      <3>3. ASSUME NEW b \in DOMAIN resume'.entries
            PROVE  Advanced(resume.entries[b], resume'.entries[b])
        <4> DEFINE e == resume.entries[b]
        <4>1. /\ e \in Entry /\ InRange(e, revision) /\ Advanced(e, e) /\ e.rev \in Nat
              /\ e.rev <= revision /\ revision \in Nat
          BY <3>1, SameAdvanced
        <4>2. resume'.entries[b] = Lagging(e, b, reach, frontier, structure')
          BY <3>1
        <4> HIDE DEF e
        <4>3. e.dirty \in 0..Clean /\ Clean \in Nat
          BY <4>1, Numbers DEF InRange
        <4>4. CASE b \in reach
          <5> DEFINE d == IF frontier < e.dirty THEN frontier ELSE e.dirty
          <5>1. d \in Nat /\ (e.dirty # Clean => d # Clean)
            BY <4>3
          <5>2. resume'.entries[b] = [e EXCEPT !.dirty = d]
            BY <4>2, <4>4 DEF Lagging
          <5> HIDE DEF d
          <5>3. resume'.entries[b].rev = e.rev /\ resume'.entries[b].dirty = d
            BY <4>1, <5>1, <5>2, Restamped
          <5> QED
            BY <4>1, <5>1, <5>3 DEF Advanced, e
        <4>5. CASE b \notin reach /\ e.dirty = Clean /\ CarriedAcrossAppends(e.rev, b)
          <5>1. resume'.entries[b] = [e EXCEPT !.rev = revision + 1]
            BY <4>2, <4>5 DEF Lagging
          <5>2. resume'.entries[b].rev = revision + 1
            BY <4>1, <5>1, Restamped
          <5> QED
            BY <4>1, <4>5, <5>2 DEF Advanced, e
        <4>6. CASE b \notin reach /\ ~(e.dirty = Clean /\ CarriedAcrossAppends(e.rev, b))
          <5>1. resume'.entries[b] = e
            BY <4>2, <4>6 DEF Lagging
          <5> QED
            BY <4>1, <5>1 DEF e
        <4> QED
          BY <4>4, <4>5, <4>6
      <3> QED
        BY <3>1, <3>2, <3>3 DEF SeedsAdvance
    <2> QED
      BY <1>1, <2>1, <2>2, <2>3 DEF EditMoves
  <1>5. SeedTyped'
    <2>1. Numbered(doc)' /\ log' \in Log
      BY DEF LogIInv, LogTyped
    <2>2. Len(log.nodes)' = Len(log.reaches)' /\ UNCHANGED <<refills, drag, prefixes>>
      BY <1>1 DEF EditMoves
    <2> QED
      BY <1>2, <1>3, <1>4, <2>1, <2>2 DEF SeedTyped
  <1> QED
    BY <1>4, <1>5

\* What a refill leaves of a batch to be walked.
LEMMA MissingTyped ==
    ASSUME NEW batch \in Seq(Bricks), NEW missed
    PROVE  Missing(batch, missed) \in Refills
  <1>1. Only(batch, missed) \in Seq(Bricks)
    BY OnlyLists
  <1> QED
    BY <1>1 DEF Missing, Refills

\* Beginning a refill.
LEMMA BeginHolds ==
    ASSUME SeedHeld, NEW r \in Readers, NEW batch \in Batches, BeginRefill(r, batch)
    PROVE  SeedTyped' /\ Within(resume)' /\ SeedsAdvance
  <1> USE DEF SeedHeld
  <1>1. batch \in Seq(Bricks)
    BY BoundsAssumption
  <1>2. resume' \in Stores(revision) /\ resume'.entries = resume.entries
    BY <1>1, LruStored DEF BeginRefill
  <1>3. Within(resume') /\ SeedsAdvance
    <2>1. DOMAIN resume'.entries = DOMAIN resume.entries
      BY <1>2
    <2>2. Within(resume')
      BY <1>2 DEF Within
    <2> QED
      BY <1>2, <2>2, SameAdvanced DEF SeedsAdvance
  <1> DEFINE HowServed(how) == {b \in ToSet(batch) : Serve(b).how \in how}
             tasks == HowServed({"suffix", "frontier", "prefix"})
             missed == HowServed({"walk"})
             walked == [phase |-> "walked", now |-> revision, tasks |-> [b \in tasks |-> Serve(b).chain],
                        batch |-> batch, missed |-> missed]
  <1>4. refills' = [refills EXCEPT ![r] = IF tasks = {} THEN Missing(batch, missed) ELSE walked]
    BY DEF BeginRefill
  <1>5. walked \in Refills
    <2>1. ToSet(batch) \subseteq Bricks
      BY <1>1 DEF ToSet
    <2>2. tasks \in SUBSET Bricks /\ missed \in SUBSET Bricks
      BY <2>1
    <2>3. \A b \in tasks : Serve(b).chain \in Seq(Nat)
      BY <2>1, ServeTyped
    <2> HIDE DEF tasks, missed
    <2>4. [b \in tasks |-> Serve(b).chain] \in [tasks -> Seq(Nat)]
      BY <2>3
    <2>5. [b \in tasks |-> Serve(b).chain] \in Tasks
      BY <2>2, <2>4 DEF Tasks
    <2>6. revision \in Nat
      BY SeedNumbers
    <2> QED
      BY <1>1, <2>2, <2>5, <2>6 DEF Refills
  <1> HIDE DEF tasks, missed, walked
  <1>6. Missing(batch, missed) \in Refills
    BY <1>1, MissingTyped
  <1>7. refills' \in [Readers -> Refills]
    BY <1>4, <1>5, <1>6 DEF SeedTyped
  <1>8. prefixes' \in Caches
    <2>1. CASE HasActive(doc) /\ ~HasBelow(doc)
      <3>1. Told \in Caches
        BY SeedNumbers DEF SeedTyped, Told, Caches
      <3>2. Active(doc) \in Layer
        BY <2>1, ActiveTyped
      <3> QED
        BY <2>1, <3>1, <3>2, LookupTyped DEF BeginRefill, AfterSource
    <2>2. CASE ~(HasActive(doc) /\ ~HasBelow(doc))
      BY <2>2 DEF BeginRefill, AfterSource, SeedTyped
    <2> QED
      BY <2>1, <2>2
  <1>9. UNCHANGED <<doc, revision, structure, log, drag>>
    BY DEF BeginRefill
  <1> QED
    BY <1>2, <1>3, <1>7, <1>8, <1>9 DEF SeedTyped

\* Storing its tasks.
LEMMA ResumedHolds ==
    ASSUME SeedHeld, NEW r \in Readers, StoreResumed(r)
    PROVE  SeedTyped' /\ Within(resume)' /\ SeedsAdvance
  <1> USE DEF SeedHeld
  <1> DEFINE f == refills[r]
  <1>1. f \in Refills /\ f.phase = "walked"
    BY DEF StoreResumed, SeedTyped
  <1>2. resume' = AfterTasks(f)
    BY DEF StoreResumed
  <1>3. f.tasks \in Tasks /\ f.batch \in Seq(Bricks)
    BY <1>1 DEF Refills, Idle
  <1>4. refills' = [refills EXCEPT ![r] = Missing(f.batch, f.missed)]
    BY DEF StoreResumed
  <1> HIDE DEF f
  <1>5. resume' \in AnsweredFrom(resume, f.tasks)
    BY <1>1, <1>2, TasksAnswer
  <1>6. /\ resume' \in Stores(revision) /\ DOMAIN resume'.entries = DOMAIN resume.entries
        /\ \A b \in DOMAIN resume.entries :
              \/ resume'.entries[b] = resume.entries[b]
              \/ b \in DOMAIN f.tasks /\ resume'.entries[b] = Answered(resume.entries[b], f.tasks[b])
    BY <1>5 DEF AnsweredFrom
  <1>7. ASSUME NEW b \in DOMAIN resume.entries
        PROVE  /\ Advanced(resume.entries[b], resume'.entries[b])
               /\ resume'.entries[b].room = resume.entries[b].room
    <2>1. CASE resume'.entries[b] = resume.entries[b]
      BY <2>1, SameAdvanced
    <2>2. CASE resume'.entries[b] = Answered(resume.entries[b], f.tasks[b])
      <3> DEFINE e == resume.entries[b]
      <3>1. e \in Entry /\ e.rev <= revision /\ e.rev \in Nat /\ revision \in Nat
        BY SameAdvanced
      <3>2. Answered(e, f.tasks[b]).rev = revision /\ Answered(e, f.tasks[b]).room = e.room
        BY <3>1 DEF Answered, Entry
      <3> HIDE DEF e
      <3>3. resume'.entries[b].rev >= e.rev /\ resume'.entries[b].rev = revision
        BY <2>2, <3>1, <3>2 DEF e
      <3> QED
        BY <2>2, <3>2, <3>3 DEF Advanced, e
    <2> QED
      BY <1>6, <2>1, <2>2
  <1>8. Within(resume') /\ SeedsAdvance
    <2>1. Within(resume')
      BY <1>6, <1>7, FewerWithin DEF SeedTyped
    <2> QED
      BY <1>6, <1>7, <2>1 DEF SeedsAdvance
  <1>9. refills' \in [Readers -> Refills]
    BY <1>3, <1>4, MissingTyped DEF SeedTyped
  <1>10. UNCHANGED <<doc, revision, structure, log, drag, prefixes>>
    BY DEF StoreResumed
  <1> QED
    BY <1>6, <1>8, <1>9, <1>10 DEF SeedTyped

\* Walking the rest.
LEMMA WalkHolds ==
    ASSUME SeedHeld, NEW r \in Readers, WalkMissing(r)
    PROVE  SeedTyped' /\ Within(resume)' /\ SeedsAdvance
  <1> USE DEF SeedHeld
  <1> DEFINE f == refills[r]
  <1>1. f \in Refills /\ f.phase = "missing"
    BY DEF WalkMissing, SeedTyped
  <1>2. f.batch \in Seq(Bricks)
    BY <1>1 DEF Refills, Idle
  <1>3. resume' = IF JoinIsHardUnion(doc) THEN WalksStored(f.batch) ELSE resume
    BY DEF WalkMissing, WalksStored, StoreWalk, FoldLeft, MapThenFoldSet
  <1>4. refills' = [refills EXCEPT ![r] = Idle]
    BY DEF WalkMissing
  <1> HIDE DEF f
  <1>5. resume' \in WalkedFrom(resume)
    <2>1. resume \in WalkedFrom(resume)
      BY DEF SeedTyped, WalkedFrom
    <2> QED
      BY <1>2, <1>3, <2>1, WalksStay
  <1>6. /\ resume' \in Stores(revision) /\ Within(resume')
        /\ \A b \in DOMAIN resume'.entries :
              \/ b \in DOMAIN resume.entries /\ resume'.entries[b] = resume.entries[b]
              \/ Walked(resume'.entries[b], b)
    BY <1>5 DEF WalkedFrom
  <1>7. ASSUME NEW b \in DOMAIN resume.entries \cap DOMAIN resume'.entries
        PROVE  Advanced(resume.entries[b], resume'.entries[b])
    <2>1. CASE resume'.entries[b] = resume.entries[b]
      BY <2>1, SameAdvanced
    <2>2. CASE Walked(resume'.entries[b], b)
      <3>1. resume'.entries[b].rev = revision
        BY <2>2 DEF Walked
      <3>2. resume.entries[b].rev <= revision /\ resume.entries[b].rev \in Nat /\ revision \in Nat
        BY SameAdvanced
      <3> QED
        BY <3>1, <3>2 DEF Advanced
    <2> QED
      BY <1>6, <2>1, <2>2
  <1>8. SeedsAdvance
    BY <1>7 DEF SeedsAdvance
  <1>9. refills' \in [Readers -> Refills]
    <2>1. Idle \in Refills
      BY DEF Refills
    <2> QED
      BY <1>4, <2>1 DEF SeedTyped
  <1>10. UNCHANGED <<doc, revision, structure, log, drag, prefixes>>
    BY DEF WalkMissing
  <1> QED
    BY <1>6, <1>8, <1>9, <1>10 DEF SeedTyped

-----------------------------------------------------------------------------
(* The pass in front of a drag.                                            *)

\* The least of the ordinals a brick is reached by.
LEMMA LeastWarp ==
    ASSUME NEW n \in Nat, NEW S \in SUBSET (0..n), S # {}
    PROVE  Min(S) \in S
  <1>1. S \in SUBSET Nat
    OBVIOUS
  <1>2. \E m \in S : \A j \in S : m <= j
    BY <1>1, LeastNat
  <1> QED
    BY <1>2 DEF Min

\* A prefix the pass evaluates: before every warp that reaches the brick.
LEMMA BoundaryTyped ==
    ASSUME SeedTyped, HasActive(doc), NEW warps \in SUBSET (0 .. Len(Active(doc).roots) - 1),
           NEW b, Boundary(warps, b) \notin {Clean, 0}
    PROVE  Boundary(warps, b) \in 1 .. Len(Active(doc).roots) - 1
  <1> DEFINE reaching == {o \in warps : b \in Active(doc).roots[o + 1].at}
             n == Len(Active(doc).roots)
  <1>1. n \in Nat
    BY ActiveTyped
  <1>2. Boundary(warps, b) = IF reaching = {} THEN Clean ELSE Min(reaching)
    BY DEF Boundary
  <1>3. reaching \subseteq 0..n - 1
    BY DEF n
  <1> HIDE DEF reaching, n
  <1>3a. 0..n - 1 \subseteq 0..n
    BY <1>1
  <1>4. reaching # {} /\ Boundary(warps, b) = Min(reaching)
    BY <1>2
  <1>5. Boundary(warps, b) \in 0..n - 1
    BY <1>1, <1>3, <1>3a, <1>4, LeastWarp
  <1> QED
    BY <1>1, <1>5 DEF n

\* The prefixes of a pass are of the kind, and of the present document.
LEMMA PrepareHolds ==
    ASSUME SeedHeld, HasActive(doc), NEW warps \in SUBSET (0 .. Len(Active(doc).roots) - 1),
           PrepareDrag(warps)
    PROVE  SeedTyped' /\ Within(resume)' /\ SeedsAdvance
  <1> USE DEF SeedHeld
  <1> DEFINE jobs == {b \in DOMAIN resume.entries : NeedsPrefix(b, Boundary(warps, b))}
             At(b) == [boundary |-> Boundary(warps, b), structure |-> structure,
                       chain |-> Chain(SubSeq(Active(doc).roots, 1, Boundary(warps, b)), b)]
             made == [b \in jobs |-> At(b)]
  <1>1. drag' = [phase |-> "prepared", now |-> revision, structure |-> structure, prefixes |-> made]
    BY DEF PrepareDrag
  <1>2. ASSUME NEW b \in jobs PROVE At(b) \in Prefix
    <2> DEFINE n == Boundary(warps, b)
               roots == Active(doc).roots
    <2>1. n \in 1..Len(roots) - 1
      BY BoundaryTyped DEF NeedsPrefix
    <2>2. roots \in Seq(Item) /\ Len(roots) \in Nat
      BY ActiveTyped
    <2> HIDE DEF n, roots
    <2>3. SubSeq(roots, 1, n) \in Seq(Item) /\ n \in Nat
      BY <2>1, <2>2
    <2>4. Chain(SubSeq(roots, 1, n), b) \in Seq(Nat)
      BY <2>3, ChainTyped
    <2>5. [boundary |-> n, structure |-> structure, chain |-> Chain(SubSeq(roots, 1, n), b)] \in Prefix
      BY <2>3, <2>4, SeedNumbers DEF Prefix
    <2> QED
      BY <2>5 DEF n, roots
  <1>3. jobs \in SUBSET Bricks
    BY SameAdvanced
  <1> HIDE DEF jobs, At
  <1>4. made \in [jobs -> Prefix]
    BY <1>2
  <1> HIDE DEF made
  <1>5. drag' \in Passes
    <2>1. revision \in Nat /\ structure \in Nat
      BY SeedNumbers
    <2>2. made \in UNION {[S -> Prefix] : S \in SUBSET Bricks}
      BY <1>3, <1>4
    <2> QED
      BY <1>1, <2>1, <2>2 DEF Passes
  <1>6. UNCHANGED <<doc, revision, structure, log, resume, refills, prefixes>>
    BY DEF PrepareDrag
  <1>7. Within(resume)' /\ SeedsAdvance
    BY <1>6, SameAdvanced DEF SeedsAdvance, Within
  <1> QED
    BY <1>5, <1>6, <1>7 DEF SeedTyped

\* The pass stores a prefix beside the entries that are still current.
PassStores(b) ==
    /\ b \in DOMAIN drag.prefixes
    /\ resume.entries[b].dirty = Clean
    /\ resume.entries[b].rev = drag.now

\* What it leaves: entries that have their prefix, or as they were.
LEMMA PassLeaves ==
    ASSUME SeedHeld, StorePrefixes
    PROVE  /\ resume' \in Stores(revision) /\ Within(resume')
           /\ DOMAIN resume'.entries \subseteq DOMAIN resume.entries
           /\ \A b \in DOMAIN resume'.entries :
                 \/ resume'.entries[b] = resume.entries[b]
                 \/ /\ revision = drag.now /\ structure = drag.structure /\ PassStores(b)
                    /\ resume'.entries[b] =
                          [resume.entries[b] EXCEPT !.prefix = drag.prefixes[b],
                                                    !.room = @ \cup {"prefix"}]
  <1> USE DEF SeedHeld
  <1> DEFINE With(b) == [resume.entries[b] EXCEPT !.prefix = drag.prefixes[b],
                                                  !.room = @ \cup {"prefix"}]
             entries == [b \in DOMAIN resume.entries |->
                            IF PassStores(b) THEN With(b) ELSE resume.entries[b]]
             stored == [resume EXCEPT !.entries = entries]
             current == revision = drag.now /\ structure = drag.structure
  <1>1. resume' = IF current THEN Evict(stored) ELSE resume
    BY DEF StorePrefixes, PassStores
  <1>2. drag \in Passes /\ drag # Idle
    BY DEF StorePrefixes, SeedTyped
  <1>3. drag.prefixes \in UNION {[S -> Prefix] : S \in SUBSET Bricks}
    BY <1>2 DEF Passes
  <1>4. \A b \in DOMAIN drag.prefixes : drag.prefixes[b] \in Prefix
    BY <1>3
  <1>5. ASSUME NEW b \in DOMAIN resume.entries
        PROVE  entries[b] \in Entry /\ InRange(entries[b], revision)
    <2>1. resume.entries[b] \in Entry /\ InRange(resume.entries[b], revision)
      BY SameAdvanced
    <2>2. CASE PassStores(b)
      <3>1. drag.prefixes[b] \in Prefix
        BY <1>4, <2>2 DEF PassStores
      <3>2. resume.entries[b].room \cup {"prefix"} \in SUBSET {"below", "prefix"}
        BY <2>1 DEF Entry
      <3>3. With(b) \in Entry
        BY <2>1, <3>1, <3>2 DEF Entry
      <3>4. With(b).rev = resume.entries[b].rev /\ With(b).dirty = resume.entries[b].dirty
        BY <2>1 DEF Entry
      <3>5. entries[b] = With(b)
        BY <2>2
      <3> HIDE DEF With, entries
      <3> QED
        BY <2>1, <3>3, <3>4, <3>5 DEF InRange
    <2>3. CASE ~PassStores(b)
      BY <2>1, <2>3
    <2> QED
      BY <2>2, <2>3
  <1>6. /\ entries \in [DOMAIN resume.entries -> Entry] /\ DOMAIN entries = DOMAIN resume.entries
        /\ \A b \in DOMAIN resume.entries :
              entries[b] = IF PassStores(b) THEN With(b) ELSE resume.entries[b]
    <2> HIDE DEF With
    <2>1. DOMAIN entries = DOMAIN resume.entries
      OBVIOUS
    <2>2. \A b \in DOMAIN resume.entries : entries[b] \in Entry
      BY <1>5
    <2> QED
      BY <2>1, <2>2
  <1> HIDE DEF entries, With
  <1>7. stored \in Stores(revision) /\ stored.entries = entries
    <2>1. resume \in [entries: Entries, order: Seq(Bricks)] /\ Ordered(resume.order, resume.entries)
      BY DEF SeedTyped, Stores
    <2>2. stored = [entries |-> stored.entries, order |-> stored.order] /\ stored.entries = entries
          /\ stored.order = resume.order
      BY <2>1
    <2>3. Ordered(resume.order, entries)
      BY <1>6, <2>1 DEF Ordered
    <2>4. DOMAIN resume.entries \in SUBSET Bricks
      BY SameAdvanced
    <2> HIDE DEF stored
    <2>5. \A b \in DOMAIN resume.entries : InRange(stored.entries[b], revision)
      BY <1>5, <2>2
    <2>6. stored \in Stores(revision)
      BY <1>6, <2>2, <2>3, <2>4, <2>5, StoreOf
    <2> QED
      BY <2>2, <2>6
  <1> HIDE DEF stored
  <1>8. CASE current
    <2>1. resume' = Evict(stored)
      BY <1>1, <1>8
    <2>2. /\ resume' \in Stores(revision) /\ Within(resume')
          /\ DOMAIN resume'.entries \subseteq DOMAIN stored.entries
          /\ \A b \in DOMAIN resume'.entries : resume'.entries[b] = stored.entries[b]
      BY <1>7, <2>1, EvictStored
    <2>3. \A b \in DOMAIN resume'.entries :
             \/ resume'.entries[b] = resume.entries[b]
             \/ PassStores(b) /\ resume'.entries[b] = With(b)
      BY <1>6, <1>7, <2>2
    <2> QED
      BY <1>6, <1>7, <1>8, <2>2, <2>3 DEF With
  <1>9. CASE ~current
    <2>1. resume' = resume
      BY <1>1, <1>9
    <2> QED
      BY <2>1 DEF SeedTyped
  <1> QED
    BY <1>8, <1>9

\* A pass leaves the kinds, the budget and the stamps.
LEMMA PassHolds ==
    ASSUME SeedHeld, StorePrefixes
    PROVE  SeedTyped' /\ Within(resume)' /\ SeedsAdvance
  <1>1. /\ resume' \in Stores(revision) /\ Within(resume')
        /\ DOMAIN resume'.entries \subseteq DOMAIN resume.entries
        /\ \A b \in DOMAIN resume'.entries :
              \/ resume'.entries[b] = resume.entries[b]
              \/ resume'.entries[b] =
                          [resume.entries[b] EXCEPT !.prefix = drag.prefixes[b],
                                                    !.room = @ \cup {"prefix"}]
    BY PassLeaves
  <1>2. ASSUME NEW b \in DOMAIN resume'.entries
        PROVE  Advanced(resume.entries[b], resume'.entries[b])
    <2> DEFINE e == resume.entries[b]
               f == resume'.entries[b]
    <2>1. e \in Entry /\ e.rev \in Nat
      BY <1>1, SameAdvanced DEF SeedHeld
    <2>2. f.rev = e.rev /\ f.dirty = e.dirty
      BY <1>1, <2>1 DEF Entry
    <2> HIDE DEF e, f
    <2>3. Advanced(e, f)
      BY <2>1, <2>2 DEF Advanced
    <2> QED
      BY <2>3 DEF e, f
  <1>3. SeedsAdvance
    BY <1>2 DEF SeedsAdvance
  <1>4. UNCHANGED <<doc, revision, structure, log, refills, prefixes>> /\ drag' = Idle
    BY DEF StorePrefixes
  <1>5. Idle \in Passes
    BY DEF Passes
  <1> QED
    BY <1>1, <1>3, <1>4, <1>5 DEF SeedTyped, SeedHeld

-----------------------------------------------------------------------------
(* The host's calls on its prefix cache.                                   *)

\* A host's call leaves the store alone.
LEMMA HostHolds ==
    ASSUME SeedHeld, NEW cache \in Caches, HostCalls(cache)
    PROVE  SeedTyped' /\ Within(resume)' /\ SeedsAdvance
  <1>1. UNCHANGED <<doc, revision, structure, log, resume, refills, drag>> /\ prefixes' = cache
    BY DEF HostCalls
  <1>2. Within(resume)' /\ SeedsAdvance
    BY <1>1, SameAdvanced DEF SeedsAdvance, Within, SeedHeld
  <1> QED
    BY <1>1, <1>2 DEF SeedTyped, SeedHeld

\* What they hand in is a cache.
LEMMA CallsTyped ==
    ASSUME SeedTyped
    PROVE  /\ \A l \in DOMAIN doc :
                 /\ PrefixBoundary(doc[l], KeepLive) > 0 =>
                       AfterBuild(prefixes, doc[l], PrefixBoundary(doc[l], KeepLive)) \in Caches
                 /\ AfterInvalidate(prefixes, doc[l].id) \in Caches
           /\ [prefixes EXCEPT !.entries = << >>] \in Caches
           /\ \A budget \in PrefixBudgets : PrefixEvict([prefixes EXCEPT !.budget = budget]) \in Caches
  <1>1. prefixes \in Caches
    BY DEF SeedTyped
  <1>2. ASSUME NEW l \in DOMAIN doc
        PROVE  AfterBuild(prefixes, doc[l], PrefixBoundary(doc[l], KeepLive)) \in Caches
    <2>1. doc[l] \in Layer
      BY SeedNumbers
    <2>2. doc[l].roots \in Seq(Item) /\ KeepLive \in Nat
      BY <2>1, BoundsAssumption DEF Layer
    <2>3. Len(doc[l].roots) \in Nat
      BY <2>2
    <2>4. PrefixBoundary(doc[l], KeepLive) \in 0..Len(doc[l].roots)
      BY <2>2, <2>3 DEF PrefixBoundary
    <2> QED
      BY <1>1, <2>1, <2>4, BuildTyped
  <1>3. ASSUME NEW l \in DOMAIN doc PROVE AfterInvalidate(prefixes, doc[l].id) \in Caches
    <2> DEFINE left == Only(prefixes.entries, {entry \in ToSet(prefixes.entries) : entry.layer # doc[l].id})
    <2>1. prefixes.entries \in Seq(Cached)
      BY <1>1 DEF Caches
    <2>2. left \in Seq(Cached)
      BY <2>1, OnlyLists
    <2>3. AfterInvalidate(prefixes, doc[l].id) = [prefixes EXCEPT !.entries = left]
      BY DEF AfterInvalidate
    <2> HIDE DEF left
    <2> QED
      BY <1>1, <2>2, <2>3, CacheOf
  <1>4. [prefixes EXCEPT !.entries = << >>] \in Caches
    <2>1. << >> \in Seq(Cached)
      OBVIOUS
    <2> QED
      BY <1>1, <2>1, CacheOf
  <1>5. ASSUME NEW budget \in PrefixBudgets
        PROVE  PrefixEvict([prefixes EXCEPT !.budget = budget]) \in Caches
    <2> DEFINE cache == [prefixes EXCEPT !.budget = budget]
    <2>1. budget \in Nat
      BY BoundsAssumption
    <2>2. cache \in Caches
      BY <1>1, <2>1 DEF Caches
    <2> HIDE DEF cache
    <2>3. PrefixEvict(cache) \in Caches
      BY <2>2, EvictTyped
    <2> QED
      BY <2>3 DEF cache
  <1> QED
    BY <1>2, <1>3, <1>4, <1>5

-----------------------------------------------------------------------------
(* The store through every step.                                           *)

\* A finite set of numbers has a greatest.
LEMMA GreatestNat ==
    ASSUME NEW S \in SUBSET Nat, IsFiniteSet(S), S # {}
    PROVE  Max(S) \in S
  <1> DEFINE P == {s \in SUBSET S : s = {} \/ \E m \in s : \A x \in s : m >= x}
  <1>1. {} \in P
    OBVIOUS
  <1>2. ASSUME NEW s \in SUBSET S, s # {}
        PROVE  \E c \in s : s \ {c} \in P => s \in P
    <2>1. PICK c \in s : TRUE
      BY <1>2
    <2>2. ASSUME s \ {c} \in P PROVE \E m \in s : \A x \in s : m >= x
      <3>1. CASE s \ {c} = {}
        <4>1. \A x \in s : x = c /\ c \in Nat
          BY <2>1, <3>1
        <4> QED
          BY <2>1, <4>1
      <3>2. CASE s \ {c} # {}
        <4>1. PICK m \in s \ {c} : \A x \in s \ {c} : m >= x
          BY <2>2, <3>2
        <4>2. c \in Nat /\ m \in Nat /\ \A x \in s : x \in Nat
          BY <2>1, <4>1
        <4>3. CASE m >= c
          BY <4>1, <4>2, <4>3
        <4>4. CASE ~(m >= c)
          <5>1. \A x \in s : c >= x
            BY <4>1, <4>2, <4>4
          <5> QED
            BY <2>1, <5>1
        <4> QED
          BY <4>3, <4>4
      <3> QED
        BY <3>1, <3>2
    <2> QED
      BY <2>1, <2>2
  <1>3. SUBSET S \subseteq P
    <2> HIDE DEF P
    <2> QED
      BY <1>1, <1>2, SubsetInduction
  <1>4. \E m \in S : \A x \in S : m >= x
    BY <1>3
  <1> QED
    BY <1>4 DEF Max

\* A document just opened has no seeds, and is as the kinds say.
LEMMA InitHolds == Init => SeedHeld
  <1> SUFFICES ASSUME Init PROVE SeedHeld
    OBVIOUS
  <1>1. Numbered(doc)
    BY DocumentsAssumption DEF Init, Numbered
  <1>2. log \in Log /\ ~log.valid /\ Len(log.nodes) = Len(log.reaches)
    BY DEF Init, EmptyLog, Log
  <1>3. 1 \in 1..MaxRevision /\ 1 \in 1..1 /\ 1 \in Nat
    BY BoundsAssumption
  <1>4. resume \in Stores(1) /\ Within(resume)
    BY NoSeedsStored DEF Init, Within
  <1>5. refills \in [Readers -> Refills]
    <2>1. Idle \in Refills
      BY DEF Refills
    <2> QED
      BY <2>1 DEF Init
  <1>6. drag \in Passes
    BY DEF Init, Passes
  <1>7. prefixes \in Caches
    <2>1. Max(PrefixBudgets) \in Nat
      BY BoundsAssumption, GreatestNat
    <2>2. << >> \in Seq(Cached) /\ NoWitness \in Nat
      BY DEF NoWitness
    <2> HIDE DEF Max
    <2> QED
      BY <2>1, <2>2 DEF Init, EmptyCache, Caches
  <1>8. revision = 1 /\ structure = 1
    BY DEF Init
  <1>9. LogIInv
    BY <1>1, <1>2, <1>3, <1>8 DEF LogIInv, LogTyped, LogFollows
  <1> QED
    BY <1>1, <1>2, <1>3, <1>4, <1>5, <1>6, <1>7, <1>8, <1>9 DEF SeedTyped, SeedHeld

\* Every step keeps the kinds and the budget, and moves no seed back.
LEMMA SeedStep ==
    ASSUME SeedHeld, [Next]_vars
    PROVE  SeedHeld' /\ SeedsAdvance
  <1>1. LogIInv'
    BY LogStep DEF SeedHeld
  <1>2. Edit => SeedTyped' /\ Within(resume)' /\ SeedsAdvance
    BY <1>1, EditHolds
  <1>3. Refill => SeedTyped' /\ Within(resume)' /\ SeedsAdvance
    BY BeginHolds, ResumedHolds, WalkHolds DEF Refill
  <1>4. HasActive(doc) /\ (\E warps \in SUBSET (0 .. Len(Active(doc).roots) - 1) : PrepareDrag(warps))
            => SeedTyped' /\ Within(resume)' /\ SeedsAdvance
    BY PrepareHolds
  <1>5. StorePrefixes => SeedTyped' /\ Within(resume)' /\ SeedsAdvance
    BY PassHolds
  <1>6. (\E l \in DOMAIN doc : BuildPrefix(l) \/ InvalidatePrefixes(l))
            => SeedTyped' /\ Within(resume)' /\ SeedsAdvance
    BY HostHolds, CallsTyped DEF BuildPrefix, InvalidatePrefixes, SeedHeld
  <1>7. ClearPrefixes \/ (\E budget \in PrefixBudgets : SetPrefixBudget(budget))
            => SeedTyped' /\ Within(resume)' /\ SeedsAdvance
    BY HostHolds, CallsTyped DEF ClearPrefixes, SetPrefixBudget, SeedHeld
  <1>8. UNCHANGED vars => SeedTyped' /\ Within(resume)' /\ SeedsAdvance
    BY SameAdvanced DEF vars, SeedsAdvance, SeedTyped, SeedHeld, Within
  <1>9. SeedTyped' /\ Within(resume)' /\ SeedsAdvance
    BY <1>2, <1>3, <1>4, <1>5, <1>6, <1>7, <1>8 DEF Next
  <1> QED
    BY <1>1, <1>9 DEF SeedHeld

(***************************************************************************)
(* The order and the store agree at every step: one slot for each entry,   *)
(* stamps no later than the document, frontiers within the layer's bound,  *)
(* one reach for each logged append (resume_order_, resume_, append_log_). *)
(***************************************************************************)
THEOREM StoreIsWhole == Spec => []TypeOK
  <1>1. SeedHeld => TypeOK
    <2> SUFFICES ASSUME SeedHeld PROVE TypeOK
      OBVIOUS
    <2>1. Ordered(resume.order, resume.entries)
      BY DEF SeedHeld, SeedTyped, Stores
    <2>2. \A b \in DOMAIN resume.entries : InRange(resume.entries[b], revision)
      BY DEF SeedHeld, SeedTyped, Stores
    <2> QED
      BY <2>1, <2>2 DEF SeedHeld, SeedTyped, TypeOK, Ordered, InRange
  <1>2. SeedHeld /\ [Next]_vars => SeedHeld'
    BY SeedStep
  <1> QED
    BY <1>1, <1>2, InitHolds, PTL DEF Spec

(***************************************************************************)
(* The store never outgrows its budget but for one last entry, though the  *)
(* resumed path stores without evicting (evict_locked, store_active).      *)
(***************************************************************************)
THEOREM StoreKeepsItsBudget == Spec => []WithinBudget
  <1>1. SeedHeld => WithinBudget
    <2> SUFFICES ASSUME SeedHeld PROVE WithinBudget
      OBVIOUS
    <2>1. Ordered(resume.order, resume.entries)
      BY DEF SeedHeld, SeedTyped, Stores
    <2>2. Len(resume.order) <= 1 <=> \A x, y \in DOMAIN resume.entries : x = y
      BY <2>1, OneListed DEF Ordered
    <2> QED
      BY <2>2 DEF SeedHeld, Within, WithinBudget
  <1>2. SeedHeld /\ [Next]_vars => SeedHeld'
    BY SeedStep
  <1> QED
    BY <1>1, <1>2, InitHolds, PTL DEF Spec

(***************************************************************************)
(* No step moves a seed's stamp back, and what an edit made dirty is clean *)
(* again only at the revision of the document, whoever was between the     *)
(* walk and the store (resume_bricks, store_active, touch_region_locked).  *)
(***************************************************************************)
THEOREM SeedsOnlyMoveOn == Spec => SeedsOnlyAdvance
  <1>1. SeedHeld /\ [Next]_vars => SeedHeld'
    BY SeedStep
  <1>2. SeedHeld /\ [Next]_vars =>
           [\A b \in DOMAIN resume.entries \cap DOMAIN resume'.entries :
              LET e == resume.entries[b]
                  f == resume'.entries[b]
              IN  /\ f.rev >= e.rev
                  /\ e.dirty # Clean /\ f.dirty = Clean => f.rev = revision]_vars
    BY SeedStep DEF SeedsAdvance, Advanced
  <1> QED
    BY <1>1, <1>2, InitHolds, PTL DEF Spec, SeedsOnlyAdvance

-----------------------------------------------------------------------------
(* The prefixes a drag keeps.                                              *)

\* A prefix that says it is of the present structure is the value of the
\* active layer's first roots.
TruePrefix(p, b) ==
    p.structure = structure =>
        /\ HasActive(doc)
        /\ p.boundary \in 0..Len(Active(doc).roots)
        /\ p.chain = Chain(SubSeq(Active(doc).roots, 1, p.boundary), b)

\* So is every prefix beside an entry, and none is of a structure to come.
PrefixesHold ==
    \A b \in DOMAIN resume.entries :
        /\ resume.entries[b].prefix.structure <= structure
        /\ TruePrefix(resume.entries[b].prefix, b)

\* A pass that the document has not overtaken carries such prefixes.
PassIsOfNow ==
    drag # Idle =>
        /\ drag.now <= revision
        /\ drag.now = revision =>
              \A b \in DOMAIN drag.prefixes :
                  /\ drag.prefixes[b].structure = structure
                  /\ TruePrefix(drag.prefixes[b], b)

PrefixIInv == SeedHeld /\ PrefixesHold /\ PassIsOfNow

\* An edit that keeps the structure sets one item or one layer's composition.
LEMMA KeepsStructure ==
    ASSUME SeedTyped, Edit, structure' = structure
    PROVE  \E l \in DOMAIN doc :
              \/ SetComposition(l)
              \/ \E k \in DOMAIN doc[l].roots, at \in Reaches : SetItem(l, k, at)
  <1>1. structure # structure + 1
    BY SeedNumbers
  <1> QED
    BY <1>1 DEF Edit, AppendItem, InsertItem, RemoveItem, Touch, SetVisible, AddLayer,
                TouchAppended, TouchRegionStructural

\* Where the same layers are seen, the same one is on top.
LEMMA SameTop ==
    ASSUME NEW d \in Seq(Layer), NEW e \in Seq(Layer), Len(d) = Len(e),
           \A k \in 1..Len(d) : d[k].visible = e[k].visible, NEW l, TopOf(d, l)
    PROVE  TopOf(e, l)
  <1>1. Len(d) \in Nat /\ l \in 1..Len(d)
    BY DEF TopOf
  <1>2. \A k \in l + 1..Len(d) : k \in 1..Len(d)
    BY <1>1
  <1> QED
    BY <1>1, <1>2 DEF TopOf

\* What SetItem makes of the document.
LEMMA OneRootSet ==
    ASSUME SeedTyped, NEW l \in DOMAIN doc, NEW k \in DOMAIN doc[l].roots, NEW at \in Reaches,
           SetItem(l, k, at)
    PROVE  /\ doc' \in Seq(Layer) /\ Len(doc') = Len(doc)
           /\ \A m \in 1..Len(doc) : doc'[m].visible = doc[m].visible
           /\ \A m \in 1..Len(doc) : m # l => doc'[m] = doc[m]
           /\ Len(doc'[l].roots) = Len(doc[l].roots)
           /\ \A j \in 1..Len(doc[l].roots) : j # k => doc'[l].roots[j] = doc[l].roots[j]
           /\ doc'[l].roots[k].at = at
  <1> DEFINE item == [doc[l].roots[k] EXCEPT !.shape = Fresh, !.at = at]
             roots == [doc[l].roots EXCEPT ![k] = item]
             layer == [doc[l] EXCEPT !.roots = roots]
  <1>1. Numbered(doc') /\ Numbered(doc)
    BY EditsKeepNumbered, SeedNumbers DEF SeedTyped
  <1>2. doc[l] \in Layer /\ doc \in Seq(Layer) /\ DOMAIN doc = 1..Len(doc) /\ Len(doc) \in Nat
    BY SeedNumbers
  <1>3. doc[l].roots \in Seq(Item) /\ doc[l].roots[k] \in Item
    BY <1>2 DEF Layer
  <1>4. doc' = [doc EXCEPT ![l] = layer]
    BY <1>2, <1>3 DEF SetItem
  <1>5. item.at = at
    BY <1>3 DEF Item
  <1> HIDE DEF item
  <1>6. /\ Len(roots) = Len(doc[l].roots) /\ roots[k] = item
        /\ \A j \in 1..Len(doc[l].roots) : j # k => roots[j] = doc[l].roots[j]
    BY <1>3
  <1> HIDE DEF roots
  <1>7. layer.roots = roots /\ layer.visible = doc[l].visible
    BY <1>2 DEF Layer
  <1> HIDE DEF layer
  <1>8. /\ doc'[l] = layer /\ Len(doc') = Len(doc)
        /\ \A m \in 1..Len(doc) : m # l => doc'[m] = doc[m]
    BY <1>2, <1>4
  <1> QED
    BY <1>1, <1>5, <1>6, <1>7, <1>8 DEF Numbered

\* Two lists of roots that differ at k at most.
ApartAt(roots, other, k) ==
    /\ Len(other) = Len(roots) /\ k \in 1..Len(roots)
    /\ \A j \in 1..Len(roots) : j # k => other[j] = roots[j]

\* The first n roots leave one chain when none of them is the one set, or
\* the brick was not reached by it and is not.
LEMMA FirstRootsKept ==
    ASSUME NEW roots \in Seq(Item), NEW other \in Seq(Item), NEW k, ApartAt(roots, other, k),
           NEW n \in 0..Len(roots), NEW b,
           n < k \/ (b \notin roots[k].at /\ b \notin other[k].at)
    PROVE  Chain(SubSeq(other, 1, n), b) = Chain(SubSeq(roots, 1, n), b)
  <1> DEFINE first == SubSeq(roots, 1, n)
             now == SubSeq(other, 1, n)
  <1>0. /\ Len(other) = Len(roots) /\ k \in 1..Len(roots)
        /\ \A j \in 1..Len(roots) : j # k => other[j] = roots[j]
    BY DEF ApartAt
  <1>1. /\ first \in Seq(Item) /\ Len(first) = n /\ \A j \in 1..n : first[j] = roots[j]
        /\ now \in Seq(Item) /\ Len(now) = n /\ \A j \in 1..n : now[j] = other[j]
        /\ n \in Nat /\ \A j \in 1..n : j \in 1..Len(roots)
        /\ n < k => \A j \in 1..n : j # k
    BY <1>0
  <1> HIDE DEF first, now
  <1>2. SameAt(first, now, b)
    <2> SUFFICES ASSUME NEW j \in 1..n
                 PROVE  \/ first[j] = now[j]
                        \/ b \notin first[j].at /\ b \notin now[j].at
      BY <1>1 DEF SameAt
    <2>1. CASE j = k
      BY <1>0, <1>1, <2>1
    <2>2. CASE j # k
      BY <1>0, <1>1, <2>2
    <2> QED
      BY <2>1, <2>2
  <1>3. Chain(first, b) = Chain(now, b)
    BY <1>1, <1>2, ChainSame
  <1> QED
    BY <1>3 DEF first, now

\* An item set leaves the prefixes that end before it, and those of the
\* bricks it reaches neither before nor after.
LEMMA ItemSetKeeps ==
    ASSUME SeedTyped, NEW l \in DOMAIN doc, NEW k \in DOMAIN doc[l].roots, NEW at \in Reaches,
           SetItem(l, k, at), PrefixesHold, NEW b \in DOMAIN resume'.entries
    PROVE  /\ b \in DOMAIN resume.entries
           /\ resume'.entries[b].prefix = resume.entries[b].prefix
           /\ TruePrefix(resume.entries[b].prefix, b)'
  <1> DEFINE p == resume.entries[b].prefix
             reach == doc[l].roots[k].at \cup at
             onActive == HasActive(doc) /\ Active(doc).id = doc[l].id
             frontier == IF onActive THEN k - 1 ELSE NoFrontier
  <1>0. /\ doc \in Seq(Layer) /\ DOMAIN doc = 1..Len(doc) /\ doc[l] \in Layer
        /\ doc[l].roots \in Seq(Item) /\ k \in 1..Len(doc[l].roots) /\ k \in Nat
    <2>1. doc \in Seq(Layer) /\ DOMAIN doc = 1..Len(doc) /\ doc[l] \in Layer
      BY SeedNumbers
    <2>2. doc[l].roots \in Seq(Item)
      BY <2>1 DEF Layer
    <2> QED
      BY <2>1, <2>2
  <1>1. frontier \in Nat
    BY <1>0, Numbers
  <1>2. resume' = TouchRegion(reach, frontier, structure) /\ structure' = structure
    BY DEF SetItem, TouchRegionFrom
  <1> HIDE DEF reach, frontier
  <1>3. /\ b \in DOMAIN resume.entries
        /\ b \in reach => Keepable(resume.entries[b], frontier, structure)
        /\ resume'.entries[b].prefix = p
    <2>1. RegionLeaves(resume', reach, frontier, structure)
      BY <1>1, <1>2, RegionTouched
    <2> QED
      BY <2>1 DEF RegionLeaves
  <1>4. /\ doc' \in Seq(Layer) /\ Len(doc') = Len(doc)
        /\ \A m \in 1..Len(doc) : doc'[m].visible = doc[m].visible
        /\ \A m \in 1..Len(doc) : m # l => doc'[m] = doc[m]
        /\ Len(doc'[l].roots) = Len(doc[l].roots)
        /\ \A j \in 1..Len(doc[l].roots) : j # k => doc'[l].roots[j] = doc[l].roots[j]
        /\ doc'[l].roots[k].at = at
    BY OneRootSet
  <1>5. ASSUME p.structure = structure
        PROVE  /\ HasActive(doc')
               /\ p.boundary \in 0..Len(Active(doc').roots)
               /\ p.chain = Chain(SubSeq(Active(doc').roots, 1, p.boundary), b)
    <2>1. /\ HasActive(doc) /\ p.boundary \in 0..Len(Active(doc).roots)
          /\ p.chain = Chain(SubSeq(Active(doc).roots, 1, p.boundary), b)
      BY <1>3, <1>5 DEF PrefixesHold, TruePrefix
    <2>2. PICK t : TopOf(doc, t)
      BY <1>0, <2>1, TopExists
    <2>3. TopOf(doc', t)
      BY <1>0, <1>4, <2>2, SameTop
    <2>4. /\ Active(doc) = doc[t] /\ t \in 1..Len(doc)
          /\ HasActive(doc') /\ Active(doc') = doc'[t] /\ doc'[t] \in Layer
      BY <1>0, <1>4, <2>2, <2>3, ActiveIsTop DEF TopOf
    <2>5. CASE t # l
      BY <1>4, <2>1, <2>4, <2>5
    <2>6. CASE t = l
      <3>1. doc'[l].roots \in Seq(Item)
        BY <2>4, <2>6 DEF Layer
      <3>2. frontier = k - 1
        BY <2>1, <2>4, <2>6 DEF frontier
      <3>3. p.boundary < k \/ (b \notin doc[l].roots[k].at /\ b \notin doc'[l].roots[k].at)
        <4>1. CASE b \in reach
          <5>1. p.boundary <= k - 1
            BY <1>3, <3>2, <4>1 DEF Keepable
          <5>2. p.boundary \in Nat
            BY <2>1, <2>4, <2>6
          <5> HIDE DEF p
          <5>3. p.boundary < k
            BY <1>0, <5>1, <5>2
          <5> QED
            BY <5>3
        <4>2. CASE b \notin reach
          BY <1>4, <4>2 DEF reach
        <4> QED
          BY <4>1, <4>2
      <3>4. p.boundary \in 0..Len(doc[l].roots)
        BY <2>1, <2>4, <2>6
      <3> DEFINE roots == doc[l].roots
                 other == doc'[l].roots
                 n == p.boundary
      <3>5. /\ roots \in Seq(Item) /\ other \in Seq(Item) /\ ApartAt(roots, other, k)
            /\ n \in 0..Len(roots)
            /\ n < k \/ (b \notin roots[k].at /\ b \notin other[k].at)
        BY <1>0, <1>4, <3>1, <3>3, <3>4 DEF ApartAt
      <3> HIDE DEF roots, other, n
      <3>6. Chain(SubSeq(other, 1, n), b) = Chain(SubSeq(roots, 1, n), b)
        BY <3>5, FirstRootsKept
      <3> QED
        BY <1>4, <2>1, <2>4, <2>6, <3>4, <3>6 DEF roots, other, n
    <2> QED
      BY <2>5, <2>6
  <1> QED
    BY <1>2, <1>3, <1>5 DEF TruePrefix

-----------------------------------------------------------------------------
\* What an edit leaves in the store has the prefixes it had.
LEMMA TouchKeepsPrefixes ==
    ASSUME SeedTyped, NEW reach, NEW frontier \in Nat, NEW newStructure,
           resume' = TouchRegion(reach, frontier, newStructure)
    PROVE  /\ DOMAIN resume'.entries \subseteq DOMAIN resume.entries
           /\ \A b \in DOMAIN resume'.entries : resume.entries[b].prefix = resume'.entries[b].prefix
  <1>1. RegionLeaves(resume', reach, frontier, newStructure)
    BY RegionTouched
  <1> QED
    BY <1>1 DEF RegionLeaves

\* A layer's composition is no part of a root's value.
LEMMA CompositionKeeps ==
    ASSUME SeedTyped, NEW l \in DOMAIN doc, SetComposition(l), PrefixesHold,
           NEW b \in DOMAIN resume'.entries
    PROVE  /\ b \in DOMAIN resume.entries
           /\ resume'.entries[b].prefix = resume.entries[b].prefix
           /\ TruePrefix(resume.entries[b].prefix, b)'
  <1> DEFINE p == resume.entries[b].prefix
             reach == Influence(doc[l].roots)
  <1>1. /\ doc \in Seq(Layer) /\ DOMAIN doc = 1..Len(doc) /\ doc[l] \in Layer /\ Len(doc) \in Nat
        /\ NoFrontier \in Nat
    BY SeedNumbers, Numbers
  <1>2. resume' = TouchRegion(reach, NoFrontier, structure) /\ structure' = structure
    BY DEF SetComposition, TouchRegionFrom
  <1>3. b \in DOMAIN resume.entries /\ resume'.entries[b].prefix = p
    <2> HIDE DEF p, reach
    <2>1. /\ DOMAIN resume'.entries \subseteq DOMAIN resume.entries
          /\ \A x \in DOMAIN resume'.entries : resume.entries[x].prefix = resume'.entries[x].prefix
      BY <1>1, <1>2, TouchKeepsPrefixes
    <2> QED
      BY <1>1, <1>2, <2>1 DEF p
  <1> DEFINE layer == [doc[l] EXCEPT !.hard = ~@]
  <1>4. doc' = [doc EXCEPT ![l] = layer]
    BY <1>1 DEF SetComposition
  <1>5. layer \in Layer /\ layer.roots = doc[l].roots /\ layer.visible = doc[l].visible
    BY <1>1 DEF Layer
  <1> HIDE DEF layer
  <1>6. /\ doc' \in Seq(Layer) /\ Len(doc') = Len(doc)
        /\ doc'[l] = layer /\ \A m \in 1..Len(doc) : m # l => doc'[m] = doc[m]
    BY <1>1, <1>4, <1>5
  <1>7. \A m \in 1..Len(doc) : doc'[m].visible = doc[m].visible /\ doc'[m].roots = doc[m].roots
    BY <1>5, <1>6
  <1>8. ASSUME p.structure = structure
        PROVE  /\ HasActive(doc')
               /\ p.boundary \in 0..Len(Active(doc').roots)
               /\ p.chain = Chain(SubSeq(Active(doc').roots, 1, p.boundary), b)
    <2>1. /\ HasActive(doc) /\ p.boundary \in 0..Len(Active(doc).roots)
          /\ p.chain = Chain(SubSeq(Active(doc).roots, 1, p.boundary), b)
      BY <1>3, <1>8 DEF PrefixesHold, TruePrefix
    <2>2. PICK t : TopOf(doc, t)
      BY <1>1, <2>1, TopExists
    <2>3. TopOf(doc', t)
      BY <1>1, <1>6, <1>7, <2>2, SameTop
    <2>4. Active(doc) = doc[t] /\ t \in 1..Len(doc) /\ HasActive(doc') /\ Active(doc') = doc'[t]
      BY <1>1, <1>6, <2>2, <2>3, ActiveIsTop DEF TopOf
    <2> QED
      BY <1>7, <2>1, <2>4
  <1> QED
    BY <1>2, <1>3, <1>8 DEF TruePrefix

\* An edit keeps the prefixes true: it moves the structure past them, or
\* leaves the ones that it does not reach, or that end before it.
LEMMA EditKeepsPrefixes ==
    ASSUME PrefixIInv, Edit
    PROVE  PrefixesHold' /\ PassIsOfNow'
  <1>1. SeedTyped /\ PrefixesHold /\ PassIsOfNow
    BY DEF PrefixIInv, SeedHeld
  <1>2. EditMoves
    BY <1>1, EditsMove
  <1>3. structure \in Nat /\ revision \in Nat
    BY <1>1, SeedNumbers
  <1>4. PassIsOfNow'
    <2>1. drag # Idle => drag.now <= revision /\ drag.now \in Nat
      BY <1>1 DEF PassIsOfNow, SeedTyped, Passes
    <2>2. drag' = drag /\ revision' = revision + 1
      BY <1>2 DEF EditMoves
    <2>3. drag # Idle => drag.now <= revision + 1 /\ drag.now # revision + 1
      BY <1>3, <2>1
    <2> QED
      BY <2>2, <2>3 DEF PassIsOfNow
  <1>5. CASE structure' = structure
    <2>1. PICK l \in DOMAIN doc :
             \/ SetComposition(l)
             \/ \E k \in DOMAIN doc[l].roots, at \in Reaches : SetItem(l, k, at)
      BY <1>1, <1>5, KeepsStructure
    <2>2. \A b \in DOMAIN resume'.entries :
             /\ b \in DOMAIN resume.entries
             /\ resume'.entries[b].prefix = resume.entries[b].prefix
             /\ TruePrefix(resume.entries[b].prefix, b)'
      BY <1>1, <2>1, CompositionKeeps, ItemSetKeeps
    <2> QED
      BY <1>1, <1>4, <1>5, <2>2 DEF PrefixesHold, TruePrefix
  <1>6. CASE structure' = structure + 1
    <2>1. \A b \in DOMAIN resume'.entries :
             b \in DOMAIN resume.entries /\ resume'.entries[b].prefix = resume.entries[b].prefix
      <3>1. CASE resume' = resume
        BY <3>1
      <3>2. CASE resume' = NoSeeds
        BY <3>2, NoSeedsStored
      <3>3. ASSUME NEW reach, NEW frontier \in Nat, resume' = TouchRegion(reach, frontier, structure')
            PROVE  \A b \in DOMAIN resume'.entries :
                      b \in DOMAIN resume.entries /\ resume'.entries[b].prefix = resume.entries[b].prefix
        <4>1. /\ DOMAIN resume'.entries \subseteq DOMAIN resume.entries
              /\ \A x \in DOMAIN resume'.entries :
                    resume.entries[x].prefix = resume'.entries[x].prefix
          BY <1>1, <3>3, TouchKeepsPrefixes
        <4> QED
          BY <4>1
      <3> QED
        BY <1>2, <3>1, <3>2, <3>3 DEF EditMoves
    <2>2. ASSUME NEW b \in DOMAIN resume.entries
          PROVE  /\ resume.entries[b].prefix.structure <= structure + 1
                 /\ resume.entries[b].prefix.structure # structure + 1
      <3> DEFINE n == resume.entries[b].prefix.structure
      <3>1. resume.entries[b] \in Entry
        BY <1>1, SameAdvanced
      <3>2. n \in Nat /\ n <= structure
        BY <1>1, <3>1 DEF Entry, Prefix, PrefixesHold
      <3> HIDE DEF n
      <3>3. n <= structure + 1 /\ n # structure + 1
        BY <1>3, <3>2
      <3> QED
        BY <3>3 DEF n
    <2> QED
      BY <1>4, <1>6, <2>1, <2>2 DEF PrefixesHold, TruePrefix
  <1> QED
    BY <1>2, <1>5, <1>6 DEF EditMoves

\* A refill stores values beside the prefixes there are, and walks drop them.
LEMMA RefillKeepsPrefixes ==
    ASSUME PrefixIInv, Refill
    PROVE  PrefixesHold' /\ PassIsOfNow'
  <1>1. SeedTyped /\ PrefixesHold /\ PassIsOfNow /\ SeedHeld /\ Within(resume)
    BY DEF PrefixIInv, SeedHeld
  <1>2. UNCHANGED <<doc, revision, structure, drag>>
    BY DEF Refill, BeginRefill, StoreResumed, WalkMissing
  <1>3. PassIsOfNow'
    BY <1>1, <1>2 DEF PassIsOfNow, TruePrefix
  <1> DEFINE Kept == \A b \in DOMAIN resume'.entries :
                        \/ resume'.entries[b].prefix = NoPrefix
                        \/ /\ b \in DOMAIN resume.entries
                           /\ resume'.entries[b].prefix = resume.entries[b].prefix
  <1>4. ASSUME NEW r \in Readers, NEW batch \in Batches, BeginRefill(r, batch) PROVE Kept
    <2>1. batch \in Seq(Bricks)
      BY BoundsAssumption
    <2>2. resume'.entries = resume.entries
      BY <1>1, <1>4, <2>1, LruStored DEF BeginRefill
    <2> QED
      BY <2>2
  <1>5. ASSUME NEW r \in Readers, StoreResumed(r) PROVE Kept
    <2> DEFINE f == refills[r]
    <2>1. f \in Refills /\ f.phase = "walked" /\ resume' = AfterTasks(f)
      BY <1>1, <1>5 DEF StoreResumed, SeedTyped
    <2> HIDE DEF f
    <2>2. resume' \in AnsweredFrom(resume, f.tasks)
      BY <1>1, <2>1, TasksAnswer
    <2>3. /\ DOMAIN resume'.entries = DOMAIN resume.entries
          /\ \A b \in DOMAIN resume.entries :
                \/ resume'.entries[b] = resume.entries[b]
                \/ resume'.entries[b] = Answered(resume.entries[b], f.tasks[b])
      BY <2>2 DEF AnsweredFrom
    <2>4. ASSUME NEW b \in DOMAIN resume.entries, NEW chain
          PROVE  Answered(resume.entries[b], chain).prefix = resume.entries[b].prefix
      <3>1. resume.entries[b] \in Entry
        BY <1>1, SameAdvanced
      <3> QED
        BY <3>1 DEF Answered, Entry
    <2> QED
      BY <2>3, <2>4
  <1>6. ASSUME NEW r \in Readers, WalkMissing(r) PROVE Kept
    <2> DEFINE f == refills[r]
    <2>1. f \in Refills /\ f.phase = "missing"
      BY <1>1, <1>6 DEF WalkMissing, SeedTyped
    <2>2. f.batch \in Seq(Bricks)
      BY <2>1 DEF Refills, Idle
    <2>3. resume' = IF JoinIsHardUnion(doc) THEN WalksStored(f.batch) ELSE resume
      BY <1>6 DEF WalkMissing, WalksStored, StoreWalk, FoldLeft, MapThenFoldSet
    <2> HIDE DEF f
    <2>4. resume' \in WalkedFrom(resume) \/ resume' = resume
      BY <1>1, <2>2, <2>3, WalksStay
    <2>5. \A b \in DOMAIN resume'.entries :
              \/ b \in DOMAIN resume.entries /\ resume'.entries[b] = resume.entries[b]
              \/ Walked(resume'.entries[b], b)
      BY <2>4 DEF WalkedFrom
    <2> QED
      BY <2>5 DEF Walked
  <1>7. Kept
    BY <1>4, <1>5, <1>6 DEF Refill
  <1>8. NoPrefix.structure = 0 /\ structure \in Nat /\ structure >= 1
    BY <1>1, SeedNumbers DEF NoPrefix
  <1>9. ASSUME NEW b \in DOMAIN resume'.entries
        PROVE  /\ resume'.entries[b].prefix.structure <= structure
               /\ TruePrefix(resume'.entries[b].prefix, b)
    <2>1. CASE resume'.entries[b].prefix = NoPrefix
      BY <1>8, <2>1 DEF TruePrefix
    <2>2. CASE /\ b \in DOMAIN resume.entries
               /\ resume'.entries[b].prefix = resume.entries[b].prefix
      BY <1>1, <2>2 DEF PrefixesHold
    <2> QED
      BY <1>7, <2>1, <2>2
  <1> QED
    BY <1>2, <1>3, <1>9 DEF PrefixesHold, TruePrefix

\* The pass takes the prefixes of the document it looks at.
LEMMA PrepareKeepsPrefixes ==
    ASSUME PrefixIInv, HasActive(doc),
           NEW warps \in SUBSET (0 .. Len(Active(doc).roots) - 1), PrepareDrag(warps)
    PROVE  PrefixesHold' /\ PassIsOfNow'
  <1>1. SeedTyped /\ PrefixesHold
    BY DEF PrefixIInv, SeedHeld
  <1> DEFINE jobs == {b \in DOMAIN resume.entries : NeedsPrefix(b, Boundary(warps, b))}
             At(b) == [boundary |-> Boundary(warps, b), structure |-> structure,
                       chain |-> Chain(SubSeq(Active(doc).roots, 1, Boundary(warps, b)), b)]
             made == [b \in jobs |-> At(b)]
  <1>2. drag' = [phase |-> "prepared", now |-> revision, structure |-> structure, prefixes |-> made]
    BY DEF PrepareDrag
  <1>3. UNCHANGED <<doc, revision, structure, resume>>
    BY DEF PrepareDrag
  <1>4. ASSUME NEW b \in jobs PROVE made[b].structure = structure /\ TruePrefix(made[b], b)
    <2> DEFINE n == Boundary(warps, b)
    <2>1. n \in 1..Len(Active(doc).roots) - 1
      BY <1>1, BoundaryTyped DEF NeedsPrefix
    <2>2. Len(Active(doc).roots) \in Nat
      BY <1>1, ActiveTyped
    <2>3. n \in 0..Len(Active(doc).roots)
      <3> HIDE DEF n
      <3> QED
        BY <2>1, <2>2
    <2>4. made[b] = At(b)
      BY DEF made
    <2> QED
      BY <2>3, <2>4 DEF TruePrefix
  <1>5. DOMAIN made = jobs
    OBVIOUS
  <1> HIDE DEF made, jobs
  <1>6. drag'.now = revision /\ drag'.prefixes = made /\ revision <= revision
    BY <1>1, <1>2, SeedNumbers
  <1>7. PassIsOfNow'
    BY <1>3, <1>4, <1>5, <1>6 DEF PassIsOfNow, TruePrefix
  <1> QED
    BY <1>1, <1>3, <1>7 DEF PrefixesHold, TruePrefix

\* What it stores, when the document has not moved, is what it took.
LEMMA PassKeepsPrefixes ==
    ASSUME PrefixIInv, StorePrefixes
    PROVE  PrefixesHold' /\ PassIsOfNow'
  <1>1. SeedTyped /\ PrefixesHold /\ PassIsOfNow /\ SeedHeld
    BY DEF PrefixIInv, SeedHeld
  <1>2. UNCHANGED <<doc, revision, structure>> /\ drag' = Idle /\ drag # Idle
    BY DEF StorePrefixes
  <1>3. /\ DOMAIN resume'.entries \subseteq DOMAIN resume.entries
        /\ \A b \in DOMAIN resume'.entries :
              \/ resume'.entries[b] = resume.entries[b]
              \/ /\ revision = drag.now /\ structure = drag.structure /\ PassStores(b)
                 /\ resume'.entries[b] =
                       [resume.entries[b] EXCEPT !.prefix = drag.prefixes[b],
                                                 !.room = @ \cup {"prefix"}]
    BY <1>1, PassLeaves
  <1>4. ASSUME NEW b \in DOMAIN resume'.entries
        PROVE  /\ resume'.entries[b].prefix.structure <= structure
               /\ TruePrefix(resume'.entries[b].prefix, b)
    <2>1. resume.entries[b] \in Entry
      BY <1>1, <1>3, SameAdvanced
    <2>2. CASE resume'.entries[b] = resume.entries[b]
      BY <1>1, <1>3, <2>2 DEF PrefixesHold
    <2>3. CASE /\ revision = drag.now /\ PassStores(b)
               /\ resume'.entries[b] =
                       [resume.entries[b] EXCEPT !.prefix = drag.prefixes[b],
                                                 !.room = @ \cup {"prefix"}]
      <3>1. resume'.entries[b].prefix = drag.prefixes[b]
        BY <2>1, <2>3 DEF Entry
      <3>2. drag.prefixes[b].structure = structure /\ TruePrefix(drag.prefixes[b], b)
        BY <1>1, <1>2, <2>3 DEF PassIsOfNow, PassStores
      <3>3. structure <= structure
        BY <1>1, SeedNumbers
      <3> QED
        BY <3>1, <3>2, <3>3
    <2> QED
      BY <1>3, <2>2, <2>3
  <1> QED
    BY <1>2, <1>4 DEF PrefixesHold, PassIsOfNow, TruePrefix

\* Every step keeps the prefixes true.
LEMMA PrefixStep ==
    ASSUME PrefixIInv, [Next]_vars
    PROVE  PrefixIInv'
  <1>1. SeedHeld'
    BY SeedStep DEF PrefixIInv
  <1>2. Edit => PrefixesHold' /\ PassIsOfNow'
    BY EditKeepsPrefixes
  <1>3. Refill => PrefixesHold' /\ PassIsOfNow'
    BY RefillKeepsPrefixes
  <1>4. HasActive(doc) /\ (\E warps \in SUBSET (0 .. Len(Active(doc).roots) - 1) : PrepareDrag(warps))
            => PrefixesHold' /\ PassIsOfNow'
    BY PrepareKeepsPrefixes
  <1>5. StorePrefixes => PrefixesHold' /\ PassIsOfNow'
    BY PassKeepsPrefixes
  <1>6. UNCHANGED <<doc, revision, structure, resume, drag>> => PrefixesHold' /\ PassIsOfNow'
    BY DEF PrefixIInv, PrefixesHold, PassIsOfNow, TruePrefix
  <1>7. (\A cache : HostCalls(cache) => UNCHANGED <<doc, revision, structure, resume, drag>>)
            /\ (UNCHANGED vars => UNCHANGED <<doc, revision, structure, resume, drag>>)
    BY DEF HostCalls, vars
  <1>8. (\E l \in DOMAIN doc : BuildPrefix(l) \/ InvalidatePrefixes(l))
            => UNCHANGED <<doc, revision, structure, resume, drag>>
    BY <1>7 DEF BuildPrefix, InvalidatePrefixes
  <1>9. ClearPrefixes \/ (\E budget \in PrefixBudgets : SetPrefixBudget(budget))
            => UNCHANGED <<doc, revision, structure, resume, drag>>
    BY <1>7 DEF ClearPrefixes, SetPrefixBudget
  <1>10. PrefixesHold' /\ PassIsOfNow'
    BY <1>2, <1>3, <1>4, <1>5, <1>6, <1>7, <1>8, <1>9 DEF Next
  <1> QED
    BY <1>1, <1>10 DEF PrefixIInv

(***************************************************************************)
(* A drag folds onto the value of the very roots it leaves alone: while a  *)
(* kept prefix names the present structure it is the chain of the active   *)
(* layer's first roots, through every parameter edit at or above its end,  *)
(* every change of composition, and however long the pass that evaluated   *)
(* it waited before storing (frontier_prepare, frontier_store,             *)
(* touch_region_locked).                                                   *)
(***************************************************************************)
THEOREM PrefixesStayTrue == Spec => []PrefixIsOfTheRoots
  <1>1. Init => PrefixIInv
    BY InitHolds, NoSeedsStored DEF Init, PrefixIInv, PrefixesHold, PassIsOfNow
  <1>2. PrefixIInv /\ [Next]_vars => PrefixIInv'
    BY PrefixStep
  <1>3. PrefixIInv => PrefixIsOfTheRoots
    BY DEF PrefixIInv, PrefixesHold, TruePrefix, PrefixIsOfTheRoots
  <1> QED
    BY <1>1, <1>2, <1>3, PTL DEF Spec

-----------------------------------------------------------------------------
(***************************************************************************)
(* A brick answered from the seed store has its field's value.             *)
(*                                                                         *)
(* The argument: an entry that can still be brought forward is owned, at   *)
(* its stamp, by a layer of the document as it was then, which is the      *)
(* present document without the appends the log has since (SeedRight).     *)
(* The owner's chain is the active half, what lies beneath it the other    *)
(* half, and nothing above it reaches the brick.  A suffix folded on       *)
(* brings the owner's chain to the present; a prefix needs only the half   *)
(* beneath (Under).  An edit that cannot reach a brick leaves the document *)
(* lit alike there, so the owner goes on owning (OwnsAlike): this is what  *)
(* lets a seed be re-stamped across edits.  A task in flight is of the     *)
(* present as long as the revision it read is (TasksRight), and a cached   *)
(* prefix verified under the present structure is of the layer's first     *)
(* roots (CachedRight).                                                    *)
(***************************************************************************)

-----------------------------------------------------------------------------
(* What a brick's value is made of, layer by layer and root by root.       *)

\* One element more at the end is kept or is not.
LEMMA OnlyAppend ==
    ASSUME NEW T, NEW seq \in Seq(T), NEW x \in T, NEW S, NEW R,
           \A k \in 1..Len(seq) : seq[k] \in S <=> seq[k] \in R
    PROVE  Only(Append(seq, x), S) = IF x \in S THEN Append(Only(seq, R), x) ELSE Only(seq, R)
  <1> DEFINE more == Append(seq, x)
             n == Len(seq)
  <1>1. /\ more \in Seq(T) /\ Len(more) = n + 1 /\ n \in Nat
        /\ more[n + 1] = x /\ \A k \in 1..n : more[k] = seq[k]
    BY AppendProperties
  <1> HIDE DEF more
  <1>2. PICK f : FiltersTo(f, more, S, T) /\ Only(more, S) = f[n + 1]
    BY <1>1, OnlyRuns
  <1>3. PICK g : FiltersTo(g, seq, R, T) /\ Only(seq, R) = g[n]
    BY OnlyRuns
  <1>4. AgreeUpTo(more, S, seq, R, n)
    BY <1>1 DEF AgreeUpTo
  <1>5. n <= Len(more) /\ n <= Len(seq) /\ n + 1 \in 1..Len(more) /\ (n + 1) - 1 = n
    BY <1>1
  <1>6. f[n] = g[n]
    BY <1>1, <1>2, <1>3, <1>4, <1>5, RunsAgree
  <1>7. f[n + 1] = IF x \in S THEN Append(f[n], x) ELSE f[n]
    BY <1>1, <1>2, <1>5 DEF FiltersTo
  <1> QED
    BY <1>2, <1>3, <1>6, <1>7 DEF more

\* A root appended extends the chain where it reaches.
LEMMA ChainAppend ==
    ASSUME NEW roots \in Seq(Item), NEW item \in Item, NEW b
    PROVE  Chain(Append(roots, item), b) =
               IF b \in item.at THEN Append(Chain(roots, b), item.shape) ELSE Chain(roots, b)
  <1> DEFINE more == Append(roots, item)
             S == {i \in ToSet(more) : b \in i.at}
             R == {i \in ToSet(roots) : b \in i.at}
             kept == Only(roots, R)
             now == Only(more, S)
  <1>1. /\ more \in Seq(Item) /\ Len(more) = Len(roots) + 1 /\ Len(roots) \in Nat
        /\ more[Len(roots) + 1] = item /\ \A k \in 1..Len(roots) : more[k] = roots[k]
    BY AppendProperties
  <1> HIDE DEF more
  <1>2. DOMAIN roots = 1..Len(roots) /\ DOMAIN more = 1..Len(roots) + 1
    BY <1>1
  <1>2a. /\ \A k \in 1..Len(roots) : k \in 1..Len(roots) + 1
         /\ Len(roots) + 1 \in 1..Len(roots) + 1
    BY <1>1
  <1>3. \A k \in 1..Len(roots) : roots[k] \in ToSet(roots) /\ roots[k] \in ToSet(more)
    BY <1>1, <1>2, <1>2a DEF ToSet
  <1>4. item \in ToSet(more)
    BY <1>1, <1>2, <1>2a DEF ToSet
  <1>5. /\ \A k \in 1..Len(roots) : roots[k] \in S <=> roots[k] \in R
        /\ item \in S <=> b \in item.at
    BY <1>3, <1>4
  <1>6. Chain(roots, b) = [k \in DOMAIN kept |-> kept[k].shape]
    BY DEF Chain
  <1>7. Chain(more, b) = [k \in DOMAIN now |-> now[k].shape]
    BY DEF Chain
  <1>8. kept \in Seq(Item)
    BY OnlyLists
  <1> HIDE DEF S, R
  <1>9. now = IF item \in S THEN Append(kept, item) ELSE kept
    <2>1. Only(Append(roots, item), S) =
              IF item \in S THEN Append(Only(roots, R), item) ELSE Only(roots, R)
      BY <1>5, OnlyAppend
    <2> QED
      BY <2>1 DEF more
  <1> HIDE DEF kept, now
  <1>10. CASE b \notin item.at
    BY <1>5, <1>6, <1>7, <1>9, <1>10 DEF more
  <1>11. CASE b \in item.at
    <2>1. /\ now = Append(kept, item) /\ Len(now) = Len(kept) + 1 /\ Len(kept) \in Nat
          /\ now[Len(kept) + 1] = item /\ \A k \in 1..Len(kept) : now[k] = kept[k]
          /\ DOMAIN now = 1..Len(kept) + 1 /\ DOMAIN kept = 1..Len(kept)
      BY <1>5, <1>8, <1>9, <1>11, AppendProperties
    <2>2. Chain(roots, b) \in Seq(Nat) /\ item.shape \in Nat /\ Chain(more, b) \in Seq(Nat)
      BY <1>1, ChainTyped DEF Item
    <2>3. Len(Chain(roots, b)) = Len(kept)
      BY <1>6, <2>1, <2>2
    <2>4. Len(Chain(more, b)) = Len(kept) + 1
      BY <1>7, <2>1, <2>2
    <2> DEFINE a == Append(Chain(roots, b), item.shape)
    <2>5. /\ a \in Seq(Nat) /\ Len(a) = Len(kept) + 1 /\ a[Len(kept) + 1] = item.shape
          /\ \A k \in 1..Len(kept) : a[k] = Chain(roots, b)[k]
      BY <2>2, <2>3, AppendProperties
    <2> HIDE DEF a
    <2>6. \A k \in 1..Len(kept) + 1 : k \in 1..Len(kept) \/ k = Len(kept) + 1
      BY <2>1
    <2>7. \A k \in 1..Len(kept) : Chain(roots, b)[k] = kept[k].shape
      BY <1>6, <2>1
    <2>8. \A k \in 1..Len(kept) + 1 : Chain(more, b)[k] = now[k].shape
      BY <1>7, <2>1
    <2>9. \A k \in 1..Len(kept) + 1 : Chain(more, b)[k] = a[k]
      BY <2>1, <2>5, <2>6, <2>7, <2>8
    <2>10. Chain(more, b) = a
      BY <2>2, <2>4, <2>5, <2>9, SeqEqual
    <2> QED
      BY <1>11, <2>10 DEF a, more
  <1> QED
    BY <1>10, <1>11

\* Roots that do not reach a brick leave nothing there.
LEMMA ChainNone ==
    ASSUME NEW roots \in Seq(Item), NEW b, \A k \in 1..Len(roots) : b \notin roots[k].at
    PROVE  Chain(roots, b) = << >>
  <1> DEFINE S == {item \in ToSet(roots) : b \in item.at}
             kept == Only(roots, S)
  <1>1. \A k \in 1..Len(roots) : roots[k] \notin S
    OBVIOUS
  <1> HIDE DEF S
  <1>2. kept = << >>
    BY <1>1, OnlyNone
  <1>3. Chain(roots, b) = [k \in DOMAIN kept |-> kept[k].shape]
    BY DEF Chain, S
  <1> HIDE DEF kept
  <1>4. Chain(roots, b) \in Seq(Nat)
    BY ChainTyped
  <1>5. DOMAIN Chain(roots, b) = {}
    BY <1>2, <1>3
  <1>6. Len(Chain(roots, b)) = 0
    BY <1>4, <1>5
  <1> QED
    BY <1>4, <1>6, EmptySeq

\* A piece of a sequence, one element longer.
LEMMA SubSeqGrows ==
    ASSUME NEW T, NEW seq \in Seq(T), NEW m \in 1..Len(seq), NEW k \in m - 1..Len(seq) - 1
    PROVE  /\ SubSeq(seq, m, k + 1) = Append(SubSeq(seq, m, k), seq[k + 1])
           /\ SubSeq(seq, m, k) \in Seq(T) /\ seq[k + 1] \in T
  <1>1. /\ Len(seq) \in Nat /\ m \in Int /\ k \in Int /\ k + 1 \in m..Len(seq) /\ (k + 1) - 1 = k
        /\ k + 1 \in 1..Len(seq) /\ \A i \in m..k : i \in 1..Len(seq)
    OBVIOUS
  <1>2. \A i \in 1..Len(seq) : seq[i] \in T
    OBVIOUS
  <1>3. \A i \in m..k : seq[i] \in T
    BY <1>1, <1>2
  <1>4. SubSeq(seq, m, k) \in Seq(T) /\ seq[k + 1] \in T
    BY <1>1, <1>2, <1>3, SubSeqProperties
  <1>5. SubSeq(seq, m, k + 1) = SubSeq(seq, m, (k + 1) - 1) \o <<seq[k + 1]>>
    BY <1>1, SubSeqRecursiveSecond
  <1>6. Append(SubSeq(seq, m, k), seq[k + 1]) = SubSeq(seq, m, k) \o <<seq[k + 1]>>
    BY <1>4, AppendIsConcat
  <1> QED
    BY <1>1, <1>4, <1>5, <1>6

\* One sequence after the other.
Joined(s, t) == s \o t

\* Something appended to the second is appended to both.
LEMMA JoinedAppend ==
    ASSUME NEW T, NEW s \in Seq(T), NEW t \in Seq(T), NEW x \in T
    PROVE  Append(Joined(s, t), x) = Joined(s, Append(t, x))
  BY SMT DEF Joined

\* A layer's chain is that of its first roots and then that of the rest.
LEMMA ChainSplits ==
    ASSUME NEW roots \in Seq(Item), NEW n \in 0..Len(roots), NEW b
    PROVE  Chain(SubSeq(roots, 1, n), b) \o Chain(SubSeq(roots, n + 1, Len(roots)), b) = Chain(roots, b)
  <1> DEFINE first == Chain(SubSeq(roots, 1, n), b)
             rest(m) == Chain(SubSeq(roots, n + 1, m), b)
             upTo(m) == Chain(SubSeq(roots, 1, m), b)
             P == {j \in Nat : n + j <= Len(roots) => first \o rest(n + j) = upTo(n + j)}
  <1>1. Len(roots) \in Nat /\ n \in Nat
    OBVIOUS
  <1>2. \A m \in 0..Len(roots) : SubSeq(roots, 1, m) \in Seq(Item)
    OBVIOUS
  <1>2a. \A m \in 0..Len(roots) : upTo(m) \in Seq(Nat)
    BY <1>2, ChainTyped
  <1>3. \A m \in 0..Len(roots) : SubSeq(roots, n + 1, m) \in Seq(Item)
    <2> TAKE m \in 0..Len(roots)
    <2>1. \A i \in n + 1..m : i \in 1..Len(roots)
      BY <1>1
    <2>2. \A i \in n + 1..m : roots[i] \in Item
      BY <2>1, ElementOfSeq
    <2>3. n + 1 \in Int /\ m \in Int
      BY <1>1
    <2> QED
      BY <2>2, <2>3, SubSeqProperties
  <1>4. \A m \in 0..Len(roots) : rest(m) \in Seq(Nat)
    BY <1>3, ChainTyped
  <1>5. first = upTo(n) /\ first \in Seq(Nat)
    BY <1>2a
  <1>6. 0 \in P
    <2>1. SubSeq(roots, n + 1, n) = << >>
      BY <1>1, SubSeqEmpty
    <2>2. SubSeq(roots, n + 1, n) \in Seq(Item) /\ Len(SubSeq(roots, n + 1, n)) = 0
      BY <1>3, <2>1
    <2>3. rest(n) = << >>
      <3> DEFINE none == SubSeq(roots, n + 1, n)
      <3>1. none \in Seq(Item) /\ \A k \in 1..Len(none) : b \notin none[k].at
        BY <2>2
      <3> HIDE DEF none
      <3>2. Chain(none, b) = << >>
        BY <3>1, ChainNone
      <3> QED
        BY <3>2 DEF none
    <2>4. n + 0 = n
      BY <1>1
    <2> HIDE DEF rest, first, upTo
    <2>5. first \o << >> = first
      BY <1>5, ConcatEmptySeq
    <2> QED
      BY <1>5, <2>3, <2>4, <2>5
  <1>7. ASSUME NEW j \in Nat, j \in P, n + (j + 1) <= Len(roots)
        PROVE  first \o rest(n + (j + 1)) = upTo(n + (j + 1))
    <2> DEFINE m == n + j
               item == roots[m + 1]
    <2>1. /\ m \in 0..Len(roots) /\ n + (j + 1) = m + 1 /\ m + 1 \in 1..Len(roots)
          /\ m \in (n + 1) - 1..Len(roots) - 1 /\ n + 1 \in 1..Len(roots)
          /\ m \in 1 - 1..Len(roots) - 1 /\ 1 \in 1..Len(roots)
      BY <1>1, <1>7
    <2>2. first \o rest(m) = upTo(m)
      BY <1>7, <2>1
    <2> HIDE DEF m
    <2>3. /\ SubSeq(roots, n + 1, m + 1) = Append(SubSeq(roots, n + 1, m), item)
          /\ item \in Item
      BY <2>1, SubSeqGrows
    <2>4. SubSeq(roots, 1, m + 1) = Append(SubSeq(roots, 1, m), item)
      BY <2>1, SubSeqGrows
    <2> HIDE DEF item
    <2>5. rest(m + 1) = IF b \in item.at THEN Append(rest(m), item.shape) ELSE rest(m)
      <3> DEFINE s == SubSeq(roots, n + 1, m)
      <3>1. s \in Seq(Item)
        BY <1>3, <2>1
      <3> HIDE DEF s
      <3>2. Chain(Append(s, item), b) = IF b \in item.at THEN Append(Chain(s, b), item.shape) ELSE Chain(s, b)
        BY <2>3, <3>1, ChainAppend
      <3> QED
        BY <2>3, <3>2 DEF s
    <2>6. upTo(m + 1) = IF b \in item.at THEN Append(upTo(m), item.shape) ELSE upTo(m)
      <3> DEFINE s == SubSeq(roots, 1, m)
      <3>1. s \in Seq(Item)
        BY <1>2, <2>1
      <3> HIDE DEF s
      <3>2. Chain(Append(s, item), b) = IF b \in item.at THEN Append(Chain(s, b), item.shape) ELSE Chain(s, b)
        BY <2>3, <3>1, ChainAppend
      <3> QED
        BY <2>4, <3>2 DEF s
    <2>7. item.shape \in Nat
      BY <2>3 DEF Item
    <2>8. rest(m) \in Seq(Nat) /\ upTo(m) \in Seq(Nat)
      BY <1>2a, <1>4, <2>1
    <2> HIDE DEF rest, first, upTo
    <2> DEFINE a == rest(m)
               x == item.shape
    <2>8a. a \in Seq(Nat) /\ first \in Seq(Nat) /\ x \in Nat
      BY <1>5, <2>7, <2>8
    <2> HIDE DEF a, x
    <2>9. Append(first \o rest(m), item.shape) = first \o Append(rest(m), item.shape)
      <3>1. Append(Joined(first, a), x) = Joined(first, Append(a, x))
        BY <2>8a, JoinedAppend
      <3> QED
        BY <3>1 DEF a, x, Joined
    <2> QED
      BY <2>1, <2>2, <2>5, <2>6, <2>9
  <1>8. Nat \subseteq P
    <2>1. \A j \in Nat : j \in P => j + 1 \in P
      <3> HIDE DEF first, rest, upTo
      <3> QED
        BY <1>7
    <2> HIDE DEF P
    <2> QED
      BY <1>6, <2>1, NatSetInduction
  <1>9. Len(roots) - n \in Nat /\ n + (Len(roots) - n) = Len(roots)
    BY <1>1
  <1>10. first \o rest(Len(roots)) = upTo(Len(roots))
    <2> DEFINE j == Len(roots) - n
    <2>1. j \in Nat /\ n + j = Len(roots) /\ n + j <= Len(roots)
      BY <1>1, <1>9
    <2> HIDE DEF first, rest, upTo, j
    <2>2. first \o rest(n + j) = upTo(n + j)
      BY <1>8, <2>1
    <2> QED
      BY <2>1, <2>2
  <1> QED
    BY <1>10, SubSeqFull

\* A layer is lit at a brick when it is seen and something of it reaches there.
Lit(d, l, b) == d[l].visible /\ Chain(d[l].roots, b) # << >>

\* What a layer adds to a value.
PartOf(layer, b) == [hard |-> layer.hard, chain |-> Chain(layer.roots, b)]

\* The value of the first n layers, in parts.
PartsTo(d, n, b) == Parts(VisibleLayers(SubSeq(d, 1, n)), b)

\* A layer put on top is seen, or it is not.
LEMMA VisibleAppend ==
    ASSUME NEW d \in Seq(Layer), NEW layer \in Layer
    PROVE  VisibleLayers(Append(d, layer)) =
               IF layer.visible THEN Append(VisibleLayers(d), layer) ELSE VisibleLayers(d)
  <1> DEFINE more == Append(d, layer)
             S == {x \in ToSet(more) : x.visible}
             R == {x \in ToSet(d) : x.visible}
  <1>1. /\ more \in Seq(Layer) /\ Len(more) = Len(d) + 1 /\ Len(d) \in Nat
        /\ more[Len(d) + 1] = layer /\ \A k \in 1..Len(d) : more[k] = d[k]
    BY AppendProperties
  <1> HIDE DEF more
  <1>2. ToSet(more) = ToSet(d) \cup {layer}
    BY ListsAppend DEF more
  <1>3. \A k \in 1..Len(d) : d[k] \in ToSet(d)
    BY DEF ToSet
  <1>4. /\ \A k \in 1..Len(d) : d[k] \in S <=> d[k] \in R
        /\ layer \in S <=> layer.visible
    BY <1>2, <1>3
  <1>5. VisibleLayers(d) = Only(d, R) /\ VisibleLayers(more) = Only(more, S)
    BY DEF VisibleLayers
  <1> HIDE DEF S, R
  <1>6. Only(Append(d, layer), S) = IF layer \in S THEN Append(Only(d, R), layer) ELSE Only(d, R)
    BY <1>4, OnlyAppend
  <1> QED
    BY <1>4, <1>5, <1>6 DEF more

\* The parts of layers are those that have something at the brick.
LEMMA PartsAppend ==
    ASSUME NEW layers \in Seq(Layer), NEW layer \in Layer, NEW b
    PROVE  Parts(Append(layers, layer), b) =
               IF Chain(layer.roots, b) # << >>
               THEN Append(Parts(layers, b), PartOf(layer, b)) ELSE Parts(layers, b)
  <1> DEFINE more == Append(layers, layer)
             all == [k \in DOMAIN layers |-> PartOf(layers[k], b)]
             now == [k \in DOMAIN more |-> PartOf(more[k], b)]
             S == {part \in ToSet(now) : part.chain # << >>}
             R == {part \in ToSet(all) : part.chain # << >>}
             n == Len(layers)
             new == PartOf(layer, b)
  <1>1. /\ more \in Seq(Layer) /\ Len(more) = n + 1 /\ n \in Nat
        /\ more[n + 1] = layer /\ \A k \in 1..n : more[k] = layers[k]
    BY AppendProperties
  <1> HIDE DEF more
  <1>2. \A x \in Layer : PartOf(x, b) \in Part /\ PartOf(x, b).chain = Chain(x.roots, b)
    BY ChainTyped DEF PartOf, Part, Layer
  <1>3. DOMAIN layers = 1..n /\ DOMAIN more = 1..n + 1
    BY <1>1
  <1>4. \A k \in 1..n : layers[k] \in Layer
    BY ElementOfSeq
  <1>5. \A k \in 1..n + 1 : more[k] \in Layer
    BY <1>1, ElementOfSeq
  <1>6. all \in Seq(Part) /\ Len(all) = n /\ \A k \in 1..n : all[k] = PartOf(layers[k], b)
    <2>1. all \in [1..n -> Part]
      BY <1>2, <1>3, <1>4
    <2> QED
      BY <1>1, <1>3, <2>1, SeqDef
  <1>7. now \in Seq(Part) /\ Len(now) = n + 1 /\ \A k \in 1..n + 1 : now[k] = PartOf(more[k], b)
    <2>1. now \in [1..n + 1 -> Part]
      BY <1>2, <1>3, <1>5
    <2>2. n + 1 \in Nat
      BY <1>1
    <2> QED
      BY <1>1, <1>3, <2>1, <2>2, SeqDef
  <1>8. Parts(layers, b) = Only(all, R) /\ Parts(more, b) = Only(now, S)
    BY DEF Parts, PartOf
  <1> HIDE DEF all, now
  <1>9. new \in Part /\ (new.chain # << >> <=> Chain(layer.roots, b) # << >>)
    BY <1>2
  <1> HIDE DEF new
  <1>10. now = Append(all, new)
    <2> DEFINE a == Append(all, new)
    <2>1. a \in Seq(Part) /\ Len(a) = n + 1 /\ a[n + 1] = new /\ \A k \in 1..n : a[k] = all[k]
      BY <1>6, <1>9, AppendProperties
    <2> HIDE DEF a
    <2>2. \A k \in 1..n + 1 : (k \in 1..n \/ k = n + 1)
      BY <1>1
    <2>3. \A k \in 1..n : k \in 1..n + 1
      BY <1>1
    <2>4. \A k \in 1..n + 1 : now[k] = a[k]
      BY <1>1, <1>6, <1>7, <2>1, <2>2, <2>3 DEF new
    <2> QED
      BY <1>7, <2>1, <2>4, SeqEqual DEF a
  <1>11. ToSet(now) = ToSet(all) \cup {new}
    BY <1>6, <1>9, <1>10, ListsAppend
  <1>12. \A k \in 1..Len(all) : all[k] \in ToSet(all)
    BY <1>6 DEF ToSet
  <1>13. /\ \A k \in 1..Len(all) : all[k] \in S <=> all[k] \in R
         /\ new \in S <=> Chain(layer.roots, b) # << >>
    BY <1>9, <1>11, <1>12
  <1> HIDE DEF S, R
  <1>14. Only(Append(all, new), S) = IF new \in S THEN Append(Only(all, R), new) ELSE Only(all, R)
    BY <1>6, <1>9, <1>13, OnlyAppend
  <1> QED
    BY <1>8, <1>10, <1>13, <1>14 DEF more, new

\* The first layers of a document, and one more.
LEMMA FirstLayers ==
    ASSUME NEW d \in Seq(Layer), NEW n \in 0..Len(d)
    PROVE  /\ SubSeq(d, 1, n) \in Seq(Layer) /\ Len(SubSeq(d, 1, n)) = n
           /\ \A k \in 1..n : SubSeq(d, 1, n)[k] = d[k]
           /\ n < Len(d) => /\ SubSeq(d, 1, n + 1) = Append(SubSeq(d, 1, n), d[n + 1])
                            /\ d[n + 1] \in Layer
  <1>1. /\ SubSeq(d, 1, n) \in Seq(Layer) /\ Len(SubSeq(d, 1, n)) = n
        /\ \A k \in 1..n : SubSeq(d, 1, n)[k] = d[k]
    OBVIOUS
  <1>2. ASSUME n < Len(d)
        PROVE  SubSeq(d, 1, n + 1) = Append(SubSeq(d, 1, n), d[n + 1]) /\ d[n + 1] \in Layer
    <2>1. 1 \in 1..Len(d) /\ n \in 1 - 1..Len(d) - 1
      BY <1>2
    <2> QED
      BY <2>1, SubSeqGrows
  <1> QED
    BY <1>1, <1>2

\* The value of layers, layer by layer: a layer adds its part where it is lit.
LEMMA PartsStep ==
    ASSUME NEW d \in Seq(Layer), NEW n \in 0..Len(d), NEW b
    PROVE  /\ PartsTo(d, n, b) \in Seq(Part)
           /\ n = 0 => PartsTo(d, n, b) = << >>
           /\ n < Len(d) => PartsTo(d, n + 1, b) = IF Lit(d, n + 1, b)
                                                   THEN Append(PartsTo(d, n, b), PartOf(d[n + 1], b))
                                                   ELSE PartsTo(d, n, b)
  <1> DEFINE first == SubSeq(d, 1, n)
             seen == VisibleLayers(first)
  <1>1. first \in Seq(Layer) /\ Len(first) = n
    BY FirstLayers
  <1>2. n < Len(d) => SubSeq(d, 1, n + 1) = Append(first, d[n + 1]) /\ d[n + 1] \in Layer
    BY FirstLayers
  <1> HIDE DEF first
  <1>3. seen \in Seq(Layer)
    BY <1>1, VisibleTyped
  <1>4. PartsTo(d, n, b) = Parts(seen, b)
    BY DEF PartsTo, first
  <1>5. ASSUME n = 0 PROVE Parts(seen, b) = << >>
    <2>1. seen = << >>
      <3> DEFINE S == {layer \in ToSet(first) : layer.visible}
      <3>1. \A k \in 1..Len(first) : first[k] \notin S
        BY <1>1, <1>5
      <3> HIDE DEF S
      <3>2. Only(first, S) = << >>
        BY <1>1, <3>1, OnlyNone
      <3> QED
        BY <3>2 DEF VisibleLayers, S
    <2> DEFINE all == [k \in DOMAIN seen |-> PartOf(seen[k], b)]
               R == {part \in ToSet(all) : part.chain # << >>}
    <2>2. Parts(seen, b) = Only(all, R)
      BY DEF Parts, PartOf
    <2>3. DOMAIN seen = 1..0 /\ 1..0 = {}
      BY <1>3, <2>1
    <2>4. all \in Seq(Part) /\ Len(all) = 0
      <3>1. all \in [1..0 -> Part]
        BY <2>3
      <3> HIDE DEF all
      <3>2. all \in Seq(Part)
        BY <3>1, SeqDef
      <3> QED
        BY <3>1, <3>2
    <2> HIDE DEF all
    <2>5. \A k \in 1..Len(all) : all[k] \notin R
      BY <2>4
    <2> HIDE DEF R
    <2> QED
      BY <2>2, <2>4, <2>5, OnlyNone
  <1>6. ASSUME n < Len(d)
        PROVE  PartsTo(d, n + 1, b) = IF Lit(d, n + 1, b) THEN Append(Parts(seen, b), PartOf(d[n + 1], b))
                                      ELSE Parts(seen, b)
    <2> DEFINE layer == d[n + 1]
    <2>1. PartsTo(d, n + 1, b) = Parts(VisibleLayers(Append(first, layer)), b) /\ layer \in Layer
      BY <1>2, <1>6 DEF PartsTo
    <2>2. Lit(d, n + 1, b) <=> layer.visible /\ Chain(layer.roots, b) # << >>
      BY DEF Lit
    <2> HIDE DEF layer
    <2>3. VisibleLayers(Append(first, layer)) = IF layer.visible THEN Append(seen, layer) ELSE seen
      BY <1>1, <2>1, VisibleAppend
    <2> HIDE DEF seen
    <2>4. Parts(Append(seen, layer), b) = IF Chain(layer.roots, b) # << >>
              THEN Append(Parts(seen, b), PartOf(layer, b)) ELSE Parts(seen, b)
      BY <1>3, <2>1, PartsAppend
    <2>5. PartsTo(d, n + 1, b) = IF Lit(d, n + 1, b) THEN Append(Parts(seen, b), PartOf(layer, b))
                                      ELSE Parts(seen, b)
      BY <2>1, <2>2, <2>3, <2>4
    <2> QED
      BY <2>5 DEF layer
  <1>7. Parts(seen, b) \in Seq(Part)
    BY <1>3, PartsTyped
  <1> QED
    BY <1>4, <1>5, <1>6, <1>7

\* Layers that are not lit add nothing.
LEMMA PartsStay ==
    ASSUME NEW d \in Seq(Layer), NEW n \in 0..Len(d), NEW m \in n..Len(d), NEW b,
           \A k \in n + 1..m : ~Lit(d, k, b)
    PROVE  PartsTo(d, m, b) = PartsTo(d, n, b)
  <1> DEFINE P == {j \in Nat : n + j <= m => PartsTo(d, n + j, b) = PartsTo(d, n, b)}
  <1>1. n \in Nat /\ m \in Nat /\ Len(d) \in Nat
    OBVIOUS
  <1>2. 0 \in P
    <2>1. n + 0 = n
      BY <1>1
    <2> QED
      BY <2>1
  <1>3. ASSUME NEW j \in Nat, j \in P, n + (j + 1) <= m
        PROVE  PartsTo(d, n + (j + 1), b) = PartsTo(d, n, b)
    <2> DEFINE k == n + j
    <2>1. n + (j + 1) = k + 1 /\ k \in 0..Len(d) /\ k < Len(d) /\ k + 1 \in n + 1..m
      BY <1>1, <1>3
    <2>2. PartsTo(d, k, b) = PartsTo(d, n, b)
      BY <1>1, <1>3
    <2> HIDE DEF k
    <2>3. ~Lit(d, k + 1, b)
      BY <2>1
    <2> QED
      BY <2>1, <2>2, <2>3, PartsStep
  <1>4. Nat \subseteq P
    <2>1. \A j \in Nat : j \in P => j + 1 \in P
      BY <1>3
    <2> HIDE DEF P
    <2> QED
      BY <1>2, <2>1, NatSetInduction
  <1>5. m - n \in Nat /\ n + (m - n) = m
    BY <1>1
  <1> DEFINE j == m - n
  <1>6. j \in Nat /\ n + j = m /\ n + j <= m
    BY <1>1, <1>5
  <1> HIDE DEF j
  <1>7. PartsTo(d, n + j, b) = PartsTo(d, n, b)
    BY <1>4, <1>6
  <1> QED
    BY <1>6, <1>7

\* Documents whose layers are lit alike up to n, with the same parts.
LitAlike(d, e, n, b) ==
    \A k \in 1..n :
        /\ Lit(d, k, b) <=> Lit(e, k, b)
        /\ Lit(d, k, b) => PartOf(d[k], b) = PartOf(e[k], b)

\* Such documents have the same value so far.
LEMMA PartsAlike ==
    ASSUME NEW d \in Seq(Layer), NEW e \in Seq(Layer), NEW n \in 0..Len(d), n <= Len(e), NEW b,
           LitAlike(d, e, n, b)
    PROVE  PartsTo(d, n, b) = PartsTo(e, n, b)
  <1> DEFINE P == {j \in Nat : j <= n => PartsTo(d, j, b) = PartsTo(e, j, b)}
  <1>1. n \in Nat /\ Len(d) \in Nat /\ Len(e) \in Nat
    OBVIOUS
  <1>2. 0 \in P
    <2>1. 0 \in 0..Len(d) /\ 0 \in 0..Len(e)
      BY <1>1
    <2> QED
      BY <2>1, PartsStep
  <1>3. ASSUME NEW j \in Nat, j \in P, j + 1 <= n
        PROVE  PartsTo(d, j + 1, b) = PartsTo(e, j + 1, b)
    <2>1. /\ j \in 0..Len(d) /\ j \in 0..Len(e) /\ j < Len(d) /\ j < Len(e) /\ j + 1 \in 1..n /\ j <= n
      BY <1>1, <1>3
    <2>2. PartsTo(d, j, b) = PartsTo(e, j, b)
      BY <1>3, <2>1
    <2>3. PartsTo(d, j + 1, b) = IF Lit(d, j + 1, b) THEN Append(PartsTo(d, j, b), PartOf(d[j + 1], b))
                                                     ELSE PartsTo(d, j, b)
      BY <2>1, PartsStep
    <2>4. PartsTo(e, j + 1, b) = IF Lit(e, j + 1, b) THEN Append(PartsTo(e, j, b), PartOf(e[j + 1], b))
                                                     ELSE PartsTo(e, j, b)
      BY <2>1, PartsStep
    <2> QED
      BY <2>1, <2>2, <2>3, <2>4 DEF LitAlike
  <1>4. Nat \subseteq P
    <2>1. \A j \in Nat : j \in P => j + 1 \in P
      BY <1>3
    <2> HIDE DEF P
    <2> QED
      BY <1>2, <2>1, NatSetInduction
  <1>5. n <= n
    BY <1>1
  <1> QED
    BY <1>1, <1>4, <1>5

-----------------------------------------------------------------------------
(* A value in two halves.                                                  *)

\* A value folded into nothing: its first part takes no operator.
LEMMA AsFieldIs ==
    ASSUME NEW parts \in Seq(Part)
    PROVE  /\ AsField(parts) \in Seq(Part) /\ Len(AsField(parts)) = Len(parts)
           /\ \A k \in 1..Len(parts) :
                 /\ AsField(parts)[k].hard = (k = 1 \/ parts[k].hard)
                 /\ AsField(parts)[k].chain = parts[k].chain
  <1>1. CASE parts = << >>
    <2>1. Len(parts) = 0 /\ AsField(parts) = parts
      BY <1>1 DEF AsField
    <2> QED
      BY <2>1
  <1>2. CASE parts # << >>
    <2> DEFINE first == [parts[1] EXCEPT !.hard = TRUE]
    <2>1. Len(parts) \in Nat /\ 1 \in 1..Len(parts) /\ parts[1] \in Part
      BY <1>2, EmptySeq, ElementOfSeq
    <2>2. AsField(parts) = [parts EXCEPT ![1] = first]
      BY <1>2, <2>1 DEF AsField
    <2>3. first \in Part /\ first.hard = TRUE /\ first.chain = parts[1].chain
      BY <2>1 DEF Part
    <2> HIDE DEF first
    <2>4. /\ AsField(parts) \in Seq(Part) /\ Len(AsField(parts)) = Len(parts)
          /\ \A k \in 1..Len(parts) : AsField(parts)[k] = IF k = 1 THEN first ELSE parts[k]
      BY <2>1, <2>2, <2>3, ExceptSeq
    <2>5. \A k \in 1..Len(parts) : parts[k].hard \in BOOLEAN
      <3> TAKE k \in 1..Len(parts)
      <3>1. parts[k] \in Part
        BY ElementOfSeq
      <3> QED
        BY <3>1 DEF Part
    <2>6. ASSUME NEW k \in 1..Len(parts)
          PROVE  /\ AsField(parts)[k].hard = (k = 1 \/ parts[k].hard)
                 /\ AsField(parts)[k].chain = parts[k].chain
      BY <2>3, <2>4, <2>5
    <2> QED
      BY <2>4, <2>6
  <1> QED
    BY <1>1, <1>2

\* Parts that are the same, one by one, are the same value.
LEMMA PartsEqual ==
    ASSUME NEW P \in Seq(Part), NEW Q \in Seq(Part), Len(P) = Len(Q),
           \A k \in 1..Len(P) : P[k].hard = Q[k].hard /\ P[k].chain = Q[k].chain
    PROVE  P = Q
  <1>1. ASSUME NEW k \in 1..Len(P) PROVE P[k] = Q[k]
    <2>1. P[k] \in Part /\ Q[k] \in Part
      BY ElementOfSeq
    <2>2. /\ P[k] = [hard |-> P[k].hard, chain |-> P[k].chain]
          /\ Q[k] = [hard |-> Q[k].hard, chain |-> Q[k].chain]
      BY <2>1 DEF Part
    <2>3. P[k].hard = Q[k].hard /\ P[k].chain = Q[k].chain
      OBVIOUS
    <2> QED
      BY <2>2, <2>3
  <1> QED
    BY <1>1, SeqEqual

\* A value in halves and rejoined is the value, as fold_layers_below and the
\* hard union have it.
LEMMA HalvesRejoin ==
    ASSUME NEW P \in Seq(Part), NEW p \in Part, P # << >> => p.hard
    PROVE  /\ AsField(Append(AsField(P), [hard |-> TRUE, chain |-> p.chain])) = AsField(Append(P, p))
           /\ AsField(AsField(P)) = AsField(P)
  <1> DEFINE F == AsField(P)
             q == [hard |-> TRUE, chain |-> p.chain]
             one == Append(F, q)
             two == Append(P, p)
             n == Len(P)
  <1>1. /\ F \in Seq(Part) /\ Len(F) = n
        /\ \A k \in 1..n : F[k].hard = (k = 1 \/ P[k].hard) /\ F[k].chain = P[k].chain
    BY AsFieldIs
  <1> HIDE DEF F
  <1>2. q \in Part /\ q.hard = TRUE /\ q.chain = p.chain /\ p.hard \in BOOLEAN
    BY DEF Part
  <1> HIDE DEF q
  <1>3. n \in Nat /\ (n # 0 => p.hard)
    <2>1. P = << >> => n = 0
      OBVIOUS
    <2> QED
      BY <2>1, EmptySeq
  <1>4. /\ one \in Seq(Part) /\ Len(one) = n + 1 /\ one[n + 1] = q /\ \A k \in 1..n : one[k] = F[k]
    BY <1>1, <1>2, AppendProperties
  <1>5. /\ two \in Seq(Part) /\ Len(two) = n + 1 /\ two[n + 1] = p /\ \A k \in 1..n : two[k] = P[k]
    BY AppendProperties
  <1> HIDE DEF one, two, n
  <1>6. /\ AsField(one) \in Seq(Part) /\ Len(AsField(one)) = n + 1
        /\ \A k \in 1..n + 1 : /\ AsField(one)[k].hard = (k = 1 \/ one[k].hard)
                               /\ AsField(one)[k].chain = one[k].chain
    BY <1>4, AsFieldIs
  <1>7. /\ AsField(two) \in Seq(Part) /\ Len(AsField(two)) = n + 1
        /\ \A k \in 1..n + 1 : /\ AsField(two)[k].hard = (k = 1 \/ two[k].hard)
                               /\ AsField(two)[k].chain = two[k].chain
    BY <1>5, AsFieldIs
  <1>8. ASSUME NEW k \in 1..n + 1
        PROVE  AsField(one)[k].hard = AsField(two)[k].hard /\ AsField(one)[k].chain = AsField(two)[k].chain
    <2>1. CASE k \in 1..n
      <3>1. /\ (k = 1 \/ one[k].hard) <=> (k = 1 \/ two[k].hard)
            /\ one[k].chain = two[k].chain
        BY <1>1, <1>4, <1>5, <2>1
      <3> QED
        BY <1>6, <1>7, <3>1
    <2>2. CASE k = n + 1
      <3>1. k = 1 \/ p.hard
        BY <1>3, <2>2
      <3>2. (k = 1 \/ one[k].hard) <=> (k = 1 \/ two[k].hard)
        BY <1>2, <1>4, <1>5, <2>2, <3>1
      <3>3. one[k].chain = two[k].chain
        BY <1>2, <1>4, <1>5, <2>2
      <3> QED
        BY <1>6, <1>7, <3>2, <3>3
    <2>3. k \in 1..n \/ k = n + 1
      BY <1>3
    <2> QED
      BY <2>1, <2>2, <2>3
  <1>9. AsField(one) = AsField(two)
    BY <1>6, <1>7, <1>8, PartsEqual
  <1>10. /\ AsField(F) \in Seq(Part) /\ Len(AsField(F)) = n
         /\ \A k \in 1..n : /\ AsField(F)[k].hard = (k = 1 \/ F[k].hard)
                            /\ AsField(F)[k].chain = F[k].chain
    BY <1>1, AsFieldIs
  <1>11. ASSUME NEW k \in 1..n
         PROVE  AsField(F)[k].hard = F[k].hard /\ AsField(F)[k].chain = F[k].chain
    <2>1. (k = 1 \/ F[k].hard) <=> (k = 1 \/ P[k].hard)
      BY <1>1
    <2> QED
      BY <1>1, <1>10, <2>1
  <1>12. AsField(F) = F
    BY <1>1, <1>10, <1>11, PartsEqual
  <1> QED
    BY <1>9, <1>12 DEF one, two, F, q

\* A document's value at a brick is the value of a layer folded onto what lies
\* beneath it, when nothing above is lit and the layer's join may be split.
LEMMA FieldSplits ==
    ASSUME NEW d \in Seq(Layer), NEW l \in 1..Len(d), NEW b, d[l].visible,
           \A k \in l + 1..Len(d) : ~Lit(d, k, b),
           PartsTo(d, l - 1, b) # << >> => d[l].hard
    PROVE  FoldLayersBelow(AsField(PartsTo(d, l - 1, b)), Chain(d[l].roots, b)) = Field(d, b)
  <1> DEFINE P == PartsTo(d, l - 1, b)
             p == PartOf(d[l], b)
             chain == Chain(d[l].roots, b)
  <1>1. /\ Len(d) \in Nat /\ l - 1 \in 0..Len(d) /\ l - 1 < Len(d) /\ (l - 1) + 1 = l
        /\ l \in 0..Len(d) /\ Len(d) \in l..Len(d)
    OBVIOUS
  <1>2. d[l] \in Layer
    BY ElementOfSeq
  <1>3. p \in Part /\ p.chain = chain /\ p.hard = d[l].hard
    BY <1>2, ChainTyped DEF PartOf, Part, Layer
  <1>4. P \in Seq(Part)
    BY <1>1, PartsStep
  <1>5. PartsTo(d, l, b) = IF chain # << >> THEN Append(P, p) ELSE P
    <2>1. Lit(d, l, b) <=> chain # << >>
      BY DEF Lit
    <2>2. PartsTo(d, (l - 1) + 1, b) = IF Lit(d, (l - 1) + 1, b)
                                       THEN Append(PartsTo(d, l - 1, b), PartOf(d[(l - 1) + 1], b))
                                       ELSE PartsTo(d, l - 1, b)
      BY <1>1, PartsStep
    <2> QED
      BY <1>1, <2>1, <2>2
  <1>6. Field(d, b) = AsField(PartsTo(d, l, b))
    <2>1. PartsTo(d, Len(d), b) = PartsTo(d, l, b)
      BY <1>1, PartsStay
    <2>2. SubSeq(d, 1, Len(d)) = d
      BY SubSeqFull
    <2> QED
      BY <2>1, <2>2 DEF Field, PartsTo
  <1>7. P # << >> => p.hard
    BY <1>3
  <1> HIDE DEF P, p, chain
  <1>8. /\ AsField(Append(AsField(P), [hard |-> TRUE, chain |-> p.chain])) = AsField(Append(P, p))
        /\ AsField(AsField(P)) = AsField(P)
    BY <1>3, <1>4, <1>7, HalvesRejoin
  <1>9. FoldLayersBelow(AsField(P), chain) = AsField(IF chain = << >> THEN AsField(P)
                                                     ELSE Append(AsField(P), [hard |-> TRUE, chain |-> chain]))
    BY DEF FoldLayersBelow
  <1>10. FoldLayersBelow(AsField(P), chain) = Field(d, b)
    BY <1>3, <1>5, <1>6, <1>8, <1>9
  <1> QED
    BY <1>10 DEF P, chain

-----------------------------------------------------------------------------
(* What lies beneath the active layer.                                     *)

\* What lies beneath the active layer.
LEMMA BeneathTop ==
    ASSUME NEW d \in Seq(Layer), NEW t, TopOf(d, t), NEW b
    PROVE  /\ HalfBelow(d, b) = AsField(PartsTo(d, t - 1, b))
           /\ ~HasBelow(d) => /\ PartsTo(d, t - 1, b) = << >>
                              /\ \A k \in 1..t - 1 : ~d[k].visible
           /\ JoinIsHardUnion(d) /\ PartsTo(d, t - 1, b) # << >> => d[t].hard
  <1> DEFINE first == SubSeq(d, 1, t - 1)
             seen == VisibleLayers(first)
  <1>1. /\ t \in 1..Len(d) /\ Len(d) \in Nat /\ t - 1 \in 0..Len(d) /\ t - 1 \in Nat
        /\ 0 \in 0..Len(d) /\ t - 1 \in 0..Len(d)
    BY DEF TopOf
  <1>2. first \in Seq(Layer) /\ Len(first) = t - 1 /\ \A k \in 1..t - 1 : first[k] = d[k]
    BY <1>1, FirstLayers
  <1>3. /\ HasActive(d) /\ Active(d) = d[t] /\ d[t] \in Layer
        /\ VisibleLayers(d) = Append(seen, d[t])
        /\ Front(VisibleLayers(d)) = seen
    BY ActiveIsTop
  <1>4. HalfBelow(d, b) = AsField(PartsTo(d, t - 1, b))
    BY <1>3 DEF HalfBelow, PartsTo
  <1>5. ASSUME ~HasBelow(d)
        PROVE  PartsTo(d, t - 1, b) = << >> /\ \A k \in 1..t - 1 : ~d[k].visible
    <2> DEFINE S == {layer \in ToSet(first) : layer.visible}
    <2> HIDE DEF first
    <2>1. seen \in Seq(Layer) /\ ToSet(seen) = ToSet(first) \cap S
      <3>1. seen = Only(first, S)
        BY DEF VisibleLayers
      <3> HIDE DEF S, seen
      <3> QED
        BY <1>2, <3>1, OnlyLists
    <2> HIDE DEF seen
    <2>2. Len(seen) = 0
      <3>1. Len(Append(seen, d[t])) = Len(seen) + 1 /\ Len(seen) \in Nat
        BY <1>3, <2>1, AppendProperties
      <3>2. ~(Len(seen) + 1 > 1)
        BY <1>3, <1>5, <3>1 DEF HasBelow
      <3> QED
        BY <3>1, <3>2
    <2>3. ToSet(seen) = {}
      BY <2>1, <2>2 DEF ToSet
    <2>4. \A k \in 1..t - 1 : first[k] \in ToSet(first)
      BY <1>2 DEF ToSet
    <2>5. \A k \in 1..t - 1 : ~d[k].visible
      BY <1>2, <2>1, <2>3, <2>4
    <2>6. \A k \in 0 + 1..t - 1 : ~Lit(d, k, b)
      BY <1>1, <2>5 DEF Lit
    <2>7. PartsTo(d, t - 1, b) = PartsTo(d, 0, b)
      BY <1>1, <2>6, PartsStay
    <2> QED
      BY <1>1, <2>5, <2>7, PartsStep
  <1>6. ASSUME JoinIsHardUnion(d), PartsTo(d, t - 1, b) # << >> PROVE d[t].hard
    BY <1>3, <1>5, <1>6 DEF JoinIsHardUnion
  <1> QED
    BY <1>4, <1>5, <1>6

\* No layer that is seen is above the topmost.
LEMMA TopIsAbove ==
    ASSUME NEW d \in Seq(Layer), NEW t, TopOf(d, t), NEW l \in 1..Len(d), d[l].visible
    PROVE  l <= t /\ t \in 1..Len(d)
  <1>1. t \in 1..Len(d) /\ Len(d) \in Nat
    BY DEF TopOf
  <1>2. ~(l > t)
    <2>1. l > t => l \in t + 1..Len(d)
      BY <1>1
    <2> QED
      BY <2>1 DEF TopOf
  <1> QED
    BY <1>1, <1>2

\* A layer that comes into view above the topmost is one more that is seen.
LEMMA OneMoreSeen ==
    ASSUME NEW d \in Seq(Layer), NEW e \in Seq(Layer), NEW t, TopOf(d, t), NEW l, TopOf(e, l), t < l,
           l - 1 <= Len(d), \A k \in 1..l - 1 : e[k] = d[k]
    PROVE  /\ Len(VisibleLayers(e)) > Len(VisibleLayers(d))
           /\ Active(d) = d[t] /\ Active(e) = e[l]
  <1> DEFINE beneath == SubSeq(d, 1, t - 1)
             under == SubSeq(e, 1, l - 1)
             seen == VisibleLayers(beneath)
  <1>1. /\ t \in 1..Len(d) /\ l \in 1..Len(e) /\ Len(d) \in Nat /\ Len(e) \in Nat
        /\ t - 1 \in 0..Len(d) /\ l - 1 \in 0..Len(e) /\ t \in 1..l - 1
    BY DEF TopOf
  <1>2. VisibleLayers(d) = Append(seen, d[t]) /\ d[t] \in Layer /\ Active(d) = d[t]
    BY ActiveIsTop
  <1>3. VisibleLayers(e) = Append(VisibleLayers(under), e[l]) /\ e[l] \in Layer /\ Active(e) = e[l]
    BY ActiveIsTop
  <1>4. under \in Seq(Layer) /\ Len(under) = l - 1 /\ \A k \in 1..l - 1 : under[k] = e[k]
    BY <1>1, FirstLayers
  <1>5. beneath \in Seq(Layer) /\ Len(beneath) = t - 1 /\ \A k \in 1..t - 1 : beneath[k] = d[k]
    BY <1>1, FirstLayers
  <1> HIDE DEF under
  <1>6. TopOf(under, t)
    <2>1. \A k \in t + 1..l - 1 : k \in 1..l - 1 /\ k \in t + 1..Len(d)
      BY <1>1
    <2> QED
      BY <1>1, <1>4, <2>1 DEF TopOf
  <1>7. VisibleLayers(under) = Append(VisibleLayers(SubSeq(under, 1, t - 1)), under[t])
    BY <1>4, <1>6, ActiveIsTop
  <1>8. SubSeq(under, 1, t - 1) = beneath
    <2> DEFINE s == SubSeq(under, 1, t - 1)
    <2>0. t - 1 \in 0..Len(under)
      BY <1>1, <1>4
    <2>1. s \in Seq(Layer) /\ Len(s) = t - 1 /\ \A k \in 1..t - 1 : s[k] = under[k]
      BY <1>4, <2>0, FirstLayers
    <2> HIDE DEF s, beneath
    <2>2. \A k \in 1..t - 1 : k \in 1..l - 1
      BY <1>1
    <2>3. \A k \in 1..t - 1 : s[k] = beneath[k]
      BY <1>4, <1>5, <2>1, <2>2
    <2>4. s = beneath
      BY <1>5, <2>1, <2>3, SeqEqual
    <2> QED
      BY <2>4 DEF s
  <1> HIDE DEF beneath
  <1>9. seen \in Seq(Layer) /\ VisibleLayers(under) = Append(seen, d[t])
    <2>1. under[t] = d[t]
      BY <1>1, <1>4
    <2> QED
      BY <1>5, <1>7, <1>8, <2>1, VisibleTyped
  <1> HIDE DEF seen
  <1>10. /\ Append(seen, d[t]) \in Seq(Layer) /\ Len(Append(seen, d[t])) = Len(seen) + 1 /\ Len(seen) \in Nat
    BY <1>2, <1>9, AppendProperties
  <1>11. Len(VisibleLayers(e)) = Len(VisibleLayers(d)) + 1 /\ Len(VisibleLayers(d)) = Len(seen) + 1
    BY <1>2, <1>3, <1>9, <1>10, AppendProperties
  <1>12. Len(VisibleLayers(e)) > Len(VisibleLayers(d))
    BY <1>10, <1>11
  <1> QED
    BY <1>2, <1>3, <1>12

-----------------------------------------------------------------------------
(* Whose value an entry keeps.                                             *)

\* The half beneath, an entry with none standing for no layers.
HalfOf(e) == IF e.below = NoBelow THEN << >> ELSE e.below

\* A document's layer whose value at b the entry's active half is, with what
\* lies beneath it in the entry's other half, and nothing above it at b.
Owns(d, l, e, b) ==
    /\ l \in 1..Len(d) /\ d[l].visible
    /\ e.active = Chain(d[l].roots, b)
    /\ \A k \in l + 1..Len(d) : ~Lit(d, k, b)
    /\ HalfOf(e) = AsField(PartsTo(d, l - 1, b))
    /\ PartsTo(d, l - 1, b) # << >> => d[l].hard
    /\ e.below # NoBelow => TopOf(d, l)

\* Documents lit alike at b own the same entries there.
LEMMA OwnsAlike ==
    ASSUME NEW d \in Seq(Layer), NEW c \in Seq(Layer), Len(d) <= Len(c), NEW b,
           LitAlike(d, c, Len(d), b), \A k \in Len(d) + 1..Len(c) : ~Lit(c, k, b),
           NEW l, NEW e, Owns(d, l, e, b), e.active # << >>,
           NEW f, f.active = e.active, f.below = e.below, f.below # NoBelow => TopOf(c, l)
    PROVE  Owns(c, l, f, b)
  <1>1. /\ l \in 1..Len(d) /\ d[l].visible /\ e.active = Chain(d[l].roots, b)
        /\ \A k \in l + 1..Len(d) : ~Lit(d, k, b)
        /\ HalfOf(e) = AsField(PartsTo(d, l - 1, b))
        /\ PartsTo(d, l - 1, b) # << >> => d[l].hard
    BY DEF Owns
  <1>2. /\ Len(d) \in Nat /\ Len(c) \in Nat /\ l \in 1..Len(c) /\ l - 1 \in 0..Len(d) /\ l - 1 <= Len(c)
        /\ \A k \in l + 1..Len(c) : (k \in 1..Len(d) /\ k \in l + 1..Len(d)) \/ k \in Len(d) + 1..Len(c)
        /\ \A k \in 1..l - 1 : k \in 1..Len(d)
    BY <1>1
  <1>3. Lit(d, l, b)
    BY <1>1 DEF Lit
  <1>4. Lit(c, l, b) /\ PartOf(d[l], b) = PartOf(c[l], b)
    BY <1>1, <1>3 DEF LitAlike
  <1>5. c[l].visible /\ Chain(d[l].roots, b) = Chain(c[l].roots, b) /\ d[l].hard = c[l].hard
    BY <1>4 DEF Lit, PartOf
  <1>6. \A k \in l + 1..Len(c) : ~Lit(c, k, b)
    BY <1>1, <1>2 DEF LitAlike
  <1>7. PartsTo(d, l - 1, b) = PartsTo(c, l - 1, b)
    <2>1. LitAlike(d, c, l - 1, b)
      BY <1>2 DEF LitAlike
    <2> QED
      BY <1>2, <2>1, PartsAlike
  <1>8. HalfOf(f) = HalfOf(e)
    BY DEF HalfOf
  <1> QED
    BY <1>1, <1>2, <1>5, <1>6, <1>7, <1>8 DEF Owns

\* An entry is answered with the field of the document that owns it.
LEMMA OwnedIsField ==
    ASSUME NEW d \in Seq(Layer), NEW l, NEW e, NEW b, Owns(d, l, e, b)
    PROVE  FoldLayersBelow(HalfOf(e), e.active) = Field(d, b)
  <1>1. /\ l \in 1..Len(d) /\ d[l].visible /\ e.active = Chain(d[l].roots, b)
        /\ \A k \in l + 1..Len(d) : ~Lit(d, k, b)
        /\ HalfOf(e) = AsField(PartsTo(d, l - 1, b))
        /\ PartsTo(d, l - 1, b) # << >> => d[l].hard
    BY DEF Owns
  <1>2. FoldLayersBelow(AsField(PartsTo(d, l - 1, b)), Chain(d[l].roots, b)) = Field(d, b)
    BY <1>1, FieldSplits
  <1> QED
    BY <1>1, <1>2

\* An entry over the half that lies beneath the active layer.
Under(e, b) ==
    \E t : TopOf(doc, t) /\ HalfOf(e) = AsField(PartsTo(doc, t - 1, b))

\* Such an entry is of the active layer once it has that layer's chain.
LEMMA UnderOwns ==
    ASSUME doc \in Seq(Layer), NEW e, NEW b, Under(e, b), JoinIsHardUnion(doc),
           e.active = Chain(Active(doc).roots, b)
    PROVE  \E l : Owns(doc, l, e, b)
  <1>1. PICK t : TopOf(doc, t) /\ HalfOf(e) = AsField(PartsTo(doc, t - 1, b))
    BY DEF Under
  <1>2. Active(doc) = doc[t]
    BY <1>1, ActiveIsTop
  <1>3. PartsTo(doc, t - 1, b) # << >> => doc[t].hard
    BY <1>1, BeneathTop
  <1>4. \A k \in t + 1..Len(doc) : ~Lit(doc, k, b)
    BY <1>1 DEF TopOf, Lit
  <1> QED
    BY <1>1, <1>2, <1>3, <1>4 DEF Owns, TopOf

-----------------------------------------------------------------------------
(* The invariant.                                                          *)

\* A document without the last n roots of a layer.
CutBack(d, l, n) == IF n = 0 THEN d ELSE [d EXCEPT ![l].roots = SubSeq(@, 1, Len(@) - n)]

\* The document without the last n appends of the log.
Before(n) == CutBack(doc, log.layer, n)

\* The log's reaches are those of the roots it appended.
LogReaches ==
    log.valid =>
        \A k \in 1..Len(log.reaches) :
            LET roots == doc[log.layer].roots
            IN  roots[Len(roots) - Len(log.reaches) + k].at = log.reaches[k]

\* An entry the present can be reached from: it is of the present, or the log
\* says what was appended since.
IsAlive(e) == e.dirty = Clean /\ (e.rev = revision \/ (log.valid /\ log.base <= e.rev))

\* What is true of an entry: while it can be brought forward it is of a layer
\* of the document as it was then; a prefix that may be folded onto lies over
\* the right half; and one an edit has reached the log cannot bring forward.
SeedRight(e, b) ==
    /\ IsAlive(e) /\ e.active # << >> => \E l : Owns(Before(revision - e.rev), l, e, b)
    /\ e.prefix.structure = structure /\ e.active # << >> /\ e.prefix.chain # << >> => Under(e, b)
    /\ e.dirty # Clean => e.rev < revision /\ (log.valid => e.rev < log.base)

SeedsRight == \A b \in DOMAIN resume.entries : SeedRight(resume.entries[b], b)

\* What is true of a refill between its walks and its stores, at the revision
\* it read.
TasksRight(f) ==
    f.phase = "walked" =>
        /\ f.now <= revision
        /\ f.now = revision =>
              /\ HasActive(doc) /\ JoinIsHardUnion(doc)
              /\ \A b \in DOMAIN f.tasks :
                    /\ f.tasks[b] = Chain(Active(doc).roots, b)
                    /\ b \in DOMAIN resume.entries => Under(resume.entries[b], b)

\* A cached prefix verified under the present structure is of the layer's
\* first roots.
CachedRight(c) ==
    /\ c.verified <= structure
    /\ c.verified = structure =>
          c.layer \in 1..Len(doc) /\ IsPrefix(c.roots, doc[c.layer].roots)

CacheRight ==
    /\ prefixes.witness <= structure
    /\ \A k \in DOMAIN prefixes.entries : CachedRight(prefixes.entries[k])

AnswerIInv ==
    /\ PrefixIInv
    /\ LogReaches
    /\ SeedsRight
    /\ \A r \in Readers : TasksRight(refills[r])
    /\ CacheRight

\* The kinds, out of the invariant.
LEMMA AnswerKinds ==
    ASSUME AnswerIInv
    PROVE  /\ SeedHeld /\ SeedTyped /\ LogTyped /\ LogFollows /\ Numbered(doc) /\ PrefixesHold /\ PassIsOfNow
           /\ doc \in Seq(Layer) /\ DOMAIN doc = 1..Len(doc) /\ Len(doc) \in Nat
           /\ \A l \in 1..Len(doc) : doc[l].id = l /\ doc[l] \in Layer /\ doc[l].roots \in Seq(Item)
                                     /\ Len(doc[l].roots) \in Nat
           /\ revision \in Nat /\ structure \in Nat /\ structure >= 1 /\ structure <= revision
           /\ LogReaches /\ SeedsRight /\ CacheRight
           /\ \A r \in Readers : TasksRight(refills[r])
  <1>1. /\ PrefixIInv /\ SeedHeld /\ SeedTyped /\ LogIInv /\ LogTyped /\ LogFollows /\ Numbered(doc)
        /\ PrefixesHold /\ PassIsOfNow
    BY DEF AnswerIInv, PrefixIInv, SeedHeld, LogIInv
  <1>2. /\ doc \in Seq(Layer) /\ DOMAIN doc = 1..Len(doc) /\ Len(doc) \in Nat
        /\ revision \in Nat /\ structure \in Nat /\ structure >= 1 /\ structure <= revision
    BY <1>1, SeedNumbers
  <1>3. ASSUME NEW l \in 1..Len(doc)
        PROVE  doc[l].id = l /\ doc[l] \in Layer /\ doc[l].roots \in Seq(Item) /\ Len(doc[l].roots) \in Nat
    <2>1. doc[l].id = l /\ doc[l] \in Layer
      BY <1>1, <1>2, ElementOfSeq DEF Numbered
    <2>2. doc[l].roots \in Seq(Item)
      BY <2>1 DEF Layer
    <2> QED
      BY <2>1, <2>2, LenProperties
  <1> QED
    BY <1>1, <1>2, <1>3 DEF AnswerIInv

\* The numbers of a log that stands.
LEMMA LogNumbers ==
    ASSUME AnswerIInv, log.valid
    PROVE  /\ log.at = revision /\ log.base + Len(log.nodes) = revision
           /\ log.base \in Nat /\ Len(log.nodes) \in Nat /\ Len(log.reaches) = Len(log.nodes)
           /\ log.layer \in 1..Len(doc)
           /\ Len(log.nodes) <= Len(doc[log.layer].roots)
           /\ IsTailOf(log.nodes, doc[log.layer].roots)
           /\ log.nodes \in Seq(Nat) /\ log.reaches \in Seq(Reach)
  <1>1. /\ log.at = revision /\ log.base + Len(log.nodes) = revision /\ log.layer \in 1..Len(doc)
        /\ IsTailOf(log.nodes, doc[log.layer].roots)
    BY AnswerKinds DEF LogFollows
  <1>2. log.base \in Nat /\ log.nodes \in Seq(Nat) /\ log.reaches \in Seq(Reach)
    BY AnswerKinds DEF LogTyped, Log
  <1>3. Len(log.reaches) = Len(log.nodes)
    BY AnswerKinds DEF SeedTyped
  <1>4. doc[log.layer].roots \in Seq(Item)
    BY <1>1, AnswerKinds
  <1> DEFINE roots == doc[log.layer].roots
             ids == NodeIds(roots)
  <1>5. ids \in Seq(Nat) /\ Len(ids) = Len(roots)
    BY <1>4, IdsOfRoots
  <1>6. IsSuffix(log.nodes, ids)
    BY <1>1 DEF IsTailOf
  <1> HIDE DEF ids
  <1>7. Len(log.nodes) <= Len(ids)
    BY <1>2, <1>5, <1>6, SuffixPointwise
  <1> QED
    BY <1>1, <1>2, <1>3, <1>5, <1>7

\* The document of n appends ago.
LEMMA BeforeIs ==
    ASSUME AnswerIInv, log.valid, NEW n \in 1..Len(log.nodes)
    PROVE  /\ Before(n) \in Seq(Layer) /\ Len(Before(n)) = Len(doc)
           /\ \A k \in 1..Len(doc) : /\ k # log.layer => Before(n)[k] = doc[k]
                                     /\ Before(n)[k].visible = doc[k].visible
                                     /\ Before(n)[k].hard = doc[k].hard
           /\ LET roots == doc[log.layer].roots
              IN  /\ roots \in Seq(Item) /\ n \in 0..Len(roots) /\ Len(roots) - n \in 0..Len(roots)
                  /\ Before(n)[log.layer].roots = SubSeq(roots, 1, Len(roots) - n)
  <1> DEFINE l == log.layer
             roots == doc[l].roots
             cut == SubSeq(roots, 1, Len(roots) - n)
             layer == [doc[l] EXCEPT !.roots = cut]
  <1>1. /\ l \in 1..Len(doc) /\ doc \in Seq(Layer) /\ doc[l] \in Layer /\ DOMAIN doc = 1..Len(doc)
        /\ roots \in Seq(Item) /\ Len(roots) \in Nat /\ Len(log.nodes) <= Len(roots)
        /\ Len(log.nodes) \in Nat
    BY AnswerKinds, LogNumbers
  <1> HIDE DEF l, roots
  <1>2. n \in 0..Len(roots) /\ Len(roots) - n \in 0..Len(roots) /\ n # 0
    BY <1>1
  <1>3. cut \in Seq(Item)
    BY <1>1, <1>2
  <1> HIDE DEF cut
  <1>4. Before(n) = [doc EXCEPT ![l] = layer]
    BY <1>1, <1>2 DEF Before, CutBack, l, roots, cut
  <1>5. layer \in Layer /\ layer.roots = cut /\ layer.visible = doc[l].visible /\ layer.hard = doc[l].hard
    BY <1>1, <1>3 DEF Layer
  <1> HIDE DEF layer
  <1>6. /\ Before(n) \in Seq(Layer) /\ Len(Before(n)) = Len(doc)
        /\ \A k \in 1..Len(doc) : Before(n)[k] = IF k = l THEN layer ELSE doc[k]
    BY <1>1, <1>4, <1>5, ExceptSeq
  <1>7. \A k \in 1..Len(doc) : /\ k # l => Before(n)[k] = doc[k]
                               /\ Before(n)[k].visible = doc[k].visible
                               /\ Before(n)[k].hard = doc[k].hard
    BY <1>5, <1>6
  <1>8. Before(n)[l].roots = cut
    BY <1>1, <1>5, <1>6
  <1> QED
    BY <1>1, <1>2, <1>6, <1>7, <1>8 DEF l, roots, cut

\* Appends that do not reach a brick leave the document lit alike there.
LEMMA UnreachedAlike ==
    ASSUME AnswerIInv, log.valid, NEW n \in 1..Len(log.nodes), NEW b,
           \A k \in Len(log.nodes) - n + 1..Len(log.nodes) : b \notin log.reaches[k]
    PROVE  LitAlike(Before(n), doc, Len(Before(n)), b)
  <1> DEFINE l == log.layer
             roots == doc[l].roots
             m == Len(roots) - n
             rest == SubSeq(roots, m + 1, Len(roots))
  <1>1. /\ Before(n) \in Seq(Layer) /\ Len(Before(n)) = Len(doc)
        /\ \A k \in 1..Len(doc) : /\ k # l => Before(n)[k] = doc[k]
                                  /\ Before(n)[k].visible = doc[k].visible
                                  /\ Before(n)[k].hard = doc[k].hard
        /\ roots \in Seq(Item) /\ n \in 0..Len(roots) /\ m \in 0..Len(roots)
        /\ Before(n)[l].roots = SubSeq(roots, 1, m)
    BY BeforeIs
  <1>2. /\ l \in 1..Len(doc) /\ Len(roots) \in Nat /\ Len(log.nodes) <= Len(roots)
        /\ Len(log.nodes) \in Nat /\ Len(log.reaches) = Len(log.nodes)
    BY AnswerKinds, LogNumbers
  <1>3. \A k \in 1..Len(log.reaches) : roots[Len(roots) - Len(log.reaches) + k].at = log.reaches[k]
    BY AnswerKinds DEF LogReaches
  <1> HIDE DEF roots, l
  <1>4. m + n = Len(roots) /\ m \in Nat /\ n \in Nat
    BY <1>2
  <1> HIDE DEF m
  <1>5. rest \in Seq(Item) /\ Len(rest) = n /\ \A k \in 1..n : rest[k] = roots[m + k]
    <2>1. m + 1 \in Int /\ Len(roots) \in Int
      BY <1>2, <1>4
    <2>2. \A i \in m + 1..Len(roots) : roots[i] \in Item
      <3>1. \A i \in m + 1..Len(roots) : i \in 1..Len(roots)
        BY <1>4
      <3> QED
        BY <1>1, <3>1, ElementOfSeq
    <2>3. /\ rest \in Seq(Item)
          /\ Len(rest) = IF m + 1 <= Len(roots) THEN Len(roots) - (m + 1) + 1 ELSE 0
          /\ \A i \in 1..Len(roots) - (m + 1) + 1 : rest[i] = roots[(m + 1) + i - 1]
      BY <2>1, <2>2, SubSeqProperties
    <2> HIDE DEF rest
    <2>4. Len(roots) - (m + 1) + 1 = n /\ m + 1 <= Len(roots)
      BY <1>2, <1>4
    <2>5. \A k \in 1..n : (m + 1) + k - 1 = m + k
      BY <1>4
    <2> QED
      BY <2>3, <2>4, <2>5
  <1> HIDE DEF rest
  <1>6. ASSUME NEW k \in 1..Len(rest) PROVE b \notin rest[k].at
    <2> DEFINE j == Len(log.nodes) - n + k
    <2>1. /\ j \in Len(log.nodes) - n + 1..Len(log.nodes) /\ j \in 1..Len(log.reaches)
          /\ Len(roots) - Len(log.reaches) + j = m + k
      <3> DEFINE len == Len(log.nodes)
                 size == Len(roots)
      <3>1. /\ len \in Nat /\ size \in Nat /\ n \in 1..len /\ k \in 1..n /\ m + n = size /\ m \in Nat
            /\ Len(log.reaches) = len
        BY <1>2, <1>4, <1>5
      <3> HIDE DEF len, size
      <3>2. len - n + k \in len - n + 1..len /\ len - n + k \in 1..len /\ size - len + (len - n + k) = m + k
        BY <3>1
      <3> QED
        BY <3>1, <3>2 DEF len, size
    <2> HIDE DEF j
    <2>2. roots[m + k].at = log.reaches[j]
      BY <1>3, <2>1
    <2> QED
      BY <1>5, <2>1, <2>2
  <1>7. Chain(rest, b) = << >>
    BY <1>5, <1>6, ChainNone
  <1>8. Chain(SubSeq(roots, 1, m), b) = Chain(roots, b)
    <2> DEFINE first == Chain(SubSeq(roots, 1, m), b)
    <2>1. first \o Chain(rest, b) = Chain(roots, b)
      BY <1>1, ChainSplits DEF rest
    <2>2. first \in Seq(Nat)
      <3>1. SubSeq(roots, 1, m) \in Seq(Item)
        BY <1>1
      <3> QED
        BY <3>1, ChainTyped
    <2> HIDE DEF first
    <2>3. first \o << >> = first
      BY <2>2, ConcatEmptySeq
    <2> QED
      BY <1>7, <2>1, <2>3 DEF first
  <1>9. \A k \in 1..Len(doc) : Chain(Before(n)[k].roots, b) = Chain(doc[k].roots, b)
    <2> TAKE k \in 1..Len(doc)
    <2>1. CASE k = l
      BY <1>1, <1>8, <2>1 DEF roots
    <2>2. CASE k # l
      BY <1>1, <2>2
    <2> QED
      BY <2>1, <2>2
  <1> QED
    BY <1>1, <1>9 DEF LitAlike, Lit, PartOf

\* An entry no append since has reached is of the present document.
LEMMA CarriedOwned ==
    ASSUME AnswerIInv, NEW b \in DOMAIN resume.entries,
           resume.entries[b].dirty = Clean, resume.entries[b].active # << >>,
           CarriedAcrossAppends(resume.entries[b].rev, b)
    PROVE  \E l : Owns(doc, l, resume.entries[b], b)
  <1> DEFINE e == resume.entries[b]
             n == revision - e.rev
  <1>1. /\ e.rev \in Nat /\ e.rev <= revision /\ revision \in Nat /\ SeedRight(e, b)
    BY AnswerKinds, SameAdvanced DEF SeedsRight
  <1>2. /\ e.dirty = Clean /\ e.active # << >> /\ CarriedAcrossAppends(e.rev, b)
    OBVIOUS
  <1> HIDE DEF e
  <1>3. CASE e.rev = revision
    <2>1. n = 0
      BY <1>1, <1>3
    <2>2. \E l : Owns(Before(n), l, e, b)
      BY <1>1, <1>2, <1>3 DEF SeedRight, IsAlive
    <2> QED
      BY <2>1, <2>2 DEF Before, CutBack, e
  <1>4. CASE e.rev # revision
    <2>1. /\ log.valid /\ e.rev \in log.base..log.at
          /\ \A k \in e.rev - log.base + 1..Len(log.reaches) : {b, Space} \cap log.reaches[k] = {}
      BY <1>2, <1>4 DEF CarriedAcrossAppends
    <2>2. /\ log.at = revision /\ log.base + Len(log.nodes) = revision
          /\ log.base \in Nat /\ Len(log.nodes) \in Nat /\ Len(log.reaches) = Len(log.nodes)
      BY <2>1, LogNumbers
    <2>3. /\ n \in 1..Len(log.nodes) /\ e.rev - log.base + 1 = Len(log.nodes) - n + 1 /\ log.base <= e.rev
      <3> DEFINE rev == e.rev
                 base == log.base
                 len == Len(log.nodes)
      <3>1. /\ rev \in Nat /\ base \in Nat /\ len \in Nat /\ revision \in Nat /\ rev <= revision
            /\ rev # revision /\ base + len = revision /\ rev \in base..revision
        BY <1>1, <1>4, <2>1, <2>2
      <3> HIDE DEF rev, base, len
      <3>2. /\ revision - rev \in 1..len /\ rev - base + 1 = len - (revision - rev) + 1 /\ base <= rev
        BY <3>1
      <3> QED
        BY <3>2 DEF rev, base, len
    <2> HIDE DEF n
    <2>4. \A k \in Len(log.nodes) - n + 1..Len(log.nodes) : b \notin log.reaches[k]
      BY <2>1, <2>2, <2>3
    <2>5. LitAlike(Before(n), doc, Len(Before(n)), b)
      BY <2>1, <2>3, <2>4, UnreachedAlike
    <2>6. PICK l : Owns(Before(n), l, e, b)
      BY <1>1, <1>2, <2>1, <2>3 DEF SeedRight, IsAlive, n
    <2>7. /\ Before(n) \in Seq(Layer) /\ Len(Before(n)) = Len(doc) /\ doc \in Seq(Layer) /\ Len(doc) \in Nat
          /\ \A k \in 1..Len(doc) : Before(n)[k].visible = doc[k].visible
      BY <2>1, <2>3, BeforeIs, AnswerKinds
    <2>8. e.below # NoBelow => TopOf(doc, l)
      <3>1. e.below # NoBelow => TopOf(Before(n), l)
        BY <2>6 DEF Owns
      <3> QED
        BY <2>7, <3>1, SameTop
    <2>9. \A k \in Len(Before(n)) + 1..Len(doc) : ~Lit(doc, k, b)
      BY <2>7
    <2>10. Len(Before(n)) <= Len(doc)
      BY <2>7
    <2>11. Owns(doc, l, e, b)
      BY <1>2, <2>5, <2>6, <2>7, <2>8, <2>9, <2>10, OwnsAlike
    <2> QED
      BY <2>11 DEF e
  <1> QED
    BY <1>3, <1>4

-----------------------------------------------------------------------------
(* What a brick is answered with.                                          *)

\* The active layer, and the hard union on what lies beneath it, are the field.
LEMMA TopFolds ==
    ASSUME doc \in Seq(Layer), NEW t, TopOf(doc, t), JoinIsHardUnion(doc), NEW b
    PROVE  FoldLayersBelow(AsField(PartsTo(doc, t - 1, b)), Chain(Active(doc).roots, b)) = Field(doc, b)
  <1>1. t \in 1..Len(doc) /\ doc[t].visible /\ \A k \in t + 1..Len(doc) : ~Lit(doc, k, b)
    BY DEF TopOf, Lit
  <1>2. PartsTo(doc, t - 1, b) # << >> => doc[t].hard
    BY BeneathTop
  <1>3. Active(doc) = doc[t]
    BY ActiveIsTop
  <1> QED
    BY <1>1, <1>2, <1>3, FieldSplits

\* The chain of the first roots, and the rest folded onto it.
LEMMA RefoldedIs ==
    ASSUME SeedTyped, HasActive(doc), NEW n \in 0..Len(Active(doc).roots), NEW b
    PROVE  /\ Refolded(Chain(SubSeq(Active(doc).roots, 1, n), b), n, b) = Chain(Active(doc).roots, b)
           /\ \A m \in Nat : m + n = Len(Active(doc).roots) =>
                 Chain(SubSeq(Active(doc).roots, 1, n), b) \o LastRoots(m, b) = Chain(Active(doc).roots, b)
  <1> DEFINE roots == Active(doc).roots
  <1>1. roots \in Seq(Item) /\ Len(roots) \in Nat
    BY ActiveTyped
  <1>2. \A m : LastRoots(m, b) = Chain(SubSeq(roots, Len(roots) - m + 1, Len(roots)), b)
    BY DEF LastRoots
  <1>3. n \in 0..Len(roots)
    OBVIOUS
  <1>4. Refolded(Chain(SubSeq(roots, 1, n), b), n, b)
            = Chain(SubSeq(roots, 1, n), b) \o LastRoots(Len(roots) - n, b)
    BY DEF Refolded
  <1> HIDE DEF roots
  <1>5. Chain(SubSeq(roots, 1, n), b) \o Chain(SubSeq(roots, n + 1, Len(roots)), b) = Chain(roots, b)
    BY <1>1, <1>3, ChainSplits
  <1>6. ASSUME NEW m \in Nat, m + n = Len(roots)
        PROVE  Chain(SubSeq(roots, 1, n), b) \o LastRoots(m, b) = Chain(roots, b)
    <2>1. Len(roots) - m + 1 = n + 1
      BY <1>1, <1>3, <1>6
    <2> QED
      BY <1>2, <1>5, <2>1
  <1>7. Len(roots) - n \in Nat /\ (Len(roots) - n) + n = Len(roots)
    BY <1>1, <1>3
  <1>8. Chain(SubSeq(roots, 1, n), b) \o LastRoots(Len(roots) - n, b) = Chain(roots, b)
    BY <1>6, <1>7
  <1> QED
    BY <1>4, <1>6, <1>8 DEF roots

\* A prefix of a sequence is its first elements.
LEMMA PrefixIs ==
    ASSUME NEW T, NEW s \in Seq(T), NEW t \in Seq(T), IsPrefix(s, t)
    PROVE  Len(s) \in 0..Len(t) /\ s = SubSeq(t, 1, Len(s))
  <1>1. Len(s) <= Len(t) /\ SubSeq(s, 1, Len(s)) = SubSeq(t, 1, Len(s))
    BY DEF IsPrefix
  <1>2. SubSeq(s, 1, Len(s)) = s
    BY SubSeqFull
  <1> QED
    BY <1>1, <1>2

\* What serves from the cache is of the active layer, which stands alone.
LEMMA ColdRight ==
    ASSUME AnswerIInv, NEW b, PrefixFound
    PROVE  /\ HasActive(doc) /\ ~HasBelow(doc)
           /\ Refolded(Chain(SourceRoots, b), Len(SourceRoots), b) = Chain(Active(doc).roots, b)
  <1> DEFINE k == BestUsable(Told, Active(doc))
             c == Told.entries[k]
  <1>1. SeedTyped /\ prefixes \in Caches /\ structure \in Nat /\ structure >= 1 /\ CacheRight
    BY AnswerKinds DEF SeedTyped
  <1>2. Told \in Caches /\ Told.entries = prefixes.entries /\ Told.witness = structure
    BY <1>1 DEF Told, Caches
  <1>3. HasActive(doc) /\ ~HasBelow(doc) /\ FindsUsable(Told, Active(doc))
    BY DEF PrefixFound
  <1>4. PICK t : TopOf(doc, t)
    BY <1>1, <1>3, ActiveTyped
  <1>5. /\ Active(doc) = doc[t] /\ t \in 1..Len(doc) /\ doc[t].id = t /\ doc[t] \in Layer
        /\ doc[t].roots \in Seq(Item)
    BY <1>4, ActiveIsTop, AnswerKinds DEF TopOf
  <1>6. Usable(Told, Active(doc)) # {} /\ Verifies(Told, k, Active(doc))
    BY <1>3 DEF FindsUsable
  <1>7. k \in Usable(Told, Active(doc))
    BY <1>2, <1>5, <1>6, BestIsUsable
  <1>8. k \in DOMAIN prefixes.entries /\ c.layer = t /\ c = prefixes.entries[k]
    BY <1>2, <1>5, <1>7 DEF Usable
  <1>9. c.roots \in Seq(Item) /\ SourceRoots = c.roots
    BY <1>1, <1>8, CachedAt DEF SourceRoots
  <1>10. IsPrefix(c.roots, doc[t].roots)
    <2>1. CASE Trusted(Told, k)
      <3>1. c.verified = structure
        BY <1>2, <2>1 DEF Trusted
      <3> QED
        BY <1>1, <1>8, <3>1 DEF CacheRight, CachedRight
    <2>2. CASE HasRoots(c, Active(doc))
      BY <1>5, <2>2 DEF HasRoots
    <2> QED
      BY <1>6, <2>1, <2>2 DEF Verifies
  <1> HIDE DEF c, k
  <1>11. Len(SourceRoots) \in 0..Len(doc[t].roots) /\ SourceRoots = SubSeq(doc[t].roots, 1, Len(SourceRoots))
    BY <1>5, <1>9, <1>10, PrefixIs
  <1> DEFINE n == Len(SourceRoots)
  <1>12. n \in 0..Len(Active(doc).roots) /\ SourceRoots = SubSeq(Active(doc).roots, 1, n)
    BY <1>5, <1>11
  <1> HIDE DEF n
  <1>13. Refolded(Chain(SubSeq(Active(doc).roots, 1, n), b), n, b) = Chain(Active(doc).roots, b)
    BY <1>1, <1>3, <1>12, RefoldedIs
  <1>14. Refolded(Chain(SourceRoots, b), n, b) = Chain(Active(doc).roots, b)
    BY <1>12, <1>13
  <1> QED
    BY <1>3, <1>14 DEF n

\* What is folded onto a prefix kept beside a seed.
LEMMA FrontierRight ==
    ASSUME AnswerIInv, NEW b, HasSeed(b), FrontierServes(b)
    PROVE  LET e == resume.entries[b]
           IN  /\ HasActive(doc) /\ JoinIsHardUnion(doc) /\ Under(e, b)
               /\ Refolded(e.prefix.chain, e.prefix.boundary, b) = Chain(Active(doc).roots, b)
  <1> DEFINE e == resume.entries[b]
             n == e.prefix.boundary
  <1>1. SeedTyped /\ PrefixesHold /\ SeedsRight
    BY AnswerKinds
  <1>2. b \in DOMAIN resume.entries /\ e.active # << >>
    BY DEF HasSeed, IsShaped
  <1>3. /\ HasActive(doc) /\ JoinIsHardUnion(doc)
        /\ e.prefix.structure = structure /\ e.prefix.chain # << >>
    BY DEF FrontierServes
  <1>4. TruePrefix(e.prefix, b) /\ SeedRight(e, b)
    BY <1>1, <1>2 DEF PrefixesHold, SeedsRight
  <1> HIDE DEF e
  <1>5. n \in 0..Len(Active(doc).roots) /\ e.prefix.chain = Chain(SubSeq(Active(doc).roots, 1, n), b)
    BY <1>3, <1>4 DEF TruePrefix
  <1>6. Under(e, b)
    BY <1>2, <1>3, <1>4 DEF SeedRight
  <1>7. Refolded(e.prefix.chain, n, b) = Chain(Active(doc).roots, b)
    <2> HIDE DEF n
    <2> QED
      BY <1>1, <1>3, <1>5, RefoldedIs
  <1> QED
    BY <1>3, <1>6, <1>7 DEF e

\* How many appends the log has since an entry.
LEMMA SinceIs ==
    ASSUME AnswerIInv, NEW b \in DOMAIN resume.entries, PlanResumeUsable(resume.entries[b].rev)
    PROVE  LET e == resume.entries[b]
               n == revision - e.rev
           IN  /\ log.valid /\ log.base <= e.rev
               /\ n \in 1..Len(log.nodes)
               /\ Len(AppendsSince(e.rev)) = n
  <1> DEFINE e == resume.entries[b]
             rev == e.rev
             base == log.base
             len == Len(log.nodes)
             since == AppendsSince(rev)
  <1>1. rev \in Nat /\ rev <= revision /\ revision \in Nat
    BY AnswerKinds, SameAdvanced
  <1>2. rev # revision /\ log.valid /\ since # << >>
    BY DEF PlanResumeUsable
  <1>3. /\ log.at = revision /\ base + len = revision /\ base \in Nat /\ len \in Nat
        /\ log.nodes \in Seq(Nat)
    BY <1>2, LogNumbers
  <1> HIDE DEF e
  <1>4. rev \in base..revision /\ since = SubSeq(log.nodes, rev - base + 1, len)
    BY <1>2, <1>3 DEF AppendsSince
  <1> HIDE DEF rev, base, since
  <1>5. Len(SubSeq(log.nodes, rev - base + 1, len)) =
            IF rev - base + 1 <= len THEN len - (rev - base + 1) + 1 ELSE 0
    <2>1. rev - base + 1 \in Int /\ len \in Int /\ rev - base + 1 >= 1
      BY <1>1, <1>3, <1>4
    <2>2. \A i \in rev - base + 1..len : log.nodes[i] \in Nat
      <3>1. \A i \in rev - base + 1..len : i \in 1..len
        BY <1>3, <2>1
      <3> QED
        BY <1>3, <3>1, ElementOfSeq
    <2> HIDE DEF len
    <2> QED
      BY <2>1, <2>2, SubSeqProperties
  <1> HIDE DEF len
  <1>6. /\ rev - base + 1 <= len /\ len - (rev - base + 1) + 1 = revision - rev
        /\ revision - rev \in 1..len /\ base <= rev
    BY <1>1, <1>2, <1>3, <1>4
  <1>7. Len(since) = revision - rev
    BY <1>4, <1>5, <1>6
  <1> QED
    BY <1>2, <1>6, <1>7 DEF e, rev, base, len, since

\* What the log folds onto an entry is what its layer has had since.
LEMMA SuffixRight ==
    ASSUME AnswerIInv, NEW b, HasSeed(b), PlanResumeUsable(resume.entries[b].rev)
    PROVE  LET e == resume.entries[b]
           IN  /\ HasActive(doc) /\ JoinIsHardUnion(doc) /\ Under(e, b)
               /\ e.active \o LastRoots(Len(AppendsSince(e.rev)), b) = Chain(Active(doc).roots, b)
  <1> DEFINE e == resume.entries[b]
             n == revision - e.rev
  <1>1. /\ b \in DOMAIN resume.entries /\ e.active # << >>
        /\ HasBelow(doc) <=> e.below # NoBelow
    BY DEF HasSeed, IsShaped
  <1>2. HasActive(doc) /\ JoinIsHardUnion(doc) /\ log.layer = Active(doc).id
    BY DEF PlanResumeUsable
  <1>3. /\ log.valid /\ log.base <= e.rev
        /\ n \in 1..Len(log.nodes)
        /\ Len(AppendsSince(e.rev)) = n
    BY <1>1, SinceIs
  <1>4. SeedRight(e, b) /\ e.rev \in Nat /\ revision \in Nat
    BY <1>1, AnswerKinds, SameAdvanced DEF SeedsRight
  <1>5. SeedTyped /\ doc \in Seq(Layer) /\ Len(doc) \in Nat
    BY AnswerKinds
  <1>6. log.base \in Nat
    BY <1>3, LogNumbers
  <1> HIDE DEF e
  <1>7. IsAlive(e)
    <2>1. ~(e.rev < log.base)
      BY <1>3, <1>4, <1>6
    <2>2. e.dirty = Clean
      BY <1>3, <1>4, <2>1 DEF SeedRight
    <2> QED
      BY <1>3, <2>2 DEF IsAlive
  <1>8. PICK l : Owns(Before(n), l, e, b)
    BY <1>1, <1>4, <1>7 DEF SeedRight
  <1>9. PICK t : TopOf(doc, t)
    BY <1>2, <1>5, ActiveTyped
  <1>10. Active(doc) = doc[t] /\ t \in 1..Len(doc) /\ log.layer = t
    <2>1. Active(doc) = doc[t] /\ t \in 1..Len(doc)
      BY <1>5, <1>9, ActiveIsTop DEF TopOf
    <2> QED
      BY <1>2, <2>1, AnswerKinds
  <1> HIDE DEF n
  <1>11. /\ Before(n) \in Seq(Layer) /\ Len(Before(n)) = Len(doc)
         /\ \A k \in 1..Len(doc) : k # t => Before(n)[k] = doc[k]
         /\ \A k \in 1..Len(doc) : Before(n)[k].visible = doc[k].visible
    BY <1>3, <1>10, BeforeIs
  <1>12. LET roots == doc[t].roots
         IN  /\ roots \in Seq(Item) /\ n \in 0..Len(roots) /\ Len(roots) - n \in 0..Len(roots)
             /\ Before(n)[t].roots = SubSeq(roots, 1, Len(roots) - n)
    BY <1>3, <1>10, BeforeIs
  <1>13. TopOf(Before(n), t)
    BY <1>5, <1>9, <1>11, SameTop
  <1>14. /\ l \in 1..Len(doc) /\ doc[l].visible
         /\ e.active = Chain(Before(n)[l].roots, b)
         /\ HalfOf(e) = AsField(PartsTo(Before(n), l - 1, b))
         /\ e.below # NoBelow => TopOf(Before(n), l)
    BY <1>8, <1>11 DEF Owns
  <1>15. l = t
    <2>1. l \in Nat /\ t \in Nat /\ l <= t
      BY <1>5, <1>9, <1>14, TopIsAbove
    <2>2. CASE e.below # NoBelow
      <3>1. t <= l
        BY <1>10, <1>11, <1>13, <1>14, <2>2, TopIsAbove DEF TopOf
      <3> QED
        BY <2>1, <3>1
    <2>3. CASE e.below = NoBelow
      <3>1. \A k \in 1..t - 1 : ~doc[k].visible
        BY <1>1, <1>5, <1>9, <2>3, BeneathTop
      <3>2. l # t => l \in 1..t - 1
        BY <1>14, <2>1
      <3> QED
        BY <1>14, <3>1, <3>2
    <2> QED
      BY <2>2, <2>3
  <1>16. PartsTo(Before(n), t - 1, b) = PartsTo(doc, t - 1, b)
    <2>1. /\ t - 1 \in 0..Len(Before(n)) /\ t - 1 <= Len(doc)
          /\ \A k \in 1..t - 1 : k \in 1..Len(doc) /\ k # t
      BY <1>5, <1>10, <1>11
    <2>2. LitAlike(Before(n), doc, t - 1, b)
      BY <1>11, <2>1 DEF LitAlike, Lit
    <2> QED
      BY <1>5, <1>11, <2>1, <2>2, PartsAlike
  <1>17. Under(e, b)
    BY <1>9, <1>14, <1>15, <1>16 DEF Under
  <1> DEFINE roots == doc[t].roots
             m == Len(roots) - n
  <1>18. m \in 0..Len(Active(doc).roots) /\ n \in Nat /\ n + m = Len(Active(doc).roots)
    <2>1. n \in 0..Len(roots) /\ Len(roots) \in Nat /\ roots = Active(doc).roots
      BY <1>10, <1>12
    <2> HIDE DEF roots
    <2> QED
      BY <2>1
  <1>19. e.active = Chain(SubSeq(Active(doc).roots, 1, m), b)
    BY <1>10, <1>12, <1>14, <1>15
  <1> HIDE DEF m
  <1>20. Chain(SubSeq(Active(doc).roots, 1, m), b) \o LastRoots(n, b) = Chain(Active(doc).roots, b)
    BY <1>2, <1>5, <1>18, RefoldedIs
  <1>21. e.active \o LastRoots(n, b) = Chain(Active(doc).roots, b)
    BY <1>19, <1>20
  <1> QED
    BY <1>2, <1>3, <1>17, <1>21 DEF e

\* What a resumed brick is stored with: the active layer's chain, over the half
\* beneath it.
TaskRight(b) ==
    /\ HasActive(doc) /\ JoinIsHardUnion(doc)
    /\ Serve(b).chain = Chain(Active(doc).roots, b)
    /\ b \in DOMAIN resume.entries /\ ~ColdServes(b) => Under(resume.entries[b], b)

\* The three ways a value is brought forward leave the active layer's chain.
LEMMA ResumedRight ==
    ASSUME AnswerIInv, NEW b, Serve(b).how \in {"suffix", "frontier", "prefix"}
    PROVE  TaskRight(b) /\ (~ColdServes(b) => HasSeed(b))
  <1> DEFINE e == resume.entries[b]
             since == AppendsSince(e.rev)
  <1>1. CASE /\ ColdServes(b)
             /\ Serve(b) = [how   |-> "prefix",
                            chain |-> Refolded(Chain(SourceRoots, b), Len(SourceRoots), b)]
    <2>1. PrefixFound
      BY <1>1 DEF ColdServes
    <2>2. /\ HasActive(doc) /\ ~HasBelow(doc)
          /\ Refolded(Chain(SourceRoots, b), Len(SourceRoots), b) = Chain(Active(doc).roots, b)
      BY <2>1, ColdRight
    <2>3. Serve(b).chain = Refolded(Chain(SourceRoots, b), Len(SourceRoots), b)
      BY <1>1
    <2> QED
      BY <1>1, <2>2, <2>3 DEF TaskRight, JoinIsHardUnion
  <1>2. CASE Serve(b) = [how |-> "walk"]
    <2>1. Serve(b).how = "walk"
      BY <1>2
    <2> QED
      BY <2>1
  <1>3. CASE Serve(b) = [how |-> "stored", chain |-> e.active]
    <2>1. Serve(b).how = "stored"
      BY <1>3
    <2> QED
      BY <2>1
  <1>4. CASE /\ HasSeed(b) /\ PlanResumeUsable(e.rev)
             /\ Serve(b) = [how |-> "suffix", chain |-> e.active \o LastRoots(Len(since), b)]
    <2>1. /\ HasActive(doc) /\ JoinIsHardUnion(doc) /\ Under(e, b)
          /\ e.active \o LastRoots(Len(since), b) = Chain(Active(doc).roots, b)
      BY <1>4, SuffixRight
    <2>2. Serve(b).chain = e.active \o LastRoots(Len(since), b)
      <3> DEFINE fold == e.active \o LastRoots(Len(since), b)
      <3>1. Serve(b) = [how |-> "suffix", chain |-> fold]
        BY <1>4
      <3> HIDE DEF fold
      <3>2. Serve(b).chain = fold
        BY <3>1
      <3> QED
        BY <3>2 DEF fold
    <2>3. Serve(b).chain = Chain(Active(doc).roots, b)
      BY <2>1, <2>2
    <2> QED
      BY <1>4, <2>1, <2>3 DEF TaskRight
  <1>5. CASE /\ HasSeed(b) /\ FrontierServes(b)
             /\ Serve(b) = [how   |-> "frontier",
                            chain |-> Refolded(e.prefix.chain, e.prefix.boundary, b)]
    <2>1. /\ HasActive(doc) /\ JoinIsHardUnion(doc) /\ Under(e, b)
          /\ Refolded(e.prefix.chain, e.prefix.boundary, b) = Chain(Active(doc).roots, b)
      BY <1>5, FrontierRight
    <2>2. Serve(b).chain = Refolded(e.prefix.chain, e.prefix.boundary, b)
      BY <1>5
    <2> QED
      BY <1>5, <2>1, <2>2 DEF TaskRight
  <1> HIDE DEF e, since
  <1> QED
    BY <1>1, <1>2, <1>3, <1>4, <1>5, ServeCases DEF e, since

\* A resumed value over the half beneath is the field.
LEMMA UnderIsField ==
    ASSUME doc \in Seq(Layer), JoinIsHardUnion(doc), NEW e, NEW b, Under(e, b)
    PROVE  FoldLayersBelow(HalfOf(e), Chain(Active(doc).roots, b)) = Field(doc, b)
  <1>1. PICK t : TopOf(doc, t) /\ HalfOf(e) = AsField(PartsTo(doc, t - 1, b))
    BY DEF Under
  <1> QED
    BY <1>1, TopFolds

\* Whatever a brick is answered with, it is the field.
LEMMA AnswersRight ==
    ASSUME AnswerIInv
    PROVE  EveryAnswerIsTheField
  <1>0. doc \in Seq(Layer) /\ SeedTyped
    BY AnswerKinds
  <1> SUFFICES ASSUME NEW b \in Bricks, Serve(b).how # "walk"
               PROVE  FoldLayersBelow(BelowOf(b), Serve(b).chain) = Field(doc, b)
    BY DEF EveryAnswerIsTheField
  <1> DEFINE e == resume.entries[b]
             since == AppendsSince(e.rev)
  <1>1. ASSUME HasSeed(b)
        PROVE  BelowOf(b) = HalfOf(e)
    BY <1>1 DEF BelowOf, HalfOf, HasSeed
  <1>2. ASSUME Serve(b).how \in {"suffix", "frontier", "prefix"}, HasSeed(b), ~ColdServes(b)
        PROVE  FoldLayersBelow(BelowOf(b), Serve(b).chain) = Field(doc, b)
    <2>1. /\ JoinIsHardUnion(doc) /\ Serve(b).chain = Chain(Active(doc).roots, b) /\ Under(e, b)
      BY <1>2, ResumedRight DEF TaskRight, HasSeed, IsShaped
    <2>2. FoldLayersBelow(HalfOf(e), Chain(Active(doc).roots, b)) = Field(doc, b)
      BY <1>0, <2>1, UnderIsField
    <2> QED
      BY <1>1, <1>2, <2>1, <2>2
  <1>3. CASE ColdServes(b) /\ Serve(b).how = "prefix"
    <2>1. /\ JoinIsHardUnion(doc) /\ Serve(b).chain = Chain(Active(doc).roots, b) /\ HasActive(doc)
      BY <1>3, ResumedRight DEF TaskRight
    <2>2. ~HasBelow(doc) /\ ~IsShaped(b)
      BY <1>3 DEF ColdServes, PrefixFound
    <2>3. PICK t : TopOf(doc, t)
      BY <1>0, <2>1, ActiveTyped
    <2>4. PartsTo(doc, t - 1, b) = << >>
      BY <1>0, <2>2, <2>3, BeneathTop
    <2>5. BelowOf(b) = AsField(PartsTo(doc, t - 1, b))
      BY <2>2, <2>4 DEF BelowOf, AsField
    <2>6. FoldLayersBelow(AsField(PartsTo(doc, t - 1, b)), Chain(Active(doc).roots, b)) = Field(doc, b)
      BY <1>0, <2>1, <2>3, TopFolds
    <2> QED
      BY <2>1, <2>5, <2>6
  <1>4. CASE HasSeed(b) /\ e.rev = revision /\ Serve(b) = [how |-> "stored", chain |-> e.active]
    <2>1. b \in DOMAIN resume.entries /\ e.active # << >>
      BY <1>4 DEF HasSeed, IsShaped
    <2>2. SeedRight(e, b) /\ e.rev \in Nat /\ revision \in Nat
      BY <2>1, AnswerKinds, SameAdvanced DEF SeedsRight
    <2>3. e.dirty = Clean
      <3>1. ~(e.rev < revision)
        BY <1>4, <2>2
      <3> HIDE DEF e
      <3> QED
        BY <2>2, <3>1 DEF SeedRight
    <2>4. CarriedAcrossAppends(e.rev, b)
      BY <1>4 DEF CarriedAcrossAppends
    <2>5. \E l : Owns(doc, l, e, b)
      BY <2>1, <2>3, <2>4, CarriedOwned
    <2>6. FoldLayersBelow(HalfOf(e), e.active) = Field(doc, b)
      BY <1>0, <2>5, OwnedIsField
    <2>7. Serve(b).chain = e.active
      BY <1>4
    <2> QED
      BY <1>1, <1>4, <2>6, <2>7
  <1>5. \/ ColdServes(b) /\ Serve(b).how = "prefix"
        \/ Serve(b).how = "walk"
        \/ HasSeed(b) /\ e.rev = revision /\ Serve(b) = [how |-> "stored", chain |-> e.active]
        \/ HasSeed(b) /\ Serve(b).how \in {"suffix", "frontier"}
    <2> DEFINE sources == Refolded(Chain(SourceRoots, b), Len(SourceRoots), b)
               fold == e.active \o LastRoots(Len(since), b)
               tail == Refolded(e.prefix.chain, e.prefix.boundary, b)
    <2>1. \/ ColdServes(b) /\ Serve(b) = [how |-> "prefix", chain |-> sources]
          \/ Serve(b) = [how |-> "walk"]
          \/ HasSeed(b) /\ e.rev = revision /\ Serve(b) = [how |-> "stored", chain |-> e.active]
          \/ HasSeed(b) /\ Serve(b) = [how |-> "suffix", chain |-> fold]
          \/ HasSeed(b) /\ Serve(b) = [how |-> "frontier", chain |-> tail]
      BY ServeCases
    <2> HIDE DEF sources, fold, tail
    <2> QED
      BY <2>1
  <1> HIDE DEF e
  <1> QED
    <2>1. CASE HasSeed(b) /\ Serve(b).how \in {"suffix", "frontier"}
      <3>1. CASE ~ColdServes(b)
        BY <1>2, <2>1, <3>1
      <3>2. CASE ColdServes(b)
        BY <2>1, <3>2 DEF ColdServes, HasSeed
      <3> QED
        BY <3>1, <3>2
    <2> QED
      BY <1>3, <1>4, <1>5, <2>1

-----------------------------------------------------------------------------
(* An edit of one layer's roots.                                           *)

\* What an edit makes of one layer's roots.
LEMMA WithRootsIs ==
    ASSUME SeedTyped, NEW l \in DOMAIN doc, NEW roots \in Seq(Item), NEW next \in Nat
    PROVE  LET d == WithRoots(l, roots, next)
           IN  /\ d \in Seq(Layer) /\ Len(d) = Len(doc)
               /\ \A m \in 1..Len(doc) : /\ m # l => d[m] = doc[m]
                                         /\ d[m].visible = doc[m].visible /\ d[m].hard = doc[m].hard
               /\ d[l].roots = roots
  <1> DEFINE layer == [doc[l] EXCEPT !.roots = roots, !.next = next]
  <1>1. doc \in Seq(Layer) /\ DOMAIN doc = 1..Len(doc) /\ Len(doc) \in Nat /\ doc[l] \in Layer
    BY SeedNumbers
  <1>2. layer \in Layer /\ layer.roots = roots /\ layer.visible = doc[l].visible /\ layer.hard = doc[l].hard
    BY <1>1 DEF Layer
  <1>3. WithRoots(l, roots, next) = [doc EXCEPT ![l] = layer]
    BY <1>1 DEF WithRoots, Layer
  <1> HIDE DEF layer
  <1>4. /\ [doc EXCEPT ![l] = layer] \in Seq(Layer) /\ Len([doc EXCEPT ![l] = layer]) = Len(doc)
        /\ \A m \in 1..Len(doc) : [doc EXCEPT ![l] = layer][m] = IF m = l THEN layer ELSE doc[m]
    BY <1>1, <1>2, ExceptSeq
  <1> DEFINE d == WithRoots(l, roots, next)
  <1>5. /\ d \in Seq(Layer) /\ Len(d) = Len(doc)
        /\ \A m \in 1..Len(doc) : d[m] = IF m = l THEN layer ELSE doc[m]
    BY <1>3, <1>4
  <1> HIDE DEF d
  <1>6. /\ \A m \in 1..Len(doc) : /\ m # l => d[m] = doc[m]
                                  /\ d[m].visible = doc[m].visible /\ d[m].hard = doc[m].hard
        /\ d[l].roots = roots
    BY <1>1, <1>2, <1>5
  <1> QED
    BY <1>5, <1>6 DEF d

\* A refill's walks are of a revision an edit leaves behind.
LEMMA TasksOvertaken ==
    ASSUME AnswerIInv, revision' = revision + 1, refills' = refills
    PROVE  \A r \in Readers : TasksRight(refills[r])'
  <1> SUFFICES ASSUME NEW r \in Readers PROVE TasksRight(refills[r])'
    OBVIOUS
  <1>1. TasksRight(refills[r]) /\ revision \in Nat /\ refills[r] \in Refills
    BY AnswerKinds DEF SeedTyped
  <1>2. refills'[r].phase = "walked" => /\ refills'[r].now <= revision' /\ refills'[r].now # revision'
    <2>1. refills[r].phase = "walked" => refills[r].now \in Nat
      BY <1>1 DEF Refills, Idle
    <2> QED
      BY <1>1, <2>1 DEF TasksRight
  <1> QED
    BY <1>2 DEF TasksRight

\* What the cache verified is of a structure an edit leaves behind.
LEMMA CacheOvertaken ==
    ASSUME AnswerIInv, structure' = structure + 1, prefixes' = prefixes
    PROVE  CacheRight'
  <1>1. CacheRight /\ structure \in Nat /\ prefixes \in Caches
    BY AnswerKinds DEF SeedTyped
  <1>2. prefixes.witness \in Nat
    BY <1>1 DEF Caches
  <1>3. prefixes'.witness <= structure'
    BY <1>1, <1>2 DEF CacheRight
  <1>4. ASSUME NEW k \in DOMAIN prefixes.entries
        PROVE  CachedRight(prefixes.entries[k])'
    <2>1. prefixes.entries[k].verified \in Nat
      BY <1>1, CachedAt DEF Cached
    <2>2. prefixes.entries[k].verified <= structure
      BY <1>1 DEF CacheRight, CachedRight
    <2>3. prefixes'.entries[k].verified <= structure' /\ prefixes'.entries[k].verified # structure'
      BY <1>1, <2>1, <2>2
    <2> QED
      BY <2>3 DEF CachedRight
  <1> QED
    BY <1>3, <1>4 DEF CacheRight

-----------------------------------------------------------------------------
(* An append.                                                              *)

\* What it writes.
LEMMA AppendIs ==
    ASSUME AnswerIInv, NEW l \in DOMAIN doc, NEW at \in Reaches, AppendItem(l, at)
    PROVE  LET item == NewItem(l, at)
               roots == doc[l].roots
           IN  /\ item \in Item /\ item.at = at
               /\ roots \in Seq(Item) /\ Len(roots) \in Nat /\ l \in 1..Len(doc)
               /\ doc' \in Seq(Layer) /\ Len(doc') = Len(doc)
               /\ \A m \in 1..Len(doc) : /\ m # l => doc'[m] = doc[m]
                                         /\ doc'[m].visible = doc[m].visible /\ doc'[m].hard = doc[m].hard
               /\ doc'[l].roots = Append(roots, item)
               /\ log' = LogAppend(log, l, doc[l].next, at)
  <1> DEFINE item == NewItem(l, at)
             roots == doc[l].roots
             grown == Append(roots, item)
             next == doc[l].next + 1
  <1>1. SeedTyped /\ Numbered(doc) /\ LogTyped /\ l \in 1..Len(doc) /\ DOMAIN doc = 1..Len(doc)
    BY AnswerKinds, SeedNumbers
  <1>2. item \in Item /\ next \in Nat /\ doc[l].id = l /\ roots \in Seq(Item)
    BY <1>1, NewItemTyped
  <1>3. item.at = at
    BY DEF NewItem
  <1>4. doc' = WithRoots(l, grown, next) /\ log' = LogAppend(log, l, doc[l].next, at)
    BY <1>2 DEF AppendItem, TouchAppended
  <1> HIDE DEF item, roots
  <1>5. grown \in Seq(Item) /\ Len(roots) \in Nat
    BY <1>2, LenProperties
  <1> HIDE DEF grown, next
  <1>6. /\ doc' \in Seq(Layer) /\ Len(doc') = Len(doc)
        /\ \A m \in 1..Len(doc) : /\ m # l => doc'[m] = doc[m]
                                  /\ doc'[m].visible = doc[m].visible /\ doc'[m].hard = doc[m].hard
        /\ doc'[l].roots = grown
    BY <1>1, <1>2, <1>4, <1>5, WithRootsIs
  <1> QED
    BY <1>1, <1>2, <1>3, <1>4, <1>5, <1>6 DEF item, roots, grown

\* The document of n appends ago is that of one more, after one more.
LEMMA AppendBefore ==
    ASSUME AnswerIInv, NEW l \in DOMAIN doc, NEW at \in Reaches, AppendItem(l, at), NEW n \in Nat,
           n = 0 \/ (log.valid /\ log.layer = l /\ n \in 1..Len(log.nodes))
    PROVE  /\ Before(n) \in Seq(Layer) /\ Before(n + 1)' \in Seq(Layer)
           /\ Len(Before(n)) = Len(doc) /\ Len(Before(n + 1)') = Len(doc)
           /\ \A m \in 1..Len(doc) : /\ Before(n + 1)'[m].visible = Before(n)[m].visible
                                     /\ Before(n + 1)'[m].hard = Before(n)[m].hard
                                     /\ Before(n + 1)'[m].roots = Before(n)[m].roots
  <1> DEFINE item == NewItem(l, at)
             roots == doc[l].roots
             grown == Append(roots, item)
  <1>1. /\ item \in Item /\ roots \in Seq(Item) /\ Len(roots) \in Nat /\ l \in 1..Len(doc)
        /\ doc' \in Seq(Layer) /\ Len(doc') = Len(doc)
        /\ \A m \in 1..Len(doc) : /\ m # l => doc'[m] = doc[m]
                                  /\ doc'[m].visible = doc[m].visible /\ doc'[m].hard = doc[m].hard
        /\ doc'[l].roots = grown
        /\ log' = LogAppend(log, l, doc[l].next, at)
    BY AppendIs
  <1>2. log'.layer = l
    BY <1>1 DEF LogAppend
  <1>3. doc \in Seq(Layer) /\ DOMAIN doc = 1..Len(doc) /\ Len(doc) \in Nat
    BY AnswerKinds
  <1> DEFINE kept == IF n = 0 THEN roots ELSE SubSeq(roots, 1, Len(roots) - n)
             cut == SubSeq(grown, 1, Len(grown) - (n + 1))
             layer == [doc'[l] EXCEPT !.roots = cut]
  <1>4. /\ Before(n) \in Seq(Layer) /\ Len(Before(n)) = Len(doc)
        /\ \A m \in 1..Len(doc) : /\ m # l => Before(n)[m] = doc[m]
                                  /\ Before(n)[m].visible = doc[m].visible
                                  /\ Before(n)[m].hard = doc[m].hard
        /\ Before(n)[l].roots = kept /\ n \in 0..Len(roots)
    <2>1. CASE n = 0
      BY <1>1, <1>3, <2>1 DEF Before, CutBack
    <2>2. CASE n # 0
      <3>1. log.valid /\ log.layer = l /\ n \in 1..Len(log.nodes)
        BY <2>2
      <3>2. /\ Before(n) \in Seq(Layer) /\ Len(Before(n)) = Len(doc)
            /\ \A m \in 1..Len(doc) : /\ m # l => Before(n)[m] = doc[m]
                                      /\ Before(n)[m].visible = doc[m].visible
                                      /\ Before(n)[m].hard = doc[m].hard
            /\ n \in 0..Len(roots) /\ Before(n)[l].roots = SubSeq(roots, 1, Len(roots) - n)
        BY <3>1, BeforeIs
      <3> QED
        BY <2>2, <3>2
    <2> QED
      BY <2>1, <2>2
  <1> HIDE DEF item, roots
  <1>5. /\ grown \in Seq(Item) /\ Len(grown) = Len(roots) + 1
        /\ \A k \in 1..Len(roots) : grown[k] = roots[k]
    BY <1>1, AppendProperties
  <1> HIDE DEF grown
  <1>6. Len(grown) - (n + 1) = Len(roots) - n /\ Len(roots) - n \in 0..Len(roots)
        /\ Len(roots) - n \in 0..Len(grown)
    BY <1>1, <1>4, <1>5
  <1> DEFINE size == Len(roots) - n
  <1>7. cut = SubSeq(grown, 1, size) /\ size \in 0..Len(roots) /\ size \in 0..Len(grown)
    BY <1>6
  <1>8. kept = SubSeq(roots, 1, size)
    <2>1. CASE n = 0
      <3>1. size = Len(roots)
        BY <1>1, <2>1
      <3> QED
        BY <1>1, <2>1, <3>1, SubSeqFull
    <2>2. CASE n # 0
      BY <2>2
    <2> QED
      BY <2>1, <2>2
  <1> HIDE DEF cut, kept, size
  <1>9. cut \in Seq(Item) /\ Len(cut) = size /\ \A k \in 1..size : cut[k] = grown[k]
    BY <1>5, <1>7
  <1>10. kept \in Seq(Item) /\ Len(kept) = size /\ \A k \in 1..size : kept[k] = roots[k]
    BY <1>1, <1>7, <1>8
  <1>11. cut = kept
    <2>1. \A k \in 1..size : k \in 1..Len(roots)
      BY <1>1, <1>7
    <2>2. \A k \in 1..size : cut[k] = kept[k]
      BY <1>5, <1>9, <1>10, <2>1
    <2> QED
      BY <1>9, <1>10, <2>2, SeqEqual
  <1>12. Before(n + 1)' = [doc' EXCEPT ![l] = layer]
    <2>1. n + 1 # 0
      OBVIOUS
    <2>2. Before(n + 1)' = [doc' EXCEPT ![l].roots = SubSeq(@, 1, Len(@) - (n + 1))]
      BY <1>2, <2>1 DEF Before, CutBack
    <2> QED
      BY <1>1, <2>2 DEF cut
  <1>13. doc'[l] \in Layer
    BY <1>1, ElementOfSeq
  <1>14. layer \in Layer /\ layer.roots = cut /\ layer.visible = doc'[l].visible /\ layer.hard = doc'[l].hard
    BY <1>9, <1>13 DEF Layer
  <1> HIDE DEF layer
  <1>15. /\ Before(n + 1)' \in Seq(Layer) /\ Len(Before(n + 1)') = Len(doc)
         /\ \A m \in 1..Len(doc) : Before(n + 1)'[m] = IF m = l THEN layer ELSE doc'[m]
    <2> DEFINE now == doc'
    <2>1. now \in Seq(Layer) /\ Len(now) = Len(doc) /\ l \in 1..Len(now)
      BY <1>1
    <2> HIDE DEF now
    <2>2. /\ [now EXCEPT ![l] = layer] \in Seq(Layer) /\ Len([now EXCEPT ![l] = layer]) = Len(doc)
          /\ \A m \in 1..Len(doc) : [now EXCEPT ![l] = layer][m] = IF m = l THEN layer ELSE now[m]
      BY <1>14, <2>1, ExceptSeq
    <2> QED
      BY <1>12, <2>2 DEF now
  <1>16. ASSUME NEW m \in 1..Len(doc)
         PROVE  /\ Before(n + 1)'[m].visible = Before(n)[m].visible
                /\ Before(n + 1)'[m].hard = Before(n)[m].hard
                /\ Before(n + 1)'[m].roots = Before(n)[m].roots
    <2>1. CASE m = l
      BY <1>1, <1>4, <1>11, <1>14, <1>15, <2>1
    <2>2. CASE m # l
      BY <1>1, <1>4, <1>15, <2>2
    <2> QED
      BY <2>1, <2>2
  <1> QED
    BY <1>4, <1>15, <1>16

\* An append, and the log says where it reaches.
LEMMA AppendLogged ==
    ASSUME AnswerIInv, NEW l \in DOMAIN doc, NEW at \in Reaches, AppendItem(l, at)
    PROVE  LogReaches'
  <1> DEFINE item == NewItem(l, at)
             roots == doc[l].roots
             goesOn == log.valid /\ log.layer = l /\ log.at = revision
             old == IF goesOn THEN log.reaches ELSE << >>
             size == Len(old)
  <1>1. /\ item \in Item /\ item.at = at /\ roots \in Seq(Item) /\ Len(roots) \in Nat
        /\ doc'[l].roots = Append(roots, item)
        /\ log' = LogAppend(log, l, doc[l].next, at)
    BY AppendIs
  <1>2. log'.layer = l /\ log'.reaches = Append(old, at)
    BY <1>1 DEF LogAppend
  <1>3. old \in Seq(Reach) /\ size \in Nat /\ size <= Len(roots)
        /\ \A k \in 1..size : roots[Len(roots) - size + k].at = old[k]
    <2>1. CASE goesOn
      <3>1. old = log.reaches
        BY <2>1
      <3> HIDE DEF old
      <3>2. log.reaches \in Seq(Reach) /\ Len(log.reaches) <= Len(roots) /\ Len(log.reaches) \in Nat
        BY <2>1, LogNumbers
      <3>3. \A k \in 1..Len(log.reaches) : roots[Len(roots) - Len(log.reaches) + k].at = log.reaches[k]
        BY <2>1, AnswerKinds DEF LogReaches
      <3> QED
        BY <3>1, <3>2, <3>3
    <2>2. CASE ~goesOn
      <3>1. old = << >>
        BY <2>2
      <3> HIDE DEF old
      <3> QED
        BY <1>1, <3>1
    <2> QED
      BY <2>1, <2>2
  <1>4. at \in Reach
    BY DocumentsAssumption
  <1> HIDE DEF old, roots, item
  <1>5. /\ Len(log'.reaches) = size + 1 /\ log'.reaches[size + 1] = at
        /\ \A k \in 1..size : log'.reaches[k] = old[k]
    BY <1>2, <1>3, <1>4, AppendProperties
  <1>6. /\ Len(doc'[l].roots) = Len(roots) + 1 /\ doc'[l].roots[Len(roots) + 1] = item
        /\ \A k \in 1..Len(roots) : doc'[l].roots[k] = roots[k]
    BY <1>1, AppendProperties
  <1> HIDE DEF size
  <1>7. ASSUME NEW k \in 1..size + 1
        PROVE  doc'[l].roots[(Len(roots) + 1) - (size + 1) + k].at = log'.reaches[k]
    <2>1. CASE k = size + 1
      <3>1. (Len(roots) + 1) - (size + 1) + k = Len(roots) + 1
        BY <1>1, <1>3, <2>1
      <3> QED
        BY <1>1, <1>5, <1>6, <2>1, <3>1
    <2>2. CASE k # size + 1
      <3>1. /\ k \in 1..size /\ (Len(roots) + 1) - (size + 1) + k = Len(roots) - size + k
            /\ Len(roots) - size + k \in 1..Len(roots)
        BY <1>1, <1>3, <2>2
      <3> QED
        BY <1>3, <1>5, <1>6, <3>1
    <2> QED
      BY <2>1, <2>2
  <1>8. \A k \in 1..Len(log'.reaches) :
            doc'[log'.layer].roots[Len(doc'[log'.layer].roots) - Len(log'.reaches) + k].at = log'.reaches[k]
    BY <1>2, <1>5, <1>6, <1>7
  <1> QED
    BY <1>8 DEF LogReaches

\* An entry of a document is one of the same document an append later.
LEMMA AppendOwned ==
    ASSUME AnswerIInv, NEW l \in DOMAIN doc, NEW at \in Reaches, AppendItem(l, at), NEW n \in Nat,
           n = 0 \/ (log.valid /\ log.layer = l /\ n \in 1..Len(log.nodes)),
           NEW o, NEW e, e.active # << >>, NEW b, Owns(Before(n), o, e, b)
    PROVE  \E m : Owns(Before(n + 1)', m, e, b)
  <1> DEFINE was == Before(n)
             now == Before(n + 1)'
  <1>1. /\ was \in Seq(Layer) /\ now \in Seq(Layer) /\ Len(was) = Len(doc) /\ Len(now) = Len(doc)
        /\ \A m \in 1..Len(doc) : /\ now[m].visible = was[m].visible /\ now[m].hard = was[m].hard
                                  /\ now[m].roots = was[m].roots
    BY AppendBefore
  <1>2. Owns(was, o, e, b)
    OBVIOUS
  <1> HIDE DEF was, now
  <1>3. Len(doc) \in Nat
    BY AnswerKinds
  <1>4. LitAlike(was, now, Len(was), b)
    BY <1>1 DEF LitAlike, Lit, PartOf
  <1>5. \A k \in Len(was) + 1..Len(now) : ~Lit(now, k, b)
    BY <1>1, <1>3
  <1>6. e.below # NoBelow => TopOf(now, o)
    <2>1. e.below # NoBelow => TopOf(was, o)
      BY <1>2 DEF Owns
    <2>2. \A m \in 1..Len(was) : was[m].visible = now[m].visible
      BY <1>1
    <2> QED
      BY <1>1, <2>1, <2>2, SameTop
  <1>7. Len(was) <= Len(now)
    BY <1>1, <1>3
  <1>8. Owns(now, o, e, b)
    BY <1>1, <1>2, <1>4, <1>5, <1>6, <1>7, OwnsAlike
  <1> QED
    BY <1>8 DEF now

\* An append leaves the store right.
LEMMA AppendRight ==
    ASSUME AnswerIInv, NEW l \in DOMAIN doc, NEW at \in Reaches, AppendItem(l, at)
    PROVE  LogReaches' /\ SeedsRight' /\ (\A r \in Readers : TasksRight(refills[r])') /\ CacheRight'
  <1>1. /\ revision' = revision + 1 /\ structure' = structure + 1
        /\ resume' = resume /\ refills' = refills /\ prefixes' = prefixes
    BY DEF AppendItem, TouchAppended
  <1>2. LogReaches' /\ (\A r \in Readers : TasksRight(refills[r])') /\ CacheRight'
    BY <1>1, AppendLogged, TasksOvertaken, CacheOvertaken
  <1>3. log' = LogAppend(log, l, doc[l].next, at)
    BY AppendIs
  <1> DEFINE goesOn == log.valid /\ log.layer = l /\ log.at = revision
  <1>4. log'.valid /\ log'.base = IF goesOn THEN log.base ELSE revision
    BY <1>3 DEF LogAppend
  <1>5. revision \in Nat /\ structure \in Nat /\ SeedTyped /\ SeedsRight /\ PrefixesHold
    BY AnswerKinds
  <1>6. log.base \in Nat
    BY <1>5 DEF SeedTyped, Log
  <1>7. ASSUME NEW b \in DOMAIN resume.entries
        PROVE  SeedRight(resume.entries[b], b)'
    <2> DEFINE e == resume.entries[b]
    <2>1. SeedRight(e, b) /\ e.rev \in Nat /\ e.rev <= revision /\ e \in Entry
      BY <1>5, SameAdvanced DEF SeedsRight
    <2>2. e' = e
      BY <1>1
    <2>3. e.prefix.structure # structure'
      <3>1. e.prefix.structure <= structure /\ e.prefix.structure \in Nat
        BY <1>5, <2>1 DEF PrefixesHold, Entry, Prefix
      <3> HIDE DEF e
      <3> QED
        BY <1>1, <1>5, <3>1
    <2> HIDE DEF e
    <2>4. ASSUME e.dirty # Clean
          PROVE  e.rev < revision' /\ e.rev < log'.base
      <3>1. e.rev < revision /\ (log.valid => e.rev < log.base)
        BY <2>1, <2>4 DEF SeedRight
      <3> QED
        BY <1>1, <1>4, <1>5, <2>1, <3>1
    <2>5. ASSUME e.dirty = Clean, e.rev = revision' \/ log'.base <= e.rev, e.active # << >>
          PROVE  \E m : Owns(CutBack(doc', log'.layer, revision' - e.rev), m, e, b)
      <3>1. PICK n \in Nat : n = revision - e.rev
        BY <1>5, <2>1
      <3>2. log'.base <= e.rev
        BY <1>1, <1>5, <2>1, <2>5
      <3>3. n = 0 \/ (log.valid /\ log.layer = l /\ n \in 1..Len(log.nodes))
        <4>1. CASE goesOn
          <5> DEFINE len == Len(log.nodes)
          <5>1. log.base + len = revision /\ len \in Nat
            BY <4>1, LogNumbers
          <5>2. log.base <= e.rev
            BY <1>4, <3>2, <4>1
          <5> HIDE DEF len
          <5>3. n = 0 \/ n \in 1..len
            BY <1>5, <1>6, <2>1, <3>1, <5>1, <5>2
          <5> QED
            BY <4>1, <5>3 DEF len
        <4>2. CASE ~goesOn
          BY <1>4, <1>5, <2>1, <3>1, <3>2, <4>2
        <4> QED
          BY <4>1, <4>2
      <3>4. revision' - e.rev = n + 1
        BY <1>1, <1>5, <2>1, <3>1
      <3>5. IsAlive(e)
        <4>1. CASE n = 0
          <5>1. e.rev = revision
            BY <1>5, <2>1, <3>1, <4>1
          <5> QED
            BY <2>5, <5>1 DEF IsAlive
        <4>2. CASE n # 0
          <5>1. goesOn
            BY <1>4, <1>5, <2>1, <3>1, <3>2, <4>2
          <5> QED
            BY <1>4, <2>5, <3>2, <5>1 DEF IsAlive
        <4> QED
          BY <4>1, <4>2
      <3>6. PICK o : Owns(Before(n), o, e, b)
        BY <2>1, <2>5, <3>1, <3>5 DEF SeedRight
      <3>7. \E m : Owns(Before(n + 1)', m, e, b)
        BY <2>5, <3>3, <3>6, AppendOwned
      <3> QED
        BY <3>4, <3>7 DEF Before
    <2>6. SeedRight(e, b)'
      BY <1>4, <2>2, <2>3, <2>4, <2>5 DEF SeedRight, IsAlive, Before
    <2> QED
      BY <2>6 DEF e
  <1>8. SeedsRight'
    BY <1>1, <1>7 DEF SeedsRight
  <1> QED
    BY <1>2, <1>8

-----------------------------------------------------------------------------
(* An edit over a region.                                                  *)

\* What an edit over a region leaves of an entry: its value and the half
\* beneath; and where it is clean and of the new revision, it is of the present
\* and the edit did not reach it.
KeptEntry(r, b, reach, frontier, newStructure) ==
    LET e == resume.entries[b]
        f == r.entries[b]
    IN  /\ b \in DOMAIN resume.entries
        /\ f.active = e.active /\ f.below = e.below /\ f.prefix = e.prefix
        /\ f.dirty # Clean => f.rev < revision + 1
        /\ f.dirty = Clean /\ f.rev = revision + 1 =>
              /\ b \notin reach
              /\ e.active # << >> => \E l : Owns(doc, l, e, b)
        /\ Space \notin reach
        /\ b \in reach => Keepable(e, frontier, newStructure)

\* So it does.
LEMMA RegionKeeps ==
    ASSUME AnswerIInv, NEW reach, NEW frontier \in Nat, NEW newStructure,
           NEW r, r = TouchRegion(reach, frontier, newStructure), NEW b \in DOMAIN r.entries
    PROVE  KeptEntry(r, b, reach, frontier, newStructure)
  <1> DEFINE e == resume.entries[b]
             f == r.entries[b]
             low == IF frontier < e.dirty THEN frontier ELSE e.dirty
  <1>1. SeedTyped
    BY AnswerKinds
  <1>2. RegionLeaves(r, reach, frontier, newStructure)
    BY <1>1, RegionTouched
  <1>3. /\ b \in DOMAIN resume.entries /\ Space \notin reach
        /\ f = Lagging(e, b, reach, frontier, newStructure)
        /\ b \in reach => Keepable(e, frontier, newStructure)
        /\ f.prefix = e.prefix
    BY <1>2 DEF RegionLeaves
  <1>4. e \in Entry /\ e.rev \in Nat /\ e.rev <= revision /\ revision \in Nat
    BY <1>1, <1>3, SameAdvanced
  <1>5. e.dirty \in Nat
    BY <1>4 DEF Entry
  <1>6. low \in Nat
    BY <1>5
  <1>7. f = IF b \in reach THEN [e EXCEPT !.dirty = low]
            ELSE IF e.dirty = Clean /\ CarriedAcrossAppends(e.rev, b)
            THEN [e EXCEPT !.rev = revision + 1] ELSE e
    BY <1>3, <1>4 DEF Lagging, Entry
  <1>8. e.dirty = Clean /\ e.active # << >> /\ CarriedAcrossAppends(e.rev, b) =>
            \E l : Owns(doc, l, e, b)
    BY <1>3, CarriedOwned
  <1> HIDE DEF e, f, low
  <1>9. /\ [e EXCEPT !.dirty = low].rev = e.rev /\ [e EXCEPT !.rev = revision + 1].dirty = e.dirty
        /\ [e EXCEPT !.dirty = low].active = e.active /\ [e EXCEPT !.dirty = low].below = e.below
        /\ [e EXCEPT !.rev = revision + 1].active = e.active
        /\ [e EXCEPT !.rev = revision + 1].below = e.below
    BY <1>4 DEF Entry
  <1>10. f.active = e.active /\ f.below = e.below
    BY <1>7, <1>9
  <1>11. e.rev < revision + 1 /\ e.rev # revision + 1
    BY <1>4
  <1>12. f.dirty # Clean => f.rev < revision + 1
    BY <1>7, <1>9, <1>11
  <1>13. ASSUME f.dirty = Clean, f.rev = revision + 1
         PROVE  b \notin reach /\ (e.active # << >> => \E l : Owns(doc, l, e, b))
    <2>1. b \notin reach
      BY <1>7, <1>9, <1>11, <1>13
    <2>2. e.dirty = Clean /\ CarriedAcrossAppends(e.rev, b)
      BY <1>7, <1>9, <1>11, <1>13, <2>1
    <2> QED
      BY <1>8, <2>1, <2>2
  <1> QED
    BY <1>3, <1>10, <1>12, <1>13 DEF e, f, KeptEntry

\* Where an edit that is no append leaves the document lit as it was.
LitOutside(reach) ==
    \A b : b \notin reach =>
        /\ LitAlike(doc, doc', Len(doc), b)
        /\ \A k \in Len(doc) + 1..Len(doc') : ~Lit(doc', k, b)

\* An entry over a half whose layer is the topmost still is, unless reached.
TopsStay(reach) ==
    \A b \in DOMAIN resume.entries : \A l :
        LET e == resume.entries[b]
        IN  b \notin reach /\ e.active # << >> /\ e.below # NoBelow /\ Owns(doc, l, e, b) =>
                TopOf(doc', l)

\* An entry with a prefix of the new structure stays over its half.
HalvesStay ==
    \A b \in DOMAIN resume.entries \cap DOMAIN resume'.entries :
        LET e == resume.entries[b]
        IN  e.prefix.structure = structure' /\ e.active # << >> /\ e.prefix.chain # << >> =>
                \E t : TopOf(doc', t) /\ HalfOf(e) = AsField(PartsTo(doc', t - 1, b))

\* An edit over a region leaves the store right.
LEMMA RegionRight ==
    ASSUME AnswerIInv, revision' = revision + 1, log' = Forgotten(log),
           NEW reach, NEW frontier \in Nat, resume' = TouchRegion(reach, frontier, structure'),
           doc' \in Seq(Layer), Len(doc) <= Len(doc'),
           LitOutside(reach), TopsStay(reach), HalvesStay
    PROVE  LogReaches' /\ SeedsRight'
  <1>1. ~log'.valid
    BY DEF Forgotten, AnswerIInv, PrefixIInv, SeedHeld, LogIInv, LogTyped, Log
  <1>2. LogReaches'
    BY <1>1 DEF LogReaches
  <1>3. doc \in Seq(Layer) /\ revision \in Nat
    BY AnswerKinds
  <1>4. ASSUME NEW b \in DOMAIN resume'.entries
        PROVE  SeedRight(resume.entries[b], b)'
    <2> DEFINE e == resume.entries[b]
               f == resume'.entries[b]
    <2>1. /\ b \in DOMAIN resume.entries
          /\ f.active = e.active /\ f.below = e.below /\ f.prefix = e.prefix
          /\ f.dirty # Clean => f.rev < revision + 1
          /\ f.dirty = Clean /\ f.rev = revision + 1 =>
                /\ b \notin reach
                /\ e.active # << >> => \E l : Owns(doc, l, e, b)
      <3> DEFINE r == resume'
                 s == structure'
      <3>1. r = TouchRegion(reach, frontier, s) /\ b \in DOMAIN r.entries
        OBVIOUS
      <3> HIDE DEF r, s
      <3>2. KeptEntry(r, b, reach, frontier, s)
        BY <3>1, RegionKeeps
      <3> QED
        BY <3>2 DEF r, KeptEntry
    <2>2. ASSUME f.dirty = Clean, f.rev = revision', f.active # << >>
          PROVE  \E l : Owns(doc', l, f, b)
      <3>1. b \notin reach /\ e.active # << >> /\ \E l : Owns(doc, l, e, b)
        BY <2>1, <2>2
      <3>2. PICK l : Owns(doc, l, e, b)
        BY <3>1
      <3>3. /\ LitAlike(doc, doc', Len(doc), b)
            /\ \A k \in Len(doc) + 1..Len(doc') : ~Lit(doc', k, b)
        BY <3>1 DEF LitOutside
      <3>4. f.below # NoBelow => TopOf(doc', l)
        BY <2>1, <3>1, <3>2 DEF TopsStay
      <3> HIDE DEF e, f
      <3>5. Owns(doc', l, f, b)
        BY <1>3, <2>1, <3>1, <3>2, <3>3, <3>4, OwnsAlike
      <3> QED
        BY <3>5
    <2>3. ASSUME f.prefix.structure = structure', f.active # << >>, f.prefix.chain # << >>
          PROVE  \E t : TopOf(doc', t) /\ HalfOf(f) = AsField(PartsTo(doc', t - 1, b))
      <3>1. \E t : TopOf(doc', t) /\ HalfOf(e) = AsField(PartsTo(doc', t - 1, b))
        BY <2>1, <2>3 DEF HalvesStay
      <3>2. HalfOf(f) = HalfOf(e)
        BY <2>1 DEF HalfOf
      <3> QED
        BY <3>1, <3>2
    <2> HIDE DEF e
    <2>4. f.dirty = Clean /\ f.rev = revision' =>
              CutBack(doc', log'.layer, revision' - f.rev) = doc'
      <3>1. f.rev = revision' => revision' - f.rev = 0
        BY <1>3
      <3> HIDE DEF f
      <3> QED
        BY <3>1 DEF CutBack
    <2> QED
      BY <1>1, <2>1, <2>2, <2>3, <2>4 DEF SeedRight, IsAlive, Before, Under
  <1> QED
    BY <1>2, <1>4 DEF SeedsRight

-----------------------------------------------------------------------------
(* A root inserted, or removed.                                            *)

\* Sequences that differ by the element at k, which one of them lacks.
OneMore(more, few, k) ==
    /\ k \in 1..Len(more) /\ Len(more) = Len(few) + 1
    /\ \A j \in 1..k - 1 : more[j] = few[j]
    /\ \A j \in k..Len(few) : more[j + 1] = few[j]

\* What InsertAt and RemoveAt make of a sequence.
LEMMA InsertedIs ==
    ASSUME NEW T, NEW s \in Seq(T), NEW x \in T, NEW k \in 1..Len(s)
    PROVE  /\ InsertAt(s, k, x) \in Seq(T) /\ OneMore(InsertAt(s, k, x), s, k)
           /\ InsertAt(s, k, x)[k] = x
  <1> DEFINE new == InsertAt(s, k, x)
             first == SubSeq(s, 1, k - 1)
             rest == SubSeq(s, k, Len(s))
             some == Append(first, x)
  <1>1. Len(s) \in Nat /\ k \in Nat /\ \A j \in 1..Len(s) : s[j] \in T
    OBVIOUS
  <1>2. first \in Seq(T) /\ Len(first) = k - 1 /\ \A j \in 1..k - 1 : first[j] = s[j]
    OBVIOUS
  <1>3. rest \in Seq(T) /\ Len(rest) = Len(s) - k + 1 /\ \A j \in 1..Len(s) - k + 1 : rest[j] = s[k + j - 1]
    <2>1. \A i \in k..Len(s) : s[i] \in T
      BY <1>1
    <2>2. /\ SubSeq(s, k, Len(s)) \in Seq(T)
          /\ Len(SubSeq(s, k, Len(s))) = IF k <= Len(s) THEN Len(s) - k + 1 ELSE 0
          /\ \A i \in 1..Len(s) - k + 1 : SubSeq(s, k, Len(s))[i] = s[k + i - 1]
      BY <2>1, SubSeqProperties
    <2> QED
      BY <2>2
  <1>4. some \in Seq(T) /\ Len(some) = k /\ some[k] = x /\ \A j \in 1..k - 1 : some[j] = first[j]
    <2> HIDE DEF first
    <2> QED
      BY <1>1, <1>2, AppendProperties
  <1>5. new = some \o rest
    <2>1. new = (first \o <<x>>) \o rest
      BY DEF InsertAt
    <2> HIDE DEF first, rest
    <2>2. first \o <<x>> = some
      BY <1>2
    <2> QED
      BY <2>1, <2>2
  <1> HIDE DEF new, first, rest, some
  <1>6. /\ new \in Seq(T) /\ Len(new) = Len(some) + Len(rest)
        /\ \A j \in 1..Len(some) + Len(rest) :
              new[j] = IF j <= Len(some) THEN some[j] ELSE rest[j - Len(some)]
    BY <1>3, <1>4, <1>5, ConcatProperties
  <1>7. Len(new) = Len(s) + 1
    BY <1>1, <1>3, <1>4, <1>6
  <1>8. ASSUME NEW j \in 1..k - 1 PROVE new[j] = s[j]
    <2>1. j \in 1..Len(some) + Len(rest) /\ j <= Len(some)
      BY <1>1, <1>3, <1>4
    <2> QED
      BY <1>2, <1>4, <1>6, <2>1
  <1>9. ASSUME NEW j \in k..Len(s) PROVE new[j + 1] = s[j]
    <2>1. /\ j + 1 \in 1..Len(some) + Len(rest) /\ ~(j + 1 <= Len(some))
          /\ (j + 1) - Len(some) \in 1..Len(s) - k + 1 /\ k + ((j + 1) - Len(some)) - 1 = j
      BY <1>1, <1>3, <1>4
    <2> DEFINE i == (j + 1) - Len(some)
    <2>2. new[j + 1] = rest[i]
      BY <1>6, <2>1
    <2>3. rest[i] = s[k + i - 1]
      BY <1>3, <2>1
    <2> QED
      BY <2>1, <2>2, <2>3
  <1>10. new[k] = x
    <2>1. k \in 1..Len(some) + Len(rest) /\ k <= Len(some)
      BY <1>1, <1>3, <1>4
    <2> QED
      BY <1>4, <1>6, <2>1
  <1>11. k \in 1..Len(new)
    BY <1>1, <1>7
  <1> QED
    BY <1>6, <1>7, <1>8, <1>9, <1>10, <1>11 DEF new, OneMore

\* A sequence with one element removed has one more than what is left.
LEMMA RemovedIs ==
    ASSUME NEW T, NEW s \in Seq(T), NEW k \in 1..Len(s)
    PROVE  RemoveAt(s, k) \in Seq(T) /\ OneMore(s, RemoveAt(s, k), k)
  <1> DEFINE new == RemoveAt(s, k)
             first == SubSeq(s, 1, k - 1)
             rest == SubSeq(s, k + 1, Len(s))
  <1>1. Len(s) \in Nat /\ k \in Nat /\ \A j \in 1..Len(s) : s[j] \in T
    OBVIOUS
  <1>2. first \in Seq(T) /\ Len(first) = k - 1 /\ \A j \in 1..k - 1 : first[j] = s[j]
    OBVIOUS
  <1>3. rest \in Seq(T) /\ Len(rest) = Len(s) - k /\ \A j \in 1..Len(s) - k : rest[j] = s[k + j]
    <2>1. \A i \in k + 1..Len(s) : s[i] \in T
      BY <1>1
    <2>2. /\ SubSeq(s, k + 1, Len(s)) \in Seq(T)
          /\ Len(SubSeq(s, k + 1, Len(s))) = IF k + 1 <= Len(s) THEN Len(s) - (k + 1) + 1 ELSE 0
          /\ \A i \in 1..Len(s) - (k + 1) + 1 : SubSeq(s, k + 1, Len(s))[i] = s[(k + 1) + i - 1]
      BY <1>1, <2>1, SubSeqProperties
    <2> HIDE DEF rest
    <2>3. Len(s) - (k + 1) + 1 = Len(s) - k
      BY <1>1
    <2>4. \A i \in 1..Len(s) - k : (k + 1) + i - 1 = k + i
      BY <1>1
    <2>5. (IF k + 1 <= Len(s) THEN Len(s) - (k + 1) + 1 ELSE 0) = Len(s) - k
      BY <1>1
    <2> QED
      BY <2>2, <2>3, <2>4, <2>5 DEF rest
  <1>4. new = first \o rest
    BY DEF RemoveAt
  <1> HIDE DEF new, first, rest
  <1>5. /\ new \in Seq(T) /\ Len(new) = Len(first) + Len(rest)
        /\ \A j \in 1..Len(first) + Len(rest) :
              new[j] = IF j <= Len(first) THEN first[j] ELSE rest[j - Len(first)]
    BY <1>2, <1>3, <1>4, ConcatProperties
  <1>6. Len(s) = Len(new) + 1 /\ Len(new) = Len(s) - 1
    BY <1>1, <1>2, <1>3, <1>5
  <1>7. ASSUME NEW j \in 1..k - 1 PROVE s[j] = new[j]
    <2>1. j \in 1..Len(first) + Len(rest) /\ j <= Len(first)
      BY <1>1, <1>2, <1>3
    <2> QED
      BY <1>2, <1>5, <2>1
  <1>8. ASSUME NEW j \in k..Len(new) PROVE s[j + 1] = new[j]
    <2>1. /\ j \in 1..Len(first) + Len(rest) /\ ~(j <= Len(first))
          /\ j - Len(first) \in 1..Len(s) - k /\ k + (j - Len(first)) = j + 1
      BY <1>1, <1>2, <1>3, <1>6
    <2> DEFINE i == j - Len(first)
    <2>2. new[j] = rest[i]
      BY <1>5, <2>1
    <2>3. rest[i] = s[k + i]
      BY <1>3, <2>1
    <2> QED
      BY <2>1, <2>2, <2>3
  <1> QED
    BY <1>5, <1>6, <1>7, <1>8 DEF new, OneMore

\* An item that does not reach a brick is nothing in the chain there.
LEMMA UnreachedItem ==
    ASSUME NEW more \in Seq(Item), NEW few \in Seq(Item), NEW k, OneMore(more, few, k), NEW b,
           b \notin more[k].at
    PROVE  Chain(more, b) = Chain(few, b)
  <1> DEFINE first == SubSeq(few, 1, k - 1)
             rest == SubSeq(few, (k - 1) + 1, Len(few))
  <1>1. /\ k \in 1..Len(more) /\ Len(more) = Len(few) + 1 /\ Len(few) \in Nat /\ k \in Nat
        /\ \A j \in 1..k - 1 : more[j] = few[j]
        /\ \A j \in k..Len(few) : more[j + 1] = few[j]
    BY DEF OneMore
  <1>2. /\ k - 1 \in 0..Len(few) /\ k - 1 \in 0..Len(more) /\ k \in 0..Len(more)
        /\ k - 1 \in 1 - 1..Len(more) - 1 /\ (k - 1) + 1 = k /\ 1 \in 1..Len(more)
    BY <1>1
  <1>3. first \in Seq(Item) /\ Len(first) = k - 1 /\ \A j \in 1..k - 1 : first[j] = few[j]
    BY <1>2
  <1> DEFINE head == SubSeq(more, 1, k - 1)
  <1>4. head \in Seq(Item) /\ Len(head) = k - 1 /\ \A j \in 1..k - 1 : head[j] = more[j]
    BY <1>2
  <1>5. SubSeq(more, 1, k) = Append(head, more[k]) /\ more[k] \in Item
    BY <1>2, SubSeqGrows
  <1> HIDE DEF head
  <1>6. head = first
    <2> HIDE DEF first
    <2> QED
      BY <1>1, <1>3, <1>4, SeqEqual
  <1>7. Chain(SubSeq(more, 1, k), b) = Chain(first, b)
    <2> DEFINE x == more[k]
    <2>1. x \in Item /\ b \notin x.at /\ SubSeq(more, 1, k) = Append(first, x)
      BY <1>5, <1>6
    <2> HIDE DEF first, x
    <2>2. Chain(Append(first, x), b) = Chain(first, b)
      BY <1>3, <2>1, ChainAppend
    <2> QED
      BY <2>1, <2>2
  <1>8. /\ rest \in Seq(Item) /\ Len(rest) = Len(few) - k + 1
        /\ \A j \in 1..Len(few) - k + 1 : rest[j] = few[k + j - 1]
    <2>1. \A i \in k..Len(few) : few[i] \in Item
      <3>1. \A i \in k..Len(few) : i \in 1..Len(few)
        BY <1>1
      <3> QED
        BY <3>1, ElementOfSeq
    <2>2. /\ SubSeq(few, k, Len(few)) \in Seq(Item)
          /\ Len(SubSeq(few, k, Len(few))) = IF k <= Len(few) THEN Len(few) - k + 1 ELSE 0
          /\ \A i \in 1..Len(few) - k + 1 : SubSeq(few, k, Len(few))[i] = few[k + i - 1]
      BY <1>1, <2>1, SubSeqProperties
    <2>3. (IF k <= Len(few) THEN Len(few) - k + 1 ELSE 0) = Len(few) - k + 1
      BY <1>1
    <2> HIDE DEF rest
    <2> QED
      BY <1>2, <2>2, <2>3 DEF rest
  <1> DEFINE tail == SubSeq(more, k + 1, Len(more))
  <1>9. /\ tail \in Seq(Item) /\ Len(tail) = Len(few) - k + 1
        /\ \A j \in 1..Len(few) - k + 1 : tail[j] = more[k + j]
    <2>1. \A i \in k + 1..Len(more) : more[i] \in Item
      <3>1. \A i \in k + 1..Len(more) : i \in 1..Len(more)
        BY <1>1
      <3> QED
        BY <3>1, ElementOfSeq
    <2>2. /\ SubSeq(more, k + 1, Len(more)) \in Seq(Item)
          /\ Len(SubSeq(more, k + 1, Len(more))) = IF k + 1 <= Len(more) THEN Len(more) - (k + 1) + 1 ELSE 0
          /\ \A i \in 1..Len(more) - (k + 1) + 1 : SubSeq(more, k + 1, Len(more))[i] = more[(k + 1) + i - 1]
      BY <1>1, <2>1, SubSeqProperties
    <2>3. /\ (IF k + 1 <= Len(more) THEN Len(more) - (k + 1) + 1 ELSE 0) = Len(few) - k + 1
          /\ Len(more) - (k + 1) + 1 = Len(few) - k + 1
          /\ \A i \in 1..Len(few) - k + 1 : (k + 1) + i - 1 = k + i
      BY <1>1
    <2> QED
      BY <2>2, <2>3
  <1> HIDE DEF tail, rest
  <1>10. tail = rest
    <2>1. ASSUME NEW j \in 1..Len(few) - k + 1 PROVE tail[j] = rest[j]
      <3> DEFINE i == k + j - 1
      <3>1. i \in k..Len(few) /\ i + 1 = k + j
        BY <1>1
      <3>2. more[i + 1] = few[i]
        BY <1>1, <3>1
      <3>3. tail[j] = more[k + j] /\ rest[j] = few[i]
        BY <1>8, <1>9
      <3> QED
        BY <3>1, <3>2, <3>3
    <2> QED
      BY <1>8, <1>9, <2>1, SeqEqual
  <1>11. Chain(SubSeq(more, 1, k), b) \o Chain(tail, b) = Chain(more, b)
    BY <1>2, ChainSplits DEF tail
  <1>12. Chain(first, b) \o Chain(rest, b) = Chain(few, b)
    BY <1>2, ChainSplits DEF rest
  <1> QED
    BY <1>7, <1>10, <1>11, <1>12

\* A layer leaves nothing where its items do not reach.
LEMMA OutOfInfluence ==
    ASSUME NEW layer \in Layer, NEW b, b \notin Influence(layer.roots)
    PROVE  Chain(layer.roots, b) = << >>
  <1>1. layer.roots \in Seq(Item)
    BY DEF Layer
  <1>2. \A k \in 1..Len(layer.roots) : b \notin layer.roots[k].at
    <2>1. DOMAIN layer.roots = 1..Len(layer.roots)
      BY <1>1
    <2> QED
      BY <2>1 DEF Influence
  <1> QED
    BY <1>1, <1>2, ChainNone

-----------------------------------------------------------------------------
(* The structural edits.                                                   *)

\* What an action is to leave right, besides the prefixes.
StoreRight == LogReaches /\ SeedsRight /\ (\A r \in Readers : TasksRight(refills[r])) /\ CacheRight

\* No prefix is of a structure to come.
LEMMA HalvesOvertaken ==
    ASSUME AnswerIInv, structure' = structure + 1
    PROVE  HalvesStay
  <1> SUFFICES ASSUME NEW b \in DOMAIN resume.entries
               PROVE  resume.entries[b].prefix.structure # structure'
    BY DEF HalvesStay
  <1> DEFINE e == resume.entries[b]
  <1>1. SeedTyped /\ structure \in Nat /\ e.prefix.structure <= structure
    BY AnswerKinds DEF PrefixesHold
  <1>2. e \in Entry
    BY <1>1, SameAdvanced
  <1> HIDE DEF e
  <1>3. e.prefix.structure \in Nat
    BY <1>2 DEF Entry, Prefix
  <1>4. e.prefix.structure # structure'
    <2>1. e.prefix.structure <= structure
      BY <1>1 DEF e
    <2> QED
      BY <1>1, <1>3, <2>1
  <1> QED
    BY <1>4 DEF e

\* A structural edit over a region leaves the store right.
LEMMA StructuralRight ==
    ASSUME AnswerIInv, NEW reach, TouchRegionStructural(reach),
           doc' \in Seq(Layer), Len(doc) <= Len(doc'), LitOutside(reach), TopsStay(reach)
    PROVE  StoreRight'
  <1>1. /\ structure' = structure + 1 /\ revision' = revision + 1
        /\ resume' = TouchRegion(reach, NoFrontier, structure') /\ log' = Forgotten(log)
        /\ refills' = refills /\ prefixes' = prefixes
    BY DEF TouchRegionStructural
  <1>2. HalvesStay
    BY <1>1, HalvesOvertaken
  <1>3. LogReaches' /\ SeedsRight'
    BY <1>1, <1>2, Numbers, RegionRight
  <1>4. (\A r \in Readers : TasksRight(refills[r])') /\ CacheRight'
    BY <1>1, TasksOvertaken, CacheOvertaken
  <1> QED
    BY <1>3, <1>4 DEF StoreRight

\* Where the same layers are seen, no half loses its top.
LEMMA SameTops ==
    ASSUME AnswerIInv, doc' \in Seq(Layer), Len(doc') = Len(doc),
           \A m \in 1..Len(doc) : doc'[m].visible = doc[m].visible, NEW reach
    PROVE  TopsStay(reach)
  <1> SUFFICES ASSUME NEW l, TopOf(doc, l) PROVE TopOf(doc', l)
    BY DEF TopsStay, Owns
  <1> DEFINE now == doc'
  <1>1. /\ doc \in Seq(Layer) /\ now \in Seq(Layer) /\ Len(doc) = Len(now)
        /\ \A m \in 1..Len(doc) : doc[m].visible = now[m].visible
    BY AnswerKinds
  <1> HIDE DEF now
  <1>2. TopOf(now, l)
    BY <1>1, SameTop
  <1> QED
    BY <1>2 DEF now

\* A layer's roots change, structurally.
LEMMA RootsRight ==
    ASSUME AnswerIInv, NEW l \in DOMAIN doc, NEW roots \in Seq(Item), NEW next \in Nat, NEW reach,
           doc' = WithRoots(l, roots, next), TouchRegionStructural(reach),
           \A b : b \notin reach => Chain(roots, b) = Chain(doc[l].roots, b)
    PROVE  StoreRight'
  <1>1. SeedTyped /\ doc \in Seq(Layer) /\ Len(doc) \in Nat /\ DOMAIN doc = 1..Len(doc)
    BY AnswerKinds
  <1>2. /\ doc' \in Seq(Layer) /\ Len(doc') = Len(doc)
        /\ \A m \in 1..Len(doc) : /\ m # l => doc'[m] = doc[m]
                                  /\ doc'[m].visible = doc[m].visible /\ doc'[m].hard = doc[m].hard
        /\ doc'[l].roots = roots
    BY <1>1, WithRootsIs
  <1>3. LitOutside(reach)
    <2> SUFFICES ASSUME NEW b, b \notin reach
                 PROVE  /\ LitAlike(doc, doc', Len(doc), b)
                        /\ \A k \in Len(doc) + 1..Len(doc') : ~Lit(doc', k, b)
      BY DEF LitOutside
    <2>1. \A m \in 1..Len(doc) : Chain(doc'[m].roots, b) = Chain(doc[m].roots, b)
      <3> TAKE m \in 1..Len(doc)
      <3>1. CASE m = l
        BY <1>2, <3>1
      <3>2. CASE m # l
        BY <1>2, <3>2
      <3> QED
        BY <3>1, <3>2
    <2> QED
      BY <1>1, <1>2, <2>1 DEF LitAlike, Lit, PartOf
  <1>4. TopsStay(reach)
    BY <1>2, SameTops
  <1>5. Len(doc) <= Len(doc')
    BY <1>1, <1>2
  <1> QED
    BY <1>2, <1>3, <1>4, <1>5, StructuralRight

\* An item inserted, or removed.
LEMMA InsertRight ==
    ASSUME AnswerIInv, NEW l \in DOMAIN doc, NEW k \in DOMAIN doc[l].roots, NEW at \in Reaches,
           InsertItem(l, k, at)
    PROVE  StoreRight'
  <1> DEFINE roots == doc[l].roots
             item == NewItem(l, at)
             more == InsertAt(roots, k, item)
             next == doc[l].next + 1
  <1>1. SeedTyped /\ Numbered(doc) /\ LogTyped
    BY AnswerKinds, SeedNumbers
  <1>2. item \in Item /\ next \in Nat /\ roots \in Seq(Item) /\ k \in 1..Len(roots)
    <2>1. item \in Item /\ next \in Nat /\ roots \in Seq(Item)
      BY <1>1, NewItemTyped
    <2> QED
      BY <2>1
  <1>3. item.at = at
    BY DEF NewItem
  <1>4. doc' = WithRoots(l, more, next) /\ TouchRegionStructural(at)
    BY DEF InsertItem
  <1> HIDE DEF item, next, roots
  <1>5. more \in Seq(Item) /\ OneMore(more, roots, k) /\ more[k] = item
    BY <1>2, InsertedIs
  <1> HIDE DEF more
  <1>6. \A b : b \notin at => Chain(more, b) = Chain(roots, b)
    BY <1>2, <1>3, <1>5, UnreachedItem
  <1> QED
    BY <1>2, <1>4, <1>5, <1>6, RootsRight DEF roots

\* An item removed leaves the seeds right too.
LEMMA RemoveRight ==
    ASSUME AnswerIInv, NEW l \in DOMAIN doc, NEW k \in DOMAIN doc[l].roots, RemoveItem(l, k)
    PROVE  StoreRight'
  <1> DEFINE roots == doc[l].roots
             few == RemoveAt(roots, k)
             next == doc[l].next
             at == roots[k].at
  <1>1. doc[l] \in Layer
    BY AnswerKinds, SeedNumbers
  <1>2. next \in Nat /\ roots \in Seq(Item) /\ k \in 1..Len(roots)
    <2>1. next \in Nat /\ roots \in Seq(Item)
      BY <1>1 DEF Layer
    <2> QED
      BY <2>1
  <1>3. doc' = WithRoots(l, few, next) /\ TouchRegionStructural(at)
    BY DEF RemoveItem
  <1> HIDE DEF next, roots
  <1>4. few \in Seq(Item) /\ OneMore(roots, few, k)
    BY <1>2, RemovedIs
  <1> HIDE DEF few
  <1>5. \A b : b \notin at => Chain(roots, b) = Chain(few, b)
    BY <1>2, <1>4, UnreachedItem
  <1> QED
    BY <1>2, <1>3, <1>4, <1>5, RootsRight DEF roots

-----------------------------------------------------------------------------
(* A layer changed, or added.                                              *)

\* What SetVisible and SetComposition make of the document.
LEMMA FlippedIs ==
    ASSUME AnswerIInv, NEW l \in DOMAIN doc
    PROVE  /\ l \in 1..Len(doc) /\ doc[l] \in Layer
           /\ SetVisible(l) => /\ doc' \in Seq(Layer) /\ Len(doc') = Len(doc)
                               /\ \A m \in 1..Len(doc) : m # l => doc'[m] = doc[m]
                               /\ doc'[l].roots = doc[l].roots /\ doc'[l].id = l
                               /\ doc'[l].visible = ~doc[l].visible
           /\ SetComposition(l) => /\ doc' \in Seq(Layer) /\ Len(doc') = Len(doc)
                                   /\ \A m \in 1..Len(doc) : m # l => doc'[m] = doc[m]
                                   /\ \A m \in 1..Len(doc) : doc'[m].visible = doc[m].visible
                                   /\ doc'[l].roots = doc[l].roots /\ doc'[l].id = l
  <1>1. /\ doc \in Seq(Layer) /\ l \in 1..Len(doc) /\ doc[l] \in Layer /\ doc[l].id = l
    BY AnswerKinds
  <1> DEFINE seen == [doc[l] EXCEPT !.visible = ~@]
             joined == [doc[l] EXCEPT !.hard = ~@]
  <1>2. /\ seen \in Layer /\ seen.roots = doc[l].roots /\ seen.id = l /\ seen.visible = ~doc[l].visible
    BY <1>1 DEF Layer
  <1>3. /\ joined \in Layer /\ joined.roots = doc[l].roots /\ joined.id = l
        /\ joined.visible = doc[l].visible
    BY <1>1 DEF Layer
  <1>4. SetVisible(l) => doc' = [doc EXCEPT ![l] = seen]
    BY <1>1 DEF SetVisible
  <1>5. SetComposition(l) => doc' = [doc EXCEPT ![l] = joined]
    BY <1>1 DEF SetComposition
  <1> HIDE DEF seen, joined
  <1>6. /\ [doc EXCEPT ![l] = seen] \in Seq(Layer) /\ Len([doc EXCEPT ![l] = seen]) = Len(doc)
        /\ \A m \in 1..Len(doc) : [doc EXCEPT ![l] = seen][m] = IF m = l THEN seen ELSE doc[m]
    BY <1>1, <1>2, ExceptSeq
  <1>7. /\ [doc EXCEPT ![l] = joined] \in Seq(Layer) /\ Len([doc EXCEPT ![l] = joined]) = Len(doc)
        /\ \A m \in 1..Len(doc) : [doc EXCEPT ![l] = joined][m] = IF m = l THEN joined ELSE doc[m]
    BY <1>1, <1>3, ExceptSeq
  <1>8. ASSUME SetVisible(l)
        PROVE  /\ doc' \in Seq(Layer) /\ Len(doc') = Len(doc)
               /\ \A m \in 1..Len(doc) : doc'[m] = IF m = l THEN seen ELSE doc[m]
    BY <1>4, <1>6, <1>8
  <1>9. ASSUME SetComposition(l)
        PROVE  /\ doc' \in Seq(Layer) /\ Len(doc') = Len(doc)
               /\ \A m \in 1..Len(doc) : doc'[m] = IF m = l THEN joined ELSE doc[m]
    BY <1>5, <1>7, <1>9
  <1> QED
    BY <1>1, <1>2, <1>3, <1>8, <1>9

\* What is over a layer's influence alone leaves the rest lit as it was.
LEMMA InfluenceOutside ==
    ASSUME AnswerIInv, NEW l \in DOMAIN doc, doc' \in Seq(Layer), Len(doc') = Len(doc),
           \A m \in 1..Len(doc) : m # l => doc'[m] = doc[m], doc'[l].roots = doc[l].roots
    PROVE  LitOutside(Influence(doc[l].roots))
  <1> SUFFICES ASSUME NEW b, b \notin Influence(doc[l].roots)
               PROVE  /\ LitAlike(doc, doc', Len(doc), b)
                      /\ \A k \in Len(doc) + 1..Len(doc') : ~Lit(doc', k, b)
    BY DEF LitOutside
  <1>1. doc[l] \in Layer /\ Len(doc) \in Nat
    BY AnswerKinds
  <1>2. Chain(doc[l].roots, b) = << >>
    BY <1>1, OutOfInfluence
  <1>3. ~Lit(doc, l, b) /\ ~Lit(doc', l, b)
    BY <1>2 DEF Lit
  <1>4. LitAlike(doc, doc', Len(doc), b)
    BY <1>3 DEF LitAlike, Lit
  <1> QED
    BY <1>1, <1>4

\* No host brings a layer in over a half that is kept.
LEMMA NoNewTop ==
    ASSUME AnswerIInv, "newTopLayer" \notin Calls, doc' \in Seq(Layer), KeepsTop(doc'),
           NEW b \in DOMAIN resume.entries, resume.entries[b].below # NoBelow,
           NEW t, TopOf(doc, t), NEW l, t < l, l - 1 <= Len(doc), doc'[l].id = l,
           \A k \in 1..l - 1 : doc'[k] = doc[k]
    PROVE  ~TopOf(doc', l)
  <1> SUFFICES ASSUME TopOf(doc', l) PROVE FALSE
    OBVIOUS
  <1> DEFINE now == doc'
  <1>1. doc \in Seq(Layer) /\ now \in Seq(Layer) /\ TopOf(now, l) /\ \A k \in 1..l - 1 : now[k] = doc[k]
    BY AnswerKinds
  <1>2. t \in 1..Len(doc) /\ doc[t].id = t
    BY AnswerKinds DEF TopOf
  <1> HIDE DEF now
  <1>3. /\ Len(VisibleLayers(now)) > Len(VisibleLayers(doc))
        /\ Active(doc) = doc[t] /\ Active(now) = now[l]
    BY <1>1, OneMoreSeen
  <1>4. Active(now).id = l /\ Active(doc).id = t
    BY <1>2, <1>3 DEF now
  <1>5. l # t
    BY <1>2
  <1>6. RaisesTop(now)
    BY <1>3, <1>4, <1>5 DEF RaisesTop
  <1> QED
    BY <1>6 DEF KeepsTop, now

\* A layer is shown or hidden.
LEMMA VisibleRight ==
    ASSUME AnswerIInv, "newTopLayer" \notin Calls, NEW s \in DOMAIN doc, SetVisible(s)
    PROVE  StoreRight'
  <1> DEFINE reach == Influence(doc[s].roots)
  <1>1. /\ doc \in Seq(Layer) /\ Len(doc) \in Nat /\ DOMAIN doc = 1..Len(doc)
    BY AnswerKinds
  <1>2. /\ s \in 1..Len(doc) /\ doc[s] \in Layer
        /\ doc' \in Seq(Layer) /\ Len(doc') = Len(doc)
        /\ \A m \in 1..Len(doc) : m # s => doc'[m] = doc[m]
        /\ doc'[s].roots = doc[s].roots /\ doc'[s].id = s
        /\ doc'[s].visible = ~doc[s].visible
    BY FlippedIs
  <1>3. KeepsTop(doc') /\ TouchRegionStructural(reach)
    BY DEF SetVisible
  <1>4. LitOutside(reach)
    BY <1>2, InfluenceOutside
  <1> HIDE DEF reach
  <1>5. TopsStay(reach)
    <2> SUFFICES ASSUME NEW b \in DOMAIN resume.entries, NEW l, b \notin reach,
                        resume.entries[b].active # << >>, resume.entries[b].below # NoBelow,
                        Owns(doc, l, resume.entries[b], b)
                 PROVE  TopOf(doc', l)
      BY DEF TopsStay
    <2>1. TopOf(doc, l) /\ resume.entries[b].active = Chain(doc[l].roots, b)
      BY DEF Owns
    <2>2. l \in 1..Len(doc) /\ doc[l].visible /\ \A k \in l + 1..Len(doc) : ~doc[k].visible
      BY <2>1 DEF TopOf
    <2>3. s # l
      <3>1. Chain(doc[s].roots, b) = << >>
        BY <1>2, OutOfInfluence DEF reach
      <3> QED
        BY <2>1, <3>1
    <2>4. CASE s < l
      <3>1. \A k \in l + 1..Len(doc) : k \in 1..Len(doc) /\ k # s
        BY <1>1, <1>2, <2>2, <2>4
      <3> QED
        BY <1>2, <2>2, <2>3, <3>1 DEF TopOf
    <2>5. CASE l < s
      <3>1. s \in l + 1..Len(doc)
        BY <1>2, <2>2, <2>5
      <3>2. doc'[s].visible
        BY <1>2, <2>2, <3>1
      <3>3. /\ \A k \in s + 1..Len(doc) : k \in 1..Len(doc) /\ k # s /\ k \in l + 1..Len(doc)
            /\ \A k \in 1..s - 1 : k \in 1..Len(doc) /\ k # s
            /\ s - 1 <= Len(doc)
        BY <1>1, <1>2, <2>2, <2>5
      <3>4. TopOf(doc', s)
        BY <1>2, <2>2, <3>2, <3>3 DEF TopOf
      <3>5. \A k \in 1..s - 1 : doc'[k] = doc[k]
        BY <1>2, <3>3
      <3>6. ~TopOf(doc', s)
        BY <1>2, <1>3, <2>1, <2>5, <3>3, <3>5, NoNewTop
      <3> QED
        BY <3>4, <3>6
    <2>6. s < l \/ l < s
      BY <1>1, <1>2, <2>2, <2>3
    <2> QED
      BY <2>4, <2>5, <2>6
  <1>6. Len(doc) <= Len(doc')
    BY <1>1, <1>2
  <1> QED
    BY <1>2, <1>3, <1>4, <1>5, <1>6, StructuralRight

\* A layer is added.
LEMMA AddedRight ==
    ASSUME AnswerIInv, "newTopLayer" \notin Calls, NEW hard \in BOOLEAN, AddLayer(hard)
    PROVE  StoreRight'
  <1> DEFINE n == Len(doc) + 1
             layer == [id |-> n, visible |-> TRUE, hard |-> hard, roots |-> << >>, next |-> 1]
  <1>1. doc \in Seq(Layer) /\ Len(doc) \in Nat /\ DOMAIN doc = 1..Len(doc)
    BY AnswerKinds
  <1>2. doc' = Append(doc, layer) /\ KeepsTop(doc') /\ TouchRegionStructural({})
    BY DEF AddLayer
  <1>3. layer \in Layer /\ layer.id = n /\ layer.visible = TRUE /\ layer.roots = << >>
    <2>1. << >> \in Seq(Item) /\ n \in Nat
      BY <1>1
    <2> QED
      BY <2>1 DEF Layer
  <1> HIDE DEF layer
  <1>4. /\ doc' \in Seq(Layer) /\ Len(doc') = n /\ doc'[n] = layer
        /\ \A k \in 1..Len(doc) : doc'[k] = doc[k]
    BY <1>1, <1>2, <1>3, AppendProperties
  <1>5. n \in Nat /\ n \in 1..n /\ n - 1 = Len(doc) /\ n - 1 <= Len(doc) /\ Len(doc) <= n
    BY <1>1
  <1>6. TopOf(doc', n)
    <2>1. \A k \in n + 1..n : ~doc'[k].visible
      BY <1>5
    <2> QED
      BY <1>3, <1>4, <1>5, <2>1 DEF TopOf
  <1>7. LitOutside({})
    <2> SUFFICES ASSUME NEW b
                 PROVE  /\ LitAlike(doc, doc', Len(doc), b)
                        /\ \A k \in Len(doc) + 1..Len(doc') : ~Lit(doc', k, b)
      BY DEF LitOutside
    <2>1. LitAlike(doc, doc', Len(doc), b)
      BY <1>4 DEF LitAlike, Lit
    <2>2. ~Lit(doc', n, b)
      <3>1. Chain(layer.roots, b) = << >>
        <4>1. layer.roots \in Seq(Item) /\ \A k \in 1..Len(layer.roots) : b \notin layer.roots[k].at
          BY <1>3
        <4> QED
          BY <4>1, ChainNone
      <3> QED
        BY <1>4, <3>1 DEF Lit
    <2>3. \A k \in Len(doc) + 1..Len(doc') : k = n
      BY <1>4, <1>5
    <2> QED
      BY <2>1, <2>2, <2>3
  <1> HIDE DEF n
  <1>8. TopsStay({})
    <2> SUFFICES ASSUME NEW b \in DOMAIN resume.entries, NEW l, resume.entries[b].below # NoBelow,
                        Owns(doc, l, resume.entries[b], b)
                 PROVE  FALSE
      BY DEF TopsStay
    <2>1. TopOf(doc, l)
      BY DEF Owns
    <2>2. l < n
      <3>1. l \in 1..Len(doc)
        BY <2>1 DEF TopOf
      <3> QED
        BY <1>1, <1>5, <3>1
    <2>3. doc'[n].id = n /\ \A k \in 1..n - 1 : doc'[k] = doc[k]
      BY <1>3, <1>4, <1>5
    <2> QED
      BY <1>2, <1>4, <1>5, <1>6, <2>1, <2>2, <2>3, NoNewTop
  <1> QED
    BY <1>2, <1>4, <1>5, <1>7, <1>8, StructuralRight

-----------------------------------------------------------------------------
(* The parameter edits.                                                    *)

\* An edit that keeps the structure, over a region: an entry it reaches stays
\* only for an edit of the topmost layer.
LEMMA ParameterRight ==
    ASSUME AnswerIInv, NEW reach, NEW frontier \in Nat, TouchRegionFrom(reach, frontier),
           doc' \in Seq(Layer), Len(doc') = Len(doc), LitOutside(reach),
           \A m \in 1..Len(doc) : doc'[m].visible = doc[m].visible,
           \A t : frontier # NoFrontier /\ TopOf(doc, t) => \A m \in 1..t - 1 : doc'[m] = doc[m],
           CacheRight'
    PROVE  StoreRight'
  <1>1. /\ structure' = structure /\ revision' = revision + 1 /\ log' = Forgotten(log)
        /\ resume' = TouchRegion(reach, frontier, structure') /\ refills' = refills
    BY DEF TouchRegionFrom
  <1>2. doc \in Seq(Layer) /\ Len(doc) \in Nat /\ SeedsRight /\ SeedTyped
    BY AnswerKinds
  <1>3. TopsStay(reach)
    BY SameTops
  <1>4. HalvesStay
    <2> SUFFICES ASSUME NEW b \in DOMAIN resume.entries \cap DOMAIN resume'.entries,
                        resume.entries[b].prefix.structure = structure',
                        resume.entries[b].active # << >>, resume.entries[b].prefix.chain # << >>
                 PROVE  \E t : /\ TopOf(doc', t)
                               /\ HalfOf(resume.entries[b]) = AsField(PartsTo(doc', t - 1, b))
      BY DEF HalvesStay
    <2> DEFINE e == resume.entries[b]
               now == doc'
               r == resume'
    <2>1. Under(e, b)
      BY <1>1, <1>2 DEF SeedsRight, SeedRight
    <2>2. PICK t : TopOf(doc, t) /\ HalfOf(e) = AsField(PartsTo(doc, t - 1, b))
      BY <2>1 DEF Under
    <2>3. /\ now \in Seq(Layer) /\ Len(now) = Len(doc) /\ \A m \in 1..Len(doc) : doc[m].visible = now[m].visible
          /\ r = TouchRegion(reach, frontier, structure) /\ b \in DOMAIN r.entries
      BY <1>1
    <2>4. /\ t \in 1..Len(doc) /\ t - 1 \in 0..Len(doc) /\ t - 1 <= Len(doc)
          /\ \A m \in 1..t - 1 : m \in 1..Len(doc)
      BY <1>2, <2>2 DEF TopOf
    <2>5. LitAlike(doc, now, t - 1, b)
      <3>1. CASE b \in reach
        <4> HIDE DEF r
        <4>1. KeptEntry(r, b, reach, frontier, structure)
          BY <2>3, RegionKeeps
        <4>2. frontier # NoFrontier
          BY <3>1, <4>1 DEF KeptEntry, Keepable
        <4> QED
          BY <2>2, <4>2 DEF LitAlike, Lit
      <3>2. CASE b \notin reach
        BY <2>4, <3>2 DEF LitOutside, LitAlike
      <3> QED
        BY <3>1, <3>2
    <2> HIDE DEF now
    <2>6. PartsTo(doc, t - 1, b) = PartsTo(now, t - 1, b)
      BY <1>2, <2>3, <2>4, <2>5, PartsAlike
    <2>7. TopOf(now, t)
      BY <1>2, <2>2, <2>3, SameTop
    <2> QED
      BY <2>2, <2>6, <2>7 DEF now
  <1>5. Len(doc) <= Len(doc')
    BY <1>2
  <1>6. LogReaches' /\ SeedsRight'
    BY <1>1, <1>3, <1>4, <1>5, RegionRight
  <1>7. \A r \in Readers : TasksRight(refills[r])'
    BY <1>1, TasksOvertaken
  <1> QED
    BY <1>6, <1>7 DEF StoreRight

\* A layer's composition is set.
LEMMA CompositionRight ==
    ASSUME AnswerIInv, NEW s \in DOMAIN doc, SetComposition(s)
    PROVE  StoreRight'
  <1> DEFINE reach == Influence(doc[s].roots)
  <1>1. /\ doc' \in Seq(Layer) /\ Len(doc') = Len(doc)
        /\ \A m \in 1..Len(doc) : m # s => doc'[m] = doc[m]
        /\ \A m \in 1..Len(doc) : doc'[m].visible = doc[m].visible
        /\ doc'[s].roots = doc[s].roots
    BY FlippedIs
  <1>2. TouchRegionFrom(reach, NoFrontier)
    BY DEF SetComposition
  <1>3. LitOutside(reach)
    BY <1>1, InfluenceOutside
  <1>4. CacheRight'
    <2>1. structure' = structure /\ prefixes' = prefixes
      BY <1>2 DEF TouchRegionFrom
    <2>2. \A m \in 1..Len(doc) : doc'[m].roots = doc[m].roots
      BY <1>1
    <2>3. CacheRight
      BY AnswerKinds
    <2> QED
      BY <1>1, <2>1, <2>2, <2>3 DEF CacheRight, CachedRight
  <1> HIDE DEF reach
  <1> QED
    BY <1>1, <1>2, <1>3, <1>4, Numbers, ParameterRight

\* A prefix of roots stays one when none of its own is set.
LEMMA PrefixStays ==
    ASSUME NEW s \in Seq(Item), NEW t \in Seq(Item), NEW u \in Seq(Item), Len(u) = Len(t), IsPrefix(s, t),
           \A j \in 1..Len(s) : u[j] = t[j]
    PROVE  IsPrefix(s, u)
  <1>1. Len(s) \in 0..Len(t) /\ s = SubSeq(t, 1, Len(s))
    BY PrefixIs
  <1> DEFINE n == Len(s)
             was == SubSeq(t, 1, n)
             now == SubSeq(u, 1, n)
  <1>2. was \in Seq(Item) /\ Len(was) = n /\ \A j \in 1..n : was[j] = t[j]
    BY <1>1
  <1>3. now \in Seq(Item) /\ Len(now) = n /\ \A j \in 1..n : now[j] = u[j]
    BY <1>1
  <1>4. now = was
    <2> HIDE DEF now, was
    <2> QED
      BY <1>2, <1>3, SeqEqual
  <1>5. SubSeq(s, 1, Len(s)) = s
    BY SubSeqFull
  <1> QED
    BY <1>1, <1>4, <1>5 DEF IsPrefix

\* An item is set, past the roots a cached prefix was baked from.
LEMMA SetKeepsCache ==
    ASSUME AnswerIInv, "editPrefix" \notin Calls, NEW l \in DOMAIN doc, NEW k \in DOMAIN doc[l].roots,
           NEW at \in Reaches, SetItem(l, k, at)
    PROVE  CacheRight'
  <1>1. structure' = structure /\ prefixes' = prefixes /\ LeavesPrefixes(l, k)
    BY DEF SetItem, TouchRegionFrom
  <1>2. SeedTyped /\ prefixes \in Caches /\ CacheRight
    BY AnswerKinds DEF SeedTyped
  <1>3. /\ doc' \in Seq(Layer) /\ Len(doc') = Len(doc)
        /\ \A m \in 1..Len(doc) : m # l => doc'[m] = doc[m]
        /\ Len(doc'[l].roots) = Len(doc[l].roots)
        /\ \A j \in 1..Len(doc[l].roots) : j # k => doc'[l].roots[j] = doc[l].roots[j]
    BY <1>2, OneRootSet
  <1>4. /\ DOMAIN doc = 1..Len(doc) /\ l \in 1..Len(doc) /\ doc[l].id = l /\ doc[l].roots \in Seq(Item)
        /\ k \in 1..Len(doc[l].roots)
    <2>1. DOMAIN doc = 1..Len(doc) /\ l \in 1..Len(doc) /\ doc[l].id = l /\ doc[l].roots \in Seq(Item)
      BY AnswerKinds
    <2> QED
      BY <2>1
  <1>5. ASSUME NEW j \in DOMAIN prefixes.entries
        PROVE  CachedRight(prefixes.entries[j])'
    <2> DEFINE c == prefixes.entries[j]
    <2>1. CachedRight(c) /\ c.roots \in Seq(Item)
      BY <1>2, CachedAt DEF CacheRight
    <2>2. c.layer = l => k > Len(c.roots)
      BY <1>1, <1>4 DEF LeavesPrefixes
    <2> HIDE DEF c
    <2>3. ASSUME c.verified = structure
          PROVE  c.layer \in 1..Len(doc) /\ IsPrefix(c.roots, doc'[c.layer].roots)
      <3>1. c.layer \in 1..Len(doc) /\ IsPrefix(c.roots, doc[c.layer].roots)
        BY <2>1, <2>3 DEF CachedRight
      <3>2. CASE c.layer # l
        BY <1>3, <3>1, <3>2
      <3>3. CASE c.layer = l
        <4> DEFINE was == doc[l].roots
                   now == doc'[l].roots
        <4>1. now \in Seq(Item)
          <5>1. doc'[l] \in Layer
            BY <1>3, <1>4, ElementOfSeq
          <5> QED
            BY <5>1 DEF Layer
        <4>2. /\ was \in Seq(Item) /\ Len(now) = Len(was) /\ IsPrefix(c.roots, was)
              /\ k \in 1..Len(was) /\ k > Len(c.roots)
              /\ \A i \in 1..Len(was) : i # k => now[i] = was[i]
          BY <1>3, <1>4, <2>2, <3>1, <3>3
        <4> HIDE DEF was, now
        <4>3. Len(c.roots) \in 0..Len(was)
          BY <2>1, <4>2, PrefixIs
        <4>4. \A i \in 1..Len(c.roots) : i \in 1..Len(was) /\ i # k
          BY <4>2, <4>3
        <4>5. IsPrefix(c.roots, now)
          BY <2>1, <4>1, <4>2, <4>4, PrefixStays
        <4> QED
          BY <3>1, <3>3, <4>5 DEF now
      <3> QED
        BY <3>2, <3>3
    <2>4. CachedRight(c)'
      <3>1. c' = c
        BY <1>1 DEF c
      <3> QED
        BY <1>1, <1>3, <2>1, <2>3, <3>1 DEF CachedRight
    <2> QED
      BY <2>4 DEF c
  <1> QED
    BY <1>1, <1>2, <1>5 DEF CacheRight

\* An item is set.
LEMMA SetRight ==
    ASSUME AnswerIInv, "editPrefix" \notin Calls, NEW l \in DOMAIN doc, NEW k \in DOMAIN doc[l].roots,
           NEW at \in Reaches, SetItem(l, k, at)
    PROVE  StoreRight'
  <1> DEFINE reach == doc[l].roots[k].at \cup at
             onActive == HasActive(doc) /\ Active(doc).id = doc[l].id
             frontier == IF onActive THEN k - 1 ELSE NoFrontier
  <1>1. /\ doc \in Seq(Layer) /\ Len(doc) \in Nat /\ DOMAIN doc = 1..Len(doc) /\ SeedTyped
        /\ l \in 1..Len(doc) /\ doc[l].id = l /\ doc[l].roots \in Seq(Item)
    BY AnswerKinds
  <1>2. k \in 1..Len(doc[l].roots) /\ k \in Nat
    BY <1>1
  <1>3. TouchRegionFrom(reach, frontier)
    BY DEF SetItem
  <1>4. /\ doc' \in Seq(Layer) /\ Len(doc') = Len(doc)
        /\ \A m \in 1..Len(doc) : doc'[m].visible = doc[m].visible
        /\ \A m \in 1..Len(doc) : m # l => doc'[m] = doc[m]
        /\ Len(doc'[l].roots) = Len(doc[l].roots)
        /\ \A j \in 1..Len(doc[l].roots) : j # k => doc'[l].roots[j] = doc[l].roots[j]
        /\ doc'[l].roots[k].at = at
    BY <1>1, OneRootSet
  <1>5. frontier \in Nat
    BY <1>2, Numbers
  <1>6. ASSUME NEW t, frontier # NoFrontier, TopOf(doc, t)
        PROVE  \A m \in 1..t - 1 : doc'[m] = doc[m]
    <2>1. Active(doc) = doc[t] /\ t \in 1..Len(doc) /\ Active(doc).id = l
      BY <1>1, <1>6, ActiveIsTop DEF TopOf
    <2>2. t = l
      BY <2>1, AnswerKinds
    <2>3. \A m \in 1..t - 1 : m \in 1..Len(doc) /\ m # l
      BY <1>1, <2>1, <2>2
    <2> QED
      BY <1>4, <2>3
  <1>7. LitOutside(reach)
    <2> SUFFICES ASSUME NEW b, b \notin reach
                 PROVE  /\ LitAlike(doc, doc', Len(doc), b)
                        /\ \A m \in Len(doc) + 1..Len(doc') : ~Lit(doc', m, b)
      BY DEF LitOutside
    <2> DEFINE was == doc[l].roots
               now == doc'[l].roots
    <2>1. now \in Seq(Item) /\ doc'[l] \in Layer
      <3>1. doc'[l] \in Layer
        BY <1>1, <1>4, ElementOfSeq
      <3> QED
        BY <3>1 DEF Layer
    <2>2. /\ was \in Seq(Item) /\ Len(now) = Len(was)
          /\ \A j \in 1..Len(was) : j # k => now[j] = was[j]
          /\ b \notin was[k].at /\ b \notin now[k].at
      BY <1>1, <1>4
    <2>3. doc'[l].hard = doc[l].hard
      BY <1>1 DEF SetItem
    <2> HIDE DEF was, now
    <2>4. SameAt(was, now, b)
      BY <2>2 DEF SameAt
    <2>5. Chain(was, b) = Chain(now, b)
      BY <2>1, <2>2, <2>4, ChainSame
    <2>6. ASSUME NEW m \in 1..Len(doc)
          PROVE  /\ Lit(doc, m, b) <=> Lit(doc', m, b)
                 /\ PartOf(doc[m], b) = PartOf(doc'[m], b)
      <3>1. CASE m = l
        BY <1>4, <2>3, <2>5, <3>1 DEF Lit, PartOf, was, now
      <3>2. CASE m # l
        BY <1>4, <3>2 DEF Lit, PartOf
      <3> QED
        BY <3>1, <3>2
    <2> QED
      BY <1>1, <1>4, <2>6 DEF LitAlike
  <1>8. CacheRight'
    BY SetKeepsCache
  <1> HIDE DEF reach, frontier
  <1> QED
    BY <1>3, <1>4, <1>5, <1>6, <1>7, <1>8, ParameterRight

\* touch() drops the store.
LEMMA TouchRight ==
    ASSUME AnswerIInv, NEW l \in DOMAIN doc, NEW k \in DOMAIN doc[l].roots, Touch(l, k)
    PROVE  StoreRight'
  <1>1. /\ log' = Forgotten(log) /\ resume' = NoSeeds /\ structure' = structure + 1
        /\ revision' = revision + 1 /\ refills' = refills /\ prefixes' = prefixes
    BY DEF Touch
  <1>2. ~log'.valid
    BY <1>1 DEF Forgotten, AnswerIInv, PrefixIInv, SeedHeld, LogIInv, LogTyped, Log
  <1>3. DOMAIN resume'.entries = {}
    BY <1>1, NoSeedsStored
  <1>4. (\A r \in Readers : TasksRight(refills[r])') /\ CacheRight'
    BY <1>1, TasksOvertaken, CacheOvertaken
  <1> QED
    BY <1>2, <1>3, <1>4 DEF StoreRight, LogReaches, SeedsRight

\* Whatever the edit.
LEMMA EditRight ==
    ASSUME AnswerIInv, "newTopLayer" \notin Calls, "editPrefix" \notin Calls, Edit
    PROVE  StoreRight'
  <1>1. ASSUME NEW l \in DOMAIN doc, NEW at \in Reaches, AppendItem(l, at) PROVE StoreRight'
    BY <1>1, AppendRight DEF StoreRight
  <1>2. ASSUME NEW l \in DOMAIN doc, NEW at \in Reaches, NEW k \in DOMAIN doc[l].roots,
               InsertItem(l, k, at) \/ SetItem(l, k, at)
        PROVE  StoreRight'
    BY <1>2, InsertRight, SetRight
  <1>3. ASSUME NEW l \in DOMAIN doc, NEW k \in DOMAIN doc[l].roots, RemoveItem(l, k) \/ Touch(l, k)
        PROVE  StoreRight'
    BY <1>3, RemoveRight, TouchRight
  <1>4. ASSUME NEW l \in DOMAIN doc, SetVisible(l) \/ SetComposition(l) PROVE StoreRight'
    BY <1>4, VisibleRight, CompositionRight
  <1>5. ASSUME NEW hard \in BOOLEAN, AddLayer(hard) PROVE StoreRight'
    BY <1>5, AddedRight
  <1> QED
    BY <1>1, <1>2, <1>3, <1>4, <1>5 DEF Edit

-----------------------------------------------------------------------------
(* The prefix cache through the calls on it.                               *)

RightlyCached == {c \in Cached : CachedRight(c)}

RightCaches == {cache \in Caches : cache.witness <= structure /\ cache.entries \in Seq(RightlyCached)}

\* The cache is right, said either way.
LEMMA CacheRightIs ==
    ASSUME AnswerIInv
    PROVE  /\ prefixes \in RightCaches
           /\ [prefixes EXCEPT !.witness = structure] \in RightCaches
  <1>1. SeedTyped /\ CacheRight /\ structure \in Nat
    BY AnswerKinds
  <1>2. prefixes \in Caches /\ prefixes.entries \in Seq(Cached)
    BY <1>1 DEF SeedTyped, Caches
  <1>3. DOMAIN prefixes.entries = 1..Len(prefixes.entries) /\ Len(prefixes.entries) \in Nat
    BY <1>2
  <1>4. \A k \in 1..Len(prefixes.entries) : prefixes.entries[k] \in RightlyCached
    BY <1>1, <1>2, <1>3, ElementOfSeq DEF CacheRight, RightlyCached
  <1>5. prefixes.entries \in Seq(RightlyCached)
    <2> DEFINE es == prefixes.entries
    <2>1. es \in Seq(Cached) /\ \A k \in 1..Len(es) : es[k] \in RightlyCached
      BY <1>2, <1>4
    <2> HIDE DEF es
    <2>2. es = [k \in 1..Len(es) |-> es[k]] /\ Len(es) \in Nat
      BY <2>1
    <2> QED
      BY <2>1, <2>2, SeqDef DEF es
  <1>6. prefixes.witness <= structure /\ structure <= structure
    BY <1>1 DEF CacheRight
  <1>7. [prefixes EXCEPT !.witness = structure] \in Caches
    BY <1>1, <1>2 DEF Caches
  <1> QED
    BY <1>2, <1>5, <1>6, <1>7 DEF RightCaches, Caches

\* Other entries in a cache, all of them right.
LEMMA RightCacheOf ==
    ASSUME NEW cache \in RightCaches, NEW entries \in Seq(RightlyCached)
    PROVE  [cache EXCEPT !.entries = entries] \in RightCaches
  <1>1. RightlyCached \subseteq Cached
    BY DEF RightlyCached
  <1>2. entries \in Seq(Cached)
    BY <1>1
  <1>3. cache \in Caches /\ cache.witness <= structure
    BY DEF RightCaches
  <1>4. [cache EXCEPT !.entries = entries] \in Caches
    BY <1>2, <1>3, CacheOf
  <1>5. /\ [cache EXCEPT !.entries = entries].witness = cache.witness
        /\ [cache EXCEPT !.entries = entries].entries = entries
    BY <1>3 DEF Caches
  <1> QED
    BY <1>3, <1>4, <1>5 DEF RightCaches

\* A digest leaves a right cache: what it stamps it has just compared, or had
\* been stamped so before.
LEMMA VerifyRight ==
    ASSUME AnswerIInv, NEW cache \in RightCaches, NEW k \in DOMAIN cache.entries, NEW l \in 1..Len(doc)
    PROVE  AfterVerify(cache, k, doc[l]) \in RightCaches
  <1> DEFINE es == cache.entries
             rest == RemoveAt(es, k)
             verified == [es[k] EXCEPT !.verified = cache.witness]
             kept == <<verified>> \o rest
  <1>1. /\ es \in Seq(RightlyCached) /\ k \in 1..Len(es) /\ Len(es) \in Nat
        /\ cache.witness \in Nat /\ cache.witness <= structure
    BY DEF RightCaches, Caches
  <1>2. es[k] \in RightlyCached
    BY <1>1
  <1>3. es[k] \in Cached /\ CachedRight(es[k])
    BY <1>2 DEF RightlyCached
  <1>4. rest \in Seq(RightlyCached)
    BY <1>1 DEF RemoveAt
  <1>5. doc[l].id = l
    BY AnswerKinds
  <1>6. ASSUME Verifies(cache, k, doc[l]) PROVE verified \in RightlyCached
    <2>1. /\ verified \in Cached /\ verified.verified = cache.witness
          /\ verified.layer = es[k].layer /\ verified.roots = es[k].roots
      BY <1>1, <1>3 DEF Cached
    <2>2. CASE Trusted(cache, k)
      <3>1. es[k].verified = cache.witness
        BY <2>2 DEF Trusted
      <3> HIDE DEF verified
      <3> QED
        BY <1>3, <2>1, <3>1 DEF CachedRight, RightlyCached
    <2>3. CASE HasRoots(es[k], doc[l])
      <3>1. es[k].layer = l /\ IsPrefix(es[k].roots, doc[l].roots)
        BY <1>5, <2>3 DEF HasRoots
      <3> HIDE DEF verified
      <3> QED
        BY <1>1, <2>1, <3>1 DEF CachedRight, RightlyCached
    <2> QED
      BY <1>6, <2>2, <2>3 DEF Verifies
  <1>7. AfterVerify(cache, k, doc[l]) =
            [cache EXCEPT !.entries = IF Verifies(cache, k, doc[l]) THEN kept ELSE rest]
    BY DEF AfterVerify
  <1> HIDE DEF verified, rest
  <1>8. Verifies(cache, k, doc[l]) => kept \in Seq(RightlyCached)
    BY <1>4, <1>6
  <1> HIDE DEF kept
  <1> QED
    BY <1>4, <1>7, <1>8, RightCacheOf

\* What eviction to the budget leaves.
LEMMA EvictRight ==
    ASSUME NEW cache \in RightCaches
    PROVE  PrefixEvict(cache) \in RightCaches
  <1> DEFINE es == cache.entries
             n == IF Len(es) < cache.budget THEN Len(es) ELSE cache.budget
  <1>1. es \in Seq(RightlyCached) /\ cache.budget \in Nat /\ Len(es) \in Nat
    BY DEF RightCaches, Caches
  <1>2. n \in 0..Len(es)
    BY <1>1
  <1>3. PrefixEvict(cache) = [cache EXCEPT !.entries = SubSeq(es, 1, n)]
    BY DEF PrefixEvict
  <1> HIDE DEF n
  <1>4. SubSeq(es, 1, n) \in Seq(RightlyCached)
    BY <1>1, <1>2
  <1> QED
    BY <1>3, <1>4, RightCacheOf

\* What a lookup leaves.
LEMMA LookupRight ==
    ASSUME AnswerIInv, NEW cache \in RightCaches, NEW l \in 1..Len(doc)
    PROVE  /\ AfterFindUsable(cache, doc[l]) \in RightCaches
           /\ \A boundary : AfterFind(cache, doc[l], boundary) \in RightCaches
  <1>1. cache \in Caches /\ doc[l] \in Layer
    BY AnswerKinds DEF RightCaches
  <1>2. AfterFindUsable(cache, doc[l]) \in RightCaches
    <2>1. CASE Usable(cache, doc[l]) = {}
      BY <2>1 DEF AfterFindUsable
    <2>2. CASE Usable(cache, doc[l]) # {}
      <3>1. BestUsable(cache, doc[l]) \in DOMAIN cache.entries
        BY <1>1, <2>2, BestIsUsable DEF Usable
      <3>2. AfterVerify(cache, BestUsable(cache, doc[l]), doc[l]) \in RightCaches
        BY <3>1, VerifyRight
      <3> QED
        BY <2>2, <3>2 DEF AfterFindUsable
    <2> QED
      BY <2>1, <2>2
  <1>3. ASSUME NEW boundary PROVE AfterFind(cache, doc[l], boundary) \in RightCaches
    <2> DEFINE found == Keyed(cache, doc[l], boundary)
               k == CHOOSE k \in found : TRUE
    <2>1. CASE found = {}
      BY <2>1 DEF AfterFind
    <2>2. CASE found # {}
      <3>1. k \in found
        BY <2>2
      <3>2. k \in DOMAIN cache.entries
        BY <3>1 DEF Keyed
      <3>3. AfterFind(cache, doc[l], boundary) = AfterVerify(cache, k, doc[l])
        BY <2>2 DEF AfterFind
      <3> HIDE DEF k
      <3> QED
        BY <3>2, <3>3, VerifyRight
    <2> QED
      BY <2>1, <2>2
  <1> QED
    BY <1>2, <1>3

\* What a build leaves: nothing built is verified yet.
LEMMA BuildRight ==
    ASSUME AnswerIInv, NEW cache \in RightCaches, NEW l \in 1..Len(doc), NEW boundary \in 0..Len(doc[l].roots)
    PROVE  AfterBuild(cache, doc[l], boundary) \in RightCaches
  <1> DEFINE layer == doc[l]
             looked == AfterFind(cache, layer, boundary)
             built == [layer |-> layer.id, roots |-> SubSeq(layer.roots, 1, boundary),
                       verified |-> NoWitness]
             more == <<built>> \o looked.entries
             full == [looked EXCEPT !.entries = more]
  <1>1. looked \in RightCaches
    BY LookupRight
  <1>2. layer.roots \in Seq(Item) /\ layer.id \in Nat
    BY AnswerKinds DEF Layer
  <1>3. SubSeq(layer.roots, 1, boundary) \in Seq(Item)
    BY <1>2
  <1>4. built \in Cached
    BY <1>2, <1>3 DEF Cached, NoWitness
  <1>5. built \in RightlyCached
    <2>1. built.verified = 0 /\ structure \in Nat /\ structure >= 1
      BY AnswerKinds DEF NoWitness
    <2> HIDE DEF built
    <2> QED
      BY <1>4, <2>1 DEF RightlyCached, CachedRight
  <1>6. AfterBuild(cache, layer, boundary) =
            IF Keyed(looked, layer, boundary) # {} THEN looked ELSE PrefixEvict(full)
    BY DEF AfterBuild
  <1> HIDE DEF looked, built
  <1>7. more \in Seq(RightlyCached)
    BY <1>1, <1>5 DEF RightCaches
  <1> HIDE DEF more
  <1>8. full \in RightCaches
    BY <1>1, <1>7, RightCacheOf
  <1> HIDE DEF full
  <1>9. PrefixEvict(full) \in RightCaches
    BY <1>8, EvictRight
  <1> QED
    BY <1>1, <1>6, <1>9

\* A cache that is right, in the next state.
LEMMA RightIsKept ==
    ASSUME AnswerIInv, prefixes' \in RightCaches, UNCHANGED <<doc, structure>>
    PROVE  CacheRight'
  <1> DEFINE now == prefixes'
  <1>1. now \in RightCaches
    OBVIOUS
  <1> HIDE DEF now
  <1>2. now.witness <= structure /\ now.entries \in Seq(RightlyCached)
    BY <1>1 DEF RightCaches
  <1>3. \A k \in DOMAIN now.entries : CachedRight(now.entries[k])
    <2> SUFFICES ASSUME NEW k \in DOMAIN now.entries PROVE CachedRight(now.entries[k])
      OBVIOUS
    <2>1. now.entries[k] \in RightlyCached
      BY <1>2
    <2> QED
      BY <2>1 DEF RightlyCached
  <1> QED
    BY <1>2, <1>3 DEF CacheRight, CachedRight, now

\* The host's calls, and the refill's lookup, keep the cache right.
LEMMA CallsRight ==
    ASSUME AnswerIInv
    PROVE  /\ \A l \in DOMAIN doc :
                 /\ PrefixBoundary(doc[l], KeepLive) > 0 =>
                       AfterBuild(prefixes, doc[l], PrefixBoundary(doc[l], KeepLive)) \in RightCaches
                 /\ AfterInvalidate(prefixes, doc[l].id) \in RightCaches
           /\ [prefixes EXCEPT !.entries = << >>] \in RightCaches
           /\ \A budget \in PrefixBudgets : PrefixEvict([prefixes EXCEPT !.budget = budget]) \in RightCaches
           /\ AfterSource \in RightCaches
  <1>1. prefixes \in RightCaches /\ Told \in RightCaches /\ SeedTyped
    BY CacheRightIs, AnswerKinds DEF Told
  <1>2. ASSUME NEW l \in DOMAIN doc
        PROVE  AfterBuild(prefixes, doc[l], PrefixBoundary(doc[l], KeepLive)) \in RightCaches
    <2>1. l \in 1..Len(doc) /\ doc[l].roots \in Seq(Item) /\ Len(doc[l].roots) \in Nat /\ KeepLive \in Nat
      BY AnswerKinds, BoundsAssumption
    <2>2. PrefixBoundary(doc[l], KeepLive) \in 0..Len(doc[l].roots)
      BY <2>1 DEF PrefixBoundary
    <2> QED
      BY <1>1, <2>1, <2>2, BuildRight
  <1>3. ASSUME NEW l \in DOMAIN doc PROVE AfterInvalidate(prefixes, doc[l].id) \in RightCaches
    <2> DEFINE left == Only(prefixes.entries, {entry \in ToSet(prefixes.entries) : entry.layer # doc[l].id})
    <2>1. prefixes.entries \in Seq(RightlyCached)
      BY <1>1 DEF RightCaches
    <2>2. left \in Seq(RightlyCached)
      BY <2>1, OnlyLists
    <2>3. AfterInvalidate(prefixes, doc[l].id) = [prefixes EXCEPT !.entries = left]
      BY DEF AfterInvalidate
    <2> HIDE DEF left
    <2> QED
      BY <1>1, <2>2, <2>3, RightCacheOf
  <1>4. [prefixes EXCEPT !.entries = << >>] \in RightCaches
    <2>1. << >> \in Seq(RightlyCached)
      OBVIOUS
    <2> QED
      BY <1>1, <2>1, RightCacheOf
  <1>5. ASSUME NEW budget \in PrefixBudgets
        PROVE  PrefixEvict([prefixes EXCEPT !.budget = budget]) \in RightCaches
    <2> DEFINE cache == [prefixes EXCEPT !.budget = budget]
    <2>1. budget \in Nat /\ prefixes \in Caches
      BY <1>1, BoundsAssumption DEF RightCaches
    <2>2. cache \in Caches /\ cache.witness = prefixes.witness /\ cache.entries = prefixes.entries
      BY <2>1 DEF Caches
    <2> HIDE DEF cache
    <2>3. cache \in RightCaches
      BY <1>1, <2>2 DEF RightCaches
    <2>4. PrefixEvict(cache) \in RightCaches
      BY <2>3, EvictRight
    <2> QED
      BY <2>4 DEF cache
  <1>6. AfterSource \in RightCaches
    <2>1. CASE HasActive(doc) /\ ~HasBelow(doc)
      <3>1. PICK t : TopOf(doc, t)
        BY <2>1, TopExists, AnswerKinds
      <3>2. Active(doc) = doc[t] /\ t \in 1..Len(doc)
        BY <3>1, ActiveIsTop, AnswerKinds DEF TopOf
      <3> QED
        BY <1>1, <2>1, <3>2, LookupRight DEF AfterSource
    <2>2. CASE ~(HasActive(doc) /\ ~HasBelow(doc))
      BY <1>1, <2>2 DEF AfterSource
    <2> QED
      BY <2>1, <2>2
  <1> QED
    BY <1>2, <1>3, <1>4, <1>5, <1>6

-----------------------------------------------------------------------------
(* The store through a refill.                                             *)

\* An entry just answered, walked, or given a prefix.
FreshEntry(f, b) ==
    /\ f.dirty = Clean /\ f.rev = revision
    /\ f.active # << >> => \E l : Owns(doc, l, f, b)
    /\ f.prefix.structure = structure /\ f.active # << >> /\ f.prefix.chain # << >> => Under(f, b)

\* What leaves the document and the log alone, and of the store keeps or
\* freshens entries, leaves the seeds right.
LEMMA StoreKept ==
    ASSUME AnswerIInv, UNCHANGED <<doc, revision, structure, log>>,
           \A b \in DOMAIN resume'.entries :
              \/ b \in DOMAIN resume.entries /\ resume'.entries[b] = resume.entries[b]
              \/ FreshEntry(resume'.entries[b], b)
    PROVE  LogReaches' /\ SeedsRight'
  <1>1. revision \in Nat /\ LogReaches /\ SeedsRight
    BY AnswerKinds
  <1> DEFINE r == resume'
  <1>2. \A b \in DOMAIN r.entries :
              \/ b \in DOMAIN resume.entries /\ r.entries[b] = resume.entries[b]
              \/ FreshEntry(r.entries[b], b)
    OBVIOUS
  <1> HIDE DEF r
  <1>3. ASSUME NEW b \in DOMAIN r.entries PROVE SeedRight(r.entries[b], b)
    <2> DEFINE f == r.entries[b]
    <2>1. (b \in DOMAIN resume.entries /\ f = resume.entries[b]) \/ FreshEntry(f, b)
      BY <1>2, <1>3
    <2> HIDE DEF f
    <2>2. ASSUME b \in DOMAIN resume.entries, f = resume.entries[b] PROVE SeedRight(f, b)
      BY <1>1, <2>2 DEF SeedsRight
    <2>3. ASSUME FreshEntry(f, b) PROVE SeedRight(f, b)
      <3>1. revision - f.rev = 0
        BY <1>1, <2>3 DEF FreshEntry
      <3>2. Before(revision - f.rev) = doc
        BY <3>1 DEF Before, CutBack
      <3> QED
        BY <2>3, <3>2 DEF FreshEntry, SeedRight
    <2>4. SeedRight(f, b)
      BY <2>1, <2>2, <2>3
    <2> QED
      BY <2>4 DEF f
  <1>4. LogReaches'
    BY <1>1 DEF LogReaches
  <1>5. SeedsRight'
    BY <1>3 DEF SeedsRight, SeedRight, IsAlive, Before, Under, r
  <1> QED
    BY <1>4, <1>5

\* Another refill between its walks and its stores goes on being right.
LEMMA TaskKept ==
    ASSUME AnswerIInv, UNCHANGED <<doc, revision>>, NEW r \in Readers, refills'[r] = refills[r],
           \A b \in DOMAIN resume'.entries :
              \/ b \in DOMAIN resume.entries /\ resume'.entries[b].below = resume.entries[b].below
              \/ HasActive(doc) => Under(resume'.entries[b], b)
    PROVE  TasksRight(refills[r])'
  <1> DEFINE f == refills'[r]
             s == resume'
  <1>1. TasksRight(f)
    BY AnswerKinds
  <1>2. \A b \in DOMAIN s.entries :
              \/ b \in DOMAIN resume.entries /\ s.entries[b].below = resume.entries[b].below
              \/ HasActive(doc) => Under(s.entries[b], b)
    OBVIOUS
  <1> HIDE DEF f, s
  <1>3. ASSUME f.phase = "walked", f.now = revision, NEW b \in DOMAIN f.tasks, b \in DOMAIN s.entries
        PROVE  Under(s.entries[b], b)
    <2>1. HasActive(doc) /\ (b \in DOMAIN resume.entries => Under(resume.entries[b], b))
      BY <1>1, <1>3 DEF TasksRight
    <2>2. CASE b \in DOMAIN resume.entries /\ s.entries[b].below = resume.entries[b].below
      BY <2>1, <2>2 DEF Under, HalfOf
    <2>3. CASE HasActive(doc) => Under(s.entries[b], b)
      BY <2>1, <2>3
    <2> QED
      BY <1>2, <1>3, <2>2, <2>3
  <1>4. /\ f.phase = "walked" =>
              /\ f.now <= revision
              /\ f.now = revision =>
                    /\ HasActive(doc) /\ JoinIsHardUnion(doc)
                    /\ \A b \in DOMAIN f.tasks :
                          /\ f.tasks[b] = Chain(Active(doc).roots, b)
                          /\ b \in DOMAIN s.entries => Under(s.entries[b], b)
    BY <1>1, <1>3 DEF TasksRight
  <1> QED
    BY <1>4 DEF TasksRight, Under, f, s

\* A refill that is not between its walks and its stores has no tasks.
LEMMA NoTasks ==
    ASSUME NEW r \in Readers, refills'[r].phase # "walked"
    PROVE  TasksRight(refills[r])'
  BY DEF TasksRight

\* A refill begins.
LEMMA BeginRight ==
    ASSUME AnswerIInv, "coldOverHalf" \notin Calls, NEW r \in Readers, NEW batch \in Batches,
           BeginRefill(r, batch)
    PROVE  StoreRight'
  <1>1. SeedTyped /\ revision \in Nat
    BY AnswerKinds
  <1>2. batch \in Seq(Bricks)
    BY BoundsAssumption
  <1>3. resume'.entries = resume.entries
    BY <1>1, <1>2, LruStored DEF BeginRefill
  <1>4. UNCHANGED <<doc, revision, structure, log>> /\ prefixes' = AfterSource
    BY DEF BeginRefill
  <1>5. LogReaches' /\ SeedsRight'
    BY <1>3, <1>4, StoreKept
  <1>6. CacheRight'
    BY <1>4, CallsRight, RightIsKept
  <1> DEFINE HowServed(how) == {b \in ToSet(batch) : Serve(b).how \in how}
             tasks == HowServed({"suffix", "frontier", "prefix"})
             missed == HowServed({"walk"})
             walked == [phase |-> "walked", now |-> revision, tasks |-> [b \in tasks |-> Serve(b).chain],
                        batch |-> batch, missed |-> missed]
             next == IF tasks = {} THEN Missing(batch, missed) ELSE walked
  <1>7. refills' = [refills EXCEPT ![r] = next]
    BY DEF BeginRefill
  <1>8. ASSUME NEW b \in tasks
        PROVE  /\ HasActive(doc) /\ JoinIsHardUnion(doc) /\ Serve(b).chain = Chain(Active(doc).roots, b)
               /\ b \in DOMAIN resume.entries => Under(resume.entries[b], b)
    <2>1. TaskRight(b)
      BY <1>8, ResumedRight
    <2>2. ~ColdOverHalf(batch)
      BY DEF BeginRefill
    <2>3. b \in DOMAIN resume.entries => ~ColdServes(b)
      BY <1>8, <2>2 DEF ColdOverHalf
    <2> QED
      BY <2>1, <2>3 DEF TaskRight
  <1>9. TasksRight(walked) \/ tasks = {}
    BY <1>1, <1>8 DEF TasksRight
  <1>10. Missing(batch, missed).phase # "walked"
    BY DEF Missing, Idle
  <1> HIDE DEF tasks, missed, walked
  <1>11. TasksRight(next)
    <2>1. CASE tasks = {}
      BY <1>10, <2>1 DEF TasksRight
    <2> QED
      BY <1>9, <2>1
  <1>12. refills'[r] = next /\ \A q \in Readers : q # r => refills'[q] = refills[q]
    BY <1>1, <1>7 DEF SeedTyped
  <1> HIDE DEF next
  <1>13. ASSUME NEW q \in Readers PROVE TasksRight(refills[q])'
    <2>1. CASE q # r
      BY <1>3, <1>4, <1>12, <2>1, TaskKept
    <2>2. CASE q = r
      <3> DEFINE f == refills'[q]
      <3>1. TasksRight(f)
        BY <1>11, <1>12, <2>2
      <3> HIDE DEF f
      <3>2. /\ f.phase = "walked" =>
                /\ f.now <= revision'
                /\ f.now = revision' =>
                      /\ HasActive(doc') /\ JoinIsHardUnion(doc')
                      /\ \A b \in DOMAIN f.tasks :
                            /\ f.tasks[b] = Chain(Active(doc').roots, b)
                            /\ b \in DOMAIN resume'.entries => Under(resume.entries[b], b)
        BY <1>3, <1>4, <3>1 DEF TasksRight
      <3> QED
        BY <1>3, <1>4, <3>2 DEF TasksRight, Under, f
    <2> QED
      BY <2>1, <2>2
  <1> QED
    BY <1>5, <1>6, <1>13 DEF StoreRight

\* A refill that ends leaves the others right.
LEMMA OthersRight ==
    ASSUME AnswerIInv, UNCHANGED <<doc, revision>>, NEW r \in Readers, NEW next, next.phase # "walked",
           refills' = [refills EXCEPT ![r] = next],
           \A b \in DOMAIN resume'.entries :
              \/ b \in DOMAIN resume.entries /\ resume'.entries[b].below = resume.entries[b].below
              \/ HasActive(doc) => Under(resume'.entries[b], b)
    PROVE  \A q \in Readers : TasksRight(refills[q])'
  <1>1. SeedTyped
    BY AnswerKinds
  <1>2. refills'[r].phase # "walked" /\ \A q \in Readers : q # r => refills'[q] = refills[q]
    BY <1>1 DEF SeedTyped
  <1>3. ASSUME NEW q \in Readers PROVE TasksRight(refills[q])'
    <2>1. CASE q # r
      BY <1>2, <2>1, TaskKept
    <2>2. CASE q = r
      BY <1>2, <2>2, NoTasks
    <2> QED
      BY <2>1, <2>2
  <1> QED
    BY <1>3

\* Its tasks are stored: at the revision they were planned at, or not at all.
LEMMA ResumedKeepsRight ==
    ASSUME AnswerIInv, NEW r \in Readers, StoreResumed(r)
    PROVE  StoreRight'
  <1> DEFINE f == refills[r]
  <1>1. f \in Refills /\ f.phase = "walked" /\ TasksRight(f) /\ SeedTyped
    BY AnswerKinds DEF StoreResumed, SeedTyped
  <1>2. resume' = AfterTasks(f) /\ refills' = [refills EXCEPT ![r] = Missing(f.batch, f.missed)]
    BY DEF StoreResumed
  <1>3. UNCHANGED <<doc, revision, structure, log, drag, prefixes>>
    BY DEF StoreResumed
  <1> HIDE DEF f
  <1>4. resume' \in AnsweredFrom(resume, f.tasks) /\ (f.now # revision => resume' = resume)
    BY <1>1, <1>2, TasksAnswer
  <1>5. /\ DOMAIN resume'.entries = DOMAIN resume.entries
        /\ \A b \in DOMAIN resume.entries :
              \/ resume'.entries[b] = resume.entries[b]
              \/ b \in DOMAIN f.tasks /\ resume'.entries[b] = Answered(resume.entries[b], f.tasks[b])
    BY <1>4 DEF AnsweredFrom
  <1>6. ASSUME NEW b \in DOMAIN resume.entries
        PROVE  /\ resume'.entries[b] = resume.entries[b] \/ FreshEntry(resume'.entries[b], b)
               /\ resume'.entries[b].below = resume.entries[b].below
    <2> DEFINE e == resume.entries[b]
               g == resume'.entries[b]
    <2>1. e \in Entry
      BY <1>1, SameAdvanced
    <2>2. g = e \/ (b \in DOMAIN f.tasks /\ g = Answered(e, f.tasks[b]))
      BY <1>5
    <2>3. b \in DOMAIN resume.entries
      OBVIOUS
    <2>3a. f.now = revision /\ b \in DOMAIN f.tasks => Under(e, b)
      BY <1>1, <2>3 DEF TasksRight
    <2>3b. f.now # revision => g = e
      BY <1>4
    <2> HIDE DEF e, g
    <2>4. ASSUME g # e
          PROVE  FreshEntry(g, b) /\ g.below = e.below
      <3>1. b \in DOMAIN f.tasks /\ g = Answered(e, f.tasks[b]) /\ f.now = revision /\ Under(e, b)
        BY <2>2, <2>3a, <2>3b, <2>4
      <3>2. HasActive(doc) /\ JoinIsHardUnion(doc) /\ f.tasks[b] = Chain(Active(doc).roots, b)
        BY <1>1, <3>1 DEF TasksRight
      <3>3. /\ g.rev = revision /\ g.dirty = Clean /\ g.active = f.tasks[b]
            /\ g.below = e.below /\ g.prefix = e.prefix
        BY <2>1, <3>1 DEF Answered, Entry
      <3>4. Under(g, b)
        BY <3>1, <3>3 DEF Under, HalfOf
      <3>5. doc \in Seq(Layer)
        BY AnswerKinds
      <3>6. \E l : Owns(doc, l, g, b)
        BY <3>2, <3>3, <3>4, <3>5, UnderOwns
      <3> QED
        BY <3>3, <3>4, <3>6 DEF FreshEntry
    <2>5. (g = e \/ FreshEntry(g, b)) /\ g.below = e.below
      BY <2>4
    <2> QED
      BY <2>5 DEF e, g
  <1>7. LogReaches' /\ SeedsRight'
    BY <1>3, <1>5, <1>6, StoreKept
  <1>8. Missing(f.batch, f.missed).phase # "walked"
    BY DEF Missing, Idle
  <1>9. \A q \in Readers : TasksRight(refills[q])'
    BY <1>2, <1>3, <1>5, <1>6, <1>8, OthersRight
  <1>10. prefixes' \in RightCaches
    BY <1>3, CacheRightIs
  <1>11. CacheRight'
    BY <1>3, <1>10, RightIsKept
  <1> QED
    BY <1>7, <1>9, <1>11 DEF StoreRight

\* The halves of a walk are those of the present document.
LEMMA WalkedUnder ==
    ASSUME AnswerIInv, HasActive(doc), NEW b, NEW f, f.below = Halves(b).below
    PROVE  Under(f, b)
  <1>1. doc \in Seq(Layer) /\ SeedTyped
    BY AnswerKinds
  <1>2. PICK t : TopOf(doc, t)
    BY <1>1, TopExists
  <1>3. t - 1 \in 0..Len(doc)
    BY <1>1, <1>2 DEF TopOf
  <1>4. CASE HasBelow(doc)
    <2>1. f.below = HalfBelow(doc, b)
      BY <1>4 DEF Halves
    <2>2. HalfBelow(doc, b) = AsField(PartsTo(doc, t - 1, b))
      BY <1>1, <1>2, BeneathTop
    <2>3. AsField(PartsTo(doc, t - 1, b)) \in Seq(Part)
      BY <1>1, <1>3, PartsStep, AsFieldIs
    <2>4. f.below # NoBelow
      BY <2>1, <2>2, <2>3, NoBelowAssumption DEF Part
    <2> QED
      BY <1>2, <2>1, <2>2, <2>4 DEF Under, HalfOf
  <1>5. CASE ~HasBelow(doc)
    <2>1. f.below = NoBelow
      BY <1>5 DEF Halves
    <2>2. PartsTo(doc, t - 1, b) = << >>
      BY <1>1, <1>2, <1>5, BeneathTop
    <2>3. AsField(PartsTo(doc, t - 1, b)) = << >>
      BY <2>2 DEF AsField
    <2> QED
      BY <1>2, <2>1, <2>3 DEF Under, HalfOf
  <1> QED
    BY <1>4, <1>5

\* The rest is walked.
LEMMA WalkRight ==
    ASSUME AnswerIInv, NEW r \in Readers, WalkMissing(r)
    PROVE  StoreRight'
  <1> DEFINE f == refills[r]
  <1>1. f \in Refills /\ f.phase = "missing" /\ SeedTyped /\ SeedHeld /\ Within(resume)
    BY AnswerKinds DEF WalkMissing, SeedTyped, SeedHeld
  <1>2. f.batch \in Seq(Bricks)
    BY <1>1 DEF Refills, Idle
  <1>3. resume' = IF JoinIsHardUnion(doc) THEN WalksStored(f.batch) ELSE resume
    BY DEF WalkMissing, WalksStored, StoreWalk, FoldLeft, MapThenFoldSet
  <1>4. refills' = [refills EXCEPT ![r] = Idle]
    BY DEF WalkMissing
  <1>5. UNCHANGED <<doc, revision, structure, log, drag, prefixes>>
    BY DEF WalkMissing
  <1> HIDE DEF f
  <1>6. \A b \in DOMAIN resume'.entries :
              \/ b \in DOMAIN resume.entries /\ resume'.entries[b] = resume.entries[b]
              \/ JoinIsHardUnion(doc) /\ Walked(resume'.entries[b], b)
    <2>1. JoinIsHardUnion(doc) => resume' \in WalkedFrom(resume)
      BY <1>1, <1>2, <1>3, WalksStay
    <2> QED
      BY <1>3, <2>1 DEF WalkedFrom
  <1>7. ASSUME NEW g, NEW b, JoinIsHardUnion(doc), Walked(g, b)
        PROVE  FreshEntry(g, b) /\ (HasActive(doc) => Under(g, b))
    <2>1. /\ g.rev = revision /\ g.dirty = Clean /\ g.prefix = NoPrefix
          /\ g.active = Halves(b).active /\ g.below = Halves(b).below
      BY <1>7 DEF Walked
    <2>2. g.prefix.chain = << >>
      BY <2>1 DEF NoPrefix
    <2>3. HasActive(doc) => Under(g, b)
      BY <2>1, WalkedUnder
    <2>4. ASSUME g.active # << >> PROVE \E l : Owns(doc, l, g, b)
      <3>1. HasActive(doc) /\ g.active = Chain(Active(doc).roots, b)
        BY <2>1, <2>4 DEF Halves
      <3>2. doc \in Seq(Layer)
        BY AnswerKinds
      <3> QED
        BY <1>7, <2>3, <3>1, <3>2, UnderOwns
    <2> QED
      BY <2>1, <2>2, <2>3, <2>4 DEF FreshEntry
  <1>8. \A b \in DOMAIN resume'.entries :
              \/ b \in DOMAIN resume.entries /\ resume'.entries[b] = resume.entries[b]
              \/ FreshEntry(resume'.entries[b], b)
    BY <1>6, <1>7
  <1>9. \A b \in DOMAIN resume'.entries :
              \/ b \in DOMAIN resume.entries /\ resume'.entries[b].below = resume.entries[b].below
              \/ HasActive(doc) => Under(resume'.entries[b], b)
    BY <1>6, <1>7
  <1>10. LogReaches' /\ SeedsRight'
    BY <1>5, <1>8, StoreKept
  <1>11. Idle.phase # "walked"
    BY DEF Idle
  <1>12. \A q \in Readers : TasksRight(refills[q])'
    BY <1>4, <1>5, <1>9, <1>11, OthersRight
  <1>13. prefixes' \in RightCaches
    BY <1>5, CacheRightIs
  <1>14. CacheRight'
    BY <1>5, <1>13, RightIsKept
  <1> QED
    BY <1>10, <1>12, <1>14 DEF StoreRight

-----------------------------------------------------------------------------
(* The pass in front of a drag.                                            *)

\* Where the first roots leave a value, so do all of them.
LEMMA FirstRootsLit ==
    ASSUME NEW roots \in Seq(Item), NEW n \in 0..Len(roots), NEW b,
           Chain(SubSeq(roots, 1, n), b) # << >>
    PROVE  Chain(roots, b) # << >>
  <1> DEFINE first == Chain(SubSeq(roots, 1, n), b)
             rest == Chain(SubSeq(roots, n + 1, Len(roots)), b)
  <1>1. first \o rest = Chain(roots, b)
    BY ChainSplits
  <1>2. SubSeq(roots, 1, n) \in Seq(Item) /\ SubSeq(roots, n + 1, Len(roots)) \in Seq(Item)
    <2>1. SubSeq(roots, 1, n) \in Seq(Item)
      OBVIOUS
    <2>2. \A i \in n + 1..Len(roots) : roots[i] \in Item
      OBVIOUS
    <2>3. n + 1 \in Int /\ Len(roots) \in Int
      OBVIOUS
    <2>4. SubSeq(roots, n + 1, Len(roots)) \in Seq(Item)
      BY <2>2, <2>3, SubSeqProperties
    <2> QED
      BY <2>1, <2>4
  <1>3. first \in Seq(Nat) /\ rest \in Seq(Nat)
    BY <1>2, ChainTyped
  <1>4. first # << >>
    OBVIOUS
  <1> HIDE DEF first, rest
  <1>5. Len(first) # 0
    BY <1>3, <1>4, EmptySeq
  <1>6. Len(first \o rest) = Len(first) + Len(rest) /\ Len(first) \in Nat /\ Len(rest) \in Nat
    BY <1>3
  <1>7. Len(first \o rest) # 0
    BY <1>5, <1>6
  <1>8. Len(<< >>) = 0
    OBVIOUS
  <1> QED
    BY <1>1, <1>7, <1>8

\* An owner at a brick the active layer reaches is the active layer.
LEMMA OwnerIsTop ==
    ASSUME doc \in Seq(Layer), HasActive(doc), NEW l, NEW e, NEW b, Owns(doc, l, e, b),
           Chain(Active(doc).roots, b) # << >>
    PROVE  Under(e, b)
  <1>1. PICK t : TopOf(doc, t)
    BY TopExists
  <1>2. Active(doc) = doc[t] /\ t \in 1..Len(doc) /\ Len(doc) \in Nat
    BY <1>1, ActiveIsTop DEF TopOf
  <1>3. /\ l \in 1..Len(doc) /\ doc[l].visible /\ \A k \in l + 1..Len(doc) : ~Lit(doc, k, b)
        /\ HalfOf(e) = AsField(PartsTo(doc, l - 1, b))
    BY DEF Owns
  <1>4. Lit(doc, t, b)
    BY <1>1, <1>2 DEF Lit, TopOf
  <1>5. l <= t
    BY <1>1, <1>3, TopIsAbove
  <1>6. l = t
    <2>1. l < t => t \in l + 1..Len(doc)
      BY <1>2, <1>3
    <2> QED
      BY <1>2, <1>3, <1>4, <1>5, <2>1
  <1> QED
    BY <1>1, <1>3, <1>6 DEF Under

\* The pass stores its prefixes.
LEMMA PassRight ==
    ASSUME AnswerIInv, StorePrefixes
    PROVE  StoreRight'
  <1>1. SeedTyped /\ SeedHeld /\ PassIsOfNow /\ SeedsRight /\ doc \in Seq(Layer) /\ revision \in Nat
    BY AnswerKinds
  <1>2. UNCHANGED <<doc, revision, structure, log, refills, prefixes>> /\ drag # Idle
    BY DEF StorePrefixes
  <1>3. /\ DOMAIN resume'.entries \subseteq DOMAIN resume.entries
        /\ \A b \in DOMAIN resume'.entries :
              \/ resume'.entries[b] = resume.entries[b]
              \/ /\ revision = drag.now /\ structure = drag.structure /\ PassStores(b)
                 /\ resume'.entries[b] =
                       [resume.entries[b] EXCEPT !.prefix = drag.prefixes[b],
                                                 !.room = @ \cup {"prefix"}]
    BY <1>1, PassLeaves
  <1>4. ASSUME NEW b \in DOMAIN resume.entries, revision = drag.now, PassStores(b), NEW g,
               g = [resume.entries[b] EXCEPT !.prefix = drag.prefixes[b], !.room = @ \cup {"prefix"}]
        PROVE  FreshEntry(g, b) /\ g.below = resume.entries[b].below
    <2> DEFINE e == resume.entries[b]
               p == drag.prefixes[b]
    <2>1. e \in Entry /\ SeedRight(e, b)
      BY <1>1, SameAdvanced DEF SeedsRight
    <2>2. e.dirty = Clean /\ e.rev = revision /\ p.structure = structure /\ TruePrefix(p, b)
      BY <1>1, <1>2, <1>4 DEF PassStores, PassIsOfNow
    <2>3. g = [e EXCEPT !.prefix = p, !.room = @ \cup {"prefix"}]
      BY <1>4
    <2> HIDE DEF e, p
    <2>4. /\ g.dirty = e.dirty /\ g.rev = e.rev /\ g.active = e.active /\ g.below = e.below
          /\ g.prefix = p
      BY <2>1, <2>3 DEF Entry
    <2>5. revision - e.rev = 0
      BY <1>1, <2>2
    <2>6. Before(revision - e.rev) = doc
      BY <2>5 DEF Before, CutBack
    <2>7. e.active # << >> => \E l : Owns(doc, l, e, b)
      BY <2>1, <2>2, <2>6 DEF SeedRight, IsAlive
    <2>8. \A l : Owns(doc, l, e, b) => Owns(doc, l, g, b)
      BY <2>4 DEF Owns, HalfOf
    <2>9. ASSUME g.active # << >>, p.chain # << >> PROVE Under(g, b)
      <3>1. PICK l : Owns(doc, l, g, b)
        BY <2>4, <2>7, <2>8, <2>9
      <3>2. /\ HasActive(doc) /\ p.boundary \in 0..Len(Active(doc).roots)
            /\ p.chain = Chain(SubSeq(Active(doc).roots, 1, p.boundary), b)
        BY <2>2 DEF TruePrefix
      <3>3. Active(doc).roots \in Seq(Item)
        BY <1>1, <3>2, ActiveTyped
      <3>4. Chain(Active(doc).roots, b) # << >>
        BY <2>9, <3>2, <3>3, FirstRootsLit
      <3> QED
        BY <1>1, <3>1, <3>2, <3>4, OwnerIsTop
    <2>10. FreshEntry(g, b) /\ g.below = e.below
      BY <2>2, <2>4, <2>7, <2>8, <2>9 DEF FreshEntry
    <2> QED
      BY <2>10 DEF e
  <1>5. \A b \in DOMAIN resume'.entries :
            /\ b \in DOMAIN resume.entries
            /\ resume'.entries[b] = resume.entries[b] \/ FreshEntry(resume'.entries[b], b)
            /\ resume'.entries[b].below = resume.entries[b].below
    BY <1>3, <1>4
  <1>6. LogReaches' /\ SeedsRight'
    BY <1>2, <1>5, StoreKept
  <1>7. \A r \in Readers : TasksRight(refills[r])'
    BY <1>2, <1>5, TaskKept
  <1>8. prefixes' \in RightCaches
    BY <1>2, CacheRightIs
  <1>9. CacheRight'
    BY <1>2, <1>8, RightIsKept
  <1> QED
    BY <1>6, <1>7, <1>9 DEF StoreRight

-----------------------------------------------------------------------------
(* The store through every step.                                           *)

\* What leaves all but the cache and the pass alone leaves the store right.
LEMMA SameStoreRight ==
    ASSUME AnswerIInv, UNCHANGED <<doc, revision, structure, log, resume, refills>>,
           prefixes' \in RightCaches
    PROVE  StoreRight'
  <1>1. LogReaches' /\ SeedsRight'
    BY StoreKept
  <1>2. \A r \in Readers : TasksRight(refills[r])'
    BY TaskKept
  <1>3. CacheRight'
    BY RightIsKept
  <1> QED
    BY <1>1, <1>2, <1>3 DEF StoreRight

\* Every step keeps the store right, but for the three calls left out.
LEMMA AnswerStep ==
    ASSUME AnswerIInv, [Next]_vars,
           Calls \cap {"coldOverHalf", "editPrefix", "newTopLayer"} = {}
    PROVE  StoreRight'
  <1>1. "coldOverHalf" \notin Calls /\ "editPrefix" \notin Calls /\ "newTopLayer" \notin Calls
    OBVIOUS
  <1>2. CASE Edit
    BY <1>1, <1>2, EditRight
  <1>3. CASE Refill
    BY <1>1, <1>3, BeginRight, ResumedKeepsRight, WalkRight DEF Refill
  <1>4. ASSUME NEW warps, PrepareDrag(warps) PROVE StoreRight'
    BY <1>4, CacheRightIs, SameStoreRight DEF PrepareDrag
  <1>5. CASE StorePrefixes
    BY <1>5, PassRight
  <1>6. ASSUME NEW cache \in RightCaches, HostCalls(cache) PROVE StoreRight'
    BY <1>6, SameStoreRight DEF HostCalls
  <1>7. ASSUME NEW l \in DOMAIN doc, BuildPrefix(l) \/ InvalidatePrefixes(l) PROVE StoreRight'
    BY <1>6, <1>7, CallsRight DEF BuildPrefix, InvalidatePrefixes
  <1>8. CASE ClearPrefixes
    BY <1>6, <1>8, CallsRight DEF ClearPrefixes
  <1>9. ASSUME NEW budget \in PrefixBudgets, SetPrefixBudget(budget) PROVE StoreRight'
    BY <1>6, <1>9, CallsRight DEF SetPrefixBudget
  <1>10. CASE UNCHANGED vars
    BY <1>10, CacheRightIs, SameStoreRight DEF vars
  <1> QED
    BY <1>2, <1>3, <1>4, <1>5, <1>7, <1>8, <1>9, <1>10 DEF Next

\* A document just opened has nothing stored.
LEMMA AnswerInit == Init => AnswerIInv
  <1> SUFFICES ASSUME Init PROVE AnswerIInv
    OBVIOUS
  <1>1. PrefixIInv
    BY InitHolds, NoSeedsStored DEF Init, PrefixIInv, PrefixesHold, PassIsOfNow
  <1>2. LogReaches
    BY DEF Init, EmptyLog, LogReaches
  <1>3. SeedsRight
    BY NoSeedsStored DEF Init, SeedsRight
  <1>4. \A r \in Readers : TasksRight(refills[r])
    BY DEF Init, TasksRight, Idle
  <1>5. CacheRight
    BY DEF Init, EmptyCache, CacheRight, NoWitness
  <1> QED
    BY <1>1, <1>2, <1>3, <1>4, <1>5 DEF AnswerIInv

(***************************************************************************)
(* A brick answered from the store has the value a full walk of the        *)
(* document gives it, in whichever of the three ways its value is brought  *)
(* forward: whatever edits came since the seed, however many refills       *)
(* overlap, and whatever the seam of a resumed batch lets in               *)
(* (resume_bricks, plan_resume, plan_frontier, sample_prefix_seed).  The   *)
(* host makes none of the three calls that are known to break it: a layer  *)
(* brought in over a kept half, a root set under a verified prefix, a      *)
(* lone layer's prefix served beside the half of layers since hidden.      *)
(***************************************************************************)
THEOREM AnswersAreTheField ==
    ASSUME Calls \cap {"coldOverHalf", "editPrefix", "newTopLayer"} = {}
    PROVE  Spec => []EveryAnswerIsTheField
  <1>1. AnswerIInv /\ [Next]_vars => AnswerIInv'
    BY AnswerStep, PrefixStep DEF AnswerIInv, StoreRight
  <1>2. AnswerIInv => EveryAnswerIsTheField
    BY AnswersRight
  <1> QED
    BY <1>1, <1>2, AnswerInit, PTL DEF Spec
=============================================================================
