----------------------------- MODULE SceneProofs -----------------------------
(***************************************************************************)
(* The trees of a scene session stay whole, and every call of a host that  *)
(* keeps to the documented use can be taken back and brought again, for    *)
(* any loaded document, any values and any number of calls.                *)
(*                                                                         *)
(* The argument goes up the code.  The edits of a tree (document.cpp) as   *)
(* lists and sets of nodes: what each leaves is a tree again, and which    *)
(* edit leads back.  The vocabulary (scene::apply): every command a        *)
(* document takes is answered with a command that leads back, from every   *)
(* document that shows what was left (Within: the same layers and trees,   *)
(* with perhaps more ids handed out, and perhaps more trees that no layer  *)
(* shows).  The undo stack: an entry of one such command, or of two, leads *)
(* back, and a stack of entries leads through documents, one by one.  The  *)
(* calls of the host: each performs commands the document takes, so that   *)
(* each is one step more, or a longer last step.  The session: both stacks *)
(* lead through documents, whatever the host calls, and the documents are  *)
(* the line that LinearHistory walks.                                      *)
(***************************************************************************)
EXTENDS SceneRefinement, FoldLemmas, SequenceTheorems

-----------------------------------------------------------------------------
(* Lists. *)

\* A list with x put in at place k.
Put(list, k, x) ==
    [i \in 1..(Len(list) + 1) |->
        IF i < k THEN list[i] ELSE IF i = k THEN x ELSE list[i - 1]]

\* A list without its k-th element.
Cut(list, k) == [i \in 1..(Len(list) - 1) |-> IF i < k THEN list[i] ELSE list[i + 1]]

\* A list is the function of its elements.
LEMMA ListIsFunction ==
    ASSUME NEW X, NEW s \in Seq(X), NEW n, n = Len(s)
    PROVE  s = [i \in 1..n |-> s[i]]
OBVIOUS

\* What place and the removal from a list come to.
LEMMA PlaceIsPut ==
    ASSUME NEW X, NEW list \in Seq(X), NEW x \in X, NEW index \in Int
    PROVE  Place(list, x, index) =
               Put(list, IF index < 0 \/ index > Len(list) THEN Len(list) + 1 ELSE index + 1, x)
<1>1. CASE index < 0 \/ index > Len(list)
  <2>1. Append(list, x) = Put(list, Len(list) + 1, x)
    <3>1. /\ Append(list, x) \in Seq(X) /\ Len(Append(list, x)) = Len(list) + 1
          /\ \A i \in 1..Len(list) : Append(list, x)[i] = list[i]
          /\ Append(list, x)[Len(list) + 1] = x
      BY AppendProperties
    <3>2. \A i \in 1..(Len(list) + 1) : Append(list, x)[i] = Put(list, Len(list) + 1, x)[i]
      <4>1. \A i \in 1..(Len(list) + 1) : i = Len(list) + 1 \/ (i \in 1..Len(list) /\ i < Len(list) + 1)
        OBVIOUS
      <4>2. QED
        BY <3>1, <4>1 DEF Put
    <3>3. Append(list, x) = [i \in 1..(Len(list) + 1) |-> Append(list, x)[i]]
      BY <3>1, ListIsFunction
    <3>4. QED
      BY <3>2, <3>3 DEF Put
  <2>2. QED
    BY <1>1, <2>1 DEF Place
<1>2. CASE ~ (index < 0 \/ index > Len(list))
  <2>1. index \in 0..Len(list) /\ index \in Nat /\ Len(list) \in Nat
    BY <1>2
  <2> DEFINE a == SubSeq(list, 1, index)
             b == SubSeq(list, index + 1, Len(list))
  <2>2. /\ a \in Seq(X) /\ Len(a) = index /\ \A i \in 1..index : a[i] = list[i]
        /\ b \in Seq(X) /\ Len(b) = Len(list) - index
        /\ \A i \in 1..Len(b) : b[i] = list[index + i]
    <3>1. index + 1 \in 1..(Len(list) + 1) /\ index + 1 - 1 = index /\ Len(list) \in Nat
      BY <2>1
    <3>2. QED
      BY <2>1, <3>1, SubSeqProperties
  <2>3. <<x>> \in Seq(X) /\ Len(<<x>>) = 1 /\ <<x>>[1] = x
    OBVIOUS
  <2> HIDE DEF a, b
  <2> DEFINE ax == a \o <<x>>
             one == <<x>>
  <2>4. /\ ax \in Seq(X) /\ Len(ax) = index + 1
        /\ \A i \in 1..(index + 1) : ax[i] = IF i <= index THEN a[i] ELSE x
    <3>1. one \in Seq(X) /\ Len(one) = 1 /\ one[1] = x /\ ax = a \o one
      OBVIOUS
    <3> HIDE DEF one, ax
    <3>2. /\ a \o one \in Seq(X) /\ Len(a \o one) = Len(a) + Len(one)
          /\ \A i \in 1..(Len(a) + Len(one)) :
                (a \o one)[i] = IF i <= Len(a) THEN a[i] ELSE one[i - Len(a)]
      BY <2>2, <3>1, ConcatProperties
    <3>3. \A i \in 1..(index + 1) : ~ (i <= index) => i - index = 1
      BY <2>1
    <3>4. QED
      BY <2>2, <3>1, <3>2, <3>3
  <2> HIDE DEF ax
  <2>5. /\ ax \o b \in Seq(X) /\ Len(ax \o b) = Len(list) + 1
        /\ \A i \in 1..(Len(list) + 1) :
              (ax \o b)[i] = IF i <= index + 1 THEN ax[i] ELSE b[i - (index + 1)]
    <3>1. ax \in Seq(X) /\ Len(ax) = index + 1 /\ Len(ax) + Len(b) = Len(list) + 1
      BY <2>1, <2>2, <2>4
    <3>2. QED
      BY <2>2, <3>1, ConcatProperties
  <2>6. \A i \in 1..(Len(list) + 1) : (ax \o b)[i] = Put(list, index + 1, x)[i]
    <3>1. SUFFICES ASSUME NEW i \in 1..(Len(list) + 1)
                   PROVE  (ax \o b)[i] = Put(list, index + 1, x)[i]
      OBVIOUS
    <3>2. CASE i <= index
      BY <2>1, <2>2, <2>4, <2>5, <3>2 DEF Put
    <3>3. CASE i = index + 1
      BY <2>1, <2>2, <2>4, <2>5, <3>3 DEF Put
    <3>4. CASE i > index + 1
      <4> DEFINE j == i - (index + 1)
      <4>1. Len(b) = Len(list) - index
        BY <2>2
      <4>2. j \in 1..(Len(list) - index) /\ index + j = i - 1
        BY <2>1, <3>4
      <4>3. b[j] = list[i - 1]
        BY <2>2, <4>1, <4>2
      <4>4. (ax \o b)[i] = b[j]
        BY <2>1, <2>5, <3>4
      <4>5. Put(list, index + 1, x)[i] = list[i - 1]
        BY <2>1, <3>4 DEF Put
      <4>6. QED
        BY <4>3, <4>4, <4>5
    <3>5. i <= index \/ i = index + 1 \/ i > index + 1
      BY <2>1
    <3>6. QED
      BY <3>2, <3>3, <3>4, <3>5
  <2>7. ax \o b = Put(list, index + 1, x)
    <3>1. ax \o b = [i \in 1..(Len(list) + 1) |-> (ax \o b)[i]]
      BY <2>5, ListIsFunction
    <3>2. QED
      BY <2>6, <3>1 DEF Put
  <2>8. Place(list, x, index) = ax \o b
    <3>1. Place(list, x, index) = InsertAt(list, index + 1, x)
      BY <1>2 DEF Place
    <3>2. SubSeq(list, 1, (index + 1) - 1) = a
      BY <2>1 DEF a
    <3>3. InsertAt(list, index + 1, x) = (a \o <<x>>) \o b
      BY <3>2 DEF InsertAt, b
    <3>4. QED
      BY <3>1, <3>3 DEF ax
  <2>9. QED
    BY <1>2, <2>7, <2>8
<1>3. QED
  BY <1>1, <1>2

\* SequencesExt's RemoveAt, element by element.
LEMMA RemoveAtIsCut ==
    ASSUME NEW X, NEW list \in Seq(X), NEW k \in 1..Len(list)
    PROVE  RemoveAt(list, k) = Cut(list, k)
<1> DEFINE a == SubSeq(list, 1, k - 1)
           b == SubSeq(list, k + 1, Len(list))
<1>1. /\ a \in Seq(X) /\ Len(a) = k - 1 /\ \A i \in 1..(k - 1) : a[i] = list[i]
      /\ b \in Seq(X) /\ Len(b) = Len(list) - k
      /\ \A i \in 1..Len(b) : b[i] = list[k + i]
  <2>1. k - 1 \in 0..Len(list) /\ k + 1 \in 1..(Len(list) + 1) /\ Len(list) \in Nat
    OBVIOUS
  <2>2. QED
    BY <2>1, SubSeqProperties
<1> HIDE DEF a, b
<1>2. /\ a \o b \in Seq(X) /\ Len(a \o b) = Len(list) - 1
      /\ \A i \in 1..(Len(list) - 1) : (a \o b)[i] = IF i < k THEN a[i] ELSE b[i - (k - 1)]
  <2>1. a \in Seq(X) /\ b \in Seq(X)
    BY <1>1
  <2>2. /\ a \o b \in Seq(X) /\ Len(a \o b) = Len(a) + Len(b)
        /\ \A i \in 1..(Len(a) + Len(b)) :
              (a \o b)[i] = IF i <= Len(a) THEN a[i] ELSE b[i - Len(a)]
    BY <2>1, ConcatProperties
  <2>3. /\ Len(a) = k - 1 /\ Len(a) + Len(b) = Len(list) - 1
        /\ \A i \in 1..(Len(list) - 1) : i <= k - 1 <=> i < k
    BY <1>1
  <2>4. QED
    BY <2>2, <2>3
<1>3. \A i \in 1..(Len(list) - 1) : (a \o b)[i] = Cut(list, k)[i]
  <2>1. SUFFICES ASSUME NEW i \in 1..(Len(list) - 1) PROVE (a \o b)[i] = Cut(list, k)[i]
    OBVIOUS
  <2>2. CASE i < k
    BY <1>1, <1>2, <2>2 DEF Cut
  <2>3. CASE i >= k
    <3> DEFINE j == i - (k - 1)
    <3>1. j \in 1..(Len(list) - k) /\ k + j = i + 1
      BY <2>3
    <3>2. b[j] = list[i + 1]
      BY <1>1, <3>1
    <3>3. (a \o b)[i] = b[j]
      BY <1>2, <2>3
    <3>4. Cut(list, k)[i] = list[i + 1]
      BY <2>3 DEF Cut
    <3>5. QED
      BY <3>2, <3>3, <3>4
  <2>4. i < k \/ i >= k
    OBVIOUS
  <2>5. QED
    BY <2>2, <2>3, <2>4
<1>4. a \o b = [i \in 1..(Len(list) - 1) |-> (a \o b)[i]]
  BY <1>2, ListIsFunction
<1>5. QED
  BY <1>3, <1>4 DEF Cut, RemoveAt, a, b

\* An element put in a list is there, and leaves it with the list as it was.
LEMMA Putting ==
    ASSUME NEW X, NEW list \in Seq(X), NEW x \in X, NEW k \in 1..(Len(list) + 1)
    PROVE  /\ Put(list, k, x) \in Seq(X) /\ Len(Put(list, k, x)) = Len(list) + 1
           /\ k \in 1..Len(Put(list, k, x)) /\ Put(list, k, x)[k] = x
           /\ ToSet(Put(list, k, x)) = ToSet(list) \cup {x}
           /\ Cut(Put(list, k, x), k) = list
           /\ (x \notin ToSet(list) /\ IsInjective(list)) => IsInjective(Put(list, k, x))
<1> DEFINE new == Put(list, k, x)
<1>1. new \in Seq(X) /\ Len(new) = Len(list) + 1 /\ DOMAIN new = 1..(Len(list) + 1)
  <2>1. \A i \in 1..(Len(list) + 1) : (i < k => list[i] \in X) /\ (i > k => list[i - 1] \in X)
    OBVIOUS
  <2>2. new \in [1..(Len(list) + 1) -> X]
    BY <2>1 DEF Put
  <2>3. Len(list) + 1 \in Nat
    OBVIOUS
  <2>4. QED
    BY <2>2, <2>3
<1>2. /\ \A i \in 1..Len(list) : i < k => new[i] = list[i]
      /\ \A i \in 1..Len(list) : i >= k => new[i + 1] = list[i]
      /\ new[k] = x
  BY DEF Put
<1>3. ToSet(new) = ToSet(list) \cup {x}
  <2>1. \A i \in 1..(Len(list) + 1) :
            new[i] = x \/ (i \in 1..Len(list) /\ new[i] = list[i])
                       \/ (i - 1 \in 1..Len(list) /\ new[i] = list[i - 1])
    BY DEF Put
  <2>2. ToSet(new) \subseteq ToSet(list) \cup {x}
    BY <1>1, <2>1 DEF ToSet
  <2>3. \A i \in 1..Len(list) : \E j \in 1..(Len(list) + 1) : new[j] = list[i]
    <3>1. SUFFICES ASSUME NEW i \in 1..Len(list)
                   PROVE  \E j \in 1..(Len(list) + 1) : new[j] = list[i]
      OBVIOUS
    <3>2. i \in 1..(Len(list) + 1) /\ i + 1 \in 1..(Len(list) + 1)
      OBVIOUS
    <3>3. QED
      BY <1>2, <3>2
  <2>4. ToSet(list) \subseteq ToSet(new)
    BY <1>1, <2>3 DEF ToSet
  <2>5. x \in ToSet(new)
    BY <1>1, <1>2 DEF ToSet
  <2>6. QED
    BY <2>2, <2>4, <2>5
<1>4. Cut(new, k) = list
  <2>1. Len(new) - 1 = Len(list)
    BY <1>1
  <2>2. Cut(new, k) = [i \in 1..Len(list) |-> IF i < k THEN new[i] ELSE new[i + 1]]
    BY <2>1 DEF Cut
  <2>3. \A i \in 1..Len(list) : (IF i < k THEN new[i] ELSE new[i + 1]) = list[i]
    BY <1>2
  <2>4. list = [i \in 1..Len(list) |-> list[i]]
    OBVIOUS
  <2>5. QED
    BY <2>2, <2>3, <2>4
<1>5. ASSUME x \notin ToSet(list), IsInjective(list) PROVE IsInjective(new)
  <2>1. \A i, j \in 1..Len(list) : list[i] = list[j] => i = j
    BY <1>5 DEF IsInjective
  <2>2. \A i \in 1..Len(list) : list[i] # x
    BY <1>5 DEF ToSet
  <2>3. ASSUME NEW i \in 1..(Len(list) + 1), NEW j \in 1..(Len(list) + 1), new[i] = new[j]
        PROVE  i = j
    <3>1. \A m \in 1..(Len(list) + 1) :
              \/ m < k /\ m \in 1..Len(list) /\ new[m] = list[m]
              \/ m = k
              \/ m > k /\ m - 1 \in 1..Len(list) /\ new[m] = list[m - 1]
      BY DEF Put
    <3>2. i \in Int /\ j \in Int /\ k \in Int
      OBVIOUS
    <3>3. QED
      BY <1>2, <2>1, <2>2, <2>3, <3>1, <3>2
  <2>4. QED
    BY <1>1, <2>3 DEF IsInjective
<1>6. QED
  BY <1>1, <1>2, <1>3, <1>4, <1>5

\* An element leaves a list without repetitions, which keeps the others.
LEMMA Cutting ==
    ASSUME NEW X, NEW list \in Seq(X), IsInjective(list), NEW k \in 1..Len(list)
    PROVE  /\ Cut(list, k) \in Seq(X) /\ Len(Cut(list, k)) = Len(list) - 1
           /\ k \in 1..(Len(Cut(list, k)) + 1)
           /\ ToSet(Cut(list, k)) = ToSet(list) \ {list[k]}
           /\ Put(Cut(list, k), k, list[k]) = list
           /\ IsInjective(Cut(list, k))
<1> DEFINE new == Cut(list, k)
<1>1. new \in Seq(X) /\ Len(new) = Len(list) - 1 /\ DOMAIN new = 1..(Len(list) - 1)
  <2>1. \A i \in 1..(Len(list) - 1) : list[i] \in X /\ list[i + 1] \in X
    OBVIOUS
  <2>2. new \in [1..(Len(list) - 1) -> X]
    BY <2>1 DEF Cut
  <2>3. Len(list) - 1 \in Nat
    OBVIOUS
  <2>4. QED
    BY <2>2, <2>3
<1>2. \A i, j \in 1..Len(list) : list[i] = list[j] => i = j
  BY DEF IsInjective
<1>3. ToSet(new) = ToSet(list) \ {list[k]}
  <2>1. \A i \in 1..(Len(list) - 1) : \E j \in 1..Len(list) : j # k /\ new[i] = list[j]
    <3>1. \A i \in 1..(Len(list) - 1) :
              /\ i < k => i \in 1..Len(list) /\ new[i] = list[i]
              /\ ~ (i < k) => i + 1 \in 1..Len(list) /\ i + 1 # k /\ new[i] = list[i + 1]
      BY DEF Cut
    <3>2. \A i \in 1..(Len(list) - 1) : i < k => i # k
      OBVIOUS
    <3>3. QED
      BY <3>1, <3>2
  <2>2. \A j \in 1..Len(list) : j # k => \E i \in 1..(Len(list) - 1) : new[i] = list[j]
    <3>1. SUFFICES ASSUME NEW j \in 1..Len(list), j # k
                   PROVE  \E i \in 1..(Len(list) - 1) : new[i] = list[j]
      OBVIOUS
    <3>2. CASE j < k
      <4>1. j \in 1..(Len(list) - 1)
        BY <3>2
      <4>2. QED
        BY <3>2, <4>1 DEF Cut
    <3>3. CASE j > k
      <4>1. j - 1 \in 1..(Len(list) - 1) /\ ~ (j - 1 < k) /\ j - 1 + 1 = j
        BY <3>3
      <4>2. new[j - 1] = list[j]
        BY <4>1 DEF Cut
      <4>3. QED
        BY <4>1, <4>2
    <3>4. QED
      BY <3>1, <3>2, <3>3
  <2>3. \A j \in 1..Len(list) : list[j] = list[k] <=> j = k
    BY <1>2
  <2>4. DOMAIN list = 1..Len(list)
    OBVIOUS
  <2>5. ToSet(new) = {new[i] : i \in 1..(Len(list) - 1)} /\ ToSet(list) = {list[j] : j \in 1..Len(list)}
    BY <1>1, <2>4 DEF ToSet
  <2> HIDE DEF new
  <2>6. ToSet(new) \subseteq ToSet(list) \ {list[k]}
    BY <2>1, <2>3, <2>5
  <2>7. ToSet(list) \ {list[k]} \subseteq ToSet(new)
    BY <2>2, <2>5
  <2>8. QED
    BY <2>6, <2>7
<1>4. Put(new, k, list[k]) = list
  <2>1. Len(new) + 1 = Len(list)
    BY <1>1
  <2>2. \A i \in 1..Len(list) :
            (IF i < k THEN new[i] ELSE IF i = k THEN list[k] ELSE new[i - 1]) = list[i]
    <3>1. \A i \in 1..Len(list) : i < k => new[i] = list[i]
      BY DEF Cut
    <3>2. \A i \in 1..Len(list) : i > k => new[i - 1] = list[i]
      <4>1. SUFFICES ASSUME NEW i \in 1..Len(list), i > k PROVE new[i - 1] = list[i]
        OBVIOUS
      <4>2. i - 1 \in 1..(Len(list) - 1) /\ ~ (i - 1 < k) /\ i - 1 + 1 = i
        BY <4>1
      <4>3. QED
        BY <4>2 DEF Cut
    <3>3. QED
      BY <3>1, <3>2
  <2>3. Put(new, k, list[k]) =
            [i \in 1..Len(list) |->
                IF i < k THEN new[i] ELSE IF i = k THEN list[k] ELSE new[i - 1]]
    BY <2>1 DEF Put
  <2>4. list = [i \in 1..Len(list) |-> list[i]]
    OBVIOUS
  <2>5. QED
    BY <2>2, <2>3, <2>4
<1>5. IsInjective(new)
  <2>1. ASSUME NEW i \in 1..(Len(list) - 1), NEW j \in 1..(Len(list) - 1), new[i] = new[j]
        PROVE  i = j
    <3>1. \A m \in 1..(Len(list) - 1) :
              \/ m < k /\ m \in 1..Len(list) /\ new[m] = list[m]
              \/ m >= k /\ m + 1 \in 1..Len(list) /\ new[m] = list[m + 1]
      BY DEF Cut
    <3>2. i \in Int /\ j \in Int
      OBVIOUS
    <3>3. QED
      BY <1>2, <2>1, <3>1, <3>2
  <2>2. QED
    BY <1>1, <2>1 DEF IsInjective
<1>6. k \in 1..(Len(new) + 1)
  BY <1>1
<1>7. QED
  BY <1>1, <1>3, <1>4, <1>5, <1>6

\* The position of an element of a list without repetitions.
LEMMA PositionOf ==
    ASSUME NEW X, NEW list \in Seq(X), IsInjective(list), NEW k \in 1..Len(list), NEW x, x = list[k]
    PROVE  {i \in 1..Len(list) : list[i] = x} = {k} /\ Min({k}) = k
<1>1. {i \in 1..Len(list) : list[i] = x} = {k}
  BY DEF IsInjective
<1>2. Min({k}) = k
  BY DEF Min
<1>3. QED
  BY <1>1, <1>2

-----------------------------------------------------------------------------
(* Nodes and lists of a tree. *)

\* No two nodes have one id.
Unique(nodes) == \A m, n \in nodes : m.id = n.id => m = n

\* The places of a tree: the root list, and the list of every node.
Places(tree) == IdsOf(tree.nodes) \cup {NoNode}

\* A tree of the session's types, where an id is the id of one node.
IsArena(tree) == tree \in Trees /\ IsFiniteSet(tree.nodes) /\ Unique(tree.nodes)

\* In an arena an id names one node.
LEMMA NodesById ==
    ASSUME NEW tree, IsArena(tree), NEW id \in IdsOf(tree.nodes)
    PROVE  /\ NodeOf(tree, id) \in tree.nodes /\ NodeOf(tree, id) \in Nodes
           /\ NodeOf(tree, id).id = id /\ id \in Ids
           /\ \A n \in tree.nodes : n.id = id => n = NodeOf(tree, id)
<1>1. tree.nodes \in SUBSET Nodes /\ Unique(tree.nodes)
  BY DEF IsArena, Trees
<1>2. PICK n \in tree.nodes : n.id = id
  BY DEF IdsOf
<1>3. NodeOf(tree, id) \in tree.nodes /\ NodeOf(tree, id).id = id
  BY <1>2 DEF NodeOf
<1>4. \A m \in Nodes : m.id \in Ids
  BY DEF Nodes
<1>5. QED
  BY <1>1, <1>3, <1>4 DEF Unique

\* The lists of an arena: the root list, and each node's children.
LEMMA PlacesOf ==
    ASSUME NEW tree, IsArena(tree)
    PROVE  /\ IdsOf(tree.nodes) \subseteq Ids /\ NoNode \notin IdsOf(tree.nodes)
           /\ Siblings(tree, NoNode) = tree.roots
           /\ \A p \in IdsOf(tree.nodes) : Siblings(tree, p) = NodeOf(tree, p).children
           /\ \A p \in Places(tree) : Siblings(tree, p) \in Seq(Ids)
<1>1. IdsOf(tree.nodes) \subseteq Ids
  BY NodesById
<1>2. NoNode \notin IdsOf(tree.nodes)
  BY <1>1 DEF Ids, NoNode
<1>3. \A p \in IdsOf(tree.nodes) : Siblings(tree, p) = NodeOf(tree, p).children
  BY <1>2 DEF Siblings
<1>4. Siblings(tree, NoNode) = tree.roots
  BY DEF Siblings
<1>5. tree.roots \in Seq(Ids)
  BY DEF IsArena, Trees
<1>6. \A n \in Nodes : n.children \in Seq(Ids)
  BY DEF Nodes
<1>7. \A p \in IdsOf(tree.nodes) : NodeOf(tree, p) \in Nodes
  BY NodesById
<1>8. QED
  BY <1>1, <1>2, <1>3, <1>4, <1>5, <1>6, <1>7 DEF Places

\* Arenas with the same roots and the same node under every id have the same nodes.
LEMMA SameNodes ==
    ASSUME NEW a, IsArena(a), NEW b, IsArena(b),
           IdsOf(a.nodes) = IdsOf(b.nodes),
           \A id \in IdsOf(a.nodes) : NodeOf(a, id) = NodeOf(b, id)
    PROVE  a.nodes = b.nodes
<1>1. ASSUME NEW n \in a.nodes PROVE n \in b.nodes
  <2>1. n.id \in IdsOf(a.nodes)
    BY DEF IdsOf
  <2>2. n = NodeOf(a, n.id)
    BY <2>1, NodesById
  <2>3. NodeOf(b, n.id) \in b.nodes
    BY <2>1, NodesById
  <2>4. QED
    BY <2>1, <2>2, <2>3
<1>2. ASSUME NEW n \in b.nodes PROVE n \in a.nodes
  <2>1. n.id \in IdsOf(b.nodes)
    BY DEF IdsOf
  <2>2. n = NodeOf(b, n.id)
    BY <2>1, NodesById
  <2>3. NodeOf(a, n.id) \in a.nodes
    BY <2>1, NodesById
  <2>4. QED
    BY <2>1, <2>2, <2>3
<1>3. QED
  BY <1>1, <1>2

\* Storing a node changes what is under its id alone.
LEMMA Storing ==
    ASSUME NEW tree, IsArena(tree), NEW node \in Nodes
    PROVE  /\ IsArena(Stored(tree, node))
           /\ Stored(tree, node).roots = tree.roots /\ Stored(tree, node).next = tree.next
           /\ IdsOf(Stored(tree, node).nodes) = IdsOf(tree.nodes) \cup {node.id}
           /\ NodeOf(Stored(tree, node), node.id) = node
           /\ \A id \in IdsOf(tree.nodes) \ {node.id} :
                 NodeOf(Stored(tree, node), id) = NodeOf(tree, id)
<1> DEFINE kept == {n \in tree.nodes : n.id # node.id}
           new == Stored(tree, node)
<1>1. new = [tree EXCEPT !.nodes = kept \cup {node}]
  BY DEF Stored
<1>2. tree.nodes \in SUBSET Nodes /\ Unique(tree.nodes) /\ IsFiniteSet(tree.nodes) /\ tree \in Trees
  BY DEF IsArena, Trees
<1>3. new.nodes = kept \cup {node} /\ new.roots = tree.roots /\ new.next = tree.next
  BY <1>1, <1>2 DEF Trees
<1>4. IsFiniteSet(kept \cup {node})
  <2>1. kept \in SUBSET tree.nodes
    OBVIOUS
  <2>2. IsFiniteSet(kept)
    BY <1>2, <2>1, FS_Subset
  <2> HIDE DEF kept
  <2>3. QED
    BY <2>2, FS_AddElement
<1>5. Unique(kept \cup {node})
  BY <1>2 DEF Unique
<1>6. new \in Trees
  BY <1>1, <1>2 DEF Trees
<1>7. IsArena(new)
  BY <1>3, <1>4, <1>5, <1>6 DEF IsArena
<1>8. IdsOf(new.nodes) = IdsOf(tree.nodes) \cup {node.id}
  <2>1. IdsOf(kept \cup {node}) = IdsOf(tree.nodes) \cup {node.id}
    BY DEF IdsOf
  <2>2. QED
    BY <1>3, <2>1
<1> HIDE DEF new
<1>9. NodeOf(new, node.id) = node
  <2>1. node \in new.nodes /\ node.id \in IdsOf(new.nodes)
    BY <1>3, <1>8
  <2>2. QED
    BY <1>7, <2>1, NodesById
<1>10. ASSUME NEW id \in IdsOf(tree.nodes) \ {node.id} PROVE NodeOf(new, id) = NodeOf(tree, id)
  <2>1. NodeOf(tree, id) \in tree.nodes /\ NodeOf(tree, id).id = id
    BY NodesById
  <2>2. NodeOf(tree, id) \in new.nodes /\ id \in IdsOf(new.nodes)
    BY <1>3, <1>8, <2>1
  <2>3. QED
    BY <1>7, <2>1, <2>2, NodesById
<1>11. QED
  BY <1>3, <1>7, <1>8, <1>9, <1>10 DEF new

\* Giving a place another list changes that list alone.
LEMMA Relisting ==
    ASSUME NEW tree, IsArena(tree), NEW p \in Places(tree), NEW list \in Seq(Ids)
    PROVE  LET new == Relisted(tree, p, list) IN
           /\ IsArena(new) /\ new.next = tree.next
           /\ IdsOf(new.nodes) = IdsOf(tree.nodes) /\ Places(new) = Places(tree)
           /\ \A id \in IdsOf(tree.nodes) :
                 NodeOf(new, id) = IF id = p THEN [NodeOf(tree, id) EXCEPT !.children = list]
                                             ELSE NodeOf(tree, id)
           /\ \A q \in Places(tree) : Siblings(new, q) = IF q = p THEN list ELSE Siblings(tree, q)
<1> DEFINE new == Relisted(tree, p, list)
<1>0. NoNode \notin IdsOf(tree.nodes) /\ tree \in Trees
  BY PlacesOf DEF IsArena
<1>1. CASE p = NoNode
  <2>1. new = [tree EXCEPT !.roots = list]
    BY <1>1 DEF Relisted
  <2>2. new.nodes = tree.nodes /\ new.roots = list /\ new.next = tree.next /\ new \in Trees
    BY <1>0, <2>1 DEF Trees
  <2>3. IsArena(new)
    BY <2>2 DEF IsArena
  <2>4. \A id : NodeOf(new, id) = NodeOf(tree, id)
    BY <2>2 DEF NodeOf
  <2>5. Places(new) = Places(tree)
    BY <2>2 DEF Places
  <2>6. \A q \in Places(tree) : Siblings(new, q) = IF q = p THEN list ELSE Siblings(tree, q)
    BY <1>1, <2>2, <2>4 DEF Siblings
  <2>7. \A id \in IdsOf(tree.nodes) : id # p
    BY <1>0, <1>1
  <2>8. QED
    BY <2>2, <2>3, <2>4, <2>5, <2>6, <2>7
<1>2. CASE p # NoNode
  <2> DEFINE node == [NodeOf(tree, p) EXCEPT !.children = list]
  <2>1. p \in IdsOf(tree.nodes)
    BY <1>2 DEF Places
  <2>2. NodeOf(tree, p) \in Nodes /\ NodeOf(tree, p).id = p
    BY <2>1, NodesById
  <2>3. node \in Nodes /\ node.id = p /\ node.children = list
    BY <2>2 DEF Nodes
  <2>4. new = Stored(tree, node)
    BY <1>2 DEF Relisted
  <2> HIDE DEF node, new
  <2>5. /\ IsArena(new) /\ new.roots = tree.roots /\ new.next = tree.next
        /\ IdsOf(new.nodes) = IdsOf(tree.nodes) \cup {node.id}
        /\ NodeOf(new, node.id) = node
        /\ \A id \in IdsOf(tree.nodes) \ {node.id} : NodeOf(new, id) = NodeOf(tree, id)
    BY <2>3, <2>4, Storing
  <2>6. IdsOf(new.nodes) = IdsOf(tree.nodes) /\ Places(new) = Places(tree)
    BY <2>1, <2>3, <2>5 DEF Places
  <2>7. \A id \in IdsOf(tree.nodes) :
           NodeOf(new, id) = IF id = p THEN node ELSE NodeOf(tree, id)
    BY <2>3, <2>5
  <2>8. \A q \in Places(tree) : Siblings(new, q) = IF q = p THEN list ELSE Siblings(tree, q)
    <3>1. SUFFICES ASSUME NEW q \in Places(tree)
                   PROVE  Siblings(new, q) = IF q = p THEN list ELSE Siblings(tree, q)
      OBVIOUS
    <3>2. CASE q = NoNode
      BY <1>2, <2>5, <3>2 DEF Siblings
    <3>3. CASE q # NoNode
      <4>1. q \in IdsOf(tree.nodes)
        BY <3>3 DEF Places
      <4>2. QED
        BY <2>3, <2>7, <3>3, <4>1 DEF Siblings
    <3>4. QED
      BY <3>2, <3>3
  <2>9. QED
    BY <2>5, <2>6, <2>7, <2>8 DEF node, new
<1>3. QED
  BY <1>1, <1>2

-----------------------------------------------------------------------------
(* Whole trees. *)

\* A set of nodes with the children of each.
Gathers(tree, ids) == \A id \in ids : ToSet(Siblings(tree, id)) \subseteq ids

\* Nothing is left out of the root list and the lists of what it reaches.
IsReached(tree) ==
    \A s \in SUBSET IdsOf(tree.nodes) :
        ToSet(tree.roots) \subseteq s /\ Gathers(tree, s) => s = IdsOf(tree.nodes)

\* Every list names nodes, and is empty where nothing can be placed.
IsListed(tree) ==
    \A p \in Places(tree) :
        /\ IsInjective(Siblings(tree, p)) /\ ToSet(Siblings(tree, p)) \subseteq IdsOf(tree.nodes)
        /\ TakesChildren(tree, p) \/ Siblings(tree, p) = <<>>

\* Every node is in one list.
HasOneParent(tree) ==
    /\ \A id \in IdsOf(tree.nodes) : \E p \in Places(tree) : id \in ToSet(Siblings(tree, p))
    /\ \A p, q \in Places(tree) : \A id \in ToSet(Siblings(tree, p)) :
          id \in ToSet(Siblings(tree, q)) => p = q

\* A tree: what IsWhole says, list by list.
IsTree(tree) ==
    /\ IsArena(tree) /\ IsListed(tree) /\ HasOneParent(tree) /\ IsReached(tree)
    /\ \A id \in IdsOf(tree.nodes) : id < tree.next

\* The two ways of saying that a set has the children of its nodes agree.
LEMMA GathersIsChildren ==
    ASSUME NEW tree, IsArena(tree), IsListed(tree), NEW s \in SUBSET IdsOf(tree.nodes)
    PROVE  HasChildren(tree, s) <=> Gathers(tree, s)
<1>1. \A p \in IdsOf(tree.nodes) : /\ Siblings(tree, p) = NodeOf(tree, p).children
                                   /\ NodeOf(tree, p) \in tree.nodes /\ NodeOf(tree, p).id = p
                                   /\ ToSet(Siblings(tree, p)) \subseteq IdsOf(tree.nodes)
  BY PlacesOf, NodesById DEF IsListed, Places
<1>2. \A n \in tree.nodes : n.id \in IdsOf(tree.nodes) /\ n = NodeOf(tree, n.id)
  <2>1. \A n \in tree.nodes : n.id \in IdsOf(tree.nodes)
    BY DEF IdsOf
  <2>2. QED
    BY <2>1, NodesById
<1>3. QED
  BY <1>1, <1>2 DEF HasChildren, Gathers

\* The nodes below: there, with their children, and in every set that has both.
LEMMA BelowIsLeast ==
    ASSUME NEW tree, IsArena(tree), IsListed(tree), NEW ids
    PROVE  /\ Below(tree, ids) \subseteq IdsOf(tree.nodes)
           /\ ids \cap IdsOf(tree.nodes) \subseteq Below(tree, ids)
           /\ Gathers(tree, Below(tree, ids))
           /\ \A s \in SUBSET IdsOf(tree.nodes) :
                 ids \cap IdsOf(tree.nodes) \subseteq s /\ Gathers(tree, s) => Below(tree, ids) \subseteq s
<1> DEFINE stored == IdsOf(tree.nodes)
           B == Below(tree, ids)
<1>1. \A s \in SUBSET stored : HasChildren(tree, s) <=> Gathers(tree, s)
  BY GathersIsChildren
<1>2. B = {id \in stored : \A s \in SUBSET stored :
                              ids \cap stored \subseteq s /\ HasChildren(tree, s) => id \in s}
  BY DEF Below
<1>3. B \subseteq stored /\ ids \cap stored \subseteq B
  BY <1>2
<1>4. \A s \in SUBSET stored : ids \cap stored \subseteq s /\ Gathers(tree, s) => B \subseteq s
  BY <1>1, <1>2
<1>5. Gathers(tree, B)
  <2>1. ASSUME NEW id \in B, NEW c \in ToSet(Siblings(tree, id)) PROVE c \in B
    <3>1. id \in stored /\ c \in stored
      BY <1>3 DEF IsListed, Places
    <3>2. ASSUME NEW s \in SUBSET stored, ids \cap stored \subseteq s, HasChildren(tree, s)
          PROVE  c \in s
      <4>1. id \in s /\ Gathers(tree, s)
        BY <1>1, <1>2, <3>2
      <4>2. QED
        BY <4>1 DEF Gathers
    <3>3. QED
      BY <1>2, <3>1, <3>2
  <2>2. QED
    BY <2>1 DEF Gathers
<1>6. QED
  BY <1>3, <1>4, <1>5

\* IsWhole, in the terms the proofs use.
LEMMA WholeIsTree ==
    ASSUME NEW tree \in Trees, IsFiniteSet(tree.nodes)
    PROVE  IsWhole(tree) <=> IsTree(tree)
<1> DEFINE ids == IdsOf(tree.nodes)
<1>1. Unique(tree.nodes) <=> IsArena(tree)
  BY DEF IsArena
<1>2. SUFFICES ASSUME IsArena(tree) PROVE IsWhole(tree) <=> IsTree(tree)
  BY <1>1 DEF IsWhole, IsTree, Unique
<1>3. (\A p \in ids \cup {NoNode} :
          /\ IsInjective(Siblings(tree, p)) /\ ToSet(Siblings(tree, p)) \subseteq ids
          /\ TakesChildren(tree, p) \/ Siblings(tree, p) = <<>>) <=> IsListed(tree)
  BY DEF IsListed, Places
<1>4. SUFFICES ASSUME IsListed(tree) PROVE IsWhole(tree) <=> IsTree(tree)
  BY <1>3 DEF IsWhole, IsTree
<1>5. (\A n \in tree.nodes : n.id < tree.next) <=> (\A id \in ids : id < tree.next)
  BY DEF IdsOf
<1>6. (\A n \in tree.nodes : Cardinality(ParentsOf(tree, n.id)) = 1) <=> HasOneParent(tree)
  <2>1. \A id : ParentsOf(tree, id) = {p \in Places(tree) : id \in ToSet(Siblings(tree, p))}
    BY DEF ParentsOf, Places
  <2>2. \A id \in ids : Cardinality(ParentsOf(tree, id)) = 1 <=> \E p : ParentsOf(tree, id) = {p}
    <3>1. IsFiniteSet(Places(tree))
      <4>1. IsFiniteSet(ids)
        <5> DEFINE f == [n \in tree.nodes |-> n.id]
        <5>1. f \in Surjection(tree.nodes, ids)
          BY DEF IdsOf, Surjection
        <5>2. IsFiniteSet(tree.nodes)
          OBVIOUS
        <5>3. QED
          BY <5>1, <5>2, FS_Surjection
      <4>2. QED
        BY <4>1, FS_AddElement DEF Places
    <3>2. \A id : IsFiniteSet(ParentsOf(tree, id))
      BY <2>1, <3>1, FS_Subset
    <3>3. QED
      BY <3>2, FS_Singleton
  <2>3. (\A n \in tree.nodes : Cardinality(ParentsOf(tree, n.id)) = 1)
            <=> (\A id \in ids : \E p : ParentsOf(tree, id) = {p})
    BY <2>2 DEF IdsOf
  <2>4. ASSUME \A id \in ids : \E p : ParentsOf(tree, id) = {p} PROVE HasOneParent(tree)
    <3>1. \A id \in ids : \E p \in Places(tree) : id \in ToSet(Siblings(tree, p))
      BY <2>1, <2>4
    <3>2. ASSUME NEW p \in Places(tree), NEW q \in Places(tree),
                 NEW id \in ToSet(Siblings(tree, p)), id \in ToSet(Siblings(tree, q))
          PROVE  p = q
      <4>1. id \in ids
        BY <1>4 DEF IsListed
      <4>2. p \in ParentsOf(tree, id) /\ q \in ParentsOf(tree, id)
        BY <2>1, <3>2
      <4>3. QED
        BY <2>4, <4>1, <4>2
    <3>3. QED
      BY <3>1, <3>2 DEF HasOneParent
  <2>5. ASSUME HasOneParent(tree) PROVE \A id \in ids : \E p : ParentsOf(tree, id) = {p}
    <3>1. SUFFICES ASSUME NEW id \in ids PROVE \E p : ParentsOf(tree, id) = {p}
      OBVIOUS
    <3>2. PICK p \in Places(tree) : id \in ToSet(Siblings(tree, p))
      BY <2>5 DEF HasOneParent
    <3>3. \A q \in Places(tree) : id \in ToSet(Siblings(tree, q)) => p = q
      BY <2>5, <3>2 DEF HasOneParent
    <3>4. ParentsOf(tree, id) = {p}
      BY <2>1, <3>2, <3>3
    <3>5. QED
      BY <3>4
  <2>6. QED
    BY <2>3, <2>4, <2>5
<1>7. (Written(tree).nodes = tree.nodes) <=> IsReached(tree)
  <2> DEFINE B == Below(tree, ToSet(tree.roots))
  <2>1. Written(tree).nodes = {n \in tree.nodes : n.id \in B}
    BY DEF Written, NodesBelow
  <2>2. /\ B \subseteq ids /\ ToSet(tree.roots) \cap ids \subseteq B /\ Gathers(tree, B)
        /\ \A s \in SUBSET ids :
              ToSet(tree.roots) \cap ids \subseteq s /\ Gathers(tree, s) => B \subseteq s
    BY <1>2, <1>4, BelowIsLeast
  <2>3. ToSet(tree.roots) \subseteq ids
    <3>1. NoNode \in Places(tree) /\ Siblings(tree, NoNode) = tree.roots
      BY <1>2, PlacesOf DEF Places
    <3>2. QED
      BY <1>4, <3>1 DEF IsListed
  <2> HIDE DEF B
  <2>4. (Written(tree).nodes = tree.nodes) <=> B = ids
    BY <2>1, <2>2 DEF IdsOf
  <2>5. (B = ids) <=> IsReached(tree)
    BY <2>2, <2>3 DEF IsReached
  <2>6. QED
    BY <2>4, <2>5
<1>8. IsWhole(tree) <=> /\ Unique(tree.nodes)
                        /\ IsListed(tree)
                        /\ \A n \in tree.nodes : Cardinality(ParentsOf(tree, n.id)) = 1
                        /\ \A n \in tree.nodes : n.id < tree.next
                        /\ Written(tree).nodes = tree.nodes
  BY <1>3 DEF IsWhole, Unique
<1>9. QED
  BY <1>1, <1>2, <1>4, <1>5, <1>6, <1>7, <1>8 DEF IsTree

-----------------------------------------------------------------------------
(* Where a node is, and what is below it. *)

\* A node is in one list, at one position of it.
LEMMA PlaceOfNode ==
    ASSUME NEW tree, IsTree(tree), NEW id \in IdsOf(tree.nodes)
    PROVE  \E p \in Places(tree) : \E k \in 1..Len(Siblings(tree, p)) : Siblings(tree, p)[k] = id
<1>1. PICK p \in Places(tree) : id \in ToSet(Siblings(tree, p))
  BY DEF IsTree, HasOneParent
<1>2. Siblings(tree, p) \in Seq(Ids)
  BY PlacesOf DEF IsTree
<1>3. DOMAIN Siblings(tree, p) = 1..Len(Siblings(tree, p))
  BY <1>2
<1>4. QED
  BY <1>1, <1>3 DEF ToSet

\* locate finds it.
LEMMA LocateFinds ==
    ASSUME NEW tree, IsTree(tree), NEW p \in Places(tree),
           NEW k \in 1..Len(Siblings(tree, p)), NEW id, id = Siblings(tree, p)[k]
    PROVE  /\ Locate(tree, id) = [parent |-> p, index |-> k - 1]
           /\ IsLocated(tree, id) /\ id \in IdsOf(tree.nodes)
<1> DEFINE list == Siblings(tree, p)
<1>1. list \in Seq(Ids) /\ IsInjective(list) /\ ToSet(list) \subseteq IdsOf(tree.nodes)
  BY PlacesOf DEF IsTree, IsListed
<1>2. id \in ToSet(list)
  BY <1>1 DEF ToSet
<1>3. ParentsOf(tree, id) = {p}
  <2>1. ParentsOf(tree, id) = {q \in Places(tree) : id \in ToSet(Siblings(tree, q))}
    BY DEF ParentsOf, Places
  <2>2. \A q \in Places(tree) : id \in ToSet(Siblings(tree, q)) => p = q
    BY <1>2 DEF IsTree, HasOneParent
  <2>3. QED
    BY <1>2, <2>1, <2>2
<1>4. SelectInSeq(list, LAMBDA n : n = id) = k
  <2>1. {i \in 1..Len(list) : list[i] = id} = {k} /\ Min({k}) = k
    BY <1>1, PositionOf
  <2> HIDE DEF list
  <2>2. QED
    BY <2>1 DEF SelectInSeq
<1> HIDE DEF list
<1>5. (CHOOSE q \in ParentsOf(tree, id) : TRUE) = p
  BY <1>3
<1>6. Locate(tree, id) = [parent |-> p, index |-> k - 1]
  BY <1>4, <1>5 DEF Locate, list
<1>7. QED
  BY <1>1, <1>2, <1>3, <1>6 DEF IsLocated

\* locate finds the nodes the tree stores, and no others.
LEMMA LocatedIsThere ==
    ASSUME NEW tree, IsTree(tree), NEW id
    PROVE  IsLocated(tree, id) <=> id \in IdsOf(tree.nodes)
<1>1. ASSUME IsLocated(tree, id) PROVE id \in IdsOf(tree.nodes)
  <2>1. PICK p \in Places(tree) : id \in ToSet(Siblings(tree, p))
    BY <1>1 DEF IsLocated, ParentsOf, Places
  <2>2. QED
    BY <2>1 DEF IsTree, IsListed
<1>2. ASSUME id \in IdsOf(tree.nodes) PROVE IsLocated(tree, id)
  <2>1. PICK p \in Places(tree) : \E k \in 1..Len(Siblings(tree, p)) : Siblings(tree, p)[k] = id
    BY <1>2, PlaceOfNode
  <2>2. PICK k \in 1..Len(Siblings(tree, p)) : Siblings(tree, p)[k] = id
    BY <2>1
  <2>3. QED
    BY <2>2, LocateFinds
<1>3. QED
  BY <1>1, <1>2

\* How the nodes at or below a node lie in the tree.
IsApart(tree, p, id, gone) ==
    /\ id \in gone /\ gone \subseteq IdsOf(tree.nodes) /\ p \notin gone /\ NoNode \notin gone
    /\ Gathers(tree, gone)
    /\ \A s \in SUBSET IdsOf(tree.nodes) : id \in s /\ Gathers(tree, s) => gone \subseteq s
    /\ \A q \in Places(tree) : \A c \in ToSet(Siblings(tree, q)) :
          c \in gone /\ c # id => q \in gone

\* The list of a node is not below it, and the only way below it is through it.
LEMMA BelowIsApart ==
    ASSUME NEW tree, IsTree(tree), NEW p \in Places(tree), NEW id \in ToSet(Siblings(tree, p))
    PROVE  IsApart(tree, p, id, Below(tree, {id}))
<1> DEFINE ids == IdsOf(tree.nodes)
           gone == Below(tree, {id})
<1>1. IsArena(tree) /\ IsListed(tree) /\ HasOneParent(tree) /\ IsReached(tree)
  BY DEF IsTree
<1>2. id \in ids
  BY <1>1 DEF IsListed
<1>3. /\ gone \subseteq ids /\ id \in gone /\ Gathers(tree, gone)
      /\ \A s \in SUBSET ids : id \in s /\ Gathers(tree, s) => gone \subseteq s
  <2>1. /\ gone \subseteq ids /\ {id} \cap ids \subseteq gone /\ Gathers(tree, gone)
        /\ \A s \in SUBSET ids : {id} \cap ids \subseteq s /\ Gathers(tree, s) => gone \subseteq s
    BY <1>1, BelowIsLeast
  <2>2. QED
    BY <1>2, <2>1
<1> HIDE DEF gone
<1>4. NoNode \notin ids /\ Siblings(tree, NoNode) = tree.roots /\ NoNode \in Places(tree)
  BY <1>1, PlacesOf DEF Places
<1>5. \A q, r \in Places(tree) : \A c \in ToSet(Siblings(tree, q)) :
          c \in ToSet(Siblings(tree, r)) => q = r
  BY <1>1 DEF HasOneParent
<1>6. \A q \in Places(tree) : \A c \in ToSet(Siblings(tree, q)) : c \in gone /\ c # id => q \in gone
  <2> DEFINE s == {c \in gone : c = id \/ \E q \in gone : c \in ToSet(Siblings(tree, q))}
  <2>1. s \in SUBSET ids /\ id \in s
    BY <1>3
  <2>2. Gathers(tree, s)
    <3>1. ASSUME NEW q \in s, NEW c \in ToSet(Siblings(tree, q)) PROVE c \in s
      <4>1. q \in gone
        OBVIOUS
      <4>2. c \in gone
        BY <1>3, <4>1 DEF Gathers
      <4>3. QED
        BY <4>1, <4>2
    <3>2. QED
      BY <3>1 DEF Gathers
  <2>3. gone \subseteq s
    <3> HIDE DEF s
    <3>1. QED
      BY <1>3, <2>1, <2>2
  <2>4. ASSUME NEW q \in Places(tree), NEW c \in ToSet(Siblings(tree, q)), c \in gone, c # id
        PROVE  q \in gone
    <3>1. PICK r \in gone : c \in ToSet(Siblings(tree, r))
      BY <2>3, <2>4
    <3>2. r \in Places(tree)
      BY <1>3 DEF Places
    <3>3. QED
      BY <1>5, <3>1, <3>2
  <2>5. QED
    BY <2>4
<1>7. p \notin gone
  <2>1. SUFFICES ASSUME p \in gone PROVE FALSE
    OBVIOUS
  <2>2. \A q \in Places(tree) : \A c \in ToSet(Siblings(tree, q)) : c \in gone => q \in gone
    BY <1>5, <1>6, <2>1
  <2>3. Gathers(tree, ids \ gone)
    <3>1. \A q \in ids \ gone : q \in Places(tree) /\ ToSet(Siblings(tree, q)) \subseteq ids
      BY <1>1 DEF IsListed, Places
    <3>2. QED
      BY <2>2, <3>1 DEF Gathers
  <2>4. ToSet(tree.roots) \subseteq ids \ gone
    <3>1. ToSet(tree.roots) \subseteq ids
      BY <1>1, <1>4 DEF IsListed
    <3>2. NoNode \notin gone
      BY <1>3, <1>4
    <3>3. QED
      BY <1>4, <2>2, <3>1, <3>2
  <2>5. ids \ gone = ids
    BY <1>1, <2>3, <2>4 DEF IsReached
  <2>6. QED
    BY <1>2, <1>3, <2>5
<1>8. NoNode \notin gone
  BY <1>3, <1>4
<1>9. QED
  BY <1>3, <1>6, <1>7, <1>8 DEF gone, IsApart

\* The nodes that stay when others leave.
LEMMA Pruning ==
    ASSUME NEW tree, IsArena(tree), NEW gone \in SUBSET IdsOf(tree.nodes)
    PROVE  LET new == [tree EXCEPT !.nodes = {n \in @ : n.id \notin gone}] IN
           /\ IsArena(new) /\ new.roots = tree.roots /\ new.next = tree.next
           /\ IdsOf(new.nodes) = IdsOf(tree.nodes) \ gone
           /\ \A id \in IdsOf(new.nodes) : NodeOf(new, id) = NodeOf(tree, id)
           /\ \A p \in Places(new) : p \in Places(tree) /\ Siblings(new, p) = Siblings(tree, p)
<1> DEFINE kept == {n \in tree.nodes : n.id \notin gone}
           new == [tree EXCEPT !.nodes = kept]
<1>1. tree.nodes \in SUBSET Nodes /\ Unique(tree.nodes) /\ IsFiniteSet(tree.nodes) /\ tree \in Trees
  BY DEF IsArena, Trees
<1>2. new.nodes = kept /\ new.roots = tree.roots /\ new.next = tree.next /\ new \in Trees
  BY <1>1 DEF Trees
<1>3. IsFiniteSet(kept)
  <2>1. kept \in SUBSET tree.nodes
    OBVIOUS
  <2> HIDE DEF kept
  <2>2. QED
    BY <1>1, <2>1, FS_Subset
<1>4. IsArena(new)
  BY <1>1, <1>2, <1>3 DEF IsArena, Unique
<1>5. IdsOf(new.nodes) = IdsOf(tree.nodes) \ gone
  <2>1. IdsOf(kept) = IdsOf(tree.nodes) \ gone
    BY DEF IdsOf
  <2>2. QED
    BY <1>2, <2>1
<1> HIDE DEF new
<1>6. \A id \in IdsOf(new.nodes) : NodeOf(new, id) = NodeOf(tree, id)
  <2>1. SUFFICES ASSUME NEW id \in IdsOf(new.nodes) PROVE NodeOf(new, id) = NodeOf(tree, id)
    OBVIOUS
  <2>2. NodeOf(new, id) \in new.nodes /\ NodeOf(new, id).id = id /\ id \in IdsOf(tree.nodes)
    BY <1>4, <1>5, NodesById
  <2>3. NodeOf(new, id) \in tree.nodes
    BY <1>2, <2>2
  <2>4. QED
    BY <2>2, <2>3, NodesById
<1>7. \A p \in Places(new) : p \in Places(tree) /\ Siblings(new, p) = Siblings(tree, p)
  BY <1>2, <1>5, <1>6 DEF Places, Siblings
<1>8. QED
  BY <1>2, <1>4, <1>5, <1>6, <1>7 DEF new

-----------------------------------------------------------------------------
(* remove. *)

\* The tree a subtree makes when its first node is the only root.
Planted(subtree, next) == [roots |-> <<subtree.root>>, nodes |-> subtree.nodes, next |-> next]

\* TakesChildren, by the lists.
LEMMA TakesByNode ==
    ASSUME NEW tree, IsArena(tree), NEW p \in Places(tree)
    PROVE  TakesChildren(tree, p) <=> p = NoNode \/ NodeOf(tree, p).group
BY DEF TakesChildren, Places

\* How a tree looks without `gone`, of which only the k-th of the list of p was listed outside.
IsCut(new, tree, p, k, gone) ==
    /\ IsTree(new) /\ new.next = tree.next
    /\ IdsOf(new.nodes) = IdsOf(tree.nodes) \ gone
    /\ p \in Places(new) /\ Siblings(new, p) = Cut(Siblings(tree, p), k)
    /\ \A q \in Places(new) \ {p} : Siblings(new, q) = Siblings(tree, q)
    /\ \A i \in IdsOf(new.nodes) :
          NodeOf(new, i) = IF i = p THEN [NodeOf(tree, i) EXCEPT !.children = Siblings(new, p)]
                                    ELSE NodeOf(tree, i)

\* remove: out of its list, with all below it.
LEMMA RemovingANode ==
    ASSUME NEW tree, IsTree(tree), NEW p \in Places(tree),
           NEW k \in 1..Len(Siblings(tree, p)), NEW id, id = Siblings(tree, p)[k]
    PROVE  IsCut(Without(tree, id), tree, p, k, Below(tree, {id}))
<1> DEFINE ids == IdsOf(tree.nodes)
           gone == Below(tree, {id})
           list == Siblings(tree, p)
           cut == Cut(list, k)
           left == Relisted(tree, p, cut)
           new == Without(tree, id)
<1>1. IsArena(tree) /\ IsListed(tree) /\ HasOneParent(tree) /\ IsReached(tree)
  BY DEF IsTree
<1>2. list \in Seq(Ids) /\ IsInjective(list) /\ ToSet(list) \subseteq ids /\ id \in ToSet(list)
  <2>1. list \in Seq(Ids) /\ IsInjective(list) /\ ToSet(list) \subseteq ids
    BY <1>1, PlacesOf DEF IsListed
  <2>2. QED
    BY <2>1 DEF ToSet
<1>3. /\ cut \in Seq(Ids) /\ IsInjective(cut) /\ ToSet(cut) = ToSet(list) \ {id}
      /\ RemoveAt(list, k) = cut
  BY <1>2, Cutting, RemoveAtIsCut
<1>4. /\ id \in gone /\ gone \subseteq ids /\ p \notin gone /\ NoNode \notin gone
      /\ Gathers(tree, gone)
      /\ \A s \in SUBSET ids : id \in s /\ Gathers(tree, s) => gone \subseteq s
      /\ \A q \in Places(tree) : \A c \in ToSet(Siblings(tree, q)) :
            c \in gone /\ c # id => q \in gone
  <2>1. id \in ToSet(Siblings(tree, p))
    BY <1>2
  <2>2. IsApart(tree, p, id, gone)
    BY <2>1, BelowIsApart
  <2> HIDE DEF gone
  <2>3. QED
    BY <2>2 DEF IsApart
<1>5. new = [left EXCEPT !.nodes = {n \in @ : n.id \notin gone}]
  <2>1. Locate(tree, id) = [parent |-> p, index |-> k - 1]
    BY LocateFinds
  <2>2. Locate(tree, id).index + 1 = k /\ Locate(tree, id).parent = p
    BY <2>1
  <2>3. Detached(tree, Locate(tree, id)) = left
    BY <1>3, <2>2 DEF Detached
  <2>4. QED
    BY <2>3 DEF Without
<1> HIDE DEF cut, gone, list
<1>6. /\ IsArena(left) /\ left.next = tree.next
      /\ IdsOf(left.nodes) = ids /\ Places(left) = Places(tree)
      /\ \A i \in ids : NodeOf(left, i) = IF i = p THEN [NodeOf(tree, i) EXCEPT !.children = cut]
                                                   ELSE NodeOf(tree, i)
      /\ \A q \in Places(tree) : Siblings(left, q) = IF q = p THEN cut ELSE Siblings(tree, q)
  BY <1>1, <1>3, Relisting
<1> HIDE DEF left, new
<1>7. /\ IsArena(new) /\ new.roots = left.roots /\ new.next = left.next
      /\ IdsOf(new.nodes) = ids \ gone
      /\ \A i \in IdsOf(new.nodes) : NodeOf(new, i) = NodeOf(left, i)
      /\ \A q \in Places(new) : q \in Places(left) /\ Siblings(new, q) = Siblings(left, q)
  <2>1. gone \in SUBSET IdsOf(left.nodes)
    BY <1>4, <1>6
  <2> DEFINE pruned == [left EXCEPT !.nodes = {n \in @ : n.id \notin gone}]
  <2>2. /\ IsArena(pruned) /\ pruned.roots = left.roots /\ pruned.next = left.next
        /\ IdsOf(pruned.nodes) = IdsOf(left.nodes) \ gone
        /\ \A i \in IdsOf(pruned.nodes) : NodeOf(pruned, i) = NodeOf(left, i)
        /\ \A q \in Places(pruned) : q \in Places(left) /\ Siblings(pruned, q) = Siblings(left, q)
    BY <1>6, <2>1, Pruning
  <2>3. pruned = new
    BY <1>5
  <2> HIDE DEF pruned
  <2>4. QED
    BY <1>6, <2>2, <2>3
<1>8. Places(new) = Places(tree) \ gone
  BY <1>4, <1>7 DEF Places
<1>9. p \in Places(new) /\ NoNode \in Places(new)
  BY <1>4, <1>8 DEF Places
<1>10. \A q \in Places(new) : Siblings(new, q) = IF q = p THEN cut ELSE Siblings(tree, q)
  BY <1>6, <1>7
<1>11. \A q \in Places(new) : ToSet(Siblings(new, q)) = ToSet(Siblings(tree, q)) \ gone
  <2>1. SUFFICES ASSUME NEW q \in Places(new)
                 PROVE  ToSet(Siblings(new, q)) = ToSet(Siblings(tree, q)) \ gone
    OBVIOUS
  <2>2. q \in Places(tree) /\ q \notin gone
    BY <1>8
  <2>3. \A c \in ToSet(Siblings(tree, q)) : c \in gone => c = id
    BY <1>4, <2>2
  <2>4. \A c \in ToSet(Siblings(tree, q)) : c = id => q = p
    BY <1>1, <1>2, <2>2 DEF HasOneParent, list
  <2>5. QED
    BY <1>3, <1>4, <1>10, <2>3, <2>4 DEF list
<1>12. IsListed(new)
  <2>1. SUFFICES ASSUME NEW q \in Places(new)
                 PROVE  /\ IsInjective(Siblings(new, q)) /\ ToSet(Siblings(new, q)) \subseteq ids \ gone
                        /\ TakesChildren(new, q) \/ Siblings(new, q) = <<>>
    BY <1>7 DEF IsListed
  <2>2. q \in Places(tree)
    BY <1>8
  <2>3. /\ IsInjective(Siblings(tree, q)) /\ ToSet(Siblings(tree, q)) \subseteq ids
        /\ TakesChildren(tree, q) \/ Siblings(tree, q) = <<>>
    BY <1>1, <2>2 DEF IsListed
  <2>4. TakesChildren(new, q) <=> TakesChildren(tree, q)
    <3>1. CASE q = NoNode
      BY <3>1 DEF TakesChildren
    <3>2. CASE q # NoNode
      <4>1. q \in IdsOf(new.nodes) /\ q \in ids
        BY <1>7, <3>2 DEF Places
      <4>2. NodeOf(tree, q) \in Nodes
        BY <1>1, <4>1, NodesById
      <4>3. NodeOf(new, q).group = NodeOf(tree, q).group
        BY <1>6, <1>7, <4>1, <4>2 DEF Nodes
      <4>4. QED
        BY <4>1, <4>3 DEF TakesChildren
    <3>3. QED
      BY <3>1, <3>2
  <2>5. q = p => TakesChildren(tree, q)
    <3>1. list # <<>>
      BY <1>2 DEF ToSet
    <3>2. QED
      BY <2>3, <3>1 DEF list
  <2>6. QED
    BY <1>3, <1>10, <1>11, <2>3, <2>4, <2>5
<1>13. HasOneParent(new)
  <2>1. ASSUME NEW i \in ids \ gone PROVE \E q \in Places(new) : i \in ToSet(Siblings(new, q))
    <3>1. PICK q \in Places(tree) : i \in ToSet(Siblings(tree, q))
      BY <1>1 DEF HasOneParent
    <3>2. q \notin gone
      <4>1. q \in gone => ToSet(Siblings(tree, q)) \subseteq gone
        BY <1>4 DEF Gathers
      <4>2. QED
        BY <2>1, <3>1, <4>1
    <3>3. QED
      BY <1>8, <1>11, <3>1, <3>2
  <2>2. ASSUME NEW q \in Places(new), NEW r \in Places(new),
               NEW i \in ToSet(Siblings(new, q)), i \in ToSet(Siblings(new, r))
        PROVE  q = r
    <3>1. q \in Places(tree) /\ r \in Places(tree)
      BY <1>8
    <3>2. i \in ToSet(Siblings(tree, q)) /\ i \in ToSet(Siblings(tree, r))
      BY <1>11, <2>2
    <3>3. QED
      BY <1>1, <3>1, <3>2 DEF HasOneParent
  <2>3. QED
    BY <1>7, <2>1, <2>2 DEF HasOneParent
<1>14. IsReached(new)
  <2>1. SUFFICES ASSUME NEW s \in SUBSET (ids \ gone), ToSet(new.roots) \subseteq s, Gathers(new, s)
                 PROVE  s = ids \ gone
    BY <1>7 DEF IsReached
  <2>2. Gathers(tree, s \cup gone)
    <3>1. \A q \in s : q \in Places(new)
      BY <1>7 DEF Places
    <3>2. \A q \in s : ToSet(Siblings(tree, q)) \ gone \subseteq s
      BY <1>11, <2>1, <3>1 DEF Gathers
    <3>3. QED
      BY <1>4, <3>2 DEF Gathers
  <2>3. ToSet(tree.roots) \subseteq s \cup gone
    <3>1. Siblings(tree, NoNode) = tree.roots /\ Siblings(new, NoNode) = new.roots
      BY DEF Siblings
    <3>2. QED
      BY <1>9, <1>11, <2>1, <3>1
  <2>4. s \cup gone \in SUBSET ids
    BY <1>4
  <2>5. s \cup gone = ids
    BY <1>1, <2>2, <2>3, <2>4 DEF IsReached
  <2>6. QED
    BY <2>1, <2>5
<1>15. \A i \in IdsOf(new.nodes) : i < new.next
  BY <1>6, <1>7 DEF IsTree
<1>16. IsTree(new) /\ new.next = tree.next
  BY <1>6, <1>7, <1>12, <1>13, <1>14, <1>15 DEF IsTree
<1>17. Siblings(new, p) = cut /\ \A q \in Places(new) \ {p} : Siblings(new, q) = Siblings(tree, q)
  BY <1>9, <1>10
<1>18. \A i \in IdsOf(new.nodes) :
           NodeOf(new, i) = IF i = p THEN [NodeOf(tree, i) EXCEPT !.children = Siblings(new, p)]
                                     ELSE NodeOf(tree, i)
  BY <1>6, <1>7, <1>17
<1>19. QED
  BY <1>7, <1>9, <1>16, <1>17, <1>18 DEF new, gone, cut, list, IsCut

-----------------------------------------------------------------------------
(* reinsert. *)

\* A finite set of naturals that is not empty has a greatest element.
LEMMA GreatestOf ==
    ASSUME NEW S \in SUBSET Nat, IsFiniteSet(S), S # {}
    PROVE  Max(S) \in S /\ \A x \in S : x <= Max(S)
<1> DEFINE P == {s \in SUBSET S : s = {} \/ \E x \in s : \A y \in s : y <= x}
<1>1. {} \in P
  OBVIOUS
<1>2. ASSUME NEW s \in SUBSET S, s # {} PROVE \E c \in s : s \ {c} \in P => s \in P
  <2>1. PICK c \in s : TRUE
    BY <1>2
  <2>2. ASSUME s \ {c} \in P PROVE s \in P
    <3>1. CASE s \ {c} = {}
      <4>1. \A y \in s : y <= c
        BY <2>1, <3>1
      <4>2. QED
        BY <2>1, <4>1
    <3>2. CASE \E x \in s \ {c} : \A y \in s \ {c} : y <= x
      <4>1. PICK x \in s \ {c} : \A y \in s \ {c} : y <= x
        BY <3>2
      <4>2. x \in Nat /\ c \in Nat
        BY <2>1, <4>1
      <4>3. CASE x <= c
        <5>1. \A y \in s : y \in Nat
          OBVIOUS
        <5>2. \A y \in s : y <= c
          BY <4>1, <4>2, <4>3, <5>1
        <5>3. QED
          BY <2>1, <5>2
      <4>4. CASE c <= x
        <5>1. \A y \in s : y <= x
          BY <4>1, <4>4
        <5>2. QED
          BY <4>1, <5>1
      <4>5. QED
        BY <4>2, <4>3, <4>4
    <3>3. QED
      BY <2>2, <3>1, <3>2
  <2>3. QED
    BY <2>1, <2>2
<1> HIDE DEF P
<1>3. SUBSET S \subseteq P
  BY <1>1, <1>2, SubsetInduction
<1>4. S \in P
  BY <1>3
<1>5. \E x \in S : \A y \in S : y <= x
  BY <1>4 DEF P
<1>6. \A x \in S, y \in S : (y <= x) <=> (x >= y)
  OBVIOUS
<1>7. QED
  BY <1>5, <1>6 DEF Max

\* Finitely many nodes have finitely many ids.
LEMMA IdsAreFinite ==
    ASSUME NEW nodes, IsFiniteSet(nodes)
    PROVE  IsFiniteSet(IdsOf(nodes))
<1> DEFINE f == [n \in nodes |-> n.id]
<1>1. f \in Surjection(nodes, IdsOf(nodes))
  BY DEF IdsOf, Surjection
<1>2. QED
  BY <1>1, FS_Surjection

\* What a command that adds nodes brings: a node, and all below it.
IsSubtree(subtree) ==
    /\ subtree \in [root : Ids, nodes : SUBSET Nodes]
    /\ \E next \in Ids : IsTree(Planted(subtree, next))

\* How a tree looks with another one's nodes under the list of p.
IsGraft(new, tree, plant, p, list) ==
    /\ IsTree(new)
    /\ IdsOf(new.nodes) = IdsOf(tree.nodes) \cup IdsOf(plant.nodes)
    /\ \A q \in Places(tree) : Siblings(new, q) = IF q = p THEN list ELSE Siblings(tree, q)
    /\ \A q \in IdsOf(plant.nodes) : Siblings(new, q) = Siblings(plant, q)
    /\ \A i \in IdsOf(tree.nodes) :
          NodeOf(new, i) = IF i = p THEN [NodeOf(tree, i) EXCEPT !.children = list]
                                    ELSE NodeOf(tree, i)
    /\ \A i \in IdsOf(plant.nodes) : NodeOf(new, i) = NodeOf(plant, i)

\* The nodes of a subtree enter the arena.
LEMMA Admitting ==
    ASSUME NEW tree, IsTree(tree), NEW plant, IsTree(plant),
           IdsOf(plant.nodes) \cap IdsOf(tree.nodes) = {}
    PROVE  LET new == [tree EXCEPT !.nodes = @ \cup plant.nodes,
                                   !.next = Max(IdsOf(plant.nodes) \cup {@ - 1}) + 1]
           IN  /\ IsArena(new) /\ new.roots = tree.roots
               /\ IdsOf(new.nodes) = IdsOf(tree.nodes) \cup IdsOf(plant.nodes)
               /\ \A i \in IdsOf(new.nodes) : i < new.next
               /\ \A i \in IdsOf(tree.nodes) : NodeOf(new, i) = NodeOf(tree, i)
               /\ \A i \in IdsOf(plant.nodes) : NodeOf(new, i) = NodeOf(plant, i)
               /\ \A q \in Places(tree) : Siblings(new, q) = Siblings(tree, q)
               /\ \A q \in IdsOf(plant.nodes) : Siblings(new, q) = Siblings(plant, q)
<1> DEFINE next == Max(IdsOf(plant.nodes) \cup {tree.next - 1}) + 1
           new == [tree EXCEPT !.nodes = @ \cup plant.nodes, !.next = next]
<1>1. /\ IsArena(tree) /\ IsArena(plant) /\ tree \in Trees /\ plant \in Trees
      /\ tree.next \in Ids /\ tree.nodes \in SUBSET Nodes /\ plant.nodes \in SUBSET Nodes
      /\ IsFiniteSet(tree.nodes) /\ IsFiniteSet(plant.nodes)
      /\ Unique(tree.nodes) /\ Unique(plant.nodes)
  BY DEF IsTree, IsArena, Trees
<1>2. next \in Ids /\ tree.next <= next /\ \A i \in IdsOf(plant.nodes) : i < next
  <2> DEFINE S == IdsOf(plant.nodes) \cup {tree.next - 1}
  <2>1. IsFiniteSet(S)
    BY <1>1, IdsAreFinite, FS_AddElement
  <2>2. IdsOf(plant.nodes) \subseteq Nat /\ tree.next - 1 \in Nat
    BY <1>1, PlacesOf DEF Ids
  <2>3. S \in SUBSET Nat /\ S # {}
    BY <2>2
  <2> HIDE DEF S
  <2>4. Max(S) \in S /\ \A x \in S : x <= Max(S)
    BY <2>1, <2>3, GreatestOf
  <2>5. Max(S) \in Nat /\ next = Max(S) + 1
    BY <2>3, <2>4 DEF S
  <2>6. \A x \in S : x < next
    BY <2>3, <2>4, <2>5
  <2>7. tree.next - 1 < next /\ \A i \in IdsOf(plant.nodes) : i < next
    BY <2>6 DEF S
  <2> HIDE DEF next
  <2>8. QED
    BY <1>1, <2>5, <2>7 DEF Ids
<1> HIDE DEF next
<1>3. new.nodes = tree.nodes \cup plant.nodes /\ new.roots = tree.roots /\ new.next = next /\ new \in Trees
  BY <1>1, <1>2 DEF Trees
<1>4. IsArena(new)
  <2>1. IsFiniteSet(tree.nodes \cup plant.nodes)
    BY <1>1, FS_Union
  <2>2. Unique(tree.nodes \cup plant.nodes)
    <3>1. ASSUME NEW m \in tree.nodes, NEW n \in plant.nodes PROVE m.id # n.id
      BY DEF IdsOf
    <3>2. QED
      BY <1>1, <3>1 DEF Unique
  <2>3. QED
    BY <1>3, <2>1, <2>2 DEF IsArena
<1>5. IdsOf(new.nodes) = IdsOf(tree.nodes) \cup IdsOf(plant.nodes)
  <2>1. IdsOf(tree.nodes \cup plant.nodes) = IdsOf(tree.nodes) \cup IdsOf(plant.nodes)
    BY DEF IdsOf
  <2>2. QED
    BY <1>3, <2>1
<1>6. \A i \in IdsOf(new.nodes) : i < new.next
  <2>1. \A i \in IdsOf(tree.nodes) : i < tree.next /\ i \in Ids
    BY <1>1, PlacesOf DEF IsTree
  <2>2. \A i \in IdsOf(tree.nodes) : i < next
    BY <1>1, <1>2, <2>1 DEF Ids
  <2>3. QED
    BY <1>2, <1>3, <1>5, <2>2
<1> HIDE DEF new
<1>7. ASSUME NEW i \in IdsOf(tree.nodes) PROVE NodeOf(new, i) = NodeOf(tree, i)
  <2>1. NodeOf(tree, i) \in tree.nodes /\ NodeOf(tree, i).id = i
    BY <1>1, NodesById
  <2>2. i \in IdsOf(new.nodes) /\ NodeOf(tree, i) \in new.nodes
    BY <1>3, <1>5, <2>1
  <2>3. QED
    BY <1>4, <2>1, <2>2, NodesById
<1>8. ASSUME NEW i \in IdsOf(plant.nodes) PROVE NodeOf(new, i) = NodeOf(plant, i)
  <2>1. NodeOf(plant, i) \in plant.nodes /\ NodeOf(plant, i).id = i
    BY <1>1, NodesById
  <2>2. i \in IdsOf(new.nodes) /\ NodeOf(plant, i) \in new.nodes
    BY <1>3, <1>5, <2>1
  <2>3. QED
    BY <1>4, <2>1, <2>2, NodesById
<1>9. \A q \in Places(tree) : Siblings(new, q) = Siblings(tree, q)
  BY <1>3, <1>7 DEF Places, Siblings
<1>10. \A q \in IdsOf(plant.nodes) : Siblings(new, q) = Siblings(plant, q)
  <2>1. NoNode \notin IdsOf(plant.nodes)
    BY <1>1, PlacesOf
  <2>2. QED
    BY <1>8, <2>1 DEF Siblings
<1>11. QED
  BY <1>3, <1>4, <1>5, <1>6, <1>7, <1>8, <1>9, <1>10 DEF new, next

\* reinsert succeeded: the subtree is the k-th of the list of p.
HasAdded(r, tree, subtree, p, k) ==
    LET list == Put(Siblings(tree, p), k, subtree.root) IN
    /\ r.ok
    /\ IsGraft(r.tree, tree, Planted(subtree, 1), p, list)
    /\ p \in Places(r.tree) /\ k \in 1..Len(list) /\ list[k] = subtree.root
    /\ Cut(list, k) = Siblings(tree, p)
    /\ Below(r.tree, {subtree.root}) = IdsOf(subtree.nodes)

\* reinsert: a subtree of new ids is stored and put into the list it is for.
LEMMA AddingASubtree ==
    ASSUME NEW tree, IsTree(tree), NEW subtree, IsSubtree(subtree),
           IdsOf(subtree.nodes) \cap IdsOf(tree.nodes) = {},
           NEW p \in Places(tree), TakesChildren(tree, p), NEW k \in 1..(Len(Siblings(tree, p)) + 1),
           NEW index \in Int, Place(Siblings(tree, p), subtree.root, index)
                                  = Put(Siblings(tree, p), k, subtree.root)
    PROVE  HasAdded(Reinsert(tree, subtree, p, index), tree, subtree, p, k)
<1> DEFINE ids == IdsOf(tree.nodes)
           more == IdsOf(subtree.nodes)
           root == subtree.root
           old == Siblings(tree, p)
           list == Put(old, k, root)
<1>1. PICK next \in Ids : IsTree(Planted(subtree, next))
  BY DEF IsSubtree
<1> DEFINE plant == Planted(subtree, next)
           stored == [tree EXCEPT !.nodes = @ \cup plant.nodes,
                                  !.next = Max(IdsOf(plant.nodes) \cup {@ - 1}) + 1]
           new == Relisted(stored, p, list)
           r == Reinsert(tree, subtree, p, index)
<1>2. plant.nodes = subtree.nodes /\ plant.roots = <<root>> /\ IsTree(plant)
  BY <1>1 DEF Planted
<1>3. \A q : NodeOf(plant, q) = NodeOf(Planted(subtree, 1), q)
             /\ Siblings(plant, q) = Siblings(Planted(subtree, 1), q)
  BY DEF Planted, Siblings, NodeOf
<1>4. Planted(subtree, 1).nodes = plant.nodes
  BY DEF Planted
<1> HIDE DEF plant
<1>5. /\ IsArena(tree) /\ IsListed(tree) /\ HasOneParent(tree) /\ IsReached(tree)
      /\ IsArena(plant) /\ IsListed(plant) /\ HasOneParent(plant) /\ IsReached(plant)
  BY <1>2 DEF IsTree
<1>6. NoNode \notin ids /\ NoNode \notin more /\ NoNode \in Places(tree) /\ NoNode \in Places(plant)
  BY <1>2, <1>5, PlacesOf DEF Places
<1>7. Siblings(tree, NoNode) = tree.roots /\ Siblings(plant, NoNode) = <<root>>
  BY <1>2 DEF Siblings
<1>8. root \in more /\ root \in Ids
  <2>1. ToSet(<<root>>) \subseteq more
    BY <1>2, <1>5, <1>6, <1>7 DEF IsListed
  <2>2. more \subseteq Ids
    BY <1>2, <1>5, PlacesOf
  <2>3. <<root>>[1] = root /\ 1 \in DOMAIN <<root>>
    OBVIOUS
  <2>4. QED
    BY <2>1, <2>2, <2>3 DEF ToSet
<1>9. old \in Seq(Ids) /\ IsInjective(old) /\ ToSet(old) \subseteq ids /\ root \notin ToSet(old)
  <2>1. old \in Seq(Ids) /\ IsInjective(old) /\ ToSet(old) \subseteq ids
    BY <1>5, PlacesOf DEF IsListed
  <2>2. QED
    BY <1>8, <2>1
<1>10. /\ list \in Seq(Ids) /\ Len(list) = Len(old) + 1 /\ k \in 1..Len(list) /\ list[k] = root
       /\ ToSet(list) = ToSet(old) \cup {root} /\ Cut(list, k) = old /\ IsInjective(list)
  <2>1. /\ list \in Seq(Ids) /\ Len(list) = Len(old) + 1 /\ k \in 1..Len(list) /\ list[k] = root
        /\ ToSet(list) = ToSet(old) \cup {root} /\ Cut(list, k) = old
        /\ (root \notin ToSet(old) /\ IsInjective(old)) => IsInjective(list)
    BY <1>8, <1>9, Putting
  <2>2. QED
    BY <1>9, <2>1
<1> HIDE DEF list
<1>11. /\ IsArena(stored) /\ stored.roots = tree.roots
       /\ IdsOf(stored.nodes) = ids \cup more
       /\ \A i \in IdsOf(stored.nodes) : i < stored.next
       /\ \A i \in ids : NodeOf(stored, i) = NodeOf(tree, i)
       /\ \A i \in more : NodeOf(stored, i) = NodeOf(plant, i)
       /\ \A q \in Places(tree) : Siblings(stored, q) = Siblings(tree, q)
       /\ \A q \in more : Siblings(stored, q) = Siblings(plant, q)
  <2>1. IdsOf(plant.nodes) \cap IdsOf(tree.nodes) = {}
    BY <1>2
  <2>2. /\ IsArena(stored) /\ stored.roots = tree.roots
        /\ IdsOf(stored.nodes) = IdsOf(tree.nodes) \cup IdsOf(plant.nodes)
        /\ \A i \in IdsOf(stored.nodes) : i < stored.next
        /\ \A i \in IdsOf(tree.nodes) : NodeOf(stored, i) = NodeOf(tree, i)
        /\ \A i \in IdsOf(plant.nodes) : NodeOf(stored, i) = NodeOf(plant, i)
        /\ \A q \in Places(tree) : Siblings(stored, q) = Siblings(tree, q)
        /\ \A q \in IdsOf(plant.nodes) : Siblings(stored, q) = Siblings(plant, q)
    BY <1>2, <2>1, Admitting
  <2> HIDE DEF stored
  <2>3. QED
    BY <1>2, <2>2
<1>12. p \in Places(stored) /\ Places(stored) = Places(tree) \cup more
  BY <1>11 DEF Places
<1>13. TakesChildren(stored, p)
  <2>1. p = NoNode \/ (p \in ids /\ NodeOf(tree, p).group)
    BY DEF TakesChildren
  <2> HIDE DEF stored
  <2>2. QED
    BY <1>11, <2>1 DEF TakesChildren
<1>14. r = [ok |-> TRUE, tree |-> new]
  <2> DEFINE arrivals == {n \in subtree.nodes : n.id \notin IdsOf(tree.nodes)}
  <2>1. arrivals = plant.nodes
    <3>1. \A n \in subtree.nodes : n.id \notin IdsOf(tree.nodes)
      BY DEF IdsOf
    <3>2. QED
      BY <1>2, <3>1
  <2>2. stored = [tree EXCEPT !.nodes = @ \cup arrivals,
                              !.next = Max(IdsOf(subtree.nodes) \cup {@ - 1}) + 1]
    BY <1>2, <2>1
  <2>3. Siblings(stored, p) = old
    BY <1>11
  <2> HIDE DEF arrivals
  <2>4. Place(Siblings(stored, p), subtree.root, index) = list
    BY <2>3 DEF list
  <2> HIDE DEF stored
  <2>5. QED
    BY <1>13, <2>2, <2>4 DEF Reinsert, arrivals
<1> HIDE DEF stored
<1>15. /\ IsArena(new) /\ new.next = stored.next
       /\ IdsOf(new.nodes) = IdsOf(stored.nodes) /\ Places(new) = Places(stored)
       /\ \A i \in IdsOf(stored.nodes) :
             NodeOf(new, i) = IF i = p THEN [NodeOf(stored, i) EXCEPT !.children = list]
                                       ELSE NodeOf(stored, i)
       /\ \A q \in Places(stored) : Siblings(new, q) = IF q = p THEN list ELSE Siblings(stored, q)
  BY <1>10, <1>11, <1>12, Relisting
<1> HIDE DEF new
<1>16. p \notin more
  BY <1>6 DEF Places
<1>17. /\ \A q \in Places(tree) : Siblings(new, q) = IF q = p THEN list ELSE Siblings(tree, q)
       /\ \A q \in more : Siblings(new, q) = Siblings(plant, q)
       /\ \A i \in ids : NodeOf(new, i) = IF i = p THEN [NodeOf(tree, i) EXCEPT !.children = list]
                                                   ELSE NodeOf(tree, i)
       /\ \A i \in more : NodeOf(new, i) = NodeOf(plant, i)
  BY <1>11, <1>12, <1>15, <1>16
<1>18. IdsOf(new.nodes) = ids \cup more /\ Places(new) = Places(tree) \cup more
  BY <1>11, <1>12, <1>15
<1>19. \A q \in Places(tree) : /\ ToSet(Siblings(tree, q)) \subseteq ToSet(Siblings(new, q))
                               /\ ToSet(Siblings(new, q)) \subseteq ToSet(Siblings(tree, q)) \cup {root}
                               /\ root \in ToSet(Siblings(new, q)) => q = p
  <2>1. \A q \in Places(tree) : ToSet(Siblings(tree, q)) \subseteq ids
    BY <1>5 DEF IsListed
  <2>2. root \notin ids
    BY <1>8
  <2>3. QED
    BY <1>10, <1>17, <2>1, <2>2
<1>20. \A q \in more : ToSet(Siblings(new, q)) \subseteq more \ {root}
  <2>1. \A q \in more : q \in Places(plant) /\ q # NoNode
    BY <1>2, <1>6 DEF Places
  <2>2. \A q \in more : ToSet(Siblings(plant, q)) \subseteq more
    BY <1>2, <1>5, <2>1 DEF IsListed
  <2>3. root \in ToSet(Siblings(plant, NoNode))
    <3>1. <<root>>[1] = root /\ 1 \in DOMAIN <<root>>
      OBVIOUS
    <3>2. QED
      BY <1>7, <3>1 DEF ToSet
  <2>4. \A q \in more : root \notin ToSet(Siblings(plant, q))
    BY <1>5, <1>6, <2>1, <2>3 DEF HasOneParent
  <2>5. QED
    BY <1>17, <2>2, <2>4
<1>21. IsListed(new)
  <2>1. ASSUME NEW q \in Places(tree)
        PROVE  /\ IsInjective(Siblings(new, q)) /\ ToSet(Siblings(new, q)) \subseteq IdsOf(new.nodes)
               /\ TakesChildren(new, q) \/ Siblings(new, q) = <<>>
    <3>1. /\ IsInjective(Siblings(tree, q)) /\ ToSet(Siblings(tree, q)) \subseteq ids
          /\ TakesChildren(tree, q) \/ Siblings(tree, q) = <<>>
      BY <1>5 DEF IsListed
    <3>2. IsInjective(Siblings(new, q))
      BY <1>10, <1>17, <3>1
    <3>3. ToSet(Siblings(new, q)) \subseteq IdsOf(new.nodes)
      BY <1>8, <1>18, <1>19, <3>1
    <3>4. TakesChildren(tree, q) => TakesChildren(new, q)
      <4>1. CASE q = NoNode
        BY <4>1 DEF TakesChildren
      <4>2. CASE q # NoNode
        <5>1. q \in ids /\ q \in IdsOf(new.nodes)
          BY <1>18, <4>2 DEF Places
        <5>2. NodeOf(tree, q) \in Nodes
          BY <1>5, <5>1, NodesById
        <5>3. NodeOf(new, q).group = NodeOf(tree, q).group
          BY <1>17, <5>1, <5>2 DEF Nodes
        <5>4. QED
          BY <4>2, <5>1, <5>3 DEF TakesChildren
      <4>3. QED
        BY <4>1, <4>2
    <3>5. TakesChildren(new, q) \/ Siblings(new, q) = <<>>
      BY <1>17, <3>1, <3>4
    <3>6. QED
      BY <3>2, <3>3, <3>5
  <2>2. ASSUME NEW q \in more
        PROVE  /\ IsInjective(Siblings(new, q)) /\ ToSet(Siblings(new, q)) \subseteq IdsOf(new.nodes)
               /\ TakesChildren(new, q) \/ Siblings(new, q) = <<>>
    <3>1. /\ IsInjective(Siblings(plant, q)) /\ ToSet(Siblings(plant, q)) \subseteq more
          /\ TakesChildren(plant, q) \/ Siblings(plant, q) = <<>>
      BY <1>2, <1>5 DEF IsListed, Places
    <3>2. TakesChildren(plant, q) => TakesChildren(new, q)
      BY <1>6, <1>17, <1>18 DEF TakesChildren
    <3>3. QED
      BY <1>17, <1>18, <3>1, <3>2
  <2>3. QED
    BY <1>18, <2>1, <2>2 DEF IsListed
<1>22. HasOneParent(new)
  <2>1. ASSUME NEW i \in ids PROVE \E q \in Places(new) : i \in ToSet(Siblings(new, q))
    <3>1. PICK q \in Places(tree) : i \in ToSet(Siblings(tree, q))
      BY <1>5 DEF HasOneParent
    <3>2. QED
      BY <1>18, <1>19, <3>1
  <2>2. ASSUME NEW i \in more PROVE \E q \in Places(new) : i \in ToSet(Siblings(new, q))
    <3>1. CASE i = root
      BY <1>10, <1>17, <1>18, <3>1
    <3>2. CASE i # root
      <4>1. PICK q \in Places(plant) : i \in ToSet(Siblings(plant, q))
        BY <1>2, <1>5 DEF HasOneParent
      <4>2. q # NoNode
        <5>1. ToSet(<<root>>) = {root}
          BY DEF ToSet
        <5>2. QED
          BY <1>7, <3>2, <4>1, <5>1
      <4>3. q \in more
        BY <1>2, <4>1, <4>2 DEF Places
      <4>4. QED
        BY <1>17, <1>18, <4>1, <4>3
    <3>3. QED
      BY <3>1, <3>2
  <2>3. ASSUME NEW q \in Places(new), NEW s \in Places(new),
               NEW i \in ToSet(Siblings(new, q)), i \in ToSet(Siblings(new, s))
        PROVE  q = s
    <3>1. \A u \in Places(tree) : ToSet(Siblings(tree, u)) \subseteq ids
      BY <1>5 DEF IsListed
    <3>2. \A u \in Places(new) : (i \in ids /\ i \in ToSet(Siblings(new, u))) =>
              u \in Places(tree) /\ i \in ToSet(Siblings(tree, u))
      <4>1. i \in ids => i # root /\ i \notin more
        BY <1>8
      <4>2. QED
        BY <1>18, <1>19, <1>20, <4>1
    <3>3. \A u \in Places(new) : (i = root /\ i \in ToSet(Siblings(new, u))) => u = p
      BY <1>18, <1>19, <1>20
    <3>4. \A u \in Places(new) : (i \in more /\ i # root /\ i \in ToSet(Siblings(new, u))) =>
              u \in more /\ i \in ToSet(Siblings(plant, u))
      BY <1>17, <1>18, <1>19, <3>1
    <3>5. \A u \in more : u \in Places(plant)
      BY <1>2 DEF Places
    <3>6. i \in ids \/ i \in more
      BY <1>18, <1>19, <1>20, <3>1, <1>8
    <3>7. CASE i \in ids
      BY <1>5, <2>3, <3>2, <3>7 DEF HasOneParent
    <3>8. CASE i = root
      BY <2>3, <3>3, <3>8
    <3>9. CASE i \in more /\ i # root
      BY <1>5, <2>3, <3>4, <3>5, <3>9 DEF HasOneParent
    <3>10. QED
      BY <3>6, <3>7, <3>8, <3>9
  <2>4. QED
    BY <1>18, <2>1, <2>2, <2>3 DEF HasOneParent
<1>23. \A s \in SUBSET more : root \in s /\ Gathers(plant, s) => s = more
  <2>1. SUFFICES ASSUME NEW s \in SUBSET more, root \in s, Gathers(plant, s) PROVE s = more
    OBVIOUS
  <2>2. ToSet(plant.roots) \subseteq s
    <3>1. ToSet(<<root>>) = {root}
      BY DEF ToSet
    <3>2. QED
      BY <1>2, <2>1, <3>1
  <2>3. QED
    BY <1>2, <1>5, <2>1, <2>2 DEF IsReached
<1>24. IsReached(new)
  <2>1. SUFFICES ASSUME NEW s \in SUBSET (ids \cup more), ToSet(new.roots) \subseteq s, Gathers(new, s)
                 PROVE  s = ids \cup more
    BY <1>18 DEF IsReached
  <2>2. ids \subseteq s
    <3>1. Gathers(tree, s \cap ids)
      <4>1. \A q \in ids : q \in Places(tree) /\ ToSet(Siblings(tree, q)) \subseteq ids
        BY <1>5 DEF IsListed, Places
      <4>2. QED
        BY <1>19, <2>1, <4>1 DEF Gathers
    <3>2. ToSet(tree.roots) \subseteq s \cap ids
      <4>1. Siblings(new, NoNode) = new.roots
        BY DEF Siblings
      <4>2. ToSet(tree.roots) \subseteq ToSet(new.roots)
        BY <1>6, <1>7, <1>19, <4>1
      <4>3. ToSet(tree.roots) \subseteq ids
        BY <1>5, <1>6, <1>7 DEF IsListed
      <4>4. QED
        BY <2>1, <4>2, <4>3
    <3>3. s \cap ids = ids
      BY <1>5, <3>1, <3>2 DEF IsReached
    <3>4. QED
      BY <3>3
  <2>3. root \in s
    <3>1. root \in ToSet(Siblings(new, p))
      BY <1>10, <1>17
    <3>2. CASE p = NoNode
      <4>1. Siblings(new, NoNode) = new.roots
        BY DEF Siblings
      <4>2. QED
        BY <2>1, <3>1, <3>2, <4>1
    <3>3. CASE p # NoNode
      <4>1. p \in s
        BY <2>2, <3>3 DEF Places
      <4>2. QED
        BY <2>1, <3>1, <4>1 DEF Gathers
    <3>4. QED
      BY <3>2, <3>3
  <2>4. Gathers(plant, s \cap more)
    <3>1. \A q \in more : ToSet(Siblings(plant, q)) \subseteq more /\ Siblings(new, q) = Siblings(plant, q)
      BY <1>17, <1>20
    <3>2. QED
      BY <2>1, <3>1 DEF Gathers
  <2>5. s \cap more = more
    BY <1>8, <1>23, <2>3, <2>4
  <2>6. QED
    BY <2>1, <2>2, <2>5
<1>25. \A i \in IdsOf(new.nodes) : i < new.next
  BY <1>11, <1>15
<1>26. IsTree(new)
  BY <1>15, <1>21, <1>22, <1>24, <1>25 DEF IsTree
<1>27. Below(new, {root}) = more
  <2> DEFINE B == Below(new, {root})
  <2>1. /\ B \subseteq IdsOf(new.nodes) /\ {root} \cap IdsOf(new.nodes) \subseteq B /\ Gathers(new, B)
        /\ \A s \in SUBSET IdsOf(new.nodes) :
              {root} \cap IdsOf(new.nodes) \subseteq s /\ Gathers(new, s) => B \subseteq s
    BY <1>15, <1>21, BelowIsLeast
  <2> HIDE DEF B
  <2>2. Gathers(new, more)
    BY <1>20 DEF Gathers
  <2>3. root \in B /\ B \subseteq more
    BY <1>8, <1>18, <2>1, <2>2
  <2>4. Gathers(plant, B)
    BY <1>17, <2>1, <2>3 DEF Gathers
  <2>5. B = more
    BY <1>23, <2>3, <2>4
  <2>6. QED
    BY <2>5 DEF B
<1>28. IsGraft(new, tree, plant, p, list)
  BY <1>2, <1>17, <1>18, <1>26 DEF IsGraft
<1>29. IsGraft(new, tree, Planted(subtree, 1), p, list)
  BY <1>3, <1>4, <1>28 DEF IsGraft
<1>30. r.ok /\ r.tree = new
  BY <1>14
<1>31. QED
  BY <1>10, <1>18, <1>27, <1>29, <1>30 DEF list, HasAdded

-----------------------------------------------------------------------------
(* There and back. *)

\* The trees of which a reader sees the same: the ids still to be given may differ.
SameTree(a, b) == a.roots = b.roots /\ a.nodes = b.nodes

\* A node without its list.
Plain(tree, id) == [NodeOf(tree, id) EXCEPT !.children = <<>>]

\* Trees are the same that have the same lists and, the lists aside, the same nodes.
LEMMA SameByLists ==
    ASSUME NEW a, IsArena(a), NEW b, IsArena(b), IdsOf(a.nodes) = IdsOf(b.nodes),
           \A q \in Places(a) : Siblings(a, q) = Siblings(b, q),
           \A i \in IdsOf(a.nodes) : Plain(a, i) = Plain(b, i)
    PROVE  SameTree(a, b)
<1>1. \A i \in IdsOf(a.nodes) : NodeOf(a, i) = NodeOf(b, i)
  <2>1. SUFFICES ASSUME NEW i \in IdsOf(a.nodes) PROVE NodeOf(a, i) = NodeOf(b, i)
    OBVIOUS
  <2>2. NodeOf(a, i) \in Nodes /\ NodeOf(b, i) \in Nodes
    BY NodesById
  <2>3. NodeOf(a, i).children = NodeOf(b, i).children
    <3>1. i \in Places(a)
      BY DEF Places
    <3>2. QED
      BY <3>1, PlacesOf
  <2> DEFINE m == NodeOf(a, i)
             n == NodeOf(b, i)
  <2>4. [m EXCEPT !.children = <<>>] = [n EXCEPT !.children = <<>>]
    BY DEF Plain
  <2> HIDE DEF m, n
  <2>5. ASSUME m \in Nodes, n \in Nodes, m.children = n.children PROVE m = n
    <3>1. /\ m.id = n.id /\ m.group = n.group /\ m.prim = n.prim /\ m.look = n.look
          /\ m.points = n.points /\ m.parents = n.parents
      <4>1. \A x \in Nodes :
               /\ [x EXCEPT !.children = <<>>].id = x.id
               /\ [x EXCEPT !.children = <<>>].group = x.group
               /\ [x EXCEPT !.children = <<>>].prim = x.prim
               /\ [x EXCEPT !.children = <<>>].look = x.look
               /\ [x EXCEPT !.children = <<>>].points = x.points
               /\ [x EXCEPT !.children = <<>>].parents = x.parents
        BY DEF Nodes
      <4> DEFINE x == [m EXCEPT !.children = <<>>]
                 y == [n EXCEPT !.children = <<>>]
      <4>2. /\ x.id = m.id /\ x.group = m.group /\ x.prim = m.prim /\ x.look = m.look
            /\ x.points = m.points /\ x.parents = m.parents
        BY <2>5, <4>1
      <4>3. /\ y.id = n.id /\ y.group = n.group /\ y.prim = n.prim /\ y.look = n.look
            /\ y.points = n.points /\ y.parents = n.parents
        BY <2>5, <4>1
      <4>4. x = y
        BY <2>4
      <4> HIDE DEF x, y
      <4>5. QED
        BY <4>2, <4>3, <4>4
    <3>2. QED
      BY <2>5, <3>1 DEF Nodes
  <2>6. QED
    BY <2>2, <2>3, <2>5 DEF m, n
<1>2. a.nodes = b.nodes
  BY <1>1, SameNodes
<1>3. a.roots = b.roots
  BY DEF Places, Siblings
<1>4. QED
  BY <1>2, <1>3 DEF SameTree

\* A write of a list leaves the rest of the node.
LEMMA PlainIsKept ==
    ASSUME NEW tree, NEW i, NodeOf(tree, i) \in Nodes, NEW new, NEW list,
           NodeOf(new, i) = [NodeOf(tree, i) EXCEPT !.children = list] \/ NodeOf(new, i) = NodeOf(tree, i)
    PROVE  Plain(new, i) = Plain(tree, i)
<1>1. [[NodeOf(tree, i) EXCEPT !.children = list] EXCEPT !.children = <<>>]
          = [NodeOf(tree, i) EXCEPT !.children = <<>>]
  BY DEF Nodes
<1>2. QED
  BY <1>1 DEF Plain

\* What remove takes out is a subtree that can be put back.
LEMMA SubtreeIsTree ==
    ASSUME NEW tree, IsTree(tree), NEW id \in IdsOf(tree.nodes)
    PROVE  /\ IsSubtree(Subtree(tree, id))
           /\ IdsOf(Subtree(tree, id).nodes) = Below(tree, {id})
           /\ \A i \in Below(tree, {id}) : NodeOf(Planted(Subtree(tree, id), 1), i) = NodeOf(tree, i)
<1> DEFINE ids == IdsOf(tree.nodes)
           gone == Below(tree, {id})
           sub == Subtree(tree, id)
           plant == Planted(sub, tree.next)
<1>1. IsArena(tree) /\ IsListed(tree) /\ HasOneParent(tree) /\ tree.next \in Ids /\ tree.nodes \in SUBSET Nodes
  BY DEF IsTree, IsArena, Trees
<1>2. PICK p \in Places(tree) : id \in ToSet(Siblings(tree, p))
  BY <1>1 DEF HasOneParent
<1>3. IsApart(tree, p, id, gone)
  BY <1>2, BelowIsApart
<1> HIDE DEF gone
<1>4. /\ id \in gone /\ gone \subseteq ids /\ p \notin gone /\ NoNode \notin gone
      /\ Gathers(tree, gone)
      /\ \A s \in SUBSET ids : id \in s /\ Gathers(tree, s) => gone \subseteq s
      /\ \A q \in Places(tree) : \A c \in ToSet(Siblings(tree, q)) :
            c \in gone /\ c # id => q \in gone
  BY <1>3 DEF IsApart
<1>5. id \in Ids
  BY <1>1, PlacesOf
<1>6. sub = [root |-> id, nodes |-> {n \in tree.nodes : n.id \in gone}]
  BY DEF Subtree, NodesBelow, gone
<1>7. sub \in [root : Ids, nodes : SUBSET Nodes] /\ sub.root = id
  BY <1>1, <1>5, <1>6
<1>8. plant.roots = <<id>> /\ plant.nodes = {n \in tree.nodes : n.id \in gone} /\ plant.next = tree.next
  BY <1>6 DEF Planted
<1>9. plant \in Trees
  BY <1>1, <1>5, <1>8 DEF Trees, Planted
<1>10. IsArena(plant)
  <2>1. plant.nodes \in SUBSET tree.nodes
    BY <1>8
  <2>2. IsFiniteSet(plant.nodes)
    BY <1>1, <2>1, FS_Subset DEF IsArena
  <2>3. QED
    BY <1>1, <1>9, <2>1, <2>2 DEF IsArena, Unique
<1>11. IdsOf(plant.nodes) = gone
  <2>1. \A i \in gone : \E n \in tree.nodes : n.id = i
    BY <1>4 DEF IdsOf
  <2>2. QED
    BY <1>8, <2>1 DEF IdsOf
<1> HIDE DEF plant
<1>12. \A i \in gone : NodeOf(plant, i) = NodeOf(tree, i)
  <2>1. SUFFICES ASSUME NEW i \in gone PROVE NodeOf(plant, i) = NodeOf(tree, i)
    OBVIOUS
  <2>2. NodeOf(plant, i) \in plant.nodes /\ NodeOf(plant, i).id = i
    BY <1>10, <1>11, NodesById
  <2>3. NodeOf(plant, i) \in tree.nodes /\ i \in ids
    BY <1>4, <1>8, <2>2
  <2>4. QED
    BY <1>1, <2>2, <2>3, NodesById
<1>13. \A q \in gone : Siblings(plant, q) = Siblings(tree, q) /\ q \in Places(tree)
  BY <1>4, <1>12 DEF Siblings, Places
<1>14. Siblings(plant, NoNode) = <<id>> /\ ToSet(<<id>>) = {id} /\ IsInjective(<<id>>)
  BY <1>8 DEF Siblings, ToSet, IsInjective
<1>15. Places(plant) = gone \cup {NoNode}
  BY <1>11 DEF Places
<1>16. IsListed(plant)
  <2>1. ASSUME NEW q \in gone
        PROVE  /\ IsInjective(Siblings(plant, q)) /\ ToSet(Siblings(plant, q)) \subseteq gone
               /\ TakesChildren(plant, q) \/ Siblings(plant, q) = <<>>
    <3>1. IsInjective(Siblings(tree, q)) /\ (TakesChildren(tree, q) \/ Siblings(tree, q) = <<>>)
      BY <1>1, <1>13 DEF IsListed
    <3>2. ToSet(Siblings(tree, q)) \subseteq gone
      BY <1>4 DEF Gathers
    <3>3. TakesChildren(tree, q) => TakesChildren(plant, q)
      BY <1>4, <1>11, <1>12 DEF TakesChildren
    <3>4. QED
      BY <1>1, <1>13, <3>1, <3>2, <3>3 DEF IsListed
  <2>2. TakesChildren(plant, NoNode)
    BY DEF TakesChildren
  <2>3. QED
    BY <1>4, <1>11, <1>14, <1>15, <2>1, <2>2 DEF IsListed
<1>17. HasOneParent(plant)
  <2>1. ASSUME NEW i \in gone PROVE \E q \in Places(plant) : i \in ToSet(Siblings(plant, q))
    <3>1. CASE i = id
      BY <1>14, <1>15, <3>1
    <3>2. CASE i # id
      <4>1. PICK q \in Places(tree) : i \in ToSet(Siblings(tree, q))
        BY <1>1, <1>4 DEF HasOneParent
      <4>2. q \in gone
        BY <1>4, <3>2, <4>1
      <4>3. QED
        BY <1>13, <1>15, <4>1, <4>2
    <3>3. QED
      BY <3>1, <3>2
  <2>2. \A q \in gone : id \notin ToSet(Siblings(tree, q))
    BY <1>1, <1>2, <1>4, <1>13 DEF HasOneParent
  <2>3. \A q, r \in Places(plant) : \A i \in ToSet(Siblings(plant, q)) :
           i \in ToSet(Siblings(plant, r)) => q = r
    <3>1. SUFFICES ASSUME NEW q \in Places(plant), NEW r \in Places(plant),
                          NEW i \in ToSet(Siblings(plant, q)), i \in ToSet(Siblings(plant, r))
                   PROVE  q = r
      OBVIOUS
    <3>2. CASE i = id
      BY <1>13, <1>15, <2>2, <3>1, <3>2
    <3>3. CASE i # id
      <4>1. q \in gone /\ r \in gone
        BY <1>14, <1>15, <3>1, <3>3
      <4>2. QED
        BY <1>1, <1>13, <3>1, <4>1 DEF HasOneParent
    <3>4. QED
      BY <3>2, <3>3
  <2>4. QED
    BY <1>11, <2>1, <2>3 DEF HasOneParent
<1>18. IsReached(plant)
  <2>1. SUFFICES ASSUME NEW s \in SUBSET gone, ToSet(plant.roots) \subseteq s, Gathers(plant, s)
                 PROVE  s = gone
    BY <1>11 DEF IsReached
  <2>2. id \in s
    BY <1>8, <1>14, <2>1
  <2>3. Gathers(tree, s)
    BY <1>13, <2>1 DEF Gathers
  <2>4. QED
    BY <1>4, <2>1, <2>2, <2>3
<1>19. \A i \in gone : i < plant.next
  BY <1>4, <1>8 DEF IsTree
<1>20. IsTree(plant)
  BY <1>10, <1>11, <1>16, <1>17, <1>18, <1>19 DEF IsTree
<1>21. \A i : NodeOf(Planted(sub, 1), i) = NodeOf(plant, i)
  BY DEF NodeOf, Planted, plant
<1>22. IsSubtree(sub)
  BY <1>1, <1>7, <1>20 DEF IsSubtree, plant
<1>23. IdsOf(sub.nodes) = gone
  BY <1>11 DEF plant, Planted
<1>24. QED
  BY <1>12, <1>21, <1>22, <1>23 DEF gone

\* A node that is removed and put back where it was leaves the tree as it was.
LEMMA RemovedAndAdded ==
    ASSUME NEW tree, IsTree(tree), NEW p \in Places(tree),
           NEW k \in 1..Len(Siblings(tree, p)), NEW id, id = Siblings(tree, p)[k]
    PROVE  LET left == Without(tree, id)
               sub  == Subtree(tree, id)
               r    == Reinsert(left, sub, p, k - 1)
           IN  /\ IsTree(left) /\ IsSubtree(sub) /\ IdsOf(sub.nodes) \cap IdsOf(left.nodes) = {}
               /\ p \in Places(left) /\ TakesChildren(left, p)
               /\ r.ok /\ SameTree(r.tree, tree)
<1> DEFINE ids == IdsOf(tree.nodes)
           gone == Below(tree, {id})
           list == Siblings(tree, p)
           left == Without(tree, id)
           sub == Subtree(tree, id)
           r == Reinsert(left, sub, p, k - 1)
<1>1. IsArena(tree) /\ list \in Seq(Ids) /\ IsInjective(list) /\ id \in ids /\ list # <<>>
      /\ TakesChildren(tree, p)
  <2>1. IsArena(tree) /\ list \in Seq(Ids)
    BY PlacesOf DEF IsTree
  <2>2. /\ IsInjective(list) /\ ToSet(list) \subseteq ids
        /\ TakesChildren(tree, p) \/ list = <<>>
    BY DEF IsTree, IsListed
  <2>3. id \in ToSet(list) /\ list # <<>>
    BY <2>1 DEF ToSet
  <2>4. QED
    BY <2>1, <2>2, <2>3
<1>2. /\ IsTree(left) /\ left.next = tree.next
      /\ IdsOf(left.nodes) = ids \ gone
      /\ p \in Places(left) /\ Siblings(left, p) = Cut(list, k)
      /\ \A q \in Places(left) \ {p} : Siblings(left, q) = Siblings(tree, q)
      /\ \A i \in IdsOf(left.nodes) :
            NodeOf(left, i) = IF i = p THEN [NodeOf(tree, i) EXCEPT !.children = Siblings(left, p)]
                                       ELSE NodeOf(tree, i)
  <2>1. IsCut(left, tree, p, k, gone)
    BY RemovingANode
  <2> HIDE DEF left, gone
  <2>2. QED
    BY <2>1 DEF IsCut
<1>3. /\ IsSubtree(sub) /\ IdsOf(sub.nodes) = gone
      /\ \A i \in gone : NodeOf(Planted(sub, 1), i) = NodeOf(tree, i)
  BY <1>1, SubtreeIsTree
<1>4. sub.root = id /\ id \in Ids /\ gone \subseteq ids
  <2>1. sub.root = id
    BY DEF Subtree
  <2>2. gone \subseteq ids
    BY DEF Below
  <2>3. QED
    BY <1>1, <2>1, <2>2, PlacesOf
<1> HIDE DEF left, sub, gone
<1>5. IdsOf(sub.nodes) \cap IdsOf(left.nodes) = {}
  BY <1>2, <1>3
<1>6. TakesChildren(left, p)
  <2>1. CASE p = NoNode
    BY <2>1 DEF TakesChildren
  <2>2. CASE p # NoNode
    <3>1. p \in ids /\ p \in IdsOf(left.nodes)
      BY <1>2, <2>2 DEF Places
    <3>2. NodeOf(tree, p) \in Nodes /\ NodeOf(tree, p).group
      BY <1>1, <2>2, <3>1, NodesById DEF TakesChildren
    <3>3. NodeOf(left, p).group = NodeOf(tree, p).group
      BY <1>2, <3>1, <3>2 DEF Nodes
    <3>4. QED
      BY <3>1, <3>2, <3>3 DEF TakesChildren
  <2>3. QED
    BY <2>1, <2>2
<1> DEFINE cut == Cut(list, k)
<1>7. /\ cut \in Seq(Ids) /\ k \in 1..(Len(cut) + 1) /\ Put(cut, k, id) = list
      /\ Len(cut) = Len(list) - 1
  BY <1>1, Cutting
<1> HIDE DEF cut
<1>8. k - 1 \in Int /\ Place(cut, id, k - 1) = Put(cut, k, id)
  <2>1. Place(cut, id, k - 1) =
           Put(cut, IF k - 1 < 0 \/ k - 1 > Len(cut) THEN Len(cut) + 1 ELSE k - 1 + 1, id)
    BY <1>4, <1>7, PlaceIsPut
  <2>2. ~ (k - 1 < 0 \/ k - 1 > Len(cut)) /\ k - 1 + 1 = k
    BY <1>7
  <2>3. QED
    BY <2>1, <2>2
<1>9. /\ r.ok /\ IsGraft(r.tree, left, Planted(sub, 1), p, list)
  <2>1. /\ Siblings(left, p) = cut /\ k \in 1..(Len(Siblings(left, p)) + 1)
        /\ Place(Siblings(left, p), sub.root, k - 1) = Put(Siblings(left, p), k, sub.root)
    BY <1>2, <1>4, <1>7, <1>8 DEF cut
  <2>2. k - 1 \in Int
    BY <1>8
  <2>3. HasAdded(r, left, sub, p, k)
    BY <1>2, <1>3, <1>5, <1>6, <2>1, <2>2, AddingASubtree
  <2>4. Put(Siblings(left, p), k, sub.root) = list
    BY <1>4, <1>7, <2>1
  <2>5. QED
    BY <2>3, <2>4 DEF HasAdded
<1> DEFINE new == r.tree
<1> HIDE DEF r
<1>10. Planted(sub, 1).nodes = sub.nodes
  BY DEF Planted
<1>11. IsArena(new) /\ IdsOf(new.nodes) = ids
  BY <1>2, <1>3, <1>4, <1>9, <1>10 DEF IsGraft, IsTree
<1>12. \A i \in ids : Plain(new, i) = Plain(tree, i)
  <2>1. SUFFICES ASSUME NEW i \in ids PROVE Plain(new, i) = Plain(tree, i)
    OBVIOUS
  <2>2. NodeOf(tree, i) \in Nodes
    BY <1>1, NodesById
  <2>3. CASE i \in gone
    <3>1. NodeOf(new, i) = NodeOf(tree, i)
      BY <1>3, <1>9, <1>10, <2>3 DEF IsGraft
    <3>2. QED
      BY <3>1 DEF Plain
  <2>4. CASE i \notin gone
    <3>1. i \in IdsOf(left.nodes)
      BY <1>2, <2>4
    <3>2. Plain(left, i) = Plain(tree, i)
      BY <1>2, <2>2, <3>1, PlainIsKept
    <3>3. NodeOf(left, i) \in Nodes
      BY <1>2, <3>1, NodesById DEF IsTree
    <3>4. NodeOf(new, i) = [NodeOf(left, i) EXCEPT !.children = list] \/ NodeOf(new, i) = NodeOf(left, i)
      BY <1>9, <3>1 DEF IsGraft
    <3>5. Plain(new, i) = Plain(left, i)
      BY <3>3, <3>4, PlainIsKept
    <3>6. QED
      BY <3>2, <3>5
  <2>5. QED
    BY <2>3, <2>4
<1>13. \A q \in Places(tree) : Siblings(new, q) = Siblings(tree, q)
  <2>1. SUFFICES ASSUME NEW q \in Places(tree) PROVE Siblings(new, q) = Siblings(tree, q)
    OBVIOUS
  <2>2. CASE q \in gone
    <3>1. q # NoNode
      BY <1>1, <1>4, <2>2, PlacesOf
    <3>2. NodeOf(new, q) = NodeOf(tree, q)
      BY <1>3, <1>9, <1>10, <2>2 DEF IsGraft
    <3>3. QED
      BY <3>1, <3>2 DEF Siblings
  <2>3. CASE q \notin gone
    <3>1. q \in Places(left)
      BY <1>2, <2>3 DEF Places
    <3>2. Siblings(new, q) = IF q = p THEN list ELSE Siblings(left, q)
      BY <1>9, <3>1 DEF IsGraft
    <3>3. QED
      BY <1>2, <3>1, <3>2
  <2>4. QED
    BY <2>2, <2>3
<1>14. SameTree(new, tree)
  <2>1. Places(new) = Places(tree)
    BY <1>11 DEF Places
  <2>2. QED
    BY <1>1, <1>11, <1>12, <1>13, <2>1, SameByLists
<1>15. QED
  BY <1>2, <1>3, <1>5, <1>6, <1>9, <1>14 DEF left, sub, r

\* A subtree that is added and removed again leaves the tree as it was.
LEMMA AddedAndRemoved ==
    ASSUME NEW tree, IsTree(tree), NEW new, NEW subtree, NEW p \in Places(tree), NEW k, NEW list,
           IsGraft(new, tree, Planted(subtree, 1), p, list),
           IdsOf(subtree.nodes) \cap IdsOf(tree.nodes) = {},
           p \in Places(new), k \in 1..Len(list), list[k] = subtree.root,
           Cut(list, k) = Siblings(tree, p),
           Below(new, {subtree.root}) = IdsOf(subtree.nodes)
    PROVE  IsTree(new) /\ IsLocated(new, subtree.root) /\ SameTree(Without(new, subtree.root), tree)
<1> DEFINE ids == IdsOf(tree.nodes)
           more == IdsOf(subtree.nodes)
           left == Without(new, subtree.root)
<1>1. Planted(subtree, 1).nodes = subtree.nodes
  BY DEF Planted
<1>2. /\ IsTree(new) /\ IdsOf(new.nodes) = ids \cup more
      /\ \A q \in Places(tree) : Siblings(new, q) = IF q = p THEN list ELSE Siblings(tree, q)
      /\ \A i \in ids : NodeOf(new, i) = IF i = p THEN [NodeOf(tree, i) EXCEPT !.children = list]
                                                  ELSE NodeOf(tree, i)
  BY <1>1 DEF IsGraft
<1>3. Siblings(new, p) = list /\ k \in 1..Len(Siblings(new, p)) /\ subtree.root = Siblings(new, p)[k]
  BY <1>2
<1>4. IsLocated(new, subtree.root)
  BY <1>2, <1>3, LocateFinds
<1>5. /\ IsTree(left) /\ left.next = new.next
      /\ IdsOf(left.nodes) = IdsOf(new.nodes) \ Below(new, {subtree.root})
      /\ p \in Places(left) /\ Siblings(left, p) = Cut(Siblings(new, p), k)
      /\ \A q \in Places(left) \ {p} : Siblings(left, q) = Siblings(new, q)
      /\ \A i \in IdsOf(left.nodes) :
            NodeOf(left, i) = IF i = p THEN [NodeOf(new, i) EXCEPT !.children = Siblings(left, p)]
                                       ELSE NodeOf(new, i)
  <2>1. IsCut(left, new, p, k, Below(new, {subtree.root}))
    BY <1>2, <1>3, RemovingANode
  <2> HIDE DEF left
  <2>2. QED
    BY <2>1 DEF IsCut
<1> HIDE DEF left
<1>6. IdsOf(left.nodes) = ids /\ Places(left) = Places(tree)
  BY <1>2, <1>5 DEF Places
<1>7. \A q \in Places(left) : Siblings(left, q) = Siblings(tree, q)
  BY <1>2, <1>3, <1>5, <1>6
<1>8. \A i \in ids : Plain(left, i) = Plain(tree, i)
  <2>1. SUFFICES ASSUME NEW i \in ids PROVE Plain(left, i) = Plain(tree, i)
    OBVIOUS
  <2>2. NodeOf(tree, i) \in Nodes /\ NodeOf(new, i) \in Nodes
    BY <1>2, NodesById DEF IsTree
  <2>3. Plain(new, i) = Plain(tree, i)
    BY <1>2, <2>2, PlainIsKept
  <2>4. NodeOf(left, i) = [NodeOf(new, i) EXCEPT !.children = Siblings(left, p)]
        \/ NodeOf(left, i) = NodeOf(new, i)
    BY <1>5, <1>6
  <2>5. Plain(left, i) = Plain(new, i)
    BY <2>2, <2>4, PlainIsKept
  <2>6. QED
    BY <2>3, <2>5
<1>9. SameTree(left, tree)
  BY <1>5, <1>6, <1>7, <1>8, SameByLists DEF IsTree
<1>10. QED
  BY <1>2, <1>4, <1>9 DEF left

-----------------------------------------------------------------------------
(* move. *)

\* Giving a place another list leaves every node what it is, its list aside.
LEMMA RelistedPlain ==
    ASSUME NEW tree, IsArena(tree), NEW p \in Places(tree), NEW list \in Seq(Ids)
    PROVE  \A i \in IdsOf(tree.nodes) : /\ Plain(Relisted(tree, p, list), i) = Plain(tree, i)
                                        /\ NodeOf(Relisted(tree, p, list), i).group = NodeOf(tree, i).group
<1>1. SUFFICES ASSUME NEW i \in IdsOf(tree.nodes)
               PROVE  /\ Plain(Relisted(tree, p, list), i) = Plain(tree, i)
                      /\ NodeOf(Relisted(tree, p, list), i).group = NodeOf(tree, i).group
  OBVIOUS
<1> DEFINE new == Relisted(tree, p, list)
<1>2. NodeOf(new, i) = [NodeOf(tree, i) EXCEPT !.children = list] \/ NodeOf(new, i) = NodeOf(tree, i)
  <2>1. /\ IsArena(new) /\ new.next = tree.next
        /\ IdsOf(new.nodes) = IdsOf(tree.nodes) /\ Places(new) = Places(tree)
        /\ \A j \in IdsOf(tree.nodes) :
              NodeOf(new, j) = IF j = p THEN [NodeOf(tree, j) EXCEPT !.children = list]
                                        ELSE NodeOf(tree, j)
        /\ \A q \in Places(tree) : Siblings(new, q) = IF q = p THEN list ELSE Siblings(tree, q)
    BY Relisting
  <2> HIDE DEF new
  <2>2. QED
    BY <2>1
<1>3. NodeOf(tree, i) \in Nodes
  BY NodesById
<1> HIDE DEF new
<1>4. NodeOf(new, i).group = NodeOf(tree, i).group
  BY <1>2, <1>3 DEF Nodes
<1>5. Plain(new, i) = Plain(tree, i)
  BY <1>2, <1>3, PlainIsKept
<1>6. QED
  BY <1>4, <1>5 DEF new

\* What move refuses, by the places of a whole tree.
LEMMA MayMoveTo ==
    ASSUME NEW tree, IsTree(tree), NEW id, NEW q
    PROVE  MayMove(tree, id, q) <=> /\ id \in IdsOf(tree.nodes)
                                    /\ q \in Places(tree) /\ TakesChildren(tree, q)
                                    /\ q \notin Below(tree, {id})
<1>1. IsLocated(tree, id) <=> id \in IdsOf(tree.nodes)
  BY LocatedIsThere
<1>2. TakesChildren(tree, q) => q \in Places(tree)
  BY DEF TakesChildren, Places
<1>3. Below(tree, {id}) \subseteq IdsOf(tree.nodes) /\ {id} \cap IdsOf(tree.nodes) \subseteq Below(tree, {id})
  BY BelowIsLeast DEF IsTree
<1>4. NoNode \notin IdsOf(tree.nodes)
  BY PlacesOf DEF IsTree
<1>5. id \in IdsOf(tree.nodes) => ((q # NoNode /\ IsUnder(tree, id, q)) <=> q \in Below(tree, {id}))
  BY <1>3, <1>4 DEF IsUnder
<1>6. QED
  BY <1>1, <1>2, <1>5 DEF MayMove

\* How a tree looks when the k-th of the list of p moved to be the m-th of the list of q.
IsShifted(new, tree, id, p, k, q, m) ==
    /\ IsTree(new) /\ new.next = tree.next
    /\ IdsOf(new.nodes) = IdsOf(tree.nodes) /\ Places(new) = Places(tree)
    /\ Below(new, {id}) = Below(tree, {id})
    /\ \A i \in IdsOf(tree.nodes) : /\ Plain(new, i) = Plain(tree, i)
                                    /\ NodeOf(new, i).group = NodeOf(tree, i).group
    /\ LET left == Relisted(tree, p, Cut(Siblings(tree, p), k)) IN
       /\ m \in 1..Len(Siblings(new, q)) /\ Siblings(new, q)[m] = id
       /\ Cut(Siblings(new, q), m) = Siblings(left, q)
       /\ \A r \in Places(tree) \ {q} : Siblings(new, r) = Siblings(left, r)

\* move: out of one list and into another, or to another place of the same.
LEMMA MovingANode ==
    ASSUME NEW tree, IsTree(tree), NEW p \in Places(tree),
           NEW k \in 1..Len(Siblings(tree, p)), NEW id, id = Siblings(tree, p)[k],
           NEW q, MayMove(tree, id, q), NEW index \in Int
    PROVE  \E m : IsShifted(Moved(tree, id, q, index), tree, id, p, k, q, m)
<1> DEFINE ids == IdsOf(tree.nodes)
           gone == Below(tree, {id})
           list == Siblings(tree, p)
           cut == Cut(list, k)
           left == Relisted(tree, p, cut)
           there == Siblings(left, q)
           m == IF index < 0 \/ index > Len(there) THEN Len(there) + 1 ELSE index + 1
           longer == Put(there, m, id)
           new == Relisted(left, q, longer)
<1>1. IsArena(tree) /\ IsListed(tree) /\ HasOneParent(tree) /\ IsReached(tree)
  BY DEF IsTree
<1>2. list \in Seq(Ids) /\ IsInjective(list) /\ ToSet(list) \subseteq ids /\ id \in ToSet(list)
  <2>1. list \in Seq(Ids) /\ IsInjective(list) /\ ToSet(list) \subseteq ids
    BY <1>1, PlacesOf DEF IsListed
  <2>2. QED
    BY <2>1 DEF ToSet
<1>3. /\ cut \in Seq(Ids) /\ IsInjective(cut) /\ ToSet(cut) = ToSet(list) \ {id}
      /\ RemoveAt(list, k) = cut
  BY <1>2, Cutting, RemoveAtIsCut
<1>4. id \in ids /\ q \in Places(tree) /\ TakesChildren(tree, q) /\ q \notin gone /\ id \in Ids
  <2>1. id \in IdsOf(tree.nodes) /\ q \in Places(tree) /\ TakesChildren(tree, q) /\ q \notin Below(tree, {id})
    BY MayMoveTo
  <2>2. QED
    BY <1>1, <2>1, PlacesOf
<1>5. Detached(tree, Locate(tree, id)) = left
  <2>1. Locate(tree, id) = [parent |-> p, index |-> k - 1]
    BY LocateFinds
  <2>2. Locate(tree, id).index + 1 = k /\ Locate(tree, id).parent = p
    BY <2>1
  <2>3. QED
    BY <1>3, <2>2 DEF Detached
<1>6. IsApart(tree, p, id, gone)
  <2>1. id \in ToSet(Siblings(tree, p))
    BY <1>2
  <2>2. QED
    BY <2>1, BelowIsApart
<1> HIDE DEF cut, gone
<1>7. /\ id \in gone /\ gone \subseteq ids /\ p \notin gone /\ NoNode \notin gone
      /\ Gathers(tree, gone)
      /\ \A s \in SUBSET ids : id \in s /\ Gathers(tree, s) => gone \subseteq s
  BY <1>6 DEF IsApart
<1>8. /\ IsArena(left) /\ left.next = tree.next
      /\ IdsOf(left.nodes) = ids /\ Places(left) = Places(tree)
      /\ \A i \in ids : NodeOf(left, i) = IF i = p THEN [NodeOf(tree, i) EXCEPT !.children = cut]
                                                   ELSE NodeOf(tree, i)
      /\ \A r \in Places(tree) : Siblings(left, r) = IF r = p THEN cut ELSE Siblings(tree, r)
  BY <1>1, <1>3, Relisting
<1>9. \A r \in Places(tree) : Siblings(left, r) = IF r = p THEN cut ELSE Siblings(tree, r)
  BY <1>8
<1>10. \A i \in ids : Plain(left, i) = Plain(tree, i) /\ NodeOf(left, i).group = NodeOf(tree, i).group
  BY <1>1, <1>3, RelistedPlain
<1> HIDE DEF left
<1>11. \A r \in Places(tree) : /\ ToSet(Siblings(left, r)) = ToSet(Siblings(tree, r)) \ {id}
                               /\ IsInjective(Siblings(left, r))
  <2>1. \A r \in Places(tree) : id \in ToSet(Siblings(tree, r)) => r = p
    BY <1>1, <1>2 DEF HasOneParent
  <2>2. QED
    BY <1>1, <1>3, <1>9, <2>1 DEF IsListed
<1>12. there \in Seq(Ids) /\ IsInjective(there) /\ id \notin ToSet(there)
  BY <1>4, <1>8, <1>11, PlacesOf
<1>13. m \in 1..(Len(there) + 1) /\ Place(there, id, index) = longer
  <2>1. m \in 1..(Len(there) + 1)
    <3>1. Len(there) \in Nat
      BY <1>12
    <3> HIDE DEF there
    <3>2. QED
      BY <3>1
  <2>2. QED
    BY <1>4, <1>12, <2>1, PlaceIsPut
<1>14. Moved(tree, id, q, index) = new
  BY <1>5, <1>13 DEF Moved
<1> HIDE DEF m, there
<1>15. /\ longer \in Seq(Ids) /\ m \in 1..Len(longer) /\ longer[m] = id
       /\ ToSet(longer) = ToSet(there) \cup {id} /\ Cut(longer, m) = there /\ IsInjective(longer)
  <2>1. /\ Put(there, m, id) \in Seq(Ids) /\ Len(Put(there, m, id)) = Len(there) + 1
        /\ m \in 1..Len(Put(there, m, id)) /\ Put(there, m, id)[m] = id
        /\ ToSet(Put(there, m, id)) = ToSet(there) \cup {id}
        /\ Cut(Put(there, m, id), m) = there
        /\ (id \notin ToSet(there) /\ IsInjective(there)) => IsInjective(Put(there, m, id))
    BY <1>4, <1>12, <1>13, Putting
  <2>2. QED
    BY <1>12, <2>1
<1> HIDE DEF longer
<1>16. /\ IsArena(new) /\ new.next = left.next
       /\ IdsOf(new.nodes) = IdsOf(left.nodes) /\ Places(new) = Places(left)
       /\ \A r \in Places(left) : Siblings(new, r) = IF r = q THEN longer ELSE Siblings(left, r)
  <2>1. /\ IsArena(new) /\ new.next = left.next
        /\ IdsOf(new.nodes) = IdsOf(left.nodes) /\ Places(new) = Places(left)
        /\ \A i \in IdsOf(left.nodes) :
              NodeOf(new, i) = IF i = q THEN [NodeOf(left, i) EXCEPT !.children = longer]
                                        ELSE NodeOf(left, i)
        /\ \A r \in Places(left) : Siblings(new, r) = IF r = q THEN longer ELSE Siblings(left, r)
    BY <1>4, <1>8, <1>15, Relisting
  <2>2. QED
    BY <2>1
<1>17. \A i \in ids : Plain(new, i) = Plain(tree, i) /\ NodeOf(new, i).group = NodeOf(tree, i).group
  <2>1. \A i \in IdsOf(left.nodes) :
           Plain(new, i) = Plain(left, i) /\ NodeOf(new, i).group = NodeOf(left, i).group
    BY <1>4, <1>8, <1>15, RelistedPlain
  <2>2. QED
    BY <1>8, <1>10, <2>1
<1> HIDE DEF new
<1>18. IdsOf(new.nodes) = ids /\ Places(new) = Places(tree) /\ new.next = tree.next
  BY <1>8, <1>16
<1>19. \A r \in Places(tree) : /\ r # q => Siblings(new, r) = Siblings(left, r)
                               /\ r = q => Siblings(new, r) = longer
  BY <1>8, <1>16
<1>20. \A r \in Places(tree) :
          /\ r # q => ToSet(Siblings(new, r)) = ToSet(Siblings(tree, r)) \ {id}
          /\ r = q => ToSet(Siblings(new, r)) = ToSet(Siblings(tree, r)) \cup {id}
  <2>1. ToSet(longer) = ToSet(Siblings(tree, q)) \cup {id}
    BY <1>4, <1>11, <1>15 DEF there
  <2>2. QED
    BY <1>11, <1>19, <2>1
<1>21. IsListed(new)
  <2>1. SUFFICES ASSUME NEW r \in Places(tree)
                 PROVE  /\ IsInjective(Siblings(new, r)) /\ ToSet(Siblings(new, r)) \subseteq ids
                        /\ TakesChildren(new, r) \/ Siblings(new, r) = <<>>
    BY <1>18 DEF IsListed
  <2>2. /\ ToSet(Siblings(tree, r)) \subseteq ids
        /\ TakesChildren(tree, r) \/ Siblings(tree, r) = <<>>
    BY <1>1 DEF IsListed
  <2>3. TakesChildren(tree, r) => TakesChildren(new, r)
    BY <1>17, <1>18 DEF TakesChildren
  <2>4. r = p => TakesChildren(tree, r)
    <3>1. list # <<>>
      BY <1>2 DEF ToSet
    <3>2. QED
      BY <2>2, <3>1
  <2>5. (r # p /\ r # q) => Siblings(new, r) = Siblings(tree, r)
    BY <1>9, <1>19
  <2>6. IsInjective(Siblings(new, r))
    BY <1>11, <1>15, <1>19
  <2>7. ToSet(Siblings(new, r)) \subseteq ids
    BY <1>4, <1>20, <2>2
  <2>8. TakesChildren(new, r) \/ Siblings(new, r) = <<>>
    BY <1>4, <2>2, <2>3, <2>4, <2>5
  <2>9. QED
    BY <2>6, <2>7, <2>8
<1>22. HasOneParent(new)
  <2>1. ASSUME NEW i \in ids PROVE \E r \in Places(new) : i \in ToSet(Siblings(new, r))
    <3>1. CASE i = id
      BY <1>4, <1>18, <1>20, <3>1
    <3>2. CASE i # id
      <4>1. PICK r \in Places(tree) : i \in ToSet(Siblings(tree, r))
        BY <1>1 DEF HasOneParent
      <4>2. QED
        BY <1>18, <1>20, <3>2, <4>1
    <3>3. QED
      BY <3>1, <3>2
  <2>2. ASSUME NEW r \in Places(tree), NEW s \in Places(tree),
               NEW i \in ToSet(Siblings(new, r)), i \in ToSet(Siblings(new, s))
        PROVE  r = s
    <3>1. CASE i = id
      BY <1>20, <2>2, <3>1
    <3>2. CASE i # id
      <4>1. i \in ToSet(Siblings(tree, r)) /\ i \in ToSet(Siblings(tree, s))
        BY <1>20, <2>2, <3>2
      <4>2. QED
        BY <1>1, <4>1 DEF HasOneParent
    <3>3. QED
      BY <3>1, <3>2
  <2>3. QED
    BY <1>18, <2>1, <2>2 DEF HasOneParent
<1>23. IsReached(new)
  <2>1. SUFFICES ASSUME NEW s \in SUBSET ids, ToSet(new.roots) \subseteq s, Gathers(new, s)
                 PROVE  s = ids
    BY <1>18 DEF IsReached
  <2>2. Siblings(new, NoNode) = new.roots /\ Siblings(tree, NoNode) = tree.roots /\ NoNode \in Places(tree)
    BY DEF Siblings, Places
  <2>3. \A r \in ids : r \in Places(tree)
    BY DEF Places
  <2>4. Gathers(tree, s \cup gone)
    <3>1. \A r \in s : ToSet(Siblings(tree, r)) \subseteq s \cup {id}
      BY <1>20, <2>1, <2>3 DEF Gathers
    <3>2. QED
      BY <1>7, <3>1 DEF Gathers
  <2>5. ToSet(tree.roots) \subseteq s \cup gone
    BY <1>7, <1>20, <2>1, <2>2
  <2>6. s \cup gone = ids
    <3>1. s \cup gone \in SUBSET ids
      BY <1>7
    <3>2. QED
      BY <1>1, <2>4, <2>5, <3>1 DEF IsReached
  <2>7. id \in s
    <3>1. CASE q = NoNode
      BY <1>20, <2>1, <2>2, <3>1
    <3>2. CASE q # NoNode
      <4>1. q \in s
        BY <1>4, <2>6, <3>2 DEF Places
      <4>2. QED
        BY <1>4, <1>20, <2>1, <4>1 DEF Gathers
    <3>3. QED
      BY <3>1, <3>2
  <2>8. Gathers(tree, s \cap gone)
    <3>1. \A r \in s : ToSet(Siblings(tree, r)) \subseteq s
      BY <1>20, <2>1, <2>3, <2>7 DEF Gathers
    <3>2. QED
      BY <1>7, <3>1 DEF Gathers
  <2>9. gone \subseteq s \cap gone
    <3>1. s \cap gone \in SUBSET ids /\ id \in s \cap gone
      BY <1>7, <2>7
    <3>2. QED
      BY <1>7, <2>8, <3>1
  <2>10. QED
    BY <2>6, <2>9
<1>24. \A i \in ids : i < new.next
  BY <1>18 DEF IsTree
<1>25. IsTree(new)
  BY <1>16, <1>18, <1>21, <1>22, <1>23, <1>24 DEF IsTree
<1>26. Below(new, {id}) = gone
  <2> DEFINE B == Below(new, {id})
  <2>1. /\ B \subseteq IdsOf(new.nodes) /\ {id} \cap IdsOf(new.nodes) \subseteq B /\ Gathers(new, B)
        /\ \A s \in SUBSET IdsOf(new.nodes) :
              {id} \cap IdsOf(new.nodes) \subseteq s /\ Gathers(new, s) => B \subseteq s
    BY <1>16, <1>21, BelowIsLeast
  <2> HIDE DEF B
  <2>2. \A r \in gone : r \in Places(tree) /\ r # q
    BY <1>4, <1>7 DEF Places
  <2>3. Gathers(new, gone)
    BY <1>7, <1>20, <2>2 DEF Gathers
  <2>4. id \in B /\ B \subseteq gone
    BY <1>4, <1>7, <1>18, <2>1, <2>3
  <2>5. Gathers(tree, B)
    BY <1>20, <2>1, <2>2, <2>4 DEF Gathers
  <2>6. gone \subseteq B
    <3>1. B \in SUBSET ids
      BY <1>7, <2>4
    <3>2. QED
      BY <1>7, <2>4, <2>5, <3>1
  <2>7. QED
    BY <2>4, <2>6 DEF B
<1>27. /\ m \in 1..Len(Siblings(new, q)) /\ Siblings(new, q)[m] = id
       /\ Cut(Siblings(new, q), m) = Siblings(left, q)
       /\ \A r \in Places(tree) \ {q} : Siblings(new, r) = Siblings(left, r)
  BY <1>4, <1>15, <1>19 DEF there
<1>28. IsShifted(new, tree, id, p, k, q, m)
  BY <1>17, <1>18, <1>25, <1>26, <1>27 DEF IsShifted, gone, left, cut
<1>29. QED
  BY <1>14, <1>28

\* A node that is moved and moved back leaves the tree as it was.
LEMMA MovedAndBack ==
    ASSUME NEW tree, IsTree(tree), NEW p \in Places(tree),
           NEW k \in 1..Len(Siblings(tree, p)), NEW id, id = Siblings(tree, p)[k],
           NEW q, MayMove(tree, id, q), NEW index \in Int
    PROVE  LET new == Moved(tree, id, q, index) IN
           /\ IsTree(new) /\ IdsOf(new.nodes) = IdsOf(tree.nodes)
           /\ \A i \in IdsOf(tree.nodes) : Plain(new, i) = Plain(tree, i)
           /\ MayMove(new, id, p) /\ SameTree(Moved(new, id, p, k - 1), tree)
<1> DEFINE ids == IdsOf(tree.nodes)
           list == Siblings(tree, p)
           cut == Cut(list, k)
           left == Relisted(tree, p, cut)
           new == Moved(tree, id, q, index)
<1>1. PICK m : IsShifted(new, tree, id, p, k, q, m)
  BY MovingANode
<1>2. IsArena(tree) /\ list \in Seq(Ids) /\ IsInjective(list) /\ ToSet(list) \subseteq ids
  BY PlacesOf DEF IsTree, IsListed
<1>3. id \in ToSet(list) /\ list # <<>> /\ id \in Ids /\ id \in ids
  <2>1. id \in ToSet(list) /\ list # <<>>
    BY <1>2 DEF ToSet
  <2>2. QED
    BY <1>2, <2>1, PlacesOf
<1>4. /\ cut \in Seq(Ids) /\ Len(cut) = Len(list) - 1 /\ k \in 1..(Len(cut) + 1)
      /\ Put(cut, k, id) = list
  BY <1>2, Cutting
<1>5. \A r \in Places(tree) : Siblings(left, r) = IF r = p THEN cut ELSE Siblings(tree, r)
  BY <1>2, <1>4, Relisting
<1>6. IsArena(left) /\ Places(left) = Places(tree)
  BY <1>2, <1>4, Relisting
<1> HIDE DEF cut, new
<1>7. /\ IsTree(new) /\ IsArena(new) /\ IdsOf(new.nodes) = ids /\ Places(new) = Places(tree)
      /\ Below(new, {id}) = Below(tree, {id})
      /\ \A i \in ids : /\ Plain(new, i) = Plain(tree, i)
                        /\ NodeOf(new, i).group = NodeOf(tree, i).group
      /\ m \in 1..Len(Siblings(new, q)) /\ Siblings(new, q)[m] = id
      /\ Cut(Siblings(new, q), m) = Siblings(left, q)
      /\ \A r \in Places(tree) \ {q} : Siblings(new, r) = Siblings(left, r)
  BY <1>1 DEF IsShifted, IsTree, cut
<1> HIDE DEF left
<1>8. q \in Places(tree) /\ q \in Places(new)
  BY <1>7, MayMoveTo
<1>9. MayMove(new, id, p)
  <2>1. p \notin Below(tree, {id})
    <3>1. IsApart(tree, p, id, Below(tree, {id}))
      BY <1>3, BelowIsApart
    <3>2. QED
      BY <3>1 DEF IsApart
  <2>2. TakesChildren(tree, p)
    BY <1>3 DEF IsTree, IsListed
  <2>3. TakesChildren(new, p)
    BY <1>7, <2>2 DEF TakesChildren
  <2>4. QED
    BY <1>3, <1>7, <2>1, <2>3, MayMoveTo
<1> DEFINE there == Siblings(left, q)
           back == Relisted(new, q, there)
           final == Relisted(back, p, list)
<1>10. there \in Seq(Ids)
  BY <1>6, <1>8, PlacesOf
<1>11. Detached(new, Locate(new, id)) = back
  <2>1. Locate(new, id) = [parent |-> q, index |-> m - 1]
    BY <1>7, <1>8, LocateFinds
  <2>2. Siblings(new, q) \in Seq(Ids) /\ m \in Int
    BY <1>7, <1>8, PlacesOf
  <2>3. Locate(new, id).index + 1 = m /\ Locate(new, id).parent = q
    BY <2>1, <2>2
  <2>4. RemoveAt(Siblings(new, q), m) = there
    BY <1>7, <2>2, RemoveAtIsCut
  <2>5. QED
    BY <2>3, <2>4 DEF Detached
<1> HIDE DEF there
<1>12. /\ IsArena(back) /\ back.next = new.next
       /\ IdsOf(back.nodes) = IdsOf(new.nodes) /\ Places(back) = Places(new)
       /\ \A r \in Places(new) : Siblings(back, r) = IF r = q THEN there ELSE Siblings(new, r)
  BY <1>7, <1>8, <1>10, Relisting
<1>13. \A i \in ids : Plain(back, i) = Plain(tree, i)
  <2>1. \A i \in IdsOf(new.nodes) :
           Plain(back, i) = Plain(new, i) /\ NodeOf(back, i).group = NodeOf(new, i).group
    BY <1>7, <1>8, <1>10, RelistedPlain
  <2> HIDE DEF back
  <2>2. QED
    BY <1>7, <2>1
<1> HIDE DEF back
<1>14. \A r \in Places(tree) : Siblings(back, r) = Siblings(left, r)
  BY <1>7, <1>12 DEF there
<1>15. Place(Siblings(back, p), id, k - 1) = list
  <2>1. Siblings(back, p) = cut
    BY <1>5, <1>14
  <2>2. k - 1 \in Int /\ ~ (k - 1 < 0 \/ k - 1 > Len(cut)) /\ k - 1 + 1 = k
    BY <1>4
  <2>3. Place(cut, id, k - 1) =
           Put(cut, IF k - 1 < 0 \/ k - 1 > Len(cut) THEN Len(cut) + 1 ELSE k - 1 + 1, id)
    BY <1>3, <1>4, <2>2, PlaceIsPut
  <2>4. Place(cut, id, k - 1) = Put(cut, k, id)
    BY <2>2, <2>3
  <2>5. QED
    BY <1>4, <2>1, <2>4
<1>16. Moved(new, id, p, k - 1) = final
  BY <1>11, <1>15 DEF Moved
<1>17. p \in Places(back)
  BY <1>7, <1>12
<1> DEFINE all == list
<1>18. /\ IsArena(final) /\ final.next = back.next
       /\ IdsOf(final.nodes) = IdsOf(back.nodes) /\ Places(final) = Places(back)
       /\ \A r \in Places(back) : Siblings(final, r) = IF r = p THEN all ELSE Siblings(back, r)
  <2>1. all \in Seq(Ids)
    BY <1>2
  <2> HIDE DEF all
  <2>2. /\ IsArena(Relisted(back, p, all)) /\ Relisted(back, p, all).next = back.next
        /\ IdsOf(Relisted(back, p, all).nodes) = IdsOf(back.nodes)
        /\ Places(Relisted(back, p, all)) = Places(back)
        /\ \A r \in Places(back) :
              Siblings(Relisted(back, p, all), r) = IF r = p THEN all ELSE Siblings(back, r)
    BY <1>12, <1>17, <2>1, Relisting
  <2>3. QED
    BY <2>2 DEF all
<1>19. \A i \in ids : Plain(final, i) = Plain(tree, i)
  <2>1. \A i \in IdsOf(back.nodes) :
           Plain(final, i) = Plain(back, i) /\ NodeOf(final, i).group = NodeOf(back, i).group
    BY <1>2, <1>12, <1>17, RelistedPlain
  <2> HIDE DEF final
  <2>2. QED
    BY <1>7, <1>12, <1>13, <2>1
<1> HIDE DEF final
<1>20. SameTree(final, tree)
  <2>1. IdsOf(final.nodes) = ids /\ Places(final) = Places(tree)
    BY <1>7, <1>12, <1>18
  <2>2. \A r \in Places(final) : Siblings(final, r) = Siblings(tree, r)
    BY <1>5, <1>7, <1>12, <1>14, <1>18, <2>1
  <2>3. QED
    BY <1>2, <1>18, <1>19, <2>1, <2>2, SameByLists
<1>21. QED
  BY <1>7, <1>9, <1>16, <1>20 DEF new

-----------------------------------------------------------------------------
(* Trees that differ in no more than the next id. *)

\* Whatever is read of a tree is read of its lists and nodes.
LEMMA SameReads ==
    ASSUME NEW a, NEW b, SameTree(a, b)
    PROVE  /\ IdsOf(a.nodes) = IdsOf(b.nodes) /\ Places(a) = Places(b)
           /\ \A id : NodeOf(a, id) = NodeOf(b, id) /\ Siblings(a, id) = Siblings(b, id)
           /\ \A p : TakesChildren(a, p) <=> TakesChildren(b, p)
           /\ \A ids : Below(a, ids) = Below(b, ids)
           /\ \A id : /\ Subtree(a, id) = Subtree(b, id)
                      /\ ParentsOf(a, id) = ParentsOf(b, id)
                      /\ Locate(a, id) = Locate(b, id)
                      /\ IsLocated(a, id) <=> IsLocated(b, id)
           /\ \A id, p : MayMove(a, id, p) <=> MayMove(b, id, p)
<1>1. a.nodes = b.nodes /\ a.roots = b.roots
  BY DEF SameTree
<1>2. \A id : NodeOf(a, id) = NodeOf(b, id)
  BY <1>1 DEF NodeOf
<1>3. \A id : Siblings(a, id) = Siblings(b, id)
  BY <1>1, <1>2 DEF Siblings
<1>4. \A p : TakesChildren(a, p) <=> TakesChildren(b, p)
  BY <1>1, <1>2 DEF TakesChildren
<1>5. \A ids : Below(a, ids) = Below(b, ids)
  BY <1>1 DEF Below, HasChildren
<1>6. \A id : Subtree(a, id) = Subtree(b, id)
  BY <1>1, <1>5 DEF Subtree, NodesBelow
<1>7. \A id : ParentsOf(a, id) = ParentsOf(b, id)
  BY <1>1, <1>3 DEF ParentsOf
<1>8. \A id : Locate(a, id) = Locate(b, id)
  <2>1. SUFFICES ASSUME NEW id PROVE Locate(a, id) = Locate(b, id)
    OBVIOUS
  <2> DEFINE pa == CHOOSE p \in ParentsOf(a, id) : TRUE
             pb == CHOOSE p \in ParentsOf(b, id) : TRUE
  <2>2. pa = pb
    BY <1>7
  <2>3. /\ Locate(a, id) = [parent |-> pa, index |-> SelectInSeq(Siblings(a, pa), LAMBDA n : n = id) - 1]
        /\ Locate(b, id) = [parent |-> pb, index |-> SelectInSeq(Siblings(b, pb), LAMBDA n : n = id) - 1]
    BY DEF Locate
  <2> HIDE DEF pa, pb
  <2>4. Siblings(a, pa) = Siblings(b, pb)
    BY <1>3, <2>2
  <2>5. QED
    BY <2>2, <2>3, <2>4
<1>9. \A id : IsLocated(a, id) <=> IsLocated(b, id)
  BY <1>7 DEF IsLocated
<1>10. \A id, p : MayMove(a, id, p) <=> MayMove(b, id, p)
  BY <1>4, <1>5, <1>9 DEF MayMove, IsUnder
<1>11. QED
  BY <1>1, <1>2, <1>3, <1>4, <1>5, <1>6, <1>7, <1>8, <1>9, <1>10 DEF Places

\* A tree is nothing but its lists, its nodes and the next id.
IsShaped(t) == t = [roots |-> t.roots, nodes |-> t.nodes, next |-> t.next]

\* Both are trees by their fields, and the same tree.
SameShape(a, b) == IsShaped(a) /\ IsShaped(b) /\ SameTree(a, b)

\* A write of one field leaves the same trees the same.
LEMMA SameFields ==
    ASSUME NEW a, NEW b, SameShape(a, b)
    PROVE  /\ \A nodes : SameShape([a EXCEPT !.nodes = nodes], [b EXCEPT !.nodes = nodes])
           /\ \A list : SameShape([a EXCEPT !.roots = list], [b EXCEPT !.roots = list])
           /\ \A m, n : SameShape([a EXCEPT !.next = m], [b EXCEPT !.next = n])
<1>1. a.nodes = b.nodes /\ a.roots = b.roots
  BY DEF SameShape, SameTree
<1>2. /\ a = [roots |-> a.roots, nodes |-> a.nodes, next |-> a.next]
      /\ b = [roots |-> b.roots, nodes |-> b.nodes, next |-> b.next]
  BY DEF SameShape, IsShaped
<1>3. \A nodes : SameShape([a EXCEPT !.nodes = nodes], [b EXCEPT !.nodes = nodes])
  BY <1>1, <1>2 DEF SameShape, IsShaped, SameTree
<1>4. \A list : SameShape([a EXCEPT !.roots = list], [b EXCEPT !.roots = list])
  BY <1>1, <1>2 DEF SameShape, IsShaped, SameTree
<1>5. \A m, n : SameShape([a EXCEPT !.next = m], [b EXCEPT !.next = n])
  BY <1>1, <1>2 DEF SameShape, IsShaped, SameTree
<1>6. QED
  BY <1>3, <1>4, <1>5

\* Whatever is written to a tree is written to its lists and nodes.
LEMMA SameListed ==
    ASSUME NEW a, NEW b, SameShape(a, b)
    PROVE  /\ \A n : SameShape(Stored(a, n), Stored(b, n))
           /\ \A p, list : SameShape(Relisted(a, p, list), Relisted(b, p, list))
           /\ \A at : SameShape(Detached(a, at), Detached(b, at))
           /\ \A nodes : SameShape([a EXCEPT !.nodes = nodes], [b EXCEPT !.nodes = nodes])
           /\ \A nodes, m, n : SameShape([a EXCEPT !.nodes = nodes, !.next = m],
                                        [b EXCEPT !.nodes = nodes, !.next = n])
<1>1. a.nodes = b.nodes
  BY DEF SameShape, SameTree
<1>3. \A nodes : SameShape([a EXCEPT !.nodes = nodes], [b EXCEPT !.nodes = nodes])
  BY SameFields
<1>4. \A list : SameShape([a EXCEPT !.roots = list], [b EXCEPT !.roots = list])
  BY SameFields
<1>5. \A nodes, m, n : SameShape([a EXCEPT !.nodes = nodes, !.next = m],
                                [b EXCEPT !.nodes = nodes, !.next = n])
  <2>1. ASSUME NEW nodes, NEW m, NEW n
        PROVE  SameShape([a EXCEPT !.nodes = nodes, !.next = m], [b EXCEPT !.nodes = nodes, !.next = n])
    <3> DEFINE x == [a EXCEPT !.nodes = nodes]
               y == [b EXCEPT !.nodes = nodes]
    <3>1. SameShape(x, y)
      BY <1>3
    <3>2. /\ [a EXCEPT !.nodes = nodes, !.next = m] = [x EXCEPT !.next = m]
          /\ [b EXCEPT !.nodes = nodes, !.next = n] = [y EXCEPT !.next = n]
      OBVIOUS
    <3> HIDE DEF x, y
    <3>3. SameShape([x EXCEPT !.next = m], [y EXCEPT !.next = n])
      BY <3>1, SameFields
    <3>4. QED
      BY <3>2, <3>3
  <2>2. QED
    BY <2>1
<1>6. \A n : SameShape(Stored(a, n), Stored(b, n))
  BY <1>1, <1>3 DEF Stored
<1>7. \A id : NodeOf(a, id) = NodeOf(b, id) /\ Siblings(a, id) = Siblings(b, id)
  BY SameReads DEF SameShape
<1>8. \A p, list : SameShape(Relisted(a, p, list), Relisted(b, p, list))
  BY <1>4, <1>6, <1>7 DEF Relisted
<1>9. \A at : SameShape(Detached(a, at), Detached(b, at))
  BY <1>7, <1>8 DEF Detached
<1>10. QED
  BY <1>3, <1>5, <1>6, <1>8, <1>9

\* Every edit leaves the same trees the same.
LEMMA SameWrites ==
    ASSUME NEW a \in Trees, NEW b \in Trees, SameTree(a, b)
    PROVE  /\ \A n : SameTree(Stored(a, n), Stored(b, n))
           /\ \A id : SameTree(Without(a, id), Without(b, id))
           /\ \A id, p, index : SameTree(Moved(a, id, p, index), Moved(b, id, p, index))
           /\ \A sub, p, index :
                 /\ Reinsert(a, sub, p, index).ok <=> Reinsert(b, sub, p, index).ok
                 /\ SameTree(Reinsert(a, sub, p, index).tree, Reinsert(b, sub, p, index).tree)
<1>1. SameShape(a, b)
  BY DEF SameShape, IsShaped, Trees
<1>2. /\ IdsOf(a.nodes) = IdsOf(b.nodes) /\ a.nodes = b.nodes
      /\ \A id : Locate(a, id) = Locate(b, id)
      /\ \A ids : Below(a, ids) = Below(b, ids)
  <2>1. a.nodes = b.nodes
    BY DEF SameTree
  <2>2. QED
    BY <2>1, SameReads
<1>3. \A n : SameTree(Stored(a, n), Stored(b, n))
  BY <1>1, SameListed DEF SameShape
<1>4. \A id : SameTree(Without(a, id), Without(b, id))
  <2>1. SUFFICES ASSUME NEW id PROVE SameTree(Without(a, id), Without(b, id))
    OBVIOUS
  <2> DEFINE x == Detached(a, Locate(a, id))
             y == Detached(b, Locate(b, id))
             kept == {n \in x.nodes : n.id \notin Below(a, {id})}
  <2>2. SameShape(x, y)
    BY <1>1, <1>2, SameListed
  <2>3. Without(a, id) = [x EXCEPT !.nodes = kept]
    BY DEF Without
  <2>4. Without(b, id) = [y EXCEPT !.nodes = {n \in y.nodes : n.id \notin Below(b, {id})}]
    BY DEF Without
  <2>5. {n \in y.nodes : n.id \notin Below(b, {id})} = kept
    BY <1>2, <2>2 DEF SameShape, SameTree
  <2> HIDE DEF x, y, kept
  <2>6. SameShape([x EXCEPT !.nodes = kept], [y EXCEPT !.nodes = kept])
    BY <2>2, SameListed
  <2>7. QED
    BY <2>3, <2>4, <2>5, <2>6 DEF SameShape
<1>5. \A id, p, index : SameTree(Moved(a, id, p, index), Moved(b, id, p, index))
  <2>1. SUFFICES ASSUME NEW id, NEW p, NEW index
                 PROVE  SameTree(Moved(a, id, p, index), Moved(b, id, p, index))
    OBVIOUS
  <2> DEFINE x == Detached(a, Locate(a, id))
             y == Detached(b, Locate(b, id))
  <2>2. SameShape(x, y)
    BY <1>1, <1>2, SameListed
  <2>3. /\ Moved(a, id, p, index) = Relisted(x, p, Place(Siblings(x, p), id, index))
        /\ Moved(b, id, p, index) = Relisted(y, p, Place(Siblings(y, p), id, index))
    BY DEF Moved
  <2> HIDE DEF x, y
  <2>4. Siblings(x, p) = Siblings(y, p)
    BY <2>2, SameReads DEF SameShape
  <2>5. \A list : SameShape(Relisted(x, p, list), Relisted(y, p, list))
    BY <2>2, SameListed
  <2>6. QED
    BY <2>3, <2>4, <2>5 DEF SameShape
<1>6. ASSUME NEW sub, NEW p, NEW index
      PROVE  /\ Reinsert(a, sub, p, index).ok <=> Reinsert(b, sub, p, index).ok
             /\ SameTree(Reinsert(a, sub, p, index).tree, Reinsert(b, sub, p, index).tree)
  <2> DEFINE nodes == a.nodes \cup {n \in sub.nodes : n.id \notin IdsOf(a.nodes)}
             x == [a EXCEPT !.nodes = nodes, !.next = Max(IdsOf(sub.nodes) \cup {@ - 1}) + 1]
             y == [b EXCEPT !.nodes = nodes, !.next = Max(IdsOf(sub.nodes) \cup {@ - 1}) + 1]
  <2>1. SameShape(x, y)
    BY <1>1, SameListed
  <2>2. Reinsert(a, sub, p, index) =
          IF TakesChildren(x, p)
          THEN [ok |-> TRUE, tree |-> Relisted(x, p, Place(Siblings(x, p), sub.root, index))]
          ELSE [ok |-> FALSE, tree |-> x]
    BY DEF Reinsert
  <2>3. Reinsert(b, sub, p, index) =
          IF TakesChildren(y, p)
          THEN [ok |-> TRUE, tree |-> Relisted(y, p, Place(Siblings(y, p), sub.root, index))]
          ELSE [ok |-> FALSE, tree |-> y]
    BY <1>2 DEF Reinsert
  <2> HIDE DEF x, y
  <2>4. Siblings(x, p) = Siblings(y, p) /\ (TakesChildren(x, p) <=> TakesChildren(y, p))
    BY <2>1, SameReads DEF SameShape
  <2>5. \A list : SameShape(Relisted(x, p, list), Relisted(y, p, list))
    BY <2>1, SameListed
  <2>6. QED
    BY <2>1, <2>2, <2>3, <2>4, <2>5 DEF SameShape
<1>7. QED
  BY <1>3, <1>4, <1>5, <1>6

-----------------------------------------------------------------------------
(* What the edits of a tree leave, and what takes them back. *)

\* What can be put back into a tree, and where.
MayAdmit(tree, subtree, parent) ==
    /\ IsSubtree(subtree)
    /\ IdsOf(subtree.nodes) \cap IdsOf(tree.nodes) = {}
    /\ parent \in Places(tree) /\ TakesChildren(tree, parent)

\* From the tree left, and those like it, the subtree can be put back.
PutsBack(new, tree, subtree, at) ==
    \A t : IsTree(t) /\ SameTree(new, t) =>
        /\ MayAdmit(t, subtree, at.parent)
        /\ LET r == Reinsert(t, subtree, at.parent, at.index) IN r.ok /\ SameTree(tree, r.tree)

\* remove: the tree left is whole, and from it the subtree can be put back where it was.
LEMMA TakingOut ==
    ASSUME NEW tree, IsTree(tree), NEW id \in IdsOf(tree.nodes)
    PROVE  /\ IsLocated(tree, id) /\ IsTree(Without(tree, id))
           /\ Locate(tree, id).parent \in Nat /\ Locate(tree, id).index \in Int
           /\ PutsBack(Without(tree, id), tree, Subtree(tree, id), Locate(tree, id))
<1> DEFINE left == Without(tree, id)
           sub == Subtree(tree, id)
           gone == Below(tree, {id})
<1>1. PICK p \in Places(tree) : \E k \in 1..Len(Siblings(tree, p)) : Siblings(tree, p)[k] = id
  BY PlaceOfNode
<1>2. PICK k \in 1..Len(Siblings(tree, p)) : Siblings(tree, p)[k] = id
  BY <1>1
<1>3. IsTree(tree) /\ IsArena(tree)
  BY DEF IsTree
<1>4. Locate(tree, id) = [parent |-> p, index |-> k - 1] /\ IsLocated(tree, id)
  BY <1>2, <1>3, LocateFinds
<1>5. p \in Nat /\ k - 1 \in Int
  <2>1. Siblings(tree, p) \in Seq(Ids)
    BY <1>3, PlacesOf
  <2>2. IdsOf(tree.nodes) \subseteq Ids
    BY <1>3, PlacesOf
  <2>3. QED
    BY <2>1, <2>2 DEF Places, Ids, NoNode
<1>6. IsCut(left, tree, p, k, gone)
  BY <1>2, <1>3, RemovingANode
<1>7. /\ IsTree(left) /\ IsSubtree(sub) /\ IdsOf(sub.nodes) \cap IdsOf(left.nodes) = {}
      /\ p \in Places(left) /\ TakesChildren(left, p)
      /\ Reinsert(left, sub, p, k - 1).ok /\ SameTree(Reinsert(left, sub, p, k - 1).tree, tree)
  BY <1>2, <1>3, RemovedAndAdded
<1> HIDE DEF left
<1>10. ASSUME NEW t, IsTree(t), SameTree(left, t)
       PROVE  /\ MayAdmit(t, sub, p)
              /\ Reinsert(t, sub, p, k - 1).ok /\ SameTree(tree, Reinsert(t, sub, p, k - 1).tree)
  <2>1. left \in Trees /\ t \in Trees
    BY <1>7, <1>10 DEF IsTree, IsArena
  <2>2. MayAdmit(t, sub, p)
    BY <1>7, <1>10, SameReads DEF MayAdmit
  <2>3. \A s, q, index :
             /\ Reinsert(left, s, q, index).ok <=> Reinsert(t, s, q, index).ok
             /\ SameTree(Reinsert(left, s, q, index).tree, Reinsert(t, s, q, index).tree)
    BY <1>10, <2>1, SameWrites
  <2>4. /\ Reinsert(t, sub, p, k - 1).ok
        /\ SameTree(Reinsert(left, sub, p, k - 1).tree, Reinsert(t, sub, p, k - 1).tree)
    BY <1>7, <2>3
  <2>5. QED
    BY <1>7, <2>2, <2>4 DEF SameTree
<1> HIDE DEF sub
<1>11. PutsBack(left, tree, sub, Locate(tree, id))
  BY <1>4, <1>10 DEF PutsBack
<1>12. QED
  BY <1>4, <1>5, <1>7, <1>11 DEF left, sub

\* reinsert: the tree left is whole, and from it the subtree can be removed.
TakesOut(new, tree, id) ==
    \A t : IsTree(t) /\ SameTree(new, t) =>
        id \in IdsOf(t.nodes) /\ SameTree(tree, Without(t, id))

\* reinsert: the tree left is whole, and from it the subtree can be taken out.
LEMMA PuttingIn ==
    ASSUME NEW tree, IsTree(tree), NEW sub, NEW p, MayAdmit(tree, sub, p), NEW index \in Int
    PROVE  /\ Reinsert(tree, sub, p, index).ok /\ IsTree(Reinsert(tree, sub, p, index).tree)
           /\ TakesOut(Reinsert(tree, sub, p, index).tree, tree, sub.root)
<1> DEFINE r == Reinsert(tree, sub, p, index)
           old == Siblings(tree, p)
           plant == Planted(sub, 1)
<1>1. IsTree(tree) /\ IsArena(tree)
  BY DEF IsTree
<1>2. /\ IsSubtree(sub) /\ IdsOf(sub.nodes) \cap IdsOf(tree.nodes) = {}
      /\ p \in Places(tree) /\ TakesChildren(tree, p)
  BY DEF MayAdmit
<1>3. old \in Seq(Ids) /\ Len(old) \in Nat /\ sub.root \in Ids
  <2>1. old \in Seq(Ids)
    BY <1>1, <1>2, PlacesOf
  <2>2. QED
    BY <1>2, <2>1 DEF IsSubtree
<1>4. PICK k \in 1..(Len(old) + 1) : Place(old, sub.root, index) = Put(old, k, sub.root)
  <2> DEFINE k == IF index < 0 \/ index > Len(old) THEN Len(old) + 1 ELSE index + 1
  <2>1. k \in 1..(Len(old) + 1)
    BY <1>3
  <2>2. Place(old, sub.root, index) = Put(old, k, sub.root)
    BY <1>3, PlaceIsPut
  <2>3. QED
    BY <2>1, <2>2
<1> DEFINE list == Put(old, k, sub.root)
<1>5. HasAdded(r, tree, sub, p, k)
  BY <1>1, <1>2, <1>4, AddingASubtree
<1> HIDE DEF r
<1>6. /\ r.ok /\ IsGraft(r.tree, tree, plant, p, list)
      /\ p \in Places(r.tree) /\ k \in 1..Len(list) /\ list[k] = sub.root
      /\ Cut(list, k) = old /\ Below(r.tree, {sub.root}) = IdsOf(sub.nodes)
  BY <1>5 DEF HasAdded
<1> DEFINE new == r.tree
<1>7. IsTree(new) /\ IsLocated(new, sub.root) /\ SameTree(Without(new, sub.root), tree)
  <2> HIDE DEF list, plant
  <2>1. QED
    BY <1>1, <1>2, <1>6, AddedAndRemoved DEF plant
<1>8. sub.root \in IdsOf(new.nodes)
  BY <1>7, LocatedIsThere
<1>10. ASSUME NEW t, IsTree(t), SameTree(new, t)
       PROVE  sub.root \in IdsOf(t.nodes) /\ SameTree(tree, Without(t, sub.root))
  <2>1. new \in Trees /\ t \in Trees
    BY <1>7, <1>10 DEF IsTree, IsArena
  <2>2. \A i : SameTree(Without(new, i), Without(t, i))
    BY <1>10, <2>1, SameWrites
  <2>3. SameTree(Without(new, sub.root), Without(t, sub.root))
    BY <2>2
  <2>4. new.nodes = t.nodes
    BY <1>10 DEF SameTree
  <2>5. QED
    BY <1>7, <1>8, <2>3, <2>4 DEF SameTree
<1>11. TakesOut(new, tree, sub.root)
  BY <1>10 DEF TakesOut
<1>12. QED
  BY <1>6, <1>7, <1>11 DEF r

\* move: the tree left is whole, and from it the node can be moved back.
MovesBack(new, tree, id, at) ==
    \A t : IsTree(t) /\ SameTree(new, t) =>
        MayMove(t, id, at.parent) /\ SameTree(tree, Moved(t, id, at.parent, at.index))

\* move: the tree left is whole, and from it the node can be moved back.
LEMMA MovingThere ==
    ASSUME NEW tree, IsTree(tree), NEW id, NEW q, MayMove(tree, id, q), NEW index \in Int
    PROVE  /\ IsTree(Moved(tree, id, q, index))
           /\ Locate(tree, id).parent \in Nat /\ Locate(tree, id).index \in Int
           /\ MovesBack(Moved(tree, id, q, index), tree, id, Locate(tree, id))
<1> DEFINE new == Moved(tree, id, q, index)
<1>1. IsTree(tree) /\ IsArena(tree)
  BY DEF IsTree
<1>2. id \in IdsOf(tree.nodes)
  BY <1>1, MayMoveTo
<1>3. PICK p \in Places(tree) : \E k \in 1..Len(Siblings(tree, p)) : Siblings(tree, p)[k] = id
  BY <1>1, <1>2, PlaceOfNode
<1>4. PICK k \in 1..Len(Siblings(tree, p)) : Siblings(tree, p)[k] = id
  BY <1>3
<1>5. Locate(tree, id) = [parent |-> p, index |-> k - 1]
  BY <1>1, <1>4, LocateFinds
<1>6. Locate(tree, id).parent \in Nat /\ Locate(tree, id).index \in Int
  BY <1>1, <1>2, TakingOut
<1>7. /\ IsTree(new) /\ IdsOf(new.nodes) = IdsOf(tree.nodes)
      /\ \A i \in IdsOf(tree.nodes) : Plain(new, i) = Plain(tree, i)
      /\ MayMove(new, id, p) /\ SameTree(Moved(new, id, p, k - 1), tree)
  <2>1. IsTree(tree) /\ MayMove(tree, id, q) /\ index \in Int
    BY <1>1
  <2>2. p \in Places(tree) /\ k \in 1..Len(Siblings(tree, p)) /\ id = Siblings(tree, p)[k]
    BY <1>4
  <2>3. QED
    BY ONLY <2>1, <2>2, MovedAndBack
<1> HIDE DEF new
<1>9. ASSUME NEW t, IsTree(t), SameTree(new, t)
      PROVE  MayMove(t, id, p) /\ SameTree(tree, Moved(t, id, p, k - 1))
  <2>1. new \in Trees /\ t \in Trees
    BY <1>7, <1>9 DEF IsTree, IsArena
  <2>2. \A i, s, j : SameTree(Moved(new, i, s, j), Moved(t, i, s, j))
    BY <1>9, <2>1, SameWrites
  <2>3. SameTree(Moved(new, id, p, k - 1), Moved(t, id, p, k - 1))
    BY <2>2
  <2>4. \A i, s : MayMove(new, i, s) <=> MayMove(t, i, s)
    BY <1>9, SameReads
  <2>5. QED
    BY <1>7, <2>3, <2>4 DEF SameTree
<1>10. MovesBack(new, tree, id, Locate(tree, id))
  BY <1>5, <1>9 DEF MovesBack
<1>11. QED
  BY <1>6, <1>7, <1>10 DEF new

\* A node that changed, its id, its list and what it is to hold aside.
IsRewritten(m, n) ==
    /\ m \in Nodes /\ n \in Nodes
    /\ m.id = n.id /\ m.group = n.group /\ m.children = n.children

\* From the tree left, and those like it, the node can be written back.
WritesBack(new, tree, m, n) ==
    \A t : IsTree(t) /\ SameTree(new, t) =>
        /\ m.id \in IdsOf(t.nodes) /\ NodeOf(t, m.id) = m
        /\ SameTree(tree, Stored(t, n))

\* A write of a node's fields: the tree left is whole, and the write can be taken back.
LEMMA WritingANode ==
    ASSUME NEW tree, IsTree(tree), NEW id \in IdsOf(tree.nodes),
           NEW m, IsRewritten(m, NodeOf(tree, id))
    PROVE  IsTree(Stored(tree, m)) /\ WritesBack(Stored(tree, m), tree, m, NodeOf(tree, id))
<1> DEFINE n == NodeOf(tree, id)
           new == Stored(tree, m)
           ids == IdsOf(tree.nodes)
<1>1. IsTree(tree) /\ IsArena(tree)
  BY DEF IsTree
<1>2. /\ n \in tree.nodes /\ n \in Nodes /\ n.id = id /\ id \in Ids
      /\ \A o \in tree.nodes : o.id = id => o = n
  BY <1>1, NodesById
<1>3. m \in Nodes /\ m.id = id /\ m.group = n.group /\ m.children = n.children
  BY <1>2 DEF IsRewritten
<1>4. /\ IsArena(new) /\ new.roots = tree.roots /\ new.next = tree.next
      /\ IdsOf(new.nodes) = ids \cup {id} /\ NodeOf(new, id) = m
      /\ \A i \in ids \ {id} : NodeOf(new, i) = NodeOf(tree, i)
  BY <1>1, <1>3, Storing
<1>5. tree.nodes = {o \in tree.nodes : o.id # id} \cup {n}
  BY <1>2
<1>6. new.nodes = {o \in tree.nodes : o.id # id} \cup {m}
  BY <1>1, <1>3 DEF Stored, IsArena, Trees
<1> HIDE DEF new, n
<1>7. IdsOf(new.nodes) = ids /\ Places(new) = Places(tree)
  BY <1>4 DEF Places
<1>8. NoNode \notin ids
  BY <1>1, PlacesOf
<1>9. \A p \in Places(tree) : /\ Siblings(new, p) = Siblings(tree, p)
                              /\ TakesChildren(new, p) <=> TakesChildren(tree, p)
  <2>1. \A i \in ids : NodeOf(new, i).group = NodeOf(tree, i).group
                       /\ NodeOf(new, i).children = NodeOf(tree, i).children
    BY <1>3, <1>4 DEF n
  <2>2. QED
    BY <1>4, <1>7, <1>8, <2>1 DEF Siblings, TakesChildren, Places
<1>10. IsTree(new)
  <2>1. IsListed(new)
    BY <1>1, <1>7, <1>9 DEF IsTree, IsListed
  <2>2. HasOneParent(new)
    BY <1>1, <1>7, <1>9 DEF IsTree, HasOneParent
  <2>3. \A s \in SUBSET ids : Gathers(new, s) <=> Gathers(tree, s)
    BY <1>9 DEF Gathers, Places
  <2>4. IsReached(new)
    BY <1>1, <1>4, <1>7, <2>3 DEF IsTree, IsReached
  <2>5. QED
    BY <1>1, <1>4, <1>7, <2>1, <2>2, <2>4 DEF IsTree
<1>12. ASSUME NEW t, IsTree(t), SameTree(new, t)
       PROVE  /\ m.id \in IdsOf(t.nodes) /\ NodeOf(t, m.id) = m
              /\ SameTree(tree, Stored(t, n))
  <2>1. t \in Trees /\ t.nodes = new.nodes /\ t.roots = new.roots
    BY <1>12 DEF IsTree, IsArena, SameTree
  <2>2. NodeOf(t, id) = NodeOf(new, id)
    BY <2>1 DEF NodeOf
  <2>3. /\ Stored(t, n).roots = t.roots
        /\ Stored(t, n).nodes = {o \in t.nodes : o.id # n.id} \cup {n}
    BY <2>1 DEF Stored, Trees
  <2>4. {o \in t.nodes : o.id # id} = {o \in tree.nodes : o.id # id}
    BY <1>3, <1>6, <2>1
  <2>5. Stored(t, n).nodes = tree.nodes
    BY <1>2, <1>5, <2>3, <2>4
  <2>6. QED
    BY <1>2, <1>3, <1>4, <1>7, <2>1, <2>2, <2>3, <2>5 DEF SameTree
<1>13. WritesBack(new, tree, m, n)
  BY <1>12 DEF WritesBack
<1>14. QED
  BY <1>10, <1>13 DEF new, n

-----------------------------------------------------------------------------
(* Documents. *)

\* The documents by their fields alone.
Records == [layers : Seq(Layers), trees : Seq(Trees), next : Ids]

\* No two layers have one id.
HasOwnIds(d) == \A i, j \in DOMAIN d.layers : d.layers[i].id = d.layers[j].id => i = j

\* Every layer has an id handed out and a tree that is there.
KnowsItsLayers(d) ==
    \A i \in DOMAIN d.layers : d.layers[i].id < d.next /\ d.layers[i].tree <= Len(d.trees)

\* A document is one whose trees are whole, in the sense the edits keep.
LEMMA DocumentsAreSound ==
    ASSUME NEW d
    PROVE  IsDocument(d) <=> /\ d \in Records /\ HasOwnIds(d) /\ KnowsItsLayers(d)
                             /\ \A i \in DOMAIN d.trees : IsTree(d.trees[i])
<1>1. d \in Records => \A i \in DOMAIN d.trees : d.trees[i] \in Trees
  BY DEF Records
<1>2. ASSUME NEW tree \in Trees
      PROVE  IsTree(tree) <=> IsFiniteSet(tree.nodes) /\ IsWhole(tree)
  <2>1. IsTree(tree) => IsFiniteSet(tree.nodes)
    BY DEF IsTree, IsArena
  <2>2. IsFiniteSet(tree.nodes) => (IsWhole(tree) <=> IsTree(tree))
    BY WholeIsTree
  <2>3. QED
    BY <2>1, <2>2
<1>3. QED
  BY <1>1, <1>2 DEF IsDocument, Records, HasOwnIds, KnowsItsLayers

\* e shows what d shows, and may hold more trees and have given more ids.
Within(d, e) ==
    /\ d.layers = e.layers /\ Len(d.trees) <= Len(e.trees)
    /\ \A i \in 1..Len(d.trees) : SameTree(d.trees[i], e.trees[i])

\* A document shows itself.
LEMMA WithinItself ==
    ASSUME NEW d \in Records
    PROVE  Within(d, d)
BY DEF Within, SameTree, Records

\* What shows a document that shows another shows that one.
LEMMA WithinThrough ==
    ASSUME NEW a \in Records, NEW b \in Records, NEW c \in Records, Within(a, b), Within(b, c)
    PROVE  Within(a, c)
<1>1. Len(a.trees) \in Nat /\ Len(b.trees) \in Nat /\ Len(c.trees) \in Nat
  BY DEF Records
<1>2. QED
  BY <1>1 DEF Within, SameTree

\* The layer of an id.
LEMMA LayerFound ==
    ASSUME NEW d \in Records, HasOwnIds(d), NEW i \in 1..Len(d.layers)
    PROVE  /\ IndexOfLayer(d, d.layers[i].id) = i /\ LayerOf(d, d.layers[i].id) = d.layers[i]
           /\ d.layers[i] \in Layers /\ d.layers[i].id \in LayerIds(d)
<1> DEFINE id == d.layers[i].id
           found == {j \in 1..Len(d.layers) : d.layers[j].id = id}
<1>1. d.layers \in Seq(Layers) /\ DOMAIN d.layers = 1..Len(d.layers) /\ d.layers[i] \in Layers
  BY DEF Records
<1>2. found = {i}
  BY <1>1 DEF HasOwnIds
<1>3. Min({i}) = i
  <2>1. {i} \in SUBSET Int /\ i \in Int
    BY <1>1
  <2>2. QED
    BY <2>1 DEF Min
<1>4. IndexOfLayer(d, id) = IF found # {} THEN Min(found) ELSE 0
  BY DEF IndexOfLayer, SelectInSeq
<1>5. IndexOfLayer(d, id) = i
  BY <1>2, <1>3, <1>4
<1>6. QED
  BY <1>1, <1>5 DEF LayerOf, LayerIds

\* find_layer returns the one layer of the id.
LEMMA LayerThere ==
    ASSUME NEW d \in Records, HasOwnIds(d), NEW id \in LayerIds(d)
    PROVE  /\ IndexOfLayer(d, id) \in 1..Len(d.layers)
           /\ d.layers[IndexOfLayer(d, id)] = LayerOf(d, id)
           /\ LayerOf(d, id) \in Layers /\ LayerOf(d, id).id = id /\ id \in Ids
<1>1. DOMAIN d.layers = 1..Len(d.layers)
  BY DEF Records
<1>2. PICK i \in 1..Len(d.layers) : d.layers[i].id = id
  BY <1>1 DEF LayerIds
<1>3. IndexOfLayer(d, id) = i /\ LayerOf(d, id) = d.layers[i] /\ d.layers[i] \in Layers
  BY <1>2, LayerFound
<1>4. QED
  BY <1>2, <1>3 DEF Layers

\* What is read of the layers is read of the list of layers.
LEMMA SameLayers ==
    ASSUME NEW d, NEW e, d.layers = e.layers
    PROVE  /\ LayerIds(d) = LayerIds(e)
           /\ \A id : /\ IndexOfLayer(d, id) = IndexOfLayer(e, id) /\ LayerOf(d, id) = LayerOf(e, id)
                      /\ HasTree(d, id) <=> HasTree(e, id)
<1>1. LayerIds(d) = LayerIds(e)
  BY DEF LayerIds
<1>2. ASSUME NEW id PROVE IndexOfLayer(d, id) = IndexOfLayer(e, id)
  BY DEF IndexOfLayer, SelectInSeq
<1>3. \A id : LayerOf(d, id) = LayerOf(e, id)
  BY <1>2 DEF LayerOf
<1>4. QED
  BY <1>1, <1>2, <1>3 DEF HasTree

\* A layer whose edits are not refused.
IsOpen(d, layer) == HasTree(d, layer) /\ ~LayerOf(d, layer).locked

\* In the document left, and those that show it, the tree of the layer can be put back.
ReadsBack(e, d, layer, new) ==
    \A f : IsDocument(f) /\ Within(e, f) =>
        /\ HasTree(f, layer) /\ LayerOf(f, layer) = LayerOf(d, layer)
        /\ IsTree(TreeOf(f, layer)) /\ SameTree(new, TreeOf(f, layer))
        /\ \A back : SameTree(TreeOf(d, layer), back) => Within(d, WithTree(f, layer, back))

\* The tree of a layer that has one is sound.
LEMMA TreeOfLayer ==
    ASSUME NEW d, IsDocument(d), NEW layer, HasTree(d, layer)
    PROVE  /\ LayerOf(d, layer).tree \in 1..Len(d.trees)
           /\ TreeOf(d, layer) = d.trees[LayerOf(d, layer).tree] /\ IsTree(TreeOf(d, layer))
<1>1. /\ d \in Records /\ HasOwnIds(d) /\ KnowsItsLayers(d)
      /\ \A i \in DOMAIN d.trees : IsTree(d.trees[i])
  BY DocumentsAreSound
<1>2. layer \in LayerIds(d) /\ LayerOf(d, layer).tree # 0
  BY DEF HasTree, NoTree
<1>3. /\ IndexOfLayer(d, layer) \in 1..Len(d.layers)
      /\ d.layers[IndexOfLayer(d, layer)] = LayerOf(d, layer) /\ LayerOf(d, layer) \in Layers
  BY <1>1, <1>2, LayerThere
<1>4. LayerOf(d, layer).tree \in Nat /\ LayerOf(d, layer).tree <= Len(d.trees)
      /\ DOMAIN d.trees = 1..Len(d.trees) /\ Len(d.trees) \in Nat
  BY <1>1, <1>3 DEF Layers, KnowsItsLayers, Records
<1>5. QED
  BY <1>1, <1>2, <1>4 DEF TreeOf

\* A document with another tree in the place of one of its own.
LEMMA WritingATree ==
    ASSUME NEW d, IsDocument(d), NEW layer, HasTree(d, layer), NEW new, IsTree(new)
    PROVE  /\ IsDocument(WithTree(d, layer, new))
           /\ ReadsBack(WithTree(d, layer, new), d, layer, new)
<1> DEFINE k == LayerOf(d, layer).tree
           e == WithTree(d, layer, new)
<1>1. /\ d \in Records /\ HasOwnIds(d) /\ KnowsItsLayers(d)
      /\ \A i \in DOMAIN d.trees : IsTree(d.trees[i])
  BY DocumentsAreSound
<1>2. k \in 1..Len(d.trees) /\ TreeOf(d, layer) = d.trees[k]
  BY TreeOfLayer
<1>3. new \in Trees
  BY DEF IsTree, IsArena
<1>4. /\ e.layers = d.layers /\ e.next = d.next /\ e.trees = [d.trees EXCEPT ![k] = new]
      /\ e \in Records /\ Len(e.trees) = Len(d.trees) /\ DOMAIN e.trees = DOMAIN d.trees
      /\ DOMAIN d.trees = 1..Len(d.trees) /\ Len(d.trees) \in Nat
  BY <1>1, <1>2, <1>3, SMTT(30) DEF WithTree, Records
<1> HIDE DEF e, k
<1>5. \A i \in 1..Len(d.trees) : e.trees[i] = IF i = k THEN new ELSE d.trees[i]
  BY <1>4
<1>6. IsDocument(e)
  <2>1. HasOwnIds(e) /\ KnowsItsLayers(e)
    BY <1>1, <1>4 DEF HasOwnIds, KnowsItsLayers
  <2>2. \A i \in DOMAIN e.trees : IsTree(e.trees[i])
    BY <1>1, <1>4, <1>5
  <2>3. QED
    BY <1>4, <2>1, <2>2, DocumentsAreSound
<1>7. ASSUME NEW f, IsDocument(f), Within(e, f)
      PROVE  /\ HasTree(f, layer) /\ LayerOf(f, layer) = LayerOf(d, layer)
             /\ IsTree(TreeOf(f, layer)) /\ SameTree(new, TreeOf(f, layer))
             /\ \A back : SameTree(TreeOf(d, layer), back) => Within(d, WithTree(f, layer, back))
  <2>1. f.layers = d.layers /\ Len(d.trees) <= Len(f.trees)
        /\ \A i \in 1..Len(d.trees) : SameTree(e.trees[i], f.trees[i])
    BY <1>4, <1>7 DEF Within
  <2>2. HasTree(f, layer) /\ LayerOf(f, layer) = LayerOf(d, layer)
    BY <2>1, SameLayers
  <2>3. IsTree(TreeOf(f, layer)) /\ TreeOf(f, layer) = f.trees[k]
    BY <1>7, <2>2, TreeOfLayer DEF k
  <2>4. SameTree(new, TreeOf(f, layer))
    BY <1>2, <1>5, <2>1, <2>3
  <2>5. ASSUME NEW back, SameTree(TreeOf(d, layer), back)
        PROVE  Within(d, WithTree(f, layer, back))
    <3> DEFINE g == WithTree(f, layer, back)
    <3>1. f \in Records
      BY <1>7, DocumentsAreSound
    <3>2. /\ g.layers = f.layers /\ g.trees = [f.trees EXCEPT ![k] = back]
          /\ Len(g.trees) = Len(f.trees) /\ DOMAIN f.trees = 1..Len(f.trees) /\ Len(f.trees) \in Nat
      BY <2>2, <3>1 DEF WithTree, Records, k
    <3> HIDE DEF g
    <3>3. \A i \in 1..Len(d.trees) : g.trees[i] = IF i = k THEN back ELSE f.trees[i]
      BY <1>4, <2>1, <3>2
    <3>4. \A i \in 1..Len(d.trees) : SameTree(d.trees[i], g.trees[i])
      BY <1>2, <1>5, <2>1, <2>5, <3>3 DEF SameTree
    <3>5. QED
      BY <2>1, <3>2, <3>4 DEF g, Within
  <2>6. QED
    BY <2>2, <2>3, <2>4, <2>5
<1>8. ReadsBack(e, d, layer, new)
  BY <1>7 DEF ReadsBack
<1>9. QED
  BY <1>6, <1>8 DEF e

-----------------------------------------------------------------------------
(* The commands a document takes, and that what answers them takes them back. *)

\* A command of a node of an open layer.
IsOfNode(d, c) ==
    /\ c.layer \in Ids /\ c.node \in Ids
    /\ IsOpen(d, c.layer) /\ c.node \in IdsOf(TreeOf(d, c.layer).nodes)

\* AddNode, of a subtree of new ids, under a node that takes children.
TakesAddNode(d, c) ==
    /\ c = [op |-> "AddNode", layer |-> c.layer, parent |-> c.parent, index |-> c.index,
            subtree |-> c.subtree]
    /\ c.layer \in Ids /\ c.parent \in Nat /\ c.index \in Int
    /\ IsOpen(d, c.layer) /\ MayAdmit(TreeOf(d, c.layer), c.subtree, c.parent)

\* RemoveNode, of a node of an open layer.
TakesRemoveNode(d, c) ==
    c = [op |-> "RemoveNode", layer |-> c.layer, node |-> c.node] /\ IsOfNode(d, c)

\* MoveNode, to where it may go.
TakesMoveNode(d, c) ==
    /\ c = [op |-> "MoveNode", layer |-> c.layer, node |-> c.node, parent |-> c.parent,
            index |-> c.index]
    /\ IsOfNode(d, c) /\ c.parent \in Nat /\ c.index \in Int
    /\ MayMove(TreeOf(d, c.layer), c.node, c.parent)

\* A write of a look.
TakesSetLook(d, c) ==
    /\ c = [op |-> "SetLook", layer |-> c.layer, node |-> c.node, look |-> c.look]
    /\ IsOfNode(d, c) /\ c.look \in AllLooks

\* A write of a primitive.
TakesSetPrim(d, c) ==
    /\ c = [op |-> "SetPrim", layer |-> c.layer, node |-> c.node, prim |-> c.prim]
    /\ IsOfNode(d, c) /\ c.prim \in Prims

\* AppendStroke, to a stroke.
TakesAppendStroke(d, c) ==
    /\ c = [op |-> "AppendStroke", layer |-> c.layer, node |-> c.node, points |-> c.points]
    /\ IsOfNode(d, c) /\ c.points \in Seq(AllPoints)
    /\ NodeAt(d, c.layer, c.node).prim = "stroke"

\* TrimStroke, of no more points than the stroke has.
TakesTrimStroke(d, c) ==
    /\ c = [op |-> "TrimStroke", layer |-> c.layer, node |-> c.node, count |-> c.count]
    /\ IsOfNode(d, c) /\ c.count \in Nat
    /\ NodeAt(d, c.layer, c.node).prim = "stroke"
    /\ c.count <= Len(NodeAt(d, c.layer, c.node).points)

\* SetStrokePoints, of a stroke or a sweep.
TakesSetStrokePoints(d, c) ==
    /\ c = [op |-> "SetStrokePoints", layer |-> c.layer, node |-> c.node, points |-> c.points]
    /\ IsOfNode(d, c) /\ c.points \in Seq(AllPoints)
    /\ NodeAt(d, c.layer, c.node).prim \in {"stroke", "sweep"}

\* SetArmature, with a parent of every point, where there was one of every point.
TakesSetArmature(d, c) ==
    LET n == NodeAt(d, c.layer, c.node) IN
    /\ c = [op |-> "SetArmature", layer |-> c.layer, node |-> c.node, points |-> c.points,
            parents |-> c.parents]
    /\ IsOfNode(d, c) /\ c.points \in Seq(AllPoints)
    /\ n.prim = "armature"
    /\ c.parents = Len(c.points) /\ n.parents = Len(n.points)

\* AddLayer, of an id no layer has and a tree that is there.
TakesAddLayer(d, c) ==
    /\ c = [op |-> "AddLayer", layer |-> c.layer, index |-> c.index, source |-> c.source,
            read |-> <<>>]
    /\ c.layer \in Layers /\ c.index \in Int
    /\ c.layer.id \notin LayerIds(d) /\ c.layer.tree <= Len(d.trees) /\ ~c.layer.locked
    /\ c.layer.tree = NoTree => c.source = NoLayer

\* A command of a layer that is not protected.
IsOfLayer(d, c) ==
    c.layer \in Ids /\ c.layer \in LayerIds(d) /\ ~LayerOf(d, c.layer).locked

\* RemoveLayer, of a layer that is not locked.
TakesRemoveLayer(d, c) ==
    c = [op |-> "RemoveLayer", layer |-> c.layer] /\ IsOfLayer(d, c)

\* A write of a layer's look.
TakesSetLayerLook(d, c) ==
    /\ c = [op |-> "SetLayerLook", layer |-> c.layer, look |-> c.look]
    /\ IsOfLayer(d, c) /\ c.look \in AllLooks

\* SetLayerProtection, of any layer.
TakesSetLayerProtection(d, c) ==
    /\ c = [op |-> "SetLayerProtection", layer |-> c.layer, locked |-> c.locked]
    /\ c.layer \in Ids /\ c.layer \in LayerIds(d) /\ c.locked \in BOOLEAN

\* SetLayerMirror, when it changes something.
TakesSetLayerSymmetry(d, c) ==
    /\ c = [op |-> "SetLayerSymmetry", layer |-> c.layer, symmetry |-> c.symmetry]
    /\ IsOfLayer(d, c) /\ c.symmetry \in AllLooks
    /\ c.symmetry # LayerOf(d, c.layer).symmetry

\* SetLayerComposition, of a layer that has a tree.
TakesSetLayerComposition(d, c) ==
    /\ c = [op |-> "SetLayerComposition", layer |-> c.layer, composition |-> c.composition]
    /\ IsOfLayer(d, c) /\ c.composition \in AllLooks /\ HasTree(d, c.layer)

\* The commands of the vocabulary a document takes.
Takes(d, c) ==
    \/ TakesAddNode(d, c) \/ TakesRemoveNode(d, c) \/ TakesMoveNode(d, c)
    \/ TakesSetLook(d, c) \/ TakesSetPrim(d, c)
    \/ TakesAppendStroke(d, c) \/ TakesTrimStroke(d, c)
    \/ TakesSetStrokePoints(d, c) \/ TakesSetArmature(d, c)
    \/ TakesAddLayer(d, c) \/ TakesRemoveLayer(d, c)
    \/ TakesSetLayerLook(d, c) \/ TakesSetLayerProtection(d, c)
    \/ TakesSetLayerSymmetry(d, c) \/ TakesSetLayerComposition(d, c)

\* From every document that shows what d shows, c leads to one that shows what e shows.
LeadsBack(c, d, e) ==
    \A f : IsDocument(f) /\ Within(d, f) => Takes(f, c) /\ Within(e, Apply(f, c).doc)

\* An edit that was performed, with an inverse that takes it back.
IsUndoable(answer, d) ==
    answer.ok /\ IsDocument(answer.doc) /\ LeadsBack(answer.inverse, answer.doc, d)

\* What apply() dispatches on.
LEMMA Dispatching ==
    ASSUME NEW d, NEW c, ~EditsProtected(d, c)
    PROVE  /\ c.op = "AddNode" => Apply(d, c) = AddNode(d, c)
           /\ c.op = "RemoveNode" => Apply(d, c) = RemoveNode(d, c)
           /\ c.op = "MoveNode" => Apply(d, c) = MoveNode(d, c)
           /\ c.op = "SetLook" => Apply(d, c) = SetLook(d, c)
           /\ c.op = "SetPrim" => Apply(d, c) = SetPrim(d, c)
           /\ c.op = "AppendStroke" => Apply(d, c) = AppendStroke(d, c)
           /\ c.op = "TrimStroke" => Apply(d, c) = TrimStroke(d, c)
           /\ c.op = "SetStrokePoints" => Apply(d, c) = SetStrokePoints(d, c)
           /\ c.op = "SetArmature" => Apply(d, c) = SetArmature(d, c)
           /\ c.op = "AddLayer" => Apply(d, c) = AddLayer(d, c)
           /\ c.op = "RemoveLayer" => Apply(d, c) = RemoveLayer(d, c)
           /\ c.op = "SetLayerLook" => Apply(d, c) = SetLayerLook(d, c)
           /\ c.op = "SetLayerProtection" => Apply(d, c) = SetLayerProtection(d, c)
           /\ c.op = "SetLayerSymmetry" => Apply(d, c) = SetLayerSymmetry(d, c)
           /\ c.op = "SetLayerComposition" => Apply(d, c) = SetLayerComposition(d, c)
BY DEF Apply, ApplyOne

\* An edit of an open layer is not refused for its protection.
LEMMA OpenIsNotProtected ==
    ASSUME NEW d, NEW c, IsOpen(d, c.layer) \/ IsOfLayer(d, c)
    PROVE  ~EditsProtected(d, c)
BY DEF EditsProtected, IsOpen, IsOfLayer

-----------------------------------------------------------------------------
(* The nodes that come, go and move. *)

\* AddNode: the RemoveNode it is answered with takes it back.
LEMMA AddingANode ==
    ASSUME NEW d, IsDocument(d), NEW c, TakesAddNode(d, c)
    PROVE  IsUndoable(Apply(d, c), d)
<1> DEFINE tree == TreeOf(d, c.layer)
           r == Reinsert(tree, c.subtree, c.parent, c.index)
           e == WithTree(d, c.layer, r.tree)
           back == [op |-> "RemoveNode", layer |-> c.layer, node |-> c.subtree.root]
<1>1. /\ c.op = "AddNode" /\ c.layer \in Ids /\ c.parent \in Nat /\ c.index \in Int
      /\ HasTree(d, c.layer) /\ IsOpen(d, c.layer) /\ MayAdmit(tree, c.subtree, c.parent)
  BY DEF TakesAddNode, IsOpen
<1>2. IsTree(tree)
  BY <1>1, TreeOfLayer
<1>3. r.ok /\ IsTree(r.tree) /\ TakesOut(r.tree, tree, c.subtree.root)
  <2> HIDE DEF tree
  <2>1. QED
    BY <1>1, <1>2, PuttingIn
<1> HIDE DEF r
<1>4. IsDocument(e) /\ ReadsBack(e, d, c.layer, r.tree)
  BY <1>1, <1>3, WritingATree
<1>5. Apply(d, c) = Answer(e, back)
  <2>1. Apply(d, c) = AddNode(d, c)
    BY <1>1, Dispatching, OpenIsNotProtected
  <2>2. QED
    BY <1>1, <1>3, <2>1 DEF AddNode, r
<1>6. LeadsBack(back, e, d)
  <2>1. SUFFICES ASSUME NEW f, IsDocument(f), Within(e, f)
                 PROVE  Takes(f, back) /\ Within(d, Apply(f, back).doc)
    BY DEF LeadsBack
  <2> DEFINE t == TreeOf(f, c.layer)
  <2>2. /\ HasTree(f, c.layer) /\ LayerOf(f, c.layer) = LayerOf(d, c.layer)
        /\ IsTree(t) /\ SameTree(r.tree, t)
        /\ \A b : SameTree(tree, b) => Within(d, WithTree(f, c.layer, b))
    BY <1>4, <2>1 DEF ReadsBack
  <2> HIDE DEF t, e, tree
  <2>3. c.subtree.root \in IdsOf(t.nodes) /\ SameTree(tree, Without(t, c.subtree.root))
    BY <1>3, <2>2 DEF TakesOut
  <2>4. IsOpen(f, c.layer) /\ c.subtree.root \in Ids
    BY <1>1, <2>2 DEF IsOpen, MayAdmit, IsSubtree
  <2>5. TakesRemoveNode(f, back)
    BY <1>1, <2>3, <2>4 DEF TakesRemoveNode, IsOfNode, t
  <2>6. IsLocated(t, c.subtree.root)
    BY <2>2, <2>3, TakingOut
  <2>7. Apply(f, back) = RemoveNode(f, back)
    <3>1. back.op = "RemoveNode" /\ back.layer = c.layer
      OBVIOUS
    <3> HIDE DEF back
    <3>2. QED
      BY <2>4, <3>1, Dispatching, OpenIsNotProtected
  <2>8. Apply(f, back).doc = WithTree(f, c.layer, Without(t, c.subtree.root))
    BY <2>2, <2>6, <2>7 DEF RemoveNode, Answer, t
  <2>9. QED
    BY <2>2, <2>3, <2>5, <2>8 DEF Takes
<1>7. QED
  BY <1>4, <1>5, <1>6 DEF IsUndoable, Answer

\* RemoveNode: the AddNode it is answered with, of the subtree taken out, takes it back.
LEMMA RemovingTheNode ==
    ASSUME NEW d, IsDocument(d), NEW c, TakesRemoveNode(d, c)
    PROVE  IsUndoable(Apply(d, c), d)
<1> DEFINE tree == TreeOf(d, c.layer)
           at == Locate(tree, c.node)
           sub == Subtree(tree, c.node)
           new == Without(tree, c.node)
           e == WithTree(d, c.layer, new)
           back == [op |-> "AddNode", layer |-> c.layer, parent |-> at.parent,
                    index |-> at.index, subtree |-> sub]
<1>1. /\ c.op = "RemoveNode" /\ c.layer \in Ids /\ c.node \in IdsOf(tree.nodes)
      /\ HasTree(d, c.layer) /\ IsOpen(d, c.layer)
  BY DEF TakesRemoveNode, IsOfNode, IsOpen
<1>2. IsTree(tree)
  BY <1>1, TreeOfLayer
<1>3. /\ IsLocated(tree, c.node) /\ IsTree(new) /\ at.parent \in Nat /\ at.index \in Int
      /\ PutsBack(new, tree, sub, at)
  <2> HIDE DEF tree
  <2>1. QED
    BY <1>1, <1>2, TakingOut
<1>4. IsDocument(e) /\ ReadsBack(e, d, c.layer, new)
  BY <1>1, <1>3, WritingATree
<1>5. Apply(d, c) = Answer(e, back)
  <2>1. Apply(d, c) = RemoveNode(d, c)
    BY <1>1, Dispatching, OpenIsNotProtected
  <2>2. QED
    BY <1>1, <1>3, <2>1 DEF RemoveNode
<1> HIDE DEF at, sub, new
<1>6. LeadsBack(back, e, d)
  <2>1. SUFFICES ASSUME NEW f, IsDocument(f), Within(e, f)
                 PROVE  Takes(f, back) /\ Within(d, Apply(f, back).doc)
    BY DEF LeadsBack
  <2> DEFINE t == TreeOf(f, c.layer)
             r == Reinsert(t, sub, at.parent, at.index)
  <2>2. /\ HasTree(f, c.layer) /\ LayerOf(f, c.layer) = LayerOf(d, c.layer)
        /\ IsTree(t) /\ SameTree(new, t)
        /\ \A b : SameTree(tree, b) => Within(d, WithTree(f, c.layer, b))
    BY <1>4, <2>1 DEF ReadsBack
  <2> HIDE DEF t, e, tree
  <2>3. MayAdmit(t, sub, at.parent) /\ r.ok /\ SameTree(tree, r.tree)
    BY <1>3, <2>2 DEF PutsBack
  <2>4. IsOpen(f, c.layer)
    BY <1>1, <2>2 DEF IsOpen
  <2>5. TakesAddNode(f, back)
    BY <1>1, <1>3, <2>3, <2>4 DEF TakesAddNode, t
  <2>6. Apply(f, back) = AddNode(f, back)
    <3>1. back.op = "AddNode" /\ back.layer = c.layer
      OBVIOUS
    <3> HIDE DEF back
    <3>2. QED
      BY <2>4, <3>1, Dispatching, OpenIsNotProtected
  <2>7. Apply(f, back).doc = WithTree(f, c.layer, r.tree)
    BY <2>2, <2>3, <2>6 DEF AddNode, Answer, t
  <2>8. QED
    BY <2>2, <2>3, <2>5, <2>7 DEF Takes
<1>7. QED
  BY <1>4, <1>5, <1>6 DEF IsUndoable, Answer

\* MoveNode: the MoveNode to where the node was takes it back.
LEMMA MovingTheNode ==
    ASSUME NEW d, IsDocument(d), NEW c, TakesMoveNode(d, c)
    PROVE  IsUndoable(Apply(d, c), d)
<1> DEFINE tree == TreeOf(d, c.layer)
           at == Locate(tree, c.node)
           new == Moved(tree, c.node, c.parent, c.index)
           e == WithTree(d, c.layer, new)
           back == [op |-> "MoveNode", layer |-> c.layer, node |-> c.node, parent |-> at.parent,
                    index |-> at.index]
<1>1. /\ c.op = "MoveNode" /\ c.layer \in Ids /\ c.node \in Ids /\ c.node \in IdsOf(tree.nodes)
      /\ HasTree(d, c.layer) /\ IsOpen(d, c.layer)
      /\ c.index \in Int /\ MayMove(tree, c.node, c.parent)
  BY DEF TakesMoveNode, IsOfNode, IsOpen
<1>2. IsTree(tree)
  BY <1>1, TreeOfLayer
<1>3. IsTree(new) /\ at.parent \in Nat /\ at.index \in Int /\ MovesBack(new, tree, c.node, at)
  <2> HIDE DEF tree
  <2>1. QED
    BY <1>1, <1>2, MovingThere
<1>4. IsDocument(e) /\ ReadsBack(e, d, c.layer, new)
  BY <1>1, <1>3, WritingATree
<1>5. Apply(d, c) = Answer(e, back)
  <2>1. Apply(d, c) = MoveNode(d, c)
    BY <1>1, Dispatching, OpenIsNotProtected
  <2>2. MoveNode(d, c) = Answer(e, [c EXCEPT !.parent = at.parent, !.index = at.index])
    BY <1>1 DEF MoveNode
  <2>3. c = [op |-> "MoveNode", layer |-> c.layer, node |-> c.node, parent |-> c.parent,
             index |-> c.index]
    BY DEF TakesMoveNode
  <2> HIDE DEF at
  <2>4. [c EXCEPT !.parent = at.parent, !.index = at.index] = back
    <3> DEFINE half == [c EXCEPT !.parent = at.parent]
    <3>1. half = [op |-> "MoveNode", layer |-> c.layer, node |-> c.node, parent |-> at.parent,
                  index |-> c.index]
      BY <2>3
    <3>2. [c EXCEPT !.parent = at.parent, !.index = at.index] = [half EXCEPT !.index = at.index]
      OBVIOUS
    <3> HIDE DEF half
    <3>3. QED
      BY <3>1, <3>2
  <2>5. QED
    BY <2>1, <2>2, <2>4
<1> HIDE DEF at, new
<1>6. LeadsBack(back, e, d)
  <2>1. SUFFICES ASSUME NEW f, IsDocument(f), Within(e, f)
                 PROVE  Takes(f, back) /\ Within(d, Apply(f, back).doc)
    BY DEF LeadsBack
  <2> DEFINE t == TreeOf(f, c.layer)
             moved == Moved(t, c.node, at.parent, at.index)
  <2>2. /\ HasTree(f, c.layer) /\ LayerOf(f, c.layer) = LayerOf(d, c.layer)
        /\ IsTree(t) /\ SameTree(new, t)
        /\ \A b : SameTree(tree, b) => Within(d, WithTree(f, c.layer, b))
    BY <1>4, <2>1 DEF ReadsBack
  <2> HIDE DEF t, e, tree
  <2>3. MayMove(t, c.node, at.parent) /\ SameTree(tree, moved)
    BY <1>3, <2>2 DEF MovesBack
  <2>4. IsOpen(f, c.layer) /\ c.node \in IdsOf(t.nodes)
    BY <1>1, <2>2, <2>3, MayMoveTo DEF IsOpen
  <2>5. TakesMoveNode(f, back)
    BY <1>1, <1>3, <2>3, <2>4 DEF TakesMoveNode, IsOfNode, t
  <2>6. Apply(f, back) = MoveNode(f, back)
    <3>1. back.op = "MoveNode" /\ back.layer = c.layer
      OBVIOUS
    <3> HIDE DEF back
    <3>2. QED
      BY <2>4, <3>1, Dispatching, OpenIsNotProtected
  <2>7. Apply(f, back).doc = WithTree(f, c.layer, moved)
    BY <2>2, <2>3, <2>6 DEF MoveNode, Answer, t
  <2>8. QED
    BY <2>2, <2>3, <2>5, <2>7 DEF Takes
<1>7. QED
  BY <1>4, <1>5, <1>6 DEF IsUndoable, Answer

-----------------------------------------------------------------------------
(* The setters of a node's fields. *)

\* A node that was rewritten can be read, and written back.
RewritesBack(e, d, layer, node, m, n) ==
    \A f : IsDocument(f) /\ Within(e, f) =>
        /\ IsOpen(f, layer) /\ HasNode(f, layer, node) /\ NodeAt(f, layer, node) = m
        /\ node \in IdsOf(TreeOf(f, layer).nodes)
        /\ Within(d, WithNode(f, layer, n))

\* The node a command names is there.
LEMMA NodeOfCommand ==
    ASSUME NEW d, IsDocument(d), NEW c, IsOfNode(d, c)
    PROVE  /\ NodeAt(d, c.layer, c.node) \in Nodes /\ NodeAt(d, c.layer, c.node).id = c.node
           /\ HasNode(d, c.layer, c.node)
<1> DEFINE tree == TreeOf(d, c.layer)
           n == NodeAt(d, c.layer, c.node)
<1>1. HasTree(d, c.layer) /\ c.node \in IdsOf(tree.nodes)
  BY DEF IsOfNode, IsOpen
<1>2. IsArena(tree)
  BY <1>1, TreeOfLayer DEF IsTree
<1>3. n \in tree.nodes /\ n \in Nodes /\ n.id = c.node
  <2>1. n = NodeOf(tree, c.node)
    BY DEF NodeAt
  <2> HIDE DEF tree, n
  <2>2. QED
    BY <1>1, <1>2, <2>1, NodesById
<1>4. QED
  BY <1>1, <1>3 DEF HasNode

\* A write of the node a command names can be taken back.
LEMMA WritingTheNode ==
    ASSUME NEW d, IsDocument(d), NEW c, IsOfNode(d, c),
           NEW m, IsRewritten(m, NodeAt(d, c.layer, c.node))
    PROVE  /\ IsDocument(WithNode(d, c.layer, m))
           /\ RewritesBack(WithNode(d, c.layer, m), d, c.layer, c.node, m, NodeAt(d, c.layer, c.node))
<1> DEFINE tree == TreeOf(d, c.layer)
           n == NodeAt(d, c.layer, c.node)
           new == Stored(tree, m)
           e == WithTree(d, c.layer, new)
<1>1. HasTree(d, c.layer) /\ IsOpen(d, c.layer) /\ c.node \in IdsOf(tree.nodes)
  BY DEF IsOfNode, IsOpen
<1>2. IsTree(tree)
  BY <1>1, TreeOfLayer
<1>3. n = NodeOf(tree, c.node) /\ n.id = c.node /\ m.id = c.node
  BY NodeOfCommand DEF NodeAt, IsRewritten
<1>4. IsTree(new) /\ WritesBack(new, tree, m, n)
  <2> HIDE DEF tree
  <2>1. QED
    BY <1>1, <1>2, <1>3, WritingANode
<1>5. IsDocument(e) /\ ReadsBack(e, d, c.layer, new)
  BY <1>1, <1>4, WritingATree
<1>6. WithNode(d, c.layer, m) = e
  BY DEF WithNode
<1> HIDE DEF n, new
<1>7. ASSUME NEW f, IsDocument(f), Within(e, f)
      PROVE  /\ IsOpen(f, c.layer) /\ HasNode(f, c.layer, c.node) /\ NodeAt(f, c.layer, c.node) = m
             /\ c.node \in IdsOf(TreeOf(f, c.layer).nodes)
             /\ Within(d, WithNode(f, c.layer, n))
  <2> DEFINE t == TreeOf(f, c.layer)
  <2>1. /\ HasTree(f, c.layer) /\ LayerOf(f, c.layer) = LayerOf(d, c.layer)
        /\ IsTree(t) /\ SameTree(new, t)
        /\ \A b : SameTree(tree, b) => Within(d, WithTree(f, c.layer, b))
    BY <1>5, <1>7 DEF ReadsBack
  <2> HIDE DEF t, e, tree
  <2>2. c.node \in IdsOf(t.nodes) /\ NodeOf(t, c.node) = m /\ SameTree(tree, Stored(t, n))
    BY <1>3, <1>4, <2>1 DEF WritesBack
  <2>3. Within(d, WithTree(f, c.layer, Stored(t, n)))
    BY <2>1, <2>2
  <2>4. QED
    BY <1>1, <2>1, <2>2, <2>3 DEF IsOpen, HasNode, NodeAt, WithNode, t
<1> HIDE DEF e
<1>8. RewritesBack(e, d, c.layer, c.node, m, n)
  BY <1>7 DEF RewritesBack
<1>9. QED
  BY <1>5, <1>6, <1>8 DEF n

\* A write of a look: the look read before takes it back.
LEMMA SettingTheLook ==
    ASSUME NEW d, IsDocument(d), NEW c, TakesSetLook(d, c)
    PROVE  IsUndoable(Apply(d, c), d)
<1> DEFINE n == NodeAt(d, c.layer, c.node)
           m == [n EXCEPT !.look = c.look]
           e == WithNode(d, c.layer, m)
           back == [op |-> "SetLook", layer |-> c.layer, node |-> c.node, look |-> n.look]
<1>1. c = [op |-> "SetLook", layer |-> c.layer, node |-> c.node, look |-> c.look] /\ c.op = "SetLook" /\ IsOfNode(d, c) /\ c.look \in AllLooks
  BY DEF TakesSetLook
<1>2. c.layer \in Ids /\ c.node \in Ids /\ IsOpen(d, c.layer)
  BY <1>1 DEF IsOfNode
<1>3. n \in Nodes /\ n.id = c.node /\ HasNode(d, c.layer, c.node)
  BY <1>1, NodeOfCommand
<1>4. Apply(d, c) = Answer(e, back)
  <2>1. Apply(d, c) = SetLook(d, c)
    BY <1>1, <1>2, Dispatching, OpenIsNotProtected
  <2>2. SetLook(d, c) = Answer(e, [c EXCEPT !.look = n.look])
    BY <1>1, <1>3 DEF SetLook
  <2> HIDE DEF n
  <2>3. [c EXCEPT !.look = n.look] = back
    BY <1>1
  <2>4. QED
    BY <2>1, <2>2, <2>3
<1> HIDE DEF n
<1>6. IsDocument(e) /\ RewritesBack(e, d, c.layer, c.node, m, n)
  <2>1. IsRewritten(m, n)
    BY <1>1, <1>3 DEF IsRewritten, Nodes
  <2> HIDE DEF m
  <2>2. QED
    BY <1>1, <2>1, WritingTheNode DEF n
<1>7. LeadsBack(back, e, d)
  <2>1. SUFFICES ASSUME NEW f, IsDocument(f), Within(e, f)
                 PROVE  Takes(f, back) /\ Within(d, Apply(f, back).doc)
    BY DEF LeadsBack
  <2>2. /\ IsOpen(f, c.layer) /\ HasNode(f, c.layer, c.node) /\ NodeAt(f, c.layer, c.node) = m
        /\ c.node \in IdsOf(TreeOf(f, c.layer).nodes)
        /\ Within(d, WithNode(f, c.layer, n))
    BY <1>6, <2>1 DEF RewritesBack
  <2> HIDE DEF e
  <2>3. IsOfNode(f, back)
    BY <1>2, <2>2 DEF IsOfNode
  <2>4. TakesSetLook(f, back)
    <3>1. n.look \in AllLooks
      BY <1>1, <1>3 DEF Nodes
    <3>2. back.layer = c.layer /\ back.node = c.node
      OBVIOUS
    <3>3. QED
      BY <1>1, <1>3, <2>2, <2>3, <3>1, <3>2 DEF TakesSetLook
  <2>5. Apply(f, back) = SetLook(f, back)
    <3>1. back.op = "SetLook" /\ back.layer = c.layer
      OBVIOUS
    <3> HIDE DEF back
    <3>2. QED
      BY <2>2, <3>1, Dispatching, OpenIsNotProtected
  <2>6. Apply(f, back).doc = WithNode(f, c.layer, n)
    <3>1. SetLook(f, back).doc = WithNode(f, c.layer, [m EXCEPT !.look = n.look])
      BY <2>2, <2>4 DEF SetLook, Answer, TakesSetLook
    <3>2. [m EXCEPT !.look = n.look] = n
      BY <1>3 DEF Nodes
    <3>3. QED
      BY <2>5, <3>1, <3>2
  <2>7. QED
    BY <2>2, <2>4, <2>6 DEF Takes
<1>8. QED
  BY <1>4, <1>6, <1>7 DEF IsUndoable, Answer

\* SetPrim: the primitive read before takes it back.
LEMMA SettingThePrim ==
    ASSUME NEW d, IsDocument(d), NEW c, TakesSetPrim(d, c)
    PROVE  IsUndoable(Apply(d, c), d)
<1> DEFINE n == NodeAt(d, c.layer, c.node)
           m == [n EXCEPT !.prim = c.prim]
           e == WithNode(d, c.layer, m)
           back == [op |-> "SetPrim", layer |-> c.layer, node |-> c.node, prim |-> n.prim]
<1>1. c = [op |-> "SetPrim", layer |-> c.layer, node |-> c.node, prim |-> c.prim] /\ c.op = "SetPrim" /\ IsOfNode(d, c) /\ c.prim \in Prims
  BY DEF TakesSetPrim
<1>2. c.layer \in Ids /\ c.node \in Ids /\ IsOpen(d, c.layer)
  BY <1>1 DEF IsOfNode
<1>3. n \in Nodes /\ n.id = c.node /\ HasNode(d, c.layer, c.node)
  BY <1>1, NodeOfCommand
<1>4. Apply(d, c) = Answer(e, back)
  <2>1. Apply(d, c) = SetPrim(d, c)
    BY <1>1, <1>2, Dispatching, OpenIsNotProtected
  <2>2. SetPrim(d, c) = Answer(e, [c EXCEPT !.prim = n.prim])
    BY <1>1, <1>3 DEF SetPrim
  <2> HIDE DEF n
  <2>3. [c EXCEPT !.prim = n.prim] = back
    BY <1>1
  <2>4. QED
    BY <2>1, <2>2, <2>3
<1> HIDE DEF n
<1>6. IsDocument(e) /\ RewritesBack(e, d, c.layer, c.node, m, n)
  <2>1. IsRewritten(m, n)
    BY <1>1, <1>3 DEF IsRewritten, Nodes
  <2> HIDE DEF m
  <2>2. QED
    BY <1>1, <2>1, WritingTheNode DEF n
<1>7. LeadsBack(back, e, d)
  <2>1. SUFFICES ASSUME NEW f, IsDocument(f), Within(e, f)
                 PROVE  Takes(f, back) /\ Within(d, Apply(f, back).doc)
    BY DEF LeadsBack
  <2>2. /\ IsOpen(f, c.layer) /\ HasNode(f, c.layer, c.node) /\ NodeAt(f, c.layer, c.node) = m
        /\ c.node \in IdsOf(TreeOf(f, c.layer).nodes)
        /\ Within(d, WithNode(f, c.layer, n))
    BY <1>6, <2>1 DEF RewritesBack
  <2> HIDE DEF e
  <2>3. IsOfNode(f, back)
    BY <1>2, <2>2 DEF IsOfNode
  <2>4. TakesSetPrim(f, back)
    <3>1. n.prim \in Prims /\ m.parents = n.parents /\ m.points = n.points
      BY <1>1, <1>3 DEF Nodes
    <3>2. back.layer = c.layer /\ back.node = c.node
      OBVIOUS
    <3>3. QED
      BY <1>1, <1>3, <2>2, <2>3, <3>1, <3>2 DEF TakesSetPrim
  <2>5. Apply(f, back) = SetPrim(f, back)
    <3>1. back.op = "SetPrim" /\ back.layer = c.layer
      OBVIOUS
    <3> HIDE DEF back
    <3>2. QED
      BY <2>2, <3>1, Dispatching, OpenIsNotProtected
  <2>6. Apply(f, back).doc = WithNode(f, c.layer, n)
    <3>1. SetPrim(f, back).doc = WithNode(f, c.layer, [m EXCEPT !.prim = n.prim])
      BY <2>2, <2>4 DEF SetPrim, Answer, TakesSetPrim
    <3>2. [m EXCEPT !.prim = n.prim] = n
      BY <1>3 DEF Nodes
    <3>3. QED
      BY <2>5, <3>1, <3>2
  <2>7. QED
    BY <2>2, <2>4, <2>6 DEF Takes
<1>8. QED
  BY <1>4, <1>6, <1>7 DEF IsUndoable, Answer

\* SetStrokePoints: the points read before take it back.
LEMMA SettingThePoints ==
    ASSUME NEW d, IsDocument(d), NEW c, TakesSetStrokePoints(d, c)
    PROVE  IsUndoable(Apply(d, c), d)
<1> DEFINE n == NodeAt(d, c.layer, c.node)
           m == [n EXCEPT !.points = c.points]
           e == WithNode(d, c.layer, m)
           back == [op |-> "SetStrokePoints", layer |-> c.layer, node |-> c.node, points |-> n.points]
<1>1. c = [op |-> "SetStrokePoints", layer |-> c.layer, node |-> c.node, points |-> c.points] /\ c.op = "SetStrokePoints" /\ IsOfNode(d, c) /\ c.points \in Seq(AllPoints)
      /\ n.prim \in {"stroke", "sweep"}
  BY DEF TakesSetStrokePoints
<1>2. c.layer \in Ids /\ c.node \in Ids /\ IsOpen(d, c.layer)
  BY <1>1 DEF IsOfNode
<1>3. n \in Nodes /\ n.id = c.node /\ HasNode(d, c.layer, c.node)
  BY <1>1, NodeOfCommand
<1>4. Apply(d, c) = Answer(e, back)
  <2>1. Apply(d, c) = SetStrokePoints(d, c)
    BY <1>1, <1>2, Dispatching, OpenIsNotProtected
  <2>2. SetStrokePoints(d, c) = Answer(e, [c EXCEPT !.points = n.points])
    BY <1>1, <1>3 DEF SetStrokePoints
  <2> HIDE DEF n
  <2>3. [c EXCEPT !.points = n.points] = back
    BY <1>1
  <2>4. QED
    BY <2>1, <2>2, <2>3
<1> HIDE DEF n
<1>6. IsDocument(e) /\ RewritesBack(e, d, c.layer, c.node, m, n)
  <2>1. IsRewritten(m, n)
    BY <1>1, <1>3 DEF IsRewritten, Nodes
  <2> HIDE DEF m
  <2>2. QED
    BY <1>1, <2>1, WritingTheNode DEF n
<1>7. LeadsBack(back, e, d)
  <2>1. SUFFICES ASSUME NEW f, IsDocument(f), Within(e, f)
                 PROVE  Takes(f, back) /\ Within(d, Apply(f, back).doc)
    BY DEF LeadsBack
  <2>2. /\ IsOpen(f, c.layer) /\ HasNode(f, c.layer, c.node) /\ NodeAt(f, c.layer, c.node) = m
        /\ c.node \in IdsOf(TreeOf(f, c.layer).nodes)
        /\ Within(d, WithNode(f, c.layer, n))
    BY <1>6, <2>1 DEF RewritesBack
  <2> HIDE DEF e
  <2>3. IsOfNode(f, back)
    BY <1>2, <2>2 DEF IsOfNode
  <2>4. TakesSetStrokePoints(f, back)
    <3>1. n.points \in Seq(AllPoints) /\ m.prim = n.prim
      BY <1>1, <1>3 DEF Nodes
    <3>2. back.layer = c.layer /\ back.node = c.node
      OBVIOUS
    <3>3. QED
      BY <1>1, <1>3, <2>2, <2>3, <3>1, <3>2 DEF TakesSetStrokePoints
  <2>5. Apply(f, back) = SetStrokePoints(f, back)
    <3>1. back.op = "SetStrokePoints" /\ back.layer = c.layer
      OBVIOUS
    <3> HIDE DEF back
    <3>2. QED
      BY <2>2, <3>1, Dispatching, OpenIsNotProtected
  <2>6. Apply(f, back).doc = WithNode(f, c.layer, n)
    <3>1. SetStrokePoints(f, back).doc = WithNode(f, c.layer, [m EXCEPT !.points = n.points])
      BY <2>2, <2>4 DEF SetStrokePoints, Answer, TakesSetStrokePoints
    <3>2. [m EXCEPT !.points = n.points] = n
      BY <1>3 DEF Nodes
    <3>3. QED
      BY <2>5, <3>1, <3>2
  <2>7. QED
    BY <2>2, <2>4, <2>6 DEF Takes
<1>8. QED
  BY <1>4, <1>6, <1>7 DEF IsUndoable, Answer

\* SetArmature: the points and parents read before take it back.
LEMMA SettingTheArmature ==
    ASSUME NEW d, IsDocument(d), NEW c, TakesSetArmature(d, c)
    PROVE  IsUndoable(Apply(d, c), d)
<1> DEFINE n == NodeAt(d, c.layer, c.node)
           m == [n EXCEPT !.points = c.points, !.parents = c.parents]
           e == WithNode(d, c.layer, m)
           back == [op |-> "SetArmature", layer |-> c.layer, node |-> c.node, points |-> n.points, parents |-> n.parents]
<1>1. c = [op |-> "SetArmature", layer |-> c.layer, node |-> c.node, points |-> c.points, parents |-> c.parents] /\ c.op = "SetArmature" /\ IsOfNode(d, c) /\ c.points \in Seq(AllPoints)
      /\ n.prim = "armature" /\ c.parents = Len(c.points) /\ n.parents = Len(n.points)
  BY DEF TakesSetArmature
<1>2. c.layer \in Ids /\ c.node \in Ids /\ IsOpen(d, c.layer)
  BY <1>1 DEF IsOfNode
<1>3. n \in Nodes /\ n.id = c.node /\ HasNode(d, c.layer, c.node)
  BY <1>1, NodeOfCommand
<1>4. Apply(d, c) = Answer(e, back)
  <2>1. Apply(d, c) = SetArmature(d, c)
    BY <1>1, <1>2, Dispatching, OpenIsNotProtected
  <2>2. SetArmature(d, c) = Answer(e, [c EXCEPT !.points = n.points, !.parents = n.parents])
    BY <1>1, <1>3 DEF SetArmature
  <2> HIDE DEF n
  <2>3. [c EXCEPT !.points = n.points, !.parents = n.parents] = back
    <3> DEFINE half == [c EXCEPT !.points = n.points]
    <3>1. half = [op |-> "SetArmature", layer |-> c.layer, node |-> c.node, points |-> n.points, parents |-> c.parents]
      BY <1>1
    <3>2. [c EXCEPT !.points = n.points, !.parents = n.parents] = [half EXCEPT !.parents = n.parents]
      OBVIOUS
    <3> HIDE DEF half
    <3>3. QED
      BY <3>1, <3>2
  <2>4. QED
    BY <2>1, <2>2, <2>3
<1> HIDE DEF n
<1>5. c.parents \in Nat
  BY <1>1
<1>6. IsDocument(e) /\ RewritesBack(e, d, c.layer, c.node, m, n)
  <2>1. IsRewritten(m, n)
    BY <1>1, <1>3, <1>5 DEF IsRewritten, Nodes
  <2> HIDE DEF m
  <2>2. QED
    BY <1>1, <2>1, WritingTheNode DEF n
<1>7. LeadsBack(back, e, d)
  <2>1. SUFFICES ASSUME NEW f, IsDocument(f), Within(e, f)
                 PROVE  Takes(f, back) /\ Within(d, Apply(f, back).doc)
    BY DEF LeadsBack
  <2>2. /\ IsOpen(f, c.layer) /\ HasNode(f, c.layer, c.node) /\ NodeAt(f, c.layer, c.node) = m
        /\ c.node \in IdsOf(TreeOf(f, c.layer).nodes)
        /\ Within(d, WithNode(f, c.layer, n))
    BY <1>6, <2>1 DEF RewritesBack
  <2> HIDE DEF e
  <2>3. IsOfNode(f, back)
    BY <1>2, <2>2 DEF IsOfNode
  <2>4. TakesSetArmature(f, back)
    <3>1. /\ n.points \in Seq(AllPoints)
          /\ m.prim = n.prim /\ m.points = c.points /\ m.parents = c.parents
      BY <1>1, <1>3 DEF Nodes
    <3>2. /\ back = [op |-> "SetArmature", layer |-> back.layer, node |-> back.node, points |-> back.points, parents |-> back.parents]
          /\ back.layer = c.layer /\ back.node = c.node
          /\ back.points = n.points /\ back.parents = n.parents
      OBVIOUS
    <3> HIDE DEF m, back
    <3>3. QED
      BY <1>1, <2>2, <2>3, <3>1, <3>2 DEF TakesSetArmature
  <2>5. Apply(f, back) = SetArmature(f, back)
    <3>1. back.op = "SetArmature" /\ back.layer = c.layer
      OBVIOUS
    <3> HIDE DEF back
    <3>2. QED
      BY <2>2, <3>1, Dispatching, OpenIsNotProtected
  <2>6. Apply(f, back).doc = WithNode(f, c.layer, n)
    <3>1. SetArmature(f, back).doc = WithNode(f, c.layer, [m EXCEPT !.points = n.points, !.parents = n.parents])
      BY <2>2, <2>4 DEF SetArmature, Answer, TakesSetArmature
    <3>2. [m EXCEPT !.points = n.points, !.parents = n.parents] = n
      BY <1>3 DEF Nodes
    <3>3. QED
      BY <2>5, <3>1, <3>2
  <2>7. QED
    BY <2>2, <2>4, <2>6 DEF Takes
<1>8. QED
  BY <1>4, <1>6, <1>7 DEF IsUndoable, Answer

-----------------------------------------------------------------------------
(* The points of a stroke. *)

\* What a trim leaves and what it takes are the list.
LEMMA Trimming ==
    ASSUME NEW X, NEW list \in Seq(X), NEW k \in 0..Len(list)
    PROVE  /\ SubSeq(list, 1, k) \in Seq(X) /\ SubSeq(list, k + 1, Len(list)) \in Seq(X)
           /\ Len(SubSeq(list, 1, k)) = k /\ Len(SubSeq(list, k + 1, Len(list))) = Len(list) - k
           /\ SubSeq(list, 1, k) \o SubSeq(list, k + 1, Len(list)) = list
<1> DEFINE a == SubSeq(list, 1, k)
           b == SubSeq(list, k + 1, Len(list))
<1>1. k \in Int /\ Len(list) \in Int /\ (\A i \in 1..Len(list) : list[i] \in X) /\ 1 \in Int /\ k + 1 \in Int
  OBVIOUS
<1>2. \A i \in 1..k : list[i] \in X
  BY <1>1
<1>3. \A i \in (k + 1)..Len(list) : list[i] \in X
  BY <1>1
<1>4. a \in Seq(X) /\ Len(a) = IF 1 <= k THEN k - 1 + 1 ELSE 0
  BY <1>1, <1>2, SubSeqProperties
<1>5. b \in Seq(X) /\ Len(b) = IF k + 1 <= Len(list) THEN Len(list) - (k + 1) + 1 ELSE 0
  BY <1>1, <1>3, SubSeqProperties
<1>6. a \o b = list
  <2>1. 1 \in 1..(Len(list) + 1) /\ k \in (1 - 1)..Len(list) /\ Len(list) \in k..Len(list)
    OBVIOUS
  <2>2. a \o b = SubSeq(list, 1, Len(list))
    BY <2>1, ConcatAdjacentSubSeq
  <2>3. QED
    BY <2>2, SubSeqFull
<1> HIDE DEF a, b
<1>7. Len(a) = k /\ Len(b) = Len(list) - k
  BY <1>4, <1>5
<1>8. QED
  BY <1>4, <1>5, <1>6, <1>7 DEF a, b

\* A trim of what was appended leaves the list it was appended to.
LEMMA Extending ==
    ASSUME NEW X, NEW s \in Seq(X), NEW t \in Seq(X)
    PROVE  /\ s \o t \in Seq(X) /\ Len(s \o t) - Len(t) = Len(s) /\ Len(t) <= Len(s \o t)
           /\ SubSeq(s \o t, 1, Len(s)) = s
<1>1. s \o t \in Seq(X) /\ Len(s \o t) = Len(s) + Len(t)
  BY ConcatProperties
<1>2. CASE Len(s) = 0
  <2>1. s = <<>>
    BY <1>2
  <2>2. SubSeq(s \o t, 1, 0) = <<>>
    BY SubSeqEmpty
  <2>3. QED
    BY <1>1, <1>2, <2>1, <2>2
<1>3. CASE Len(s) # 0
  <2>1. 1 \in 1..Len(s) /\ Len(s) \in 1..Len(s)
    BY <1>3
  <2>2. SubSeq(s \o t, 1, Len(s)) = SubSeq(s, 1, Len(s))
    BY <2>1, SubSeqOfConcat1
  <2>3. QED
    BY <1>1, <2>2, SubSeqFull
<1>4. QED
  BY <1>2, <1>3

\* AppendStroke: a trim of as many points takes it back.
LEMMA AppendingToAStroke ==
    ASSUME NEW d, IsDocument(d), NEW c, TakesAppendStroke(d, c)
    PROVE  IsUndoable(Apply(d, c), d)
<1> DEFINE n == NodeAt(d, c.layer, c.node)
           m == [n EXCEPT !.points = n.points \o c.points]
           e == WithNode(d, c.layer, m)
           back == [op |-> "TrimStroke", layer |-> c.layer, node |-> c.node, count |-> Len(c.points)]
<1>1. c = [op |-> "AppendStroke", layer |-> c.layer, node |-> c.node, points |-> c.points]
      /\ c.op = "AppendStroke" /\ IsOfNode(d, c) /\ c.points \in Seq(AllPoints) /\ n.prim = "stroke"
  BY DEF TakesAppendStroke
<1>2. c.layer \in Ids /\ c.node \in Ids /\ IsOpen(d, c.layer)
  BY <1>1 DEF IsOfNode
<1>3. n \in Nodes /\ n.id = c.node /\ HasNode(d, c.layer, c.node)
  BY <1>1, NodeOfCommand
<1>4. Apply(d, c) = Answer(e, back)
  <2>1. Apply(d, c) = AppendStroke(d, c)
    BY <1>1, <1>2, Dispatching, OpenIsNotProtected
  <2>2. AppendStroke(d, c) = Answer(e, back)
    BY <1>1, <1>3 DEF AppendStroke
  <2>3. QED
    BY <2>1, <2>2
<1> HIDE DEF n
<1>5. /\ n.points \o c.points \in Seq(AllPoints)
      /\ Len(n.points \o c.points) - Len(c.points) = Len(n.points)
      /\ Len(c.points) <= Len(n.points \o c.points)
      /\ SubSeq(n.points \o c.points, 1, Len(n.points)) = n.points
  <2>1. n.points \in Seq(AllPoints)
    BY <1>3 DEF Nodes
  <2>2. QED
    BY <1>1, <2>1, Extending
<1>6. IsDocument(e) /\ RewritesBack(e, d, c.layer, c.node, m, n)
  <2>1. IsRewritten(m, n)
    BY <1>1, <1>3, <1>5 DEF IsRewritten, Nodes
  <2> HIDE DEF m
  <2>2. QED
    BY <1>1, <2>1, WritingTheNode DEF n
<1>7. LeadsBack(back, e, d)
  <2>1. SUFFICES ASSUME NEW f, IsDocument(f), Within(e, f)
                 PROVE  Takes(f, back) /\ Within(d, Apply(f, back).doc)
    BY DEF LeadsBack
  <2>2. /\ IsOpen(f, c.layer) /\ HasNode(f, c.layer, c.node) /\ NodeAt(f, c.layer, c.node) = m
        /\ c.node \in IdsOf(TreeOf(f, c.layer).nodes)
        /\ Within(d, WithNode(f, c.layer, n))
    BY <1>6, <2>1 DEF RewritesBack
  <2> HIDE DEF e
  <2>3. IsOfNode(f, back)
    BY <1>2, <2>2 DEF IsOfNode
  <2>4. TakesTrimStroke(f, back)
    <3>1. m.prim = "stroke" /\ Len(c.points) \in Nat /\ m.points = n.points \o c.points
      BY <1>1, <1>3 DEF Nodes
    <3>2. back.layer = c.layer /\ back.node = c.node /\ back.count = Len(c.points)
      OBVIOUS
    <3>3. back = [op |-> "TrimStroke", layer |-> back.layer, node |-> back.node, count |-> back.count]
      OBVIOUS
    <3> HIDE DEF back, m
    <3>4. QED
      BY <1>5, <2>2, <2>3, <3>1, <3>2, <3>3 DEF TakesTrimStroke
  <2>5. Apply(f, back) = TrimStroke(f, back)
    <3>1. back.op = "TrimStroke" /\ back.layer = c.layer
      OBVIOUS
    <3> HIDE DEF back
    <3>2. QED
      BY <2>2, <3>1, Dispatching, OpenIsNotProtected
  <2>6. Apply(f, back).doc = WithNode(f, c.layer, n)
    <3>1. Len(m.points) - back.count = Len(n.points) /\ m.points = n.points \o c.points
      BY <1>3, <1>5 DEF Nodes
    <3>2. TrimStroke(f, back).doc = WithNode(f, c.layer, [m EXCEPT !.points = SubSeq(m.points, 1, Len(n.points))])
      <4>1. Len(n.points) >= 0
        BY <1>3 DEF Nodes
      <4>2. QED
        BY <2>2, <3>1, <4>1 DEF TrimStroke, Answer
    <3>3. [m EXCEPT !.points = n.points] = n
      BY <1>3 DEF Nodes
    <3>4. QED
      BY <1>5, <2>5, <3>1, <3>2, <3>3
  <2>7. QED
    BY <2>2, <2>4, <2>6 DEF Takes
<1>8. QED
  BY <1>4, <1>6, <1>7 DEF IsUndoable, Answer

\* TrimStroke: the points taken off, appended, take it back.
LEMMA TrimmingAStroke ==
    ASSUME NEW d, IsDocument(d), NEW c, TakesTrimStroke(d, c)
    PROVE  IsUndoable(Apply(d, c), d)
<1> DEFINE n == NodeAt(d, c.layer, c.node)
           left == Len(n.points) - c.count
           m == [n EXCEPT !.points = SubSeq(n.points, 1, left)]
           e == WithNode(d, c.layer, m)
           back == [op |-> "AppendStroke", layer |-> c.layer, node |-> c.node,
                    points |-> SubSeq(n.points, left + 1, Len(n.points))]
<1>1. c.op = "TrimStroke" /\ IsOfNode(d, c) /\ c.count \in Nat /\ n.prim = "stroke"
      /\ c.count <= Len(n.points)
  BY DEF TakesTrimStroke
<1>2. c.layer \in Ids /\ c.node \in Ids /\ IsOpen(d, c.layer)
  BY <1>1 DEF IsOfNode
<1>3. n \in Nodes /\ n.id = c.node /\ HasNode(d, c.layer, c.node)
  BY <1>1, NodeOfCommand
<1>4. Apply(d, c) = Answer(e, back)
  <2>1. Apply(d, c) = TrimStroke(d, c)
    BY <1>1, <1>2, Dispatching, OpenIsNotProtected
  <2>2. left >= 0
    BY <1>1, <1>3 DEF Nodes
  <2>3. TrimStroke(d, c) = Answer(e, back)
    BY <1>1, <1>3, <2>2 DEF TrimStroke
  <2>4. QED
    BY <2>1, <2>3
<1> HIDE DEF n
<1>5. /\ SubSeq(n.points, 1, left) \in Seq(AllPoints)
      /\ SubSeq(n.points, left + 1, Len(n.points)) \in Seq(AllPoints)
      /\ SubSeq(n.points, 1, left) \o SubSeq(n.points, left + 1, Len(n.points)) = n.points
  <2>1. n.points \in Seq(AllPoints)
    BY <1>3 DEF Nodes
  <2>2. left \in 0..Len(n.points)
    BY <1>1, <2>1
  <2> HIDE DEF left
  <2>3. QED
    BY <2>1, <2>2, Trimming
<1>6. IsDocument(e) /\ RewritesBack(e, d, c.layer, c.node, m, n)
  <2>1. IsRewritten(m, n)
    BY <1>1, <1>3, <1>5 DEF IsRewritten, Nodes
  <2> HIDE DEF m
  <2>2. QED
    BY <1>1, <2>1, WritingTheNode DEF n
<1>7. LeadsBack(back, e, d)
  <2>1. SUFFICES ASSUME NEW f, IsDocument(f), Within(e, f)
                 PROVE  Takes(f, back) /\ Within(d, Apply(f, back).doc)
    BY DEF LeadsBack
  <2>2. /\ IsOpen(f, c.layer) /\ HasNode(f, c.layer, c.node) /\ NodeAt(f, c.layer, c.node) = m
        /\ c.node \in IdsOf(TreeOf(f, c.layer).nodes)
        /\ Within(d, WithNode(f, c.layer, n))
    BY <1>6, <2>1 DEF RewritesBack
  <2> HIDE DEF e
  <2>3. IsOfNode(f, back)
    BY <1>2, <2>2 DEF IsOfNode
  <2>4. TakesAppendStroke(f, back)
    <3>1. m.prim = "stroke"
      BY <1>1, <1>3 DEF Nodes
    <3>2. back.layer = c.layer /\ back.node = c.node /\ back.points \in Seq(AllPoints)
      BY <1>5
    <3>3. back = [op |-> "AppendStroke", layer |-> back.layer, node |-> back.node, points |-> back.points]
      OBVIOUS
    <3> HIDE DEF back, m
    <3>4. QED
      BY <2>2, <2>3, <3>1, <3>2, <3>3 DEF TakesAppendStroke
  <2>5. Apply(f, back) = AppendStroke(f, back)
    <3>1. back.op = "AppendStroke" /\ back.layer = c.layer
      OBVIOUS
    <3> HIDE DEF back
    <3>2. QED
      BY <2>2, <3>1, Dispatching, OpenIsNotProtected
  <2>6. Apply(f, back).doc = WithNode(f, c.layer, n)
    <3>1. m.points = SubSeq(n.points, 1, left) /\ m.prim = "stroke"
      BY <1>1, <1>3 DEF Nodes
    <3>2. AppendStroke(f, back).doc = WithNode(f, c.layer, [m EXCEPT !.points = m.points \o back.points])
      BY <2>2, <3>1 DEF AppendStroke, Answer
    <3>3. m.points \o back.points = n.points
      BY <1>5, <3>1
    <3>4. [m EXCEPT !.points = n.points] = n
      BY <1>3 DEF Nodes
    <3>5. QED
      BY <2>5, <3>2, <3>3, <3>4
  <2>7. QED
    BY <2>2, <2>4, <2>6 DEF Takes
<1>8. QED
  BY <1>4, <1>6, <1>7 DEF IsUndoable, Answer

-----------------------------------------------------------------------------
(* The layers that come and go. *)

\* A document with a layer put at a place of its list.
WithLayerAt(d, k, layer, next) == [layers |-> Put(d.layers, k, layer), trees |-> d.trees, next |-> next]

\* insert_layer leaves a document, and cutting the layer leads back.
LEMMA PuttingALayer ==
    ASSUME NEW d, IsDocument(d), NEW layer \in Layers, layer.id \notin LayerIds(d),
           layer.tree <= Len(d.trees), NEW k \in 1..(Len(d.layers) + 1),
           NEW next \in Ids, d.next <= next, layer.id < next
    PROVE  /\ IsDocument(WithLayerAt(d, k, layer, next))
           /\ Cut(Put(d.layers, k, layer), k) = d.layers
           /\ k \in 1..Len(Put(d.layers, k, layer)) /\ Put(d.layers, k, layer)[k] = layer
           /\ Put(d.layers, k, layer) \in Seq(Layers)
<1> DEFINE e == WithLayerAt(d, k, layer, next)
           new == Put(d.layers, k, layer)
<1>1. /\ d \in Records /\ HasOwnIds(d) /\ KnowsItsLayers(d)
      /\ \A i \in DOMAIN d.trees : IsTree(d.trees[i])
  BY DocumentsAreSound
<1>2. d.layers \in Seq(Layers) /\ d.next \in Ids /\ d.trees \in Seq(Trees)
      /\ DOMAIN d.layers = 1..Len(d.layers) /\ Len(d.layers) \in Nat
  BY <1>1 DEF Records
<1>3. /\ new \in Seq(Layers) /\ Len(new) = Len(d.layers) + 1
      /\ k \in 1..Len(new) /\ new[k] = layer
      /\ Cut(new, k) = d.layers
  BY <1>2, Putting
<1>4. \A i \in 1..Len(new) : new[i] = IF i < k THEN d.layers[i] ELSE IF i = k THEN layer ELSE d.layers[i - 1]
  BY <1>2, <1>3 DEF Put
<1>5. e.layers = new /\ e.trees = d.trees /\ e.next = next /\ DOMAIN new = 1..Len(new)
  BY <1>3 DEF WithLayerAt
<1> HIDE DEF e, new
<1>6. \A i \in 1..Len(new) : i # k => \E j \in 1..Len(d.layers) : /\ new[i] = d.layers[j]
                                                                 /\ j = IF i < k THEN i ELSE i - 1
  <2>1. SUFFICES ASSUME NEW i \in 1..Len(new), i # k
                 PROVE  \E j \in 1..Len(d.layers) : new[i] = d.layers[j] /\ j = IF i < k THEN i ELSE i - 1
    OBVIOUS
  <2>2. new[i] = IF i < k THEN d.layers[i] ELSE IF i = k THEN layer ELSE d.layers[i - 1]
    BY <1>4
  <2>3. CASE i < k
    <3>1. i \in 1..Len(d.layers)
      BY <1>2, <1>3, <2>3
    <3>2. QED
      BY <2>2, <2>3, <3>1
  <2>4. CASE ~(i < k)
    <3>1. i - 1 \in 1..Len(d.layers)
      BY <1>2, <1>3, <2>1, <2>4
    <3>2. QED
      BY <2>1, <2>2, <2>4, <3>1
  <2>5. QED
    BY <2>3, <2>4
<1>7. HasOwnIds(e)
  <2>1. SUFFICES ASSUME NEW i \in 1..Len(new), NEW j \in 1..Len(new), new[i].id = new[j].id
                 PROVE  i = j
    BY <1>5 DEF HasOwnIds
  <2>2. \A m \in 1..Len(d.layers) : d.layers[m].id # layer.id
    BY <1>2 DEF LayerIds
  <2>3. CASE i = k \/ j = k
    BY <1>3, <1>6, <2>1, <2>2, <2>3
  <2>4. CASE i # k /\ j # k
    <3>1. PICK x \in 1..Len(d.layers) : new[i] = d.layers[x] /\ x = IF i < k THEN i ELSE i - 1
      BY <1>6, <2>4
    <3>2. PICK y \in 1..Len(d.layers) : new[j] = d.layers[y] /\ y = IF j < k THEN j ELSE j - 1
      BY <1>6, <2>4
    <3>3. x = y
      BY <1>1, <1>2, <2>1, <3>1, <3>2 DEF HasOwnIds
    <3>4. QED
      BY <1>2, <1>3, <2>4, <3>1, <3>2, <3>3
  <2>5. QED
    BY <2>3, <2>4
<1>8. KnowsItsLayers(e)
  <2>1. SUFFICES ASSUME NEW i \in 1..Len(new)
                 PROVE  new[i].id < next /\ new[i].tree <= Len(d.trees)
    BY <1>5 DEF KnowsItsLayers
  <2>2. CASE i = k
    BY <1>3, <2>2
  <2>3. CASE i # k
    <3>1. PICK x \in 1..Len(d.layers) : new[i] = d.layers[x]
      BY <1>6, <2>3
    <3>2. d.layers[x] \in Layers /\ d.layers[x].id < d.next /\ d.layers[x].tree <= Len(d.trees)
      BY <1>1, <1>2, SMTT(30) DEF KnowsItsLayers
    <3>3. d.layers[x].id \in Ids
      BY <3>2 DEF Layers
    <3>4. d.next \in Int /\ next \in Int /\ d.layers[x].id \in Int
      BY <1>2, <3>3 DEF Ids
    <3>5. QED
      BY <3>1, <3>2, <3>4
  <2>4. QED
    BY <2>2, <2>3
<1>9. e \in Records
  BY <1>2, <1>3 DEF e, WithLayerAt, Records, new
<1>10. IsDocument(e)
  BY <1>1, <1>5, <1>7, <1>8, <1>9, DocumentsAreSound
<1>11. QED
  BY <1>3, <1>10 DEF e, new

\* A document with a layer cut from its list.
WithoutLayerAt(d, k) == [layers |-> Cut(d.layers, k), trees |-> d.trees, next |-> d.next]

\* remove_layer leaves a document, and putting the layer leads back.
LEMMA CuttingALayer ==
    ASSUME NEW d, IsDocument(d), NEW k \in 1..Len(d.layers)
    PROVE  /\ IsDocument(WithoutLayerAt(d, k)) /\ d.layers[k].id \notin LayerIds(WithoutLayerAt(d, k))
           /\ Put(Cut(d.layers, k), k, d.layers[k]) = d.layers
           /\ Len(Cut(d.layers, k)) = Len(d.layers) - 1
           /\ Cut(d.layers, k) \in Seq(Layers)
<1> DEFINE e == WithoutLayerAt(d, k)
           new == Cut(d.layers, k)
<1>1. /\ d \in Records /\ HasOwnIds(d) /\ KnowsItsLayers(d)
      /\ \A i \in DOMAIN d.trees : IsTree(d.trees[i])
  BY DocumentsAreSound
<1>2. d.layers \in Seq(Layers) /\ d.next \in Ids /\ d.trees \in Seq(Trees)
      /\ DOMAIN d.layers = 1..Len(d.layers) /\ Len(d.layers) \in Nat
  BY <1>1 DEF Records
<1>3. /\ new \in Seq(Layers) /\ Len(new) = Len(d.layers) - 1
      /\ Put(new, k, d.layers[k]) = d.layers
  <2>1. IsInjective(d.layers)
    BY <1>1, <1>2 DEF IsInjective, HasOwnIds
  <2>2. QED
    BY <1>2, <2>1, Cutting
<1>4. \A i \in 1..Len(new) : new[i] = IF i < k THEN d.layers[i] ELSE d.layers[i + 1]
  BY <1>2, <1>3 DEF Cut
<1>5. e.layers = new /\ e.trees = d.trees /\ e.next = d.next /\ DOMAIN new = 1..Len(new)
  BY <1>3 DEF WithoutLayerAt
<1> HIDE DEF e, new
<1>6. \A i \in 1..Len(new) : \E j \in 1..Len(d.layers) : /\ new[i] = d.layers[j]
                                                        /\ j = IF i < k THEN i ELSE i + 1
  BY <1>2, <1>3, <1>4
<1>7. HasOwnIds(e) /\ d.layers[k].id \notin LayerIds(e)
  <2>1. ASSUME NEW i \in 1..Len(new), NEW j \in 1..Len(new), new[i].id = new[j].id
        PROVE  i = j
    <3>1. PICK x \in 1..Len(d.layers) : new[i] = d.layers[x] /\ x = IF i < k THEN i ELSE i + 1
      BY <1>6
    <3>2. PICK y \in 1..Len(d.layers) : new[j] = d.layers[y] /\ y = IF j < k THEN j ELSE j + 1
      BY <1>6
    <3>3. x = y
      BY <1>1, <1>2, <2>1, <3>1, <3>2 DEF HasOwnIds
    <3>4. QED
      BY <1>2, <1>3, <3>1, <3>2, <3>3
  <2>2. ASSUME NEW i \in 1..Len(new)
        PROVE  new[i].id # d.layers[k].id
    <3>1. PICK x \in 1..Len(d.layers) : new[i] = d.layers[x] /\ x = IF i < k THEN i ELSE i + 1
      BY <1>6
    <3>2. x # k
      BY <1>2, <1>3, <3>1
    <3>3. QED
      BY <1>1, <1>2, <3>1, <3>2 DEF HasOwnIds
  <2>3. QED
    BY <1>5, <2>1, <2>2 DEF HasOwnIds, LayerIds
<1>8. KnowsItsLayers(e)
  <2>1. SUFFICES ASSUME NEW i \in 1..Len(new)
                 PROVE  new[i].id < d.next /\ new[i].tree <= Len(d.trees)
    BY <1>5 DEF KnowsItsLayers
  <2>2. PICK x \in 1..Len(d.layers) : new[i] = d.layers[x]
    BY <1>6
  <2>3. QED
    BY <1>1, <1>2, <2>2 DEF KnowsItsLayers
<1>9. e \in Records
  BY <1>2, <1>3 DEF e, WithoutLayerAt, Records, new
<1>10. IsDocument(e)
  BY <1>1, <1>5, <1>7, <1>8, <1>9, DocumentsAreSound
<1>11. QED
  BY <1>3, <1>7, <1>10 DEF e, new

\* What AddLayer answers when the layer comes with a tree of the document, or with none.
LEMMA AddLayerAnswers ==
    ASSUME NEW d, IsDocument(d), NEW c, TakesAddLayer(d, c)
    PROVE  \E k \in 1..(Len(d.layers) + 1) : \E next \in Ids :
              /\ d.next <= next /\ c.layer.id < next
              /\ k = IF c.index < 0 \/ c.index > Len(d.layers) THEN Len(d.layers) + 1 ELSE c.index + 1
              /\ Apply(d, c) = Answer(WithLayerAt(d, k, c.layer, next),
                                      [op |-> "RemoveLayer", layer |-> c.layer.id])
<1> DEFINE k == IF c.index < 0 \/ c.index > Len(d.layers) THEN Len(d.layers) + 1 ELSE c.index + 1
           next == Max({d.next, c.layer.id + 1})
           back == [op |-> "RemoveLayer", layer |-> c.layer.id]
<1>1. d \in Records
  BY DocumentsAreSound
<1>2. d.layers \in Seq(Layers) /\ d.next \in Ids /\ d.trees \in Seq(Trees) /\ Len(d.layers) \in Nat
      /\ d = [layers |-> d.layers, trees |-> d.trees, next |-> d.next]
  BY <1>1 DEF Records
<1>3. /\ c.op = "AddLayer" /\ c.layer \in Layers /\ c.index \in Int /\ c.read = <<>>
      /\ c.layer.tree = NoTree => c.source = NoLayer
  BY DEF TakesAddLayer
<1>4. k \in 1..(Len(d.layers) + 1)
  BY <1>2, <1>3
<1>5. c.layer.id \in Ids
  BY <1>3 DEF Layers
<1>6. next \in Ids /\ d.next <= next /\ c.layer.id < next
  <2> DEFINE both == {d.next, c.layer.id + 1}
  <2>1. both \in SUBSET Nat /\ both # {}
    BY <1>2, <1>5 DEF Ids
  <2>2. IsFiniteSet(both)
    <3>1. IsFiniteSet({d.next})
      BY FS_Singleton
    <3>2. IsFiniteSet({d.next} \cup {c.layer.id + 1})
      BY <3>1, FS_AddElement
    <3>3. both = {d.next} \cup {c.layer.id + 1}
      OBVIOUS
    <3>4. QED
      BY <3>2, <3>3
  <2>3. d.next \in both /\ c.layer.id + 1 \in both /\ both \subseteq Ids
    BY <1>2, <1>5 DEF Ids
  <2> HIDE DEF both
  <2>4. Max(both) \in both /\ \A x \in both : x <= Max(both)
    BY <2>1, <2>2, GreatestOf
  <2>5. Max(both) \in Ids /\ d.next <= Max(both) /\ c.layer.id + 1 <= Max(both)
    BY <2>3, <2>4
  <2>6. QED
    BY <1>5, <2>5 DEF both, Ids
<1>7. Place(d.layers, c.layer, c.index) = Put(d.layers, k, c.layer)
  BY <1>2, <1>3, PlaceIsPut
<1>8. Inserted(d, c.layer, c.index) = WithLayerAt(d, k, c.layer, next)
  <2> DEFINE new == Place(d.layers, c.layer, c.index)
  <2>1. Inserted(d, c.layer, c.index) = [d EXCEPT !.layers = new, !.next = next]
    BY DEF Inserted
  <2> HIDE DEF new, next
  <2> DEFINE half == [d EXCEPT !.layers = new]
  <2>2. half = [layers |-> new, trees |-> d.trees, next |-> d.next]
    BY <1>2
  <2>3. [d EXCEPT !.layers = new, !.next = next] = [half EXCEPT !.next = next]
    OBVIOUS
  <2> HIDE DEF half
  <2>4. [half EXCEPT !.next = next] = [layers |-> new, trees |-> d.trees, next |-> next]
    BY <2>2
  <2> HIDE DEF k
  <2>5. QED
    BY <1>7, <2>1, <2>3, <2>4 DEF WithLayerAt, new
<1>9. [d EXCEPT !.trees = @ \o c.read] = d
  <2>1. d.trees \o <<>> = d.trees
    BY <1>2, ConcatEmptySeq
  <2>2. [d EXCEPT !.trees = d.trees] = d
    BY <1>2
  <2>3. QED
    BY <1>3, <2>1, <2>2
<1>10. AddLayer(d, c) = Answer(Inserted(d, c.layer, c.index), back)
  BY <1>3, <1>9 DEF AddLayer
<1>11. ~EditsProtected(d, c)
  BY <1>3 DEF EditsProtected
<1>12. Apply(d, c) = AddLayer(d, c)
  BY <1>3, <1>11, Dispatching
<1> HIDE DEF k, next
<1>13. /\ d.next <= next /\ c.layer.id < next
       /\ k = IF c.index < 0 \/ c.index > Len(d.layers) THEN Len(d.layers) + 1 ELSE c.index + 1
       /\ Apply(d, c) = Answer(WithLayerAt(d, k, c.layer, next), back)
  BY <1>6, <1>8, <1>10, <1>12 DEF k
<1>14. QED
  BY <1>4, <1>6, <1>13

\* What RemoveLayer answers.
LEMMA RemoveLayerAnswers ==
    ASSUME NEW d, IsDocument(d), NEW k \in 1..Len(d.layers), ~d.layers[k].locked,
           NEW c, c.op = "RemoveLayer", c.layer = d.layers[k].id
    PROVE  /\ Takes(d, c) \/ c # [op |-> "RemoveLayer", layer |-> c.layer]
           /\ Apply(d, c) = Answer(WithoutLayerAt(d, k),
                                   [op |-> "AddLayer", layer |-> d.layers[k], index |-> k - 1,
                                    source |-> NoLayer, read |-> <<>>])
<1>1. d \in Records /\ HasOwnIds(d)
  BY DocumentsAreSound
<1>2. d.layers \in Seq(Layers) /\ d = [layers |-> d.layers, trees |-> d.trees, next |-> d.next]
  BY <1>1 DEF Records
<1>3. /\ IndexOfLayer(d, c.layer) = k /\ LayerOf(d, c.layer) = d.layers[k]
      /\ d.layers[k] \in Layers /\ c.layer \in LayerIds(d)
  BY <1>1, LayerFound
<1>4. IsOfLayer(d, c)
  BY <1>3 DEF IsOfLayer, Layers
<1>5. RemoveAt(d.layers, k) = Cut(d.layers, k)
  BY <1>2, RemoveAtIsCut
<1>6. [d EXCEPT !.layers = RemoveAt(@, k)] = WithoutLayerAt(d, k)
  BY <1>2, <1>5 DEF WithoutLayerAt
<1>7. Apply(d, c) = RemoveLayer(d, c)
  BY <1>4, Dispatching, OpenIsNotProtected
<1>8. RemoveLayer(d, c) = Answer(WithoutLayerAt(d, k),
                                 [op |-> "AddLayer", layer |-> d.layers[k], index |-> k - 1,
                                  source |-> NoLayer, read |-> <<>>])
  BY <1>3, <1>6 DEF RemoveLayer
<1>9. c = [op |-> "RemoveLayer", layer |-> c.layer] => Takes(d, c)
  BY <1>4 DEF Takes, TakesRemoveLayer
<1>10. QED
  BY <1>7, <1>8, <1>9

\* AddLayer: the RemoveLayer it is answered with takes it back.
LEMMA AddingALayer ==
    ASSUME NEW d, IsDocument(d), NEW c, TakesAddLayer(d, c)
    PROVE  IsUndoable(Apply(d, c), d)
<1> DEFINE back == [op |-> "RemoveLayer", layer |-> c.layer.id]
<1>1. PICK k \in 1..(Len(d.layers) + 1), next \in Ids :
            /\ d.next <= next /\ c.layer.id < next
            /\ Apply(d, c) = Answer(WithLayerAt(d, k, c.layer, next), back)
  BY AddLayerAnswers
<1> DEFINE e == WithLayerAt(d, k, c.layer, next)
           new == Put(d.layers, k, c.layer)
<1>2. /\ c.layer \in Layers /\ c.layer.id \notin LayerIds(d) /\ c.layer.tree <= Len(d.trees)
      /\ ~c.layer.locked
  BY DEF TakesAddLayer
<1>3. IsDocument(e) /\ Cut(new, k) = d.layers /\ k \in 1..Len(new) /\ new[k] = c.layer
  BY <1>1, <1>2, PuttingALayer
<1>4. e.layers = new /\ e.trees = d.trees
  BY DEF WithLayerAt
<1> HIDE DEF e, new
<1>5. LeadsBack(back, e, d)
  <2>1. SUFFICES ASSUME NEW f, IsDocument(f), Within(e, f)
                 PROVE  Takes(f, back) /\ Within(d, Apply(f, back).doc)
    BY DEF LeadsBack
  <2>2. f.layers = new /\ Len(d.trees) <= Len(f.trees)
        /\ \A i \in 1..Len(d.trees) : SameTree(d.trees[i], f.trees[i])
    BY <1>4, <2>1 DEF Within
  <2>3. k \in 1..Len(f.layers) /\ ~f.layers[k].locked /\ f.layers[k].id = c.layer.id
    BY <1>2, <1>3, <2>2
  <2>4. back.op = "RemoveLayer" /\ back.layer = f.layers[k].id
        /\ back = [op |-> "RemoveLayer", layer |-> back.layer]
    BY <2>3
  <2>5. /\ Takes(f, back) \/ back # [op |-> "RemoveLayer", layer |-> back.layer]
        /\ Apply(f, back) = Answer(WithoutLayerAt(f, k),
                                   [op |-> "AddLayer", layer |-> f.layers[k], index |-> k - 1,
                                    source |-> NoLayer, read |-> <<>>])
    <3> HIDE DEF back
    <3>1. QED
      BY <2>1, <2>3, <2>4, RemoveLayerAnswers
  <2>6. Apply(f, back).doc = WithoutLayerAt(f, k)
    BY <2>5 DEF Answer
  <2>7. Within(d, WithoutLayerAt(f, k))
    BY <1>3, <2>2 DEF Within, WithoutLayerAt
  <2>8. QED
    BY <2>4, <2>5, <2>6, <2>7
<1>6. QED
  BY <1>1, <1>3, <1>5 DEF IsUndoable, Answer, e

\* RemoveLayer: the AddLayer it is answered with, at the index it had, takes it back.
LEMMA RemovingALayer ==
    ASSUME NEW d, IsDocument(d), NEW c, TakesRemoveLayer(d, c)
    PROVE  IsUndoable(Apply(d, c), d)
<1>1. c = [op |-> "RemoveLayer", layer |-> c.layer] /\ c.op = "RemoveLayer" /\ IsOfLayer(d, c)
  BY DEF TakesRemoveLayer
<1>2. d \in Records /\ HasOwnIds(d) /\ KnowsItsLayers(d) /\ DOMAIN d.layers = 1..Len(d.layers)
  BY DocumentsAreSound DEF Records
<1>3. PICK k \in 1..Len(d.layers) : d.layers[k].id = c.layer /\ ~d.layers[k].locked
      /\ d.layers[k] \in Layers /\ d.layers[k].tree <= Len(d.trees)
  <2>1. /\ IndexOfLayer(d, c.layer) \in 1..Len(d.layers)
        /\ d.layers[IndexOfLayer(d, c.layer)] = LayerOf(d, c.layer)
        /\ LayerOf(d, c.layer) \in Layers /\ LayerOf(d, c.layer).id = c.layer
    BY <1>1, <1>2, LayerThere DEF IsOfLayer
  <2>2. d.layers[IndexOfLayer(d, c.layer)].tree <= Len(d.trees)
    BY <1>2, <2>1 DEF KnowsItsLayers
  <2>3. QED
    BY <1>1, <2>1, <2>2 DEF IsOfLayer
<1> DEFINE e == WithoutLayerAt(d, k)
           new == Cut(d.layers, k)
           l == d.layers[k]
           back == [op |-> "AddLayer", layer |-> l, index |-> k - 1, source |-> NoLayer,
                    read |-> <<>>]
<1>4. Apply(d, c) = Answer(e, back)
  BY <1>1, <1>3, RemoveLayerAnswers
<1>5. /\ IsDocument(e) /\ l.id \notin LayerIds(e) /\ Put(new, k, l) = d.layers
      /\ Len(new) = Len(d.layers) - 1
  BY CuttingALayer
<1>6. e.layers = new /\ e.trees = d.trees
  BY DEF WithoutLayerAt
<1> HIDE DEF e, new, l
<1>7. LeadsBack(back, e, d)
  <2>1. SUFFICES ASSUME NEW f, IsDocument(f), Within(e, f)
                 PROVE  Takes(f, back) /\ Within(d, Apply(f, back).doc)
    BY DEF LeadsBack
  <2>2. f.layers = new /\ Len(d.trees) <= Len(f.trees)
        /\ \A i \in 1..Len(d.trees) : SameTree(d.trees[i], f.trees[i])
    BY <1>6, <2>1 DEF Within
  <2>3. Len(d.trees) \in Nat /\ Len(f.trees) \in Nat /\ Len(d.layers) \in Nat
    BY <1>2, <2>1, DocumentsAreSound DEF Records
  <2>4. TakesAddLayer(f, back)
    <3>1. l.id \notin LayerIds(f)
      BY <1>5, <1>6, <2>2, SameLayers
    <3>2. l \in Layers /\ l.tree <= Len(d.trees) /\ l.tree \in Nat /\ ~l.locked
      BY <1>3 DEF Layers, l
    <3>3. l.tree <= Len(f.trees)
      BY <2>2, <2>3, <3>2
    <3>4. QED
      BY <3>1, <3>2, <3>3 DEF TakesAddLayer
  <2>5. PICK j \in 1..(Len(f.layers) + 1), next \in Ids :
              /\ j = IF back.index < 0 \/ back.index > Len(f.layers) THEN Len(f.layers) + 1 ELSE back.index + 1
              /\ Apply(f, back) = Answer(WithLayerAt(f, j, back.layer, next),
                                         [op |-> "RemoveLayer", layer |-> back.layer.id])
    <3> HIDE DEF back
    <3>1. QED
      BY <2>1, <2>4, AddLayerAnswers
  <2>6. j = k
    <3>1. back.index = k - 1 /\ Len(f.layers) = Len(d.layers) - 1
      BY <1>5, <2>2
    <3> HIDE DEF back
    <3>2. QED
      BY <2>3, <2>5, <3>1
  <2>7. Apply(f, back).doc = WithLayerAt(f, k, l, next)
    BY <2>5, <2>6 DEF Answer
  <2>8. Within(d, WithLayerAt(f, k, l, next))
    BY <1>5, <2>2 DEF Within, WithLayerAt
  <2>9. QED
    BY <2>4, <2>7, <2>8 DEF Takes
<1>8. QED
  BY <1>4, <1>5, <1>7 DEF IsUndoable, Answer

-----------------------------------------------------------------------------
(* The setters of a layer's fields. *)

\* A layer that was rewritten can be read, and written back.
RestacksBack(e, d, id, m, l) ==
    \A f : IsDocument(f) /\ Within(e, f) =>
        /\ id \in LayerIds(f) /\ LayerOf(f, id) = m
        /\ HasTree(f, id) <=> HasTree(d, id)
        /\ Within(d, WithLayer(f, l))

\* A write of a layer's fields leaves a document, and can be taken back.
LEMMA WritingALayer ==
    ASSUME NEW d, IsDocument(d), NEW id \in LayerIds(d), NEW m \in Layers,
           m.id = LayerOf(d, id).id, m.tree = LayerOf(d, id).tree
    PROVE  IsDocument(WithLayer(d, m)) /\ RestacksBack(WithLayer(d, m), d, id, m, LayerOf(d, id))
<1> DEFINE l == LayerOf(d, id)
           k == IndexOfLayer(d, id)
           e == WithLayer(d, m)
<1>1. /\ d \in Records /\ HasOwnIds(d) /\ KnowsItsLayers(d)
      /\ \A i \in DOMAIN d.trees : IsTree(d.trees[i])
  BY DocumentsAreSound
<1>2. d.layers \in Seq(Layers) /\ d.next \in Ids /\ d.trees \in Seq(Trees)
      /\ DOMAIN d.layers = 1..Len(d.layers) /\ Len(d.layers) \in Nat
  BY <1>1 DEF Records
<1>3. k \in 1..Len(d.layers) /\ d.layers[k] = l /\ l \in Layers /\ l.id = id
  BY <1>1, LayerThere
<1>4. m.id = id /\ m.tree = l.tree
  BY <1>3
<1> HIDE DEF l, k
<1>5. e = [d EXCEPT !.layers = [d.layers EXCEPT ![k] = m]]
  BY <1>4 DEF WithLayer, k
<1>6. /\ e.layers = [d.layers EXCEPT ![k] = m] /\ e.trees = d.trees /\ e.next = d.next
      /\ e \in Records /\ Len(e.layers) = Len(d.layers) /\ DOMAIN e.layers = 1..Len(d.layers)
  <2> DEFINE list == [d.layers EXCEPT ![k] = m]
  <2>1. list \in Seq(Layers) /\ Len(list) = Len(d.layers) /\ DOMAIN list = 1..Len(d.layers)
    BY <1>2, <1>3
  <2>2. e = [d EXCEPT !.layers = list]
    BY <1>5
  <2> HIDE DEF list, e
  <2>3. e.layers = list /\ e.trees = d.trees /\ e.next = d.next /\ e \in Records
    BY <1>1, <2>1, <2>2 DEF Records
  <2>4. QED
    BY <2>1, <2>3 DEF list
<1> HIDE DEF e
<1>7. \A i \in 1..Len(d.layers) : e.layers[i] = IF i = k THEN m ELSE d.layers[i]
  BY <1>2, <1>6
<1>8. \A i \in 1..Len(d.layers) : e.layers[i].id = d.layers[i].id /\ e.layers[i].tree = d.layers[i].tree
  BY <1>3, <1>4, <1>7
<1>9. HasOwnIds(e)
  BY <1>1, <1>2, <1>6, <1>8 DEF HasOwnIds
<1>10. IsDocument(e)
  <2>1. KnowsItsLayers(e)
    BY <1>1, <1>2, <1>6, <1>8 DEF KnowsItsLayers
  <2>2. QED
    BY <1>1, <1>6, <1>9, <2>1, DocumentsAreSound
<1>11. IndexOfLayer(e, id) = k /\ LayerOf(e, id) = m /\ id \in LayerIds(e)
  <2>1. k \in 1..Len(e.layers) /\ e.layers[k] = m /\ e.layers[k].id = id
    BY <1>3, <1>4, <1>6, <1>7
  <2>2. QED
    BY <1>6, <1>9, <2>1, LayerFound
<1>12. ASSUME NEW f, IsDocument(f), Within(e, f)
       PROVE  /\ id \in LayerIds(f) /\ LayerOf(f, id) = m
              /\ HasTree(f, id) <=> HasTree(d, id)
              /\ Within(d, WithLayer(f, l))
  <2>1. e.layers = f.layers /\ Len(d.trees) <= Len(f.trees)
        /\ \A i \in 1..Len(d.trees) : SameTree(d.trees[i], f.trees[i])
    BY <1>6, <1>12 DEF Within
  <2>2. id \in LayerIds(f) /\ LayerOf(f, id) = m /\ IndexOfLayer(f, id) = k
    BY <1>11, <2>1, SameLayers
  <2>3. HasTree(f, id) <=> HasTree(d, id)
    BY <1>4, <2>2 DEF HasTree, l
  <2>4. f = [layers |-> f.layers, trees |-> f.trees, next |-> f.next]
    BY <1>12, DocumentsAreSound DEF Records
  <2>5. WithLayer(f, l) = [f EXCEPT !.layers = [f.layers EXCEPT ![k] = l]]
    BY <1>3, <2>2 DEF WithLayer
  <2>6. [[d.layers EXCEPT ![k] = m] EXCEPT ![k] = l] = d.layers
    BY <1>2, <1>3
  <2>7. [f.layers EXCEPT ![k] = l] = d.layers
    BY <1>6, <2>1, <2>6
  <2>8. WithLayer(f, l).layers = d.layers /\ WithLayer(f, l).trees = f.trees
    BY <2>4, <2>5, <2>7
  <2>9. Within(d, WithLayer(f, l))
    BY <2>1, <2>8 DEF Within
  <2>10. QED
    BY <2>2, <2>3, <2>9
<1>13. RestacksBack(e, d, id, m, l)
  BY <1>12 DEF RestacksBack
<1>14. QED
  BY <1>10, <1>13 DEF e, l

\* A write of a layer's look: the look read before takes it back.
LEMMA SettingTheLayersLook ==
    ASSUME NEW d, IsDocument(d), NEW c, TakesSetLayerLook(d, c)
    PROVE  IsUndoable(Apply(d, c), d)
<1> DEFINE l == LayerOf(d, c.layer)
           m == [l EXCEPT !.look = c.look]
           e == WithLayer(d, m)
           back == [op |-> "SetLayerLook", layer |-> c.layer, look |-> l.look]
<1>1. /\ c = [op |-> "SetLayerLook", layer |-> c.layer, look |-> c.look] /\ c.op = "SetLayerLook"
      /\ IsOfLayer(d, c) /\ c.layer \in LayerIds(d) /\ c.layer \in Ids /\ c.look \in AllLooks
  BY DEF TakesSetLayerLook, IsOfLayer
<1>2. l \in Layers /\ m \in Layers /\ m.id = l.id /\ m.tree = l.tree /\ m.look = c.look
  <2>1. l \in Layers
    BY <1>1, LayerThere, DocumentsAreSound
  <2> HIDE DEF l
  <2>2. QED
    BY <1>1, <2>1 DEF Layers
<1>3. Apply(d, c) = Answer(e, back)
  <2>1. Apply(d, c) = SetLayerLook(d, c)
    <3>1. ~EditsProtected(d, c)
      BY <1>1, OpenIsNotProtected
    <3>2. QED
      BY <1>1, <3>1, Dispatching
  <2>2. SetLayerLook(d, c) = Answer(e, [c EXCEPT !.look = l.look])
    BY <1>1 DEF SetLayerLook
  <2> HIDE DEF l
  <2>3. [c EXCEPT !.look = l.look] = back
    BY <1>1
  <2>4. QED
    BY <2>1, <2>2, <2>3
<1>4. IsDocument(e) /\ RestacksBack(e, d, c.layer, m, l)
  <2> HIDE DEF m
  <2>1. QED
    BY <1>1, <1>2, WritingALayer
<1> HIDE DEF l
<1>5. LeadsBack(back, e, d)
  <2>1. SUFFICES ASSUME NEW f, IsDocument(f), Within(e, f)
                 PROVE  Takes(f, back) /\ Within(d, Apply(f, back).doc)
    BY DEF LeadsBack
  <2>2. /\ c.layer \in LayerIds(f) /\ LayerOf(f, c.layer) = m
        /\ HasTree(f, c.layer) <=> HasTree(d, c.layer)
        /\ Within(d, WithLayer(f, l))
    BY <1>4, <2>1 DEF RestacksBack
  <2> HIDE DEF e
  <2>3. ~m.locked /\ IsOfLayer(f, back)
    <3>1. m.locked = l.locked /\ ~l.locked
      BY <1>1, <1>2 DEF IsOfLayer, Layers, l
    <3>2. QED
      BY <1>1, <2>2, <3>1 DEF IsOfLayer
  <2>4. TakesSetLayerLook(f, back)
    BY <1>1, <1>2, <2>2, <2>3 DEF TakesSetLayerLook, Layers
  <2>5. Apply(f, back) = SetLayerLook(f, back)
    <3>1. back.op = "SetLayerLook" /\ back.layer = c.layer
      OBVIOUS
    <3>2. ~EditsProtected(f, back)
      <4> HIDE DEF back
      <4>1. QED
        BY <2>3, OpenIsNotProtected
    <3> HIDE DEF back
    <3>3. QED
      BY <3>1, <3>2, Dispatching
  <2>6. Apply(f, back).doc = WithLayer(f, l)
    <3>1. [m EXCEPT !.look = l.look] = l
      BY <1>2 DEF Layers
    <3>2. SetLayerLook(f, back).doc = WithLayer(f, [m EXCEPT !.look = l.look])
      BY <1>1, <1>2, <2>2 DEF SetLayerLook, Answer
    <3>3. QED
      BY <2>5, <3>1, <3>2
  <2>7. QED
    BY <2>2, <2>4, <2>6 DEF Takes
<1>6. QED
  BY <1>3, <1>4, <1>5 DEF IsUndoable, Answer

\* SetLayerProtection: the lock read before takes it back, of a locked layer as well.
LEMMA SettingTheProtection ==
    ASSUME NEW d, IsDocument(d), NEW c, TakesSetLayerProtection(d, c)
    PROVE  IsUndoable(Apply(d, c), d)
<1> DEFINE l == LayerOf(d, c.layer)
           m == [l EXCEPT !.locked = c.locked]
           e == WithLayer(d, m)
           back == [op |-> "SetLayerProtection", layer |-> c.layer, locked |-> l.locked]
<1>1. /\ c = [op |-> "SetLayerProtection", layer |-> c.layer, locked |-> c.locked] /\ c.op = "SetLayerProtection"
      /\ c.layer \in LayerIds(d) /\ c.layer \in Ids /\ c.locked \in BOOLEAN
  BY DEF TakesSetLayerProtection
<1>2. l \in Layers /\ m \in Layers /\ m.id = l.id /\ m.tree = l.tree /\ m.locked = c.locked
  <2>1. l \in Layers
    BY <1>1, LayerThere, DocumentsAreSound
  <2> HIDE DEF l
  <2>2. QED
    BY <1>1, <2>1 DEF Layers
<1>3. Apply(d, c) = Answer(e, back)
  <2>1. Apply(d, c) = SetLayerProtection(d, c)
    <3>1. ~EditsProtected(d, c)
      BY <1>1 DEF EditsProtected
    <3>2. QED
      BY <1>1, <3>1, Dispatching
  <2>2. SetLayerProtection(d, c) = Answer(e, [c EXCEPT !.locked = l.locked])
    BY <1>1 DEF SetLayerProtection
  <2> HIDE DEF l
  <2>3. [c EXCEPT !.locked = l.locked] = back
    BY <1>1
  <2>4. QED
    BY <2>1, <2>2, <2>3
<1>4. IsDocument(e) /\ RestacksBack(e, d, c.layer, m, l)
  <2> HIDE DEF m
  <2>1. QED
    BY <1>1, <1>2, WritingALayer
<1> HIDE DEF l
<1>5. LeadsBack(back, e, d)
  <2>1. SUFFICES ASSUME NEW f, IsDocument(f), Within(e, f)
                 PROVE  Takes(f, back) /\ Within(d, Apply(f, back).doc)
    BY DEF LeadsBack
  <2>2. /\ c.layer \in LayerIds(f) /\ LayerOf(f, c.layer) = m
        /\ HasTree(f, c.layer) <=> HasTree(d, c.layer)
        /\ Within(d, WithLayer(f, l))
    BY <1>4, <2>1 DEF RestacksBack
  <2> HIDE DEF e
  <2>4. TakesSetLayerProtection(f, back)
    BY <1>1, <1>2, <2>2 DEF TakesSetLayerProtection, Layers
  <2>5. Apply(f, back) = SetLayerProtection(f, back)
    <3>1. back.op = "SetLayerProtection" /\ back.layer = c.layer
      OBVIOUS
    <3>2. ~EditsProtected(f, back)
      BY DEF EditsProtected
    <3> HIDE DEF back
    <3>3. QED
      BY <3>1, <3>2, Dispatching
  <2>6. Apply(f, back).doc = WithLayer(f, l)
    <3>1. [m EXCEPT !.locked = l.locked] = l
      BY <1>2 DEF Layers
    <3>2. SetLayerProtection(f, back).doc = WithLayer(f, [m EXCEPT !.locked = l.locked])
      BY <1>1, <1>2, <2>2 DEF SetLayerProtection, Answer
    <3>3. QED
      BY <2>5, <3>1, <3>2
  <2>7. QED
    BY <2>2, <2>4, <2>6 DEF Takes
<1>6. QED
  BY <1>3, <1>4, <1>5 DEF IsUndoable, Answer

\* SetLayerMirror: the symmetry read before takes it back.
LEMMA SettingTheSymmetry ==
    ASSUME NEW d, IsDocument(d), NEW c, TakesSetLayerSymmetry(d, c)
    PROVE  IsUndoable(Apply(d, c), d)
<1> DEFINE l == LayerOf(d, c.layer)
           m == [l EXCEPT !.symmetry = c.symmetry]
           e == WithLayer(d, m)
           back == [op |-> "SetLayerSymmetry", layer |-> c.layer, symmetry |-> l.symmetry]
<1>1. /\ c = [op |-> "SetLayerSymmetry", layer |-> c.layer, symmetry |-> c.symmetry] /\ c.op = "SetLayerSymmetry"
      /\ IsOfLayer(d, c) /\ c.layer \in LayerIds(d) /\ c.layer \in Ids /\ c.symmetry \in AllLooks /\ c.symmetry # l.symmetry
  BY DEF TakesSetLayerSymmetry, IsOfLayer
<1>2. l \in Layers /\ m \in Layers /\ m.id = l.id /\ m.tree = l.tree /\ m.symmetry = c.symmetry
  <2>1. l \in Layers
    BY <1>1, LayerThere, DocumentsAreSound
  <2> HIDE DEF l
  <2>2. QED
    BY <1>1, <2>1 DEF Layers
<1>3. Apply(d, c) = Answer(e, back)
  <2>1. Apply(d, c) = SetLayerSymmetry(d, c)
    <3>1. ~EditsProtected(d, c)
      BY <1>1, OpenIsNotProtected
    <3>2. QED
      BY <1>1, <3>1, Dispatching
  <2>2. SetLayerSymmetry(d, c) = Answer(e, [c EXCEPT !.symmetry = l.symmetry])
    BY <1>1 DEF SetLayerSymmetry, AlreadySet
  <2> HIDE DEF l
  <2>3. [c EXCEPT !.symmetry = l.symmetry] = back
    BY <1>1
  <2>4. QED
    BY <2>1, <2>2, <2>3
<1>4. IsDocument(e) /\ RestacksBack(e, d, c.layer, m, l)
  <2> HIDE DEF m
  <2>1. QED
    BY <1>1, <1>2, WritingALayer
<1> HIDE DEF l
<1>5. LeadsBack(back, e, d)
  <2>1. SUFFICES ASSUME NEW f, IsDocument(f), Within(e, f)
                 PROVE  Takes(f, back) /\ Within(d, Apply(f, back).doc)
    BY DEF LeadsBack
  <2>2. /\ c.layer \in LayerIds(f) /\ LayerOf(f, c.layer) = m
        /\ HasTree(f, c.layer) <=> HasTree(d, c.layer)
        /\ Within(d, WithLayer(f, l))
    BY <1>4, <2>1 DEF RestacksBack
  <2> HIDE DEF e
  <2>3. ~m.locked /\ IsOfLayer(f, back)
    <3>1. m.locked = l.locked /\ ~l.locked
      BY <1>1, <1>2 DEF IsOfLayer, Layers, l
    <3>2. QED
      BY <1>1, <2>2, <3>1 DEF IsOfLayer
  <2>4. TakesSetLayerSymmetry(f, back)
    BY <1>1, <1>2, <2>2, <2>3 DEF TakesSetLayerSymmetry, Layers
  <2>5. Apply(f, back) = SetLayerSymmetry(f, back)
    <3>1. back.op = "SetLayerSymmetry" /\ back.layer = c.layer
      OBVIOUS
    <3>2. ~EditsProtected(f, back)
      <4> HIDE DEF back
      <4>1. QED
        BY <2>3, OpenIsNotProtected
    <3> HIDE DEF back
    <3>3. QED
      BY <3>1, <3>2, Dispatching
  <2>6. Apply(f, back).doc = WithLayer(f, l)
    <3>1. [m EXCEPT !.symmetry = l.symmetry] = l
      BY <1>2 DEF Layers
    <3>2. SetLayerSymmetry(f, back).doc = WithLayer(f, [m EXCEPT !.symmetry = l.symmetry])
      BY <1>1, <1>2, <2>2 DEF SetLayerSymmetry, Answer, AlreadySet
    <3>3. QED
      BY <2>5, <3>1, <3>2
  <2>7. QED
    BY <2>2, <2>4, <2>6 DEF Takes
<1>6. QED
  BY <1>3, <1>4, <1>5 DEF IsUndoable, Answer

\* SetLayerComposition: the composition read before takes it back.
LEMMA SettingTheComposition ==
    ASSUME NEW d, IsDocument(d), NEW c, TakesSetLayerComposition(d, c)
    PROVE  IsUndoable(Apply(d, c), d)
<1> DEFINE l == LayerOf(d, c.layer)
           m == [l EXCEPT !.composition = c.composition]
           e == WithLayer(d, m)
           back == [op |-> "SetLayerComposition", layer |-> c.layer, composition |-> l.composition]
<1>1. /\ c = [op |-> "SetLayerComposition", layer |-> c.layer, composition |-> c.composition] /\ c.op = "SetLayerComposition"
      /\ IsOfLayer(d, c) /\ c.layer \in LayerIds(d) /\ c.layer \in Ids /\ c.composition \in AllLooks /\ HasTree(d, c.layer)
  BY DEF TakesSetLayerComposition, IsOfLayer
<1>2. l \in Layers /\ m \in Layers /\ m.id = l.id /\ m.tree = l.tree /\ m.composition = c.composition
  <2>1. l \in Layers
    BY <1>1, LayerThere, DocumentsAreSound
  <2> HIDE DEF l
  <2>2. QED
    BY <1>1, <2>1 DEF Layers
<1>3. Apply(d, c) = Answer(e, back)
  <2>1. Apply(d, c) = SetLayerComposition(d, c)
    <3>1. ~EditsProtected(d, c)
      BY <1>1, OpenIsNotProtected
    <3>2. QED
      BY <1>1, <3>1, Dispatching
  <2>2. SetLayerComposition(d, c) = Answer(e, [c EXCEPT !.composition = l.composition])
    BY <1>1 DEF SetLayerComposition
  <2> HIDE DEF l
  <2>3. [c EXCEPT !.composition = l.composition] = back
    BY <1>1
  <2>4. QED
    BY <2>1, <2>2, <2>3
<1>4. IsDocument(e) /\ RestacksBack(e, d, c.layer, m, l)
  <2> HIDE DEF m
  <2>1. QED
    BY <1>1, <1>2, WritingALayer
<1> HIDE DEF l
<1>5. LeadsBack(back, e, d)
  <2>1. SUFFICES ASSUME NEW f, IsDocument(f), Within(e, f)
                 PROVE  Takes(f, back) /\ Within(d, Apply(f, back).doc)
    BY DEF LeadsBack
  <2>2. /\ c.layer \in LayerIds(f) /\ LayerOf(f, c.layer) = m
        /\ HasTree(f, c.layer) <=> HasTree(d, c.layer)
        /\ Within(d, WithLayer(f, l))
    BY <1>4, <2>1 DEF RestacksBack
  <2> HIDE DEF e
  <2>3. ~m.locked /\ IsOfLayer(f, back)
    <3>1. m.locked = l.locked /\ ~l.locked
      BY <1>1, <1>2 DEF IsOfLayer, Layers, l
    <3>2. QED
      BY <1>1, <2>2, <3>1 DEF IsOfLayer
  <2>4. TakesSetLayerComposition(f, back)
    BY <1>1, <1>2, <2>2, <2>3 DEF TakesSetLayerComposition, Layers
  <2>5. Apply(f, back) = SetLayerComposition(f, back)
    <3>1. back.op = "SetLayerComposition" /\ back.layer = c.layer
      OBVIOUS
    <3>2. ~EditsProtected(f, back)
      <4> HIDE DEF back
      <4>1. QED
        BY <2>3, OpenIsNotProtected
    <3> HIDE DEF back
    <3>3. QED
      BY <3>1, <3>2, Dispatching
  <2>6. Apply(f, back).doc = WithLayer(f, l)
    <3>1. [m EXCEPT !.composition = l.composition] = l
      BY <1>2 DEF Layers
    <3>2. SetLayerComposition(f, back).doc = WithLayer(f, [m EXCEPT !.composition = l.composition])
      BY <1>1, <1>2, <2>2 DEF SetLayerComposition, Answer
    <3>3. QED
      BY <2>5, <3>1, <3>2
  <2>7. QED
    BY <2>2, <2>4, <2>6 DEF Takes
<1>6. QED
  BY <1>3, <1>4, <1>5 DEF IsUndoable, Answer

-----------------------------------------------------------------------------
(* The whole vocabulary: what answers a command a document takes is its inverse. *)

\* scene::apply: a command a document takes is answered with its inverse, which takes
\* every document that shows the one left back to one that shows the one before.
THEOREM EveryCommandIsUndoable ==
    ASSUME NEW d, IsDocument(d), NEW c, Takes(d, c)
    PROVE  IsUndoable(Apply(d, c), d)
BY AddingANode, RemovingTheNode, MovingTheNode, SettingTheLook, SettingThePrim,
   AppendingToAStroke, TrimmingAStroke, SettingThePoints, SettingTheArmature,
   AddingALayer, RemovingALayer, SettingTheLayersLook, SettingTheProtection,
   SettingTheSymmetry, SettingTheComposition DEF Takes

-----------------------------------------------------------------------------
(* Entries of one command or two. *)

\* The sets a fold over two goes through.
LEMMA FirstTwo ==
    /\ \A s \in SUBSET (1..2) : s = {} \/ s = {1} \/ s = {2} \/ s = {1, 2}
    /\ \A s \in SUBSET (1..1) : s = {} \/ s = {1}
    /\ 1..1 = {1} /\ 1..2 = {1, 2}
    /\ Max({1}) = 1 /\ Max({2}) = 2 /\ Max({1, 2}) = 2
<1>1. 1..1 = {1} /\ 1..2 = {1, 2}
  OBVIOUS
<1>2. \A s \in SUBSET {1, 2} : s = {} \/ s = {1} \/ s = {2} \/ s = {1, 2}
  OBVIOUS
<1>3. \A s \in SUBSET {1} : s = {} \/ s = {1}
  OBVIOUS
<1>4. ASSUME NEW s \in SUBSET {1, 2}, s # {} PROVE Max(s) \in s /\ \A x \in s : x <= Max(s)
  <2>1. IsFiniteSet({1})
    BY FS_Singleton
  <2>2. IsFiniteSet({1} \cup {2})
    BY <2>1, FS_AddElement
  <2>3. {1} \cup {2} = {1, 2}
    OBVIOUS
  <2>4. s \in SUBSET Nat
    OBVIOUS
  <2>5. IsFiniteSet(s)
    BY <2>2, <2>3, FS_Subset
  <2>6. QED
    BY <1>4, <2>4, <2>5, GreatestOf
<1>5. Max({1}) = 1
  BY <1>4
<1>6. Max({2}) = 2
  BY <1>4
<1>7. Max({1, 2}) = 2
  BY <1>4
<1>8. QED
  BY <1>1, <1>2, <1>3, <1>5, <1>6, <1>7

\* Where a replay starts.
Unreplayed(d) == [doc |-> d, opposite |-> <<>>]

\* replay of an entry of one command.
LEMMA ReplayingOne ==
    ASSUME NEW d, NEW c
    PROVE  Replayed(d, <<c>>) = Collected(Unreplayed(d), Apply(d, c))
<1> DEFINE base == [doc |-> d, opposite |-> <<>>]
           Step(acc, x) == Collected(acc, Apply(acc.doc, x))
           seq == Reverse(<<c>>)
           Iter(it) == it = [s \in SUBSET (DOMAIN seq) |->
                                IF s = {} THEN base
                                ELSE Step(it[s \ {Max(s)}], seq[Max(s)])]
           iter == CHOOSE it : Iter(it)
           h == [s \in SUBSET (1..1) |-> IF s = {} THEN base ELSE Step(base, c)]
<1>1. Replayed(d, <<c>>) = iter[DOMAIN seq]
  BY Zenon DEF Replayed, FoldLeft, MapThenFoldSet
<1>2. DOMAIN seq = 1..1 /\ seq[1] = c
  BY DEF Reverse
<1>3. base.doc = d
  OBVIOUS
<1> HIDE DEF seq, base
<1>4. Iter(h)
  <2> HIDE DEF Step
  <2>1. h = [s \in SUBSET (1..1) |-> h[s]]
    OBVIOUS
  <2>2. h[{}] = base /\ h[{1}] = Step(base, c)
    OBVIOUS
  <2> HIDE DEF h
  <2>3. ASSUME NEW s \in SUBSET (1..1)
        PROVE  h[s] = IF s = {} THEN base ELSE Step(h[s \ {Max(s)}], seq[Max(s)])
    <3>1. CASE s = {}
      BY <2>2, <3>1
    <3>2. CASE s = {1}
      <4>1. Max(s) = 1
        BY <3>2, FirstTwo
      <4>2. s # {} /\ s \ {Max(s)} = {}
        BY <3>2, <4>1
      <4>3. seq[Max(s)] = c
        BY <1>2, <4>1
      <4>4. QED
        BY <2>2, <3>2, <4>2, <4>3
    <3>3. QED
      BY <3>1, <3>2, FirstTwo
  <2>4. QED
    BY <1>2, <2>1, <2>3
<1>5. Iter(iter)
  <2> HIDE DEF Iter, h
  <2>1. QED
    BY <1>4
<1> HIDE DEF iter, h, Step
<1>6. iter[{1}] = Step(iter[{}], c) /\ iter[{}] = base
  <2>1. \A s \in SUBSET (1..1) : iter[s] = IF s = {} THEN base ELSE Step(iter[s \ {Max(s)}], seq[Max(s)])
    BY <1>2, <1>5
  <2>2. {} \in SUBSET (1..1) /\ {1} \in SUBSET (1..1) /\ {1} # {} /\ {1} \ {1} = {}
    OBVIOUS
  <2>3. iter[{1}] = Step(iter[{1} \ {Max({1})}], seq[Max({1})]) /\ iter[{}] = base
    BY <2>1, <2>2
  <2>4. Max({1}) = 1
    BY FirstTwo
  <2>5. QED
    BY <1>2, <2>2, <2>3, <2>4
<1>7. iter[DOMAIN seq] = Step(base, c)
  BY <1>2, <1>6, FirstTwo
<1>8. QED
  BY <1>1, <1>3, <1>7 DEF Step, base, Unreplayed

\* replay of an entry of two: the newest first.
LEMMA ReplayingTwo ==
    ASSUME NEW d, NEW b, NEW c
    PROVE  LET one == Collected(Unreplayed(d), Apply(d, c)) IN
           Replayed(d, <<b, c>>) = Collected(one, Apply(one.doc, b))
<1> DEFINE base == [doc |-> d, opposite |-> <<>>]
           Step(acc, x) == Collected(acc, Apply(acc.doc, x))
           seq == Reverse(<<b, c>>)
           Iter(it) == it = [s \in SUBSET (DOMAIN seq) |->
                                IF s = {} THEN base
                                ELSE Step(it[s \ {Max(s)}], seq[Max(s)])]
           iter == CHOOSE it : Iter(it)
           h == [s \in SUBSET (1..2) |-> IF s = {} THEN base
                                         ELSE IF s = {1} THEN Step(base, c)
                                         ELSE IF s = {2} THEN Step(base, b)
                                         ELSE Step(Step(base, c), b)]
<1>1. Replayed(d, <<b, c>>) = iter[DOMAIN seq]
  BY Zenon DEF Replayed, FoldLeft, MapThenFoldSet
<1>2. DOMAIN seq = 1..2 /\ seq[1] = c /\ seq[2] = b
  BY DEF Reverse
<1>3. base.doc = d
  OBVIOUS
<1> HIDE DEF seq, base
<1>4. Iter(h)
  <2> HIDE DEF Step
  <2>0. h = [s \in SUBSET (1..2) |-> h[s]]
    OBVIOUS
  <2>1. h[{}] = base /\ h[{1}] = Step(base, c) /\ h[{2}] = Step(base, b)
        /\ h[{1, 2}] = Step(Step(base, c), b)
    BY FirstTwo
  <2>2. {1} \ {1} = {} /\ {2} \ {2} = {} /\ {1, 2} \ {2} = {1} /\ {1} # {} /\ {2} # {} /\ {1, 2} # {}
    OBVIOUS
  <2> HIDE DEF h
  <2>3. ASSUME NEW s \in SUBSET (1..2)
        PROVE  h[s] = IF s = {} THEN base ELSE Step(h[s \ {Max(s)}], seq[Max(s)])
    <3>1. CASE s = {}
      BY <2>1, <3>1
    <3>2. CASE s = {1}
      <4>1. Max(s) = 1
        BY <3>2, FirstTwo
      <4>2. s # {} /\ s \ {Max(s)} = {} /\ seq[Max(s)] = c
        BY <1>2, <3>2, <4>1
      <4>3. QED
        BY <2>1, <3>2, <4>2
    <3>3. CASE s = {2}
      <4>1. Max(s) = 2
        BY <3>3, FirstTwo
      <4>2. s # {} /\ s \ {Max(s)} = {} /\ seq[Max(s)] = b
        BY <1>2, <3>3, <4>1
      <4>3. QED
        BY <2>1, <3>3, <4>2
    <3>4. CASE s = {1, 2}
      <4>1. Max(s) = 2
        BY <3>4, FirstTwo
      <4>2. s # {} /\ s \ {Max(s)} = {1} /\ seq[Max(s)] = b
        BY <1>2, <3>4, <4>1
      <4>3. QED
        BY <2>1, <3>4, <4>2
    <3>5. QED
      BY <3>1, <3>2, <3>3, <3>4, FirstTwo
  <2>4. QED
    BY <1>2, <2>0, <2>3
<1>5. Iter(iter)
  <2> HIDE DEF Iter, h
  <2>1. QED
    BY <1>4
<1> HIDE DEF iter, h, Step
<1>6. /\ iter[{1, 2}] = Step(iter[{1}], b)
      /\ iter[{1}] = Step(iter[{}], c) /\ iter[{}] = base
  <2>1. {1} \ {1} = {} /\ {1, 2} \ {2} = {1} /\ {1} # {} /\ {1, 2} # {}
    OBVIOUS
  <2>2. \A s \in SUBSET (1..2) : iter[s] = IF s = {} THEN base ELSE Step(iter[s \ {Max(s)}], seq[Max(s)])
    BY <1>2, <1>5
  <2>3. {} \in SUBSET (1..2) /\ {1} \in SUBSET (1..2) /\ {1, 2} \in SUBSET (1..2)
    OBVIOUS
  <2>4. iter[{}] = base
    BY <2>2, <2>3
  <2>5. iter[{1}] = Step(iter[{1} \ {Max({1})}], seq[Max({1})])
    BY <2>1, <2>2, <2>3
  <2>6. iter[{1, 2}] = Step(iter[{1, 2} \ {Max({1, 2})}], seq[Max({1, 2})])
    BY <2>1, <2>2, <2>3
  <2>7. Max({1}) = 1 /\ Max({1, 2}) = 2
    BY FirstTwo
  <2>8. iter[{1}] = Step(iter[{}], c)
    BY <1>2, <2>1, <2>5, <2>7
  <2>9. iter[{1, 2}] = Step(iter[{1}], b)
    BY <1>2, <2>1, <2>6, <2>7
  <2>10. QED
    BY <2>4, <2>8, <2>9
<1>7. iter[DOMAIN seq] = Step(Step(base, c), b)
  BY <1>2, <1>6, FirstTwo
<1>8. QED
  BY <1>1, <1>3, <1>7 DEF Step, base, Unreplayed

\* An entry that takes every document that shows d back to one that shows e.
IsEntry(entry, d, e) ==
    \/ \E c : entry = <<c>> /\ LeadsBack(c, d, e)
    \/ \E b, c, m : /\ entry = <<b, c>> /\ IsDocument(m)
                    /\ LeadsBack(c, d, m) /\ LeadsBack(b, m, e)

\* An entry that leads somewhere holds a command.
LEMMA EntryIsNotEmpty ==
    ASSUME NEW entry, NEW d, NEW e, IsEntry(entry, d, e)
    PROVE  entry # <<>>
BY DEF IsEntry

\* A command leads from documents that show more to documents that show less.
LEMMA LeadsFurther ==
    ASSUME NEW c, NEW d, IsDocument(d), NEW e, IsDocument(e), NEW d2, IsDocument(d2), Within(d, d2),
           NEW e2, IsDocument(e2), Within(e2, e), LeadsBack(c, d, e)
    PROVE  LeadsBack(c, d2, e2)
<1>1. SUFFICES ASSUME NEW f, IsDocument(f), Within(d2, f)
               PROVE  Takes(f, c) /\ Within(e2, Apply(f, c).doc)
  BY DEF LeadsBack
<1>2. d \in Records /\ d2 \in Records /\ f \in Records /\ e \in Records /\ e2 \in Records
  BY <1>1, DocumentsAreSound
<1>3. Within(d, f)
  BY <1>1, <1>2, WithinThrough
<1>4. Takes(f, c) /\ Within(e, Apply(f, c).doc)
  BY <1>1, <1>3 DEF LeadsBack
<1>5. IsDocument(Apply(f, c).doc)
  BY <1>1, <1>4, EveryCommandIsUndoable DEF IsUndoable
<1>6. Within(e2, Apply(f, c).doc)
  BY <1>2, <1>4, <1>5, WithinThrough, DocumentsAreSound
<1>7. QED
  BY <1>4, <1>6

\* So does an entry.
LEMMA EntryLeadsFurther ==
    ASSUME NEW entry, NEW d, IsDocument(d), NEW e, IsDocument(e), NEW d2, IsDocument(d2), Within(d, d2),
           NEW e2, IsDocument(e2), Within(e2, e), IsEntry(entry, d, e)
    PROVE  IsEntry(entry, d2, e2)
<1>1. CASE \E c : entry = <<c>> /\ LeadsBack(c, d, e)
  <2>1. PICK c : entry = <<c>> /\ LeadsBack(c, d, e)
    BY <1>1
  <2>2. LeadsBack(c, d2, e2)
    BY <2>1, LeadsFurther
  <2>3. QED
    BY <2>1, <2>2 DEF IsEntry
<1>2. CASE \E b, c, m : /\ entry = <<b, c>> /\ IsDocument(m)
                        /\ LeadsBack(c, d, m) /\ LeadsBack(b, m, e)
  <2>1. PICK b, c, m : /\ entry = <<b, c>> /\ IsDocument(m)
                       /\ LeadsBack(c, d, m) /\ LeadsBack(b, m, e)
    BY <1>2
  <2>2. Within(m, m)
    BY <2>1, WithinItself, DocumentsAreSound
  <2>3. LeadsBack(c, d2, m)
    BY <2>1, <2>2, LeadsFurther
  <2>4. LeadsBack(b, m, e2)
    BY <2>1, <2>2, LeadsFurther
  <2>5. QED
    BY <2>1, <2>3, <2>4 DEF IsEntry
<1>3. QED
  BY <1>1, <1>2 DEF IsEntry

\* replay: the entry goes back, and what it answers is an entry that goes forth again.
LEMMA ReplayingAnEntry ==
    ASSUME NEW entry, NEW d, NEW e, IsDocument(e), IsEntry(entry, d, e),
           NEW f, IsDocument(f), Within(d, f)
    PROVE  /\ IsDocument(Replayed(f, entry).doc) /\ Within(e, Replayed(f, entry).doc)
           /\ IsEntry(Replayed(f, entry).opposite, Replayed(f, entry).doc, f)
<1>1. CASE \E c : entry = <<c>> /\ LeadsBack(c, d, e)
  <2>1. PICK c : entry = <<c>> /\ LeadsBack(c, d, e)
    BY <1>1
  <2> DEFINE a == Apply(f, c)
  <2>2. Takes(f, c) /\ Within(e, a.doc)
    BY <2>1 DEF LeadsBack
  <2>3. a.ok /\ IsDocument(a.doc) /\ LeadsBack(a.inverse, a.doc, f)
    BY <2>2, EveryCommandIsUndoable DEF IsUndoable
  <2>4. Replayed(f, entry) = Collected(Unreplayed(f), a)
    BY <2>1, ReplayingOne
  <2> HIDE DEF a
  <2>5. Replayed(f, entry) = [doc |-> a.doc, opposite |-> <<a.inverse>>]
    BY <2>3, <2>4 DEF Collected, Unreplayed
  <2>6. QED
    BY <2>2, <2>3, <2>5 DEF IsEntry
<1>2. CASE \E b, c, m : /\ entry = <<b, c>> /\ IsDocument(m)
                        /\ LeadsBack(c, d, m) /\ LeadsBack(b, m, e)
  <2>1. PICK b, c, m : /\ entry = <<b, c>> /\ IsDocument(m)
                       /\ LeadsBack(c, d, m) /\ LeadsBack(b, m, e)
    BY <1>2
  <2> DEFINE x == Apply(f, c)
             y == Apply(x.doc, b)
             one == Collected(Unreplayed(f), x)
  <2>2. Takes(f, c) /\ Within(m, x.doc)
    BY <2>1 DEF LeadsBack
  <2>3. x.ok /\ IsDocument(x.doc) /\ LeadsBack(x.inverse, x.doc, f)
    BY <2>2, EveryCommandIsUndoable DEF IsUndoable
  <2>4. Takes(x.doc, b) /\ Within(e, y.doc)
    BY <2>1, <2>2, <2>3 DEF LeadsBack
  <2>5. y.ok /\ IsDocument(y.doc) /\ LeadsBack(y.inverse, y.doc, x.doc)
    BY <2>3, <2>4, EveryCommandIsUndoable DEF IsUndoable
  <2>6. one = [doc |-> x.doc, opposite |-> <<x.inverse>>]
    <3> HIDE DEF x
    <3>1. QED
      BY <2>3 DEF Collected, Unreplayed
  <2>7. Replayed(f, entry) = Collected(one, Apply(one.doc, b))
    BY <2>1, ReplayingTwo
  <2>8. Replayed(f, entry) = Collected(one, y)
    BY <2>6, <2>7
  <2> HIDE DEF x, y, one
  <2>9. Replayed(f, entry) = [doc |-> y.doc, opposite |-> <<x.inverse, y.inverse>>]
    BY <2>5, <2>6, <2>8 DEF Collected
  <2>10. IsEntry(<<x.inverse, y.inverse>>, y.doc, f)
    BY <2>3, <2>5 DEF IsEntry
  <2>11. QED
    BY <2>4, <2>5, <2>9, <2>10
<1>3. QED
  BY <1>1, <1>2 DEF IsEntry

-----------------------------------------------------------------------------
(* Stacks of entries. *)

\* A list, of whatever elements.
IsList(s) == \E X : s \in Seq(X)

\* The facts of lists that need no set of elements.
LEMMA Listing ==
    ASSUME NEW s, IsList(s)
    PROVE  /\ Len(s) \in Nat /\ (s = <<>> <=> Len(s) = 0)
           /\ \A x : /\ IsList(Append(s, x)) /\ Len(Append(s, x)) = Len(s) + 1
                     /\ \A i \in 1..Len(s) : Append(s, x)[i] = s[i]
                     /\ Append(s, x)[Len(s) + 1] = x
                     /\ Front(Append(s, x)) = s /\ Last(Append(s, x)) = x
           /\ s # <<>> => /\ IsList(Front(s)) /\ Len(Front(s)) = Len(s) - 1
                          /\ \A i \in 1..(Len(s) - 1) : Front(s)[i] = s[i]
                          /\ Last(s) = s[Len(s)]
<1>1. PICK X : s \in Seq(X)
  BY DEF IsList
<1>2. ASSUME NEW x
      PROVE  /\ IsList(Append(s, x)) /\ Len(Append(s, x)) = Len(s) + 1
             /\ \A i \in 1..Len(s) : Append(s, x)[i] = s[i]
             /\ Append(s, x)[Len(s) + 1] = x
             /\ Front(Append(s, x)) = s /\ Last(Append(s, x)) = x
  <2> DEFINE Y == X \cup {x}
             t == Append(s, x)
  <2>1. s \in Seq(Y)
    BY <1>1
  <2>2. /\ t \in Seq(Y) /\ Len(t) = Len(s) + 1
        /\ \A i \in 1..Len(s) : t[i] = s[i]
        /\ t[Len(s) + 1] = x
    BY <2>1
  <2>3. Front(t) = SubSeq(t, 1, Len(s)) /\ Last(t) = x
    BY <1>1, <2>2 DEF Front, Last
  <2>4. SubSeq(t, 1, Len(s)) = s
    BY <2>1, <2>2
  <2>5. QED
    BY <2>2, <2>3, <2>4 DEF IsList
<1>3. ASSUME s # <<>>
      PROVE  /\ IsList(Front(s)) /\ Len(Front(s)) = Len(s) - 1
             /\ \A i \in 1..(Len(s) - 1) : Front(s)[i] = s[i]
             /\ Last(s) = s[Len(s)]
  <2>1. Len(s) - 1 \in 0..Len(s)
    BY <1>1, <1>3
  <2>2. Front(s) = SubSeq(s, 1, Len(s) - 1) /\ Last(s) = s[Len(s)]
    BY DEF Front, Last
  <2> DEFINE k == Len(s) - 1
             short == SubSeq(s, 1, k)
  <2>3. k \in Nat /\ 1 \in 1..(Len(s) + 1) /\ k \in 0..Len(s) /\ k - 1 + 1 = k
    BY <1>1, <2>1
  <2> HIDE DEF k
  <2>4. short \in Seq(X)
        /\ Len(short) = (IF 1 <= k THEN k - 1 + 1 ELSE 0)
        /\ \A i \in 1..(k - 1 + 1) : short[i] = s[1 + i - 1]
    BY <1>1, <2>3, SubSeqProperties
  <2> HIDE DEF short
  <2>5. Len(short) = k
    BY <2>3, <2>4
  <2>6. ASSUME NEW i \in 1..k PROVE short[i] = s[i]
    <3>1. i \in 1..(k - 1 + 1) /\ 1 + i - 1 = i
      BY <2>3
    <3>2. QED
      BY <2>4, <3>1
  <2>7. QED
    BY <2>2, <2>4, <2>5, <2>6 DEF IsList, k, short
<1>4. Len(s) \in Nat /\ (s = <<>> <=> Len(s) = 0)
  BY <1>1
<1>5. QED
  BY <1>2, <1>3, <1>4

\* The documents a stack leads through from d, the nearest last.
LeadsThrough(stack, L, d) ==
    /\ IsList(stack)
    /\ L = [i \in 0..Len(stack) |-> L[i]] /\ \A i \in 0..Len(stack) : IsDocument(L[i])
    /\ Within(L[Len(stack)], d)
    /\ \A i \in 1..Len(stack) : IsEntry(stack[i], L[i], L[i - 1])

\* An empty stack leads nowhere.
LEMMA NoSteps ==
    ASSUME NEW d, IsDocument(d)
    PROVE  LeadsThrough(<<>>, [i \in 0..0 |-> d], d)
<1>1. IsList(<<>>) /\ Len(<<>>) = 0
  <2>1. <<>> \in Seq({})
    OBVIOUS
  <2>2. QED
    BY <2>1 DEF IsList
<1>2. Within(d, d)
  BY WithinItself, DocumentsAreSound
<1>3. QED
  BY <1>1, <1>2 DEF LeadsThrough

\* A stack that leads on from a document leads on from one that shows it.
LEMMA StackLeadsFurther ==
    ASSUME NEW stack, NEW L, NEW d, IsDocument(d), LeadsThrough(stack, L, d),
           NEW e, IsDocument(e), Within(d, e)
    PROVE  LeadsThrough(stack, L, e)
<1>1. Len(stack) \in Nat
  BY Listing DEF LeadsThrough
<1>2. IsDocument(L[Len(stack)])
  BY <1>1 DEF LeadsThrough
<1>3. Within(L[Len(stack)], e)
  BY <1>2, WithinThrough, DocumentsAreSound DEF LeadsThrough
<1>4. QED
  BY <1>3 DEF LeadsThrough

\* One step more: from the entry's document back to the one the stack led from.
Longer(L, n, e) == [i \in 0..(n + 1) |-> IF i = n + 1 THEN e ELSE L[i]]

\* An entry pushed leads back to where the stack led on from.
LEMMA Pushing ==
    ASSUME NEW stack, NEW L, NEW d, IsDocument(d), LeadsThrough(stack, L, d),
           NEW e, IsDocument(e), NEW entry, IsEntry(entry, e, d)
    PROVE  LeadsThrough(Append(stack, entry), Longer(L, Len(stack), e), e)
<1> DEFINE n == Len(stack)
           M == Longer(L, n, e)
           new == Append(stack, entry)
<1>1. /\ n \in Nat /\ IsList(new) /\ Len(new) = n + 1
      /\ \A i \in 1..n : new[i] = stack[i]
      /\ new[n + 1] = entry
  BY Listing DEF LeadsThrough
<1>2. /\ \A i \in 0..n : IsDocument(L[i])
      /\ Within(L[n], d)
      /\ \A i \in 1..n : IsEntry(stack[i], L[i], L[i - 1])
  BY DEF LeadsThrough
<1> HIDE DEF n, new
<1>3. /\ M = [i \in 0..(n + 1) |-> M[i]] /\ M[n + 1] = e
      /\ \A i \in 0..n : M[i] = L[i]
  BY <1>1 DEF Longer
<1> HIDE DEF M
<1>4. ASSUME NEW i \in 0..(n + 1) PROVE IsDocument(M[i])
  <2>1. i = n + 1 \/ i \in 0..n
    BY <1>1
  <2>2. QED
    BY <1>2, <1>3, <2>1
<1>5. Within(e, e)
  BY WithinItself, DocumentsAreSound
<1>6. IsEntry(entry, e, L[n])
  <2>1. IsDocument(L[n])
    BY <1>1, <1>2
  <2>2. QED
    BY <1>2, <1>5, <2>1, EntryLeadsFurther
<1>7. ASSUME NEW i \in 1..(n + 1) PROVE IsEntry(new[i], M[i], M[i - 1])
  <2>1. CASE i = n + 1
    <3>1. i - 1 = n /\ n \in 0..n
      BY <1>1, <2>1
    <3>2. M[i - 1] = L[n] /\ M[i] = e /\ new[i] = entry
      BY <1>1, <1>3, <2>1, <3>1
    <3>3. QED
      BY <1>6, <3>2
  <2>2. CASE i # n + 1
    <3>1. i \in 1..n /\ i - 1 \in 0..n /\ i \in 0..n
      BY <1>1, <2>2
    <3>2. QED
      BY <1>1, <1>2, <1>3, <3>1
  <2>3. QED
    BY <2>1, <2>2
<1>8. LeadsThrough(new, M, e)
  BY <1>1, <1>3, <1>4, <1>5, <1>7 DEF LeadsThrough
<1>9. QED
  BY <1>8 DEF n, M, new

\* One step less.
Shorter(L, n) == [i \in 0..(n - 1) |-> L[i]]

\* Without its last entry the stack leads on from where that entry leads.
LEMMA Popping ==
    ASSUME NEW stack, stack # <<>>, NEW L, NEW d, LeadsThrough(stack, L, d),
           NEW e, Within(L[Len(stack) - 1], e)
    PROVE  /\ LeadsThrough(Front(stack), Shorter(L, Len(stack)), e)
           /\ IsEntry(Last(stack), L[Len(stack)], L[Len(stack) - 1])
           /\ IsDocument(L[Len(stack)]) /\ IsDocument(L[Len(stack) - 1])
           /\ Within(L[Len(stack)], d) /\ Len(stack) \in Nat \ {0}
<1> DEFINE n == Len(stack)
           M == Shorter(L, n)
           new == Front(stack)
<1>1. /\ n \in Nat /\ n # 0 /\ IsList(new) /\ Len(new) = n - 1
      /\ \A i \in 1..(n - 1) : new[i] = stack[i]
      /\ Last(stack) = stack[n]
  BY Listing DEF LeadsThrough
<1>2. /\ \A i \in 0..n : IsDocument(L[i])
      /\ Within(L[n], d)
      /\ \A i \in 1..n : IsEntry(stack[i], L[i], L[i - 1])
  BY DEF LeadsThrough
<1>3. Within(L[n - 1], e)
  OBVIOUS
<1> HIDE DEF n, new
<1>4. M = [i \in 0..(n - 1) |-> M[i]] /\ \A i \in 0..(n - 1) : M[i] = L[i]
  BY <1>1 DEF Shorter
<1> HIDE DEF M
<1>5. \A i \in 0..(n - 1) : IsDocument(M[i])
  BY <1>1, <1>2, <1>4
<1>6. Within(M[n - 1], e)
  BY <1>1, <1>3, <1>4
<1>7. ASSUME NEW i \in 1..(n - 1) PROVE IsEntry(new[i], M[i], M[i - 1])
  <2>1. i \in 1..n /\ i \in 0..(n - 1) /\ i - 1 \in 0..(n - 1)
    BY <1>1
  <2>2. QED
    BY <1>1, <1>2, <1>4, <2>1
<1>8. LeadsThrough(new, M, e)
  BY <1>1, <1>4, <1>5, <1>6, <1>7 DEF LeadsThrough
<1>9. n \in 1..n /\ n \in 0..n /\ n - 1 \in 0..n
  BY <1>1
<1>10. QED
  BY <1>1, <1>2, <1>8, <1>9 DEF n, M, new

\* Storing a node writes the nodes alone.
LEMMA StoringIn ==
    ASSUME NEW t, IsShaped(t), NEW n
    PROVE  Stored(t, n) = [roots |-> t.roots, nodes |-> {x \in t.nodes : x.id # n.id} \cup {n}, next |-> t.next]
<1> DEFINE kept == {x \in t.nodes : x.id # n.id} \cup {n}
<1>1. t = [roots |-> t.roots, nodes |-> t.nodes, next |-> t.next]
  BY DEF IsShaped
<1>2. Stored(t, n) = [t EXCEPT !.nodes = kept]
  BY DEF Stored
<1> HIDE DEF kept
<1>3. [t EXCEPT !.nodes = kept] = [roots |-> t.roots, nodes |-> kept, next |-> t.next]
  BY <1>1
<1>4. QED
  BY <1>2, <1>3 DEF kept

\* A node written twice is the node written last.
LEMMA WritingTwice ==
    ASSUME NEW d, IsDocument(d), NEW layer, HasTree(d, layer), NEW m, NEW n, m.id = n.id
    PROVE  WithNode(WithNode(d, layer, m), layer, n) = WithNode(d, layer, n)
<1> DEFINE k == LayerOf(d, layer).tree
           t == TreeOf(d, layer)
           one == Stored(t, m)
           e == WithTree(d, layer, one)
<1>1. k \in 1..Len(d.trees) /\ t = d.trees[k]
  BY TreeOfLayer
<1>2. d \in Records /\ t \in Trees
  BY <1>1, DocumentsAreSound DEF Records
<1>3. e = [d EXCEPT !.trees = [d.trees EXCEPT ![k] = one]]
  BY DEF WithTree
<1>4. e.layers = d.layers /\ e.trees = [d.trees EXCEPT ![k] = one] /\ e.next = d.next
  BY <1>2, <1>3 DEF Records
<1>5. LayerOf(e, layer) = LayerOf(d, layer)
  BY <1>4, SameLayers
<1>6. TreeOf(e, layer) = one
  <2>1. d.trees \in Seq(Trees)
    BY <1>2 DEF Records
  <2> HIDE DEF k, one, e
  <2>2. e.trees[k] = one
    BY <1>1, <1>4, <2>1
  <2>3. QED
    BY <1>5, <2>2 DEF TreeOf, k
<1>7. Stored(one, n) = Stored(t, n)
  <2>1. IsShaped(t)
    BY <1>2 DEF Trees, IsShaped
  <2>2. one = [roots |-> t.roots, nodes |-> {x \in t.nodes : x.id # m.id} \cup {m}, next |-> t.next]
    <3> HIDE DEF t
    <3>1. QED
      BY <2>1, StoringIn
  <2> HIDE DEF t, one
  <2>3. IsShaped(one) /\ one.roots = t.roots /\ one.next = t.next
        /\ one.nodes = {x \in t.nodes : x.id # m.id} \cup {m}
    BY <2>2 DEF IsShaped
  <2>4. {x \in one.nodes : x.id # n.id} = {x \in t.nodes : x.id # n.id}
    BY <2>3
  <2>5. Stored(one, n) = [roots |-> one.roots, nodes |-> {x \in one.nodes : x.id # n.id} \cup {n}, next |-> one.next]
    BY <2>3, StoringIn
  <2>6. Stored(t, n) = [roots |-> t.roots, nodes |-> {x \in t.nodes : x.id # n.id} \cup {n}, next |-> t.next]
    BY <2>1, StoringIn
  <2>7. QED
    BY <2>3, <2>4, <2>5, <2>6
<1>8. WithTree(e, layer, Stored(t, n)) = WithTree(d, layer, Stored(t, n))
  <2> DEFINE two == Stored(t, n)
  <2>1. d.trees \in Seq(Trees)
    BY <1>2 DEF Records
  <2> HIDE DEF k, one, e, t, two
  <2>2. WithTree(e, layer, two) = [e EXCEPT !.trees = [e.trees EXCEPT ![k] = two]]
    BY <1>5 DEF WithTree, k
  <2>3. WithTree(d, layer, two) = [d EXCEPT !.trees = [d.trees EXCEPT ![k] = two]]
    BY DEF WithTree, k
  <2>4. [[d.trees EXCEPT ![k] = one] EXCEPT ![k] = two] = [d.trees EXCEPT ![k] = two]
    BY <1>1, <2>1
  <2>5. [e EXCEPT !.trees = [d.trees EXCEPT ![k] = two]] = [d EXCEPT !.trees = [d.trees EXCEPT ![k] = two]]
    BY <1>3
  <2>6. QED
    BY <1>4, <2>2, <2>3, <2>4, <2>5 DEF two
<1>9. QED
  <2>1. WithNode(d, layer, m) = e
    BY DEF WithNode
  <2>2. WithNode(e, layer, n) = WithTree(e, layer, Stored(one, n))
    BY <1>6 DEF WithNode
  <2>3. QED
    BY <1>7, <1>8, <2>1, <2>2 DEF WithNode

\* What a trim leaves.
LEMMA TrimOf ==
    ASSUME NEW d, IsDocument(d), NEW c, TakesTrimStroke(d, c)
    PROVE  LET n == NodeAt(d, c.layer, c.node) IN
           /\ Apply(d, c).doc = WithNode(d, c.layer, [n EXCEPT !.points = SubSeq(n.points, 1, Len(n.points) - c.count)])
           /\ n \in Nodes /\ n.id = c.node
           /\ IsOfNode(d, c) /\ n.prim = "stroke" /\ c.count \in 0..Len(n.points)
<1> DEFINE n == NodeAt(d, c.layer, c.node)
           left == Len(n.points) - c.count
           m == [n EXCEPT !.points = SubSeq(n.points, 1, left)]
<1>1. c.op = "TrimStroke" /\ IsOfNode(d, c) /\ c.count \in Nat /\ n.prim = "stroke"
      /\ c.count <= Len(n.points)
  BY DEF TakesTrimStroke
<1>2. c.layer \in Ids /\ c.node \in Ids /\ IsOpen(d, c.layer)
  BY <1>1 DEF IsOfNode
<1>3. n \in Nodes /\ n.id = c.node /\ HasNode(d, c.layer, c.node)
  BY <1>1, NodeOfCommand
<1>4. Apply(d, c) = TrimStroke(d, c)
  BY <1>1, <1>2, Dispatching, OpenIsNotProtected
<1>5. left >= 0 /\ c.count \in 0..Len(n.points)
  BY <1>1, <1>3 DEF Nodes
<1>6. TrimStroke(d, c).doc = WithNode(d, c.layer, m)
  BY <1>1, <1>3, <1>5 DEF TrimStroke, Answer
<1>7. QED
  BY <1>1, <1>3, <1>4, <1>5, <1>6

\* Taken off at once: what two trims take off one after the other.
LEMMA TrimmedTwice ==
    ASSUME NEW X, NEW list \in Seq(X), NEW j \in 0..Len(list), NEW k \in 0..(Len(list) - j)
    PROVE  /\ Len(SubSeq(list, 1, Len(list) - j)) = Len(list) - j
           /\ SubSeq(list, 1, Len(list) - j) \in Seq(X)
           /\ SubSeq(SubSeq(list, 1, Len(list) - j), 1, Len(list) - j - k)
                = SubSeq(list, 1, Len(list) - (k + j))
<1> DEFINE p == Len(list) - j
           q == p - k
           one == SubSeq(list, 1, p)
<1>1. p \in 0..Len(list) /\ q \in 0..p /\ q = Len(list) - (k + j)
  OBVIOUS
<1> HIDE DEF p, q
<1>2. one \in Seq(X) /\ Len(one) = p
  BY <1>1, Trimming
<1>3. \A i \in 1..p : list[i] \in X
  BY <1>1
<1>4. \A i \in 1..p : one[i] = list[i]
  <2>1. \A i \in 1..(p - 1 + 1) : one[i] = list[1 + i - 1]
    BY <1>1, <1>3, SubSeqProperties
  <2> HIDE DEF one
  <2>2. QED
    BY <1>1, <2>1
<1> HIDE DEF one
<1>5. SubSeq(one, 1, q) \in Seq(X) /\ Len(SubSeq(one, 1, q)) = q
  BY <1>1, <1>2, Trimming
<1>6. SubSeq(list, 1, q) \in Seq(X) /\ Len(SubSeq(list, 1, q)) = q
  <2>1. q \in 0..Len(list)
    BY <1>1
  <2>2. QED
    BY <2>1, Trimming
<1>7. \A i \in 1..q : SubSeq(one, 1, q)[i] = SubSeq(list, 1, q)[i]
  <2>1. (\A i \in 1..q : list[i] \in X) /\ (\A i \in 1..q : one[i] \in X)
    BY <1>1, <1>2, <1>3, <1>4
  <2>2. \A i \in 1..(q - 1 + 1) : SubSeq(one, 1, q)[i] = one[1 + i - 1]
    BY <1>1, <2>1, SubSeqProperties
  <2>3. \A i \in 1..(q - 1 + 1) : SubSeq(list, 1, q)[i] = list[1 + i - 1]
    BY <1>1, <2>1, SubSeqProperties
  <2> DEFINE x == SubSeq(one, 1, q)
             y == SubSeq(list, 1, q)
  <2> HIDE DEF x, y
  <2>4. \A i \in 1..q : x[i] = y[i]
    BY <1>1, <1>4, <2>2, <2>3 DEF x, y
  <2>5. QED
    BY <2>4 DEF x, y
<1>8. SubSeq(one, 1, q) = SubSeq(list, 1, q)
  <2> DEFINE x == SubSeq(one, 1, q)
             y == SubSeq(list, 1, q)
  <2>1. x \in Seq(X) /\ y \in Seq(X) /\ Len(x) = q /\ Len(y) = q /\ \A i \in 1..q : x[i] = y[i]
    BY <1>5, <1>6, <1>7
  <2> HIDE DEF x, y
  <2>2. x = y
    BY <2>1
  <2>3. QED
    BY <2>2 DEF x, y
<1>9. QED
  BY <1>1, <1>2, <1>8 DEF p, q, one

\* try_coalesce: the one trim takes back what the two would take back.
LEMMA CoalescingTrims ==
    ASSUME NEW a, IsDocument(a), NEW d, IsDocument(d),
           NEW b, b.op = "TrimStroke", LeadsBack(b, a, d),
           NEW near, IsDocument(near), Within(near, d), NEW e, IsDocument(e),
           NEW c, c.op = "TrimStroke", c.layer = b.layer, c.node = b.node, LeadsBack(c, near, e)
    PROVE  LeadsBack([c EXCEPT !.count = @ + b.count], a, e)
<1> DEFINE both == [c EXCEPT !.count = @ + b.count]
<1>1. \A f : Takes(f, b) => TakesTrimStroke(f, b)
  BY DEF Takes, TakesAddNode, TakesRemoveNode, TakesMoveNode, TakesSetLook, TakesSetPrim,
         TakesAppendStroke, TakesSetStrokePoints, TakesSetArmature, TakesAddLayer, TakesRemoveLayer,
         TakesSetLayerLook, TakesSetLayerProtection, TakesSetLayerSymmetry, TakesSetLayerComposition
<1>2. \A f : Takes(f, c) => TakesTrimStroke(f, c)
  BY DEF Takes, TakesAddNode, TakesRemoveNode, TakesMoveNode, TakesSetLook, TakesSetPrim,
         TakesAppendStroke, TakesSetStrokePoints, TakesSetArmature, TakesAddLayer, TakesRemoveLayer,
         TakesSetLayerLook, TakesSetLayerProtection, TakesSetLayerSymmetry, TakesSetLayerComposition
<1>3. TakesTrimStroke(near, c)
  BY <1>2, WithinItself, DocumentsAreSound DEF LeadsBack
<1>4. /\ c = [op |-> "TrimStroke", layer |-> b.layer, node |-> b.node, count |-> c.count]
      /\ c.count \in Nat
  BY <1>3 DEF TakesTrimStroke
<1>5. both = [op |-> "TrimStroke", layer |-> b.layer, node |-> b.node, count |-> c.count + b.count]
  BY <1>4
<1>6. SUFFICES ASSUME NEW f, IsDocument(f), Within(a, f)
               PROVE  Takes(f, both) /\ Within(e, Apply(f, both).doc)
  BY DEF LeadsBack
<1> DEFINE g == Apply(f, b).doc
           n == NodeAt(f, b.layer, b.node)
           p == Len(n.points) - b.count
           m == [n EXCEPT !.points = SubSeq(n.points, 1, p)]
<1>7. Takes(f, b) /\ Within(d, g)
  BY <1>6 DEF LeadsBack
<1>8. /\ g = WithNode(f, b.layer, m) /\ n \in Nodes /\ n.id = b.node
      /\ IsOfNode(f, b) /\ n.prim = "stroke" /\ b.count \in 0..Len(n.points)
  BY <1>1, <1>6, <1>7, TrimOf
<1>9. IsDocument(g)
  BY <1>6, <1>7, EveryCommandIsUndoable DEF IsUndoable
<1>10. Within(near, g)
  BY <1>7, <1>9, WithinThrough, DocumentsAreSound
<1>11. Takes(g, c) /\ Within(e, Apply(g, c).doc)
  BY <1>9, <1>10 DEF LeadsBack
<1> HIDE DEF both, g
<1> DEFINE n2 == NodeAt(g, c.layer, c.node)
           m2 == [n2 EXCEPT !.points = SubSeq(n2.points, 1, Len(n2.points) - c.count)]
<1>12. /\ Apply(g, c).doc = WithNode(g, c.layer, m2)
       /\ c.count \in 0..Len(n2.points)
  BY <1>2, <1>9, <1>11, TrimOf
<1>13. n.points \in Seq(AllPoints) /\ p \in 0..Len(n.points)
  BY <1>8 DEF Nodes
<1>14. SubSeq(n.points, 1, p) \in Seq(AllPoints) /\ Len(SubSeq(n.points, 1, p)) = p
  <2> HIDE DEF p
  <2>1. QED
    BY <1>13, Trimming
<1>15. /\ m \in Nodes /\ m.id = b.node /\ m.points = SubSeq(n.points, 1, p)
       /\ m.prim = "stroke" /\ m.group = n.group /\ m.children = n.children
  BY <1>8, <1>14 DEF Nodes
<1>16. n2 = m
  <2>1. IsRewritten(m, n)
    BY <1>8, <1>15 DEF IsRewritten
  <2> HIDE DEF m
  <2>2. RewritesBack(g, f, b.layer, b.node, m, n)
    BY <1>6, <1>8, <2>1, WritingTheNode
  <2>3. Within(g, g)
    BY <1>9, WithinItself, DocumentsAreSound
  <2>4. QED
    BY <1>9, <2>2, <2>3 DEF RewritesBack
<1> DEFINE all == c.count + b.count
           m3 == [n EXCEPT !.points = SubSeq(n.points, 1, Len(n.points) - all)]
<1>17. Len(n2.points) = p /\ c.count \in 0..p
  BY <1>12, <1>14, <1>15, <1>16
<1>18. /\ SubSeq(n2.points, 1, Len(n2.points) - c.count) = SubSeq(n.points, 1, Len(n.points) - all)
       /\ all \in 0..Len(n.points)
  <2> DEFINE list == n.points
             j == b.count
             k == c.count
  <2>1. list \in Seq(AllPoints) /\ j \in 0..Len(list) /\ k \in 0..(Len(list) - j)
    BY <1>8, <1>13, <1>17
  <2>2. n2.points = SubSeq(list, 1, Len(list) - j) /\ Len(n2.points) = Len(list) - j
    BY <1>15, <1>16, <1>17
  <2> HIDE DEF list, j, k, n2
  <2>3. SubSeq(SubSeq(list, 1, Len(list) - j), 1, Len(list) - j - k) = SubSeq(list, 1, Len(list) - (k + j))
    BY <2>1, TrimmedTwice
  <2>4. k + j \in 0..Len(list)
    BY <2>1
  <2>5. QED
    BY <2>2, <2>3, <2>4 DEF list, j, k
<1>19. m2 = m3
  <2> DEFINE short == SubSeq(n.points, 1, Len(n.points) - all)
  <2>1. m2 = [m EXCEPT !.points = short]
    BY <1>16, <1>18
  <2>2. n = [id |-> n.id, group |-> n.group, prim |-> n.prim, look |-> n.look, points |-> n.points,
             parents |-> n.parents, children |-> n.children]
    BY <1>8 DEF Nodes
  <2> HIDE DEF short, n
  <2>3. [m EXCEPT !.points = short] = [n EXCEPT !.points = short]
    BY <2>2
  <2>4. QED
    BY <2>1, <2>3 DEF short
<1>20. m2.id = m.id
  <2>1. n2.id = m2.id
    BY <1>15, <1>16 DEF Nodes
  <2>2. QED
    BY <1>16, <2>1
<1>21. WithNode(g, c.layer, m2) = WithNode(f, b.layer, m3)
  <2>1. HasTree(f, b.layer)
    BY <1>8 DEF IsOfNode, IsOpen
  <2> HIDE DEF m, m2, m3
  <2>2. WithNode(WithNode(f, b.layer, m), b.layer, m2) = WithNode(f, b.layer, m2)
    BY <1>6, <1>20, <2>1, WritingTwice
  <2>3. QED
    BY <1>8, <1>19, <2>2
<1>22. TakesTrimStroke(f, both) /\ Apply(f, both).doc = WithNode(f, b.layer, m3)
  <2>1. /\ both.op = "TrimStroke" /\ both.layer = b.layer /\ both.node = b.node /\ both.count = all
        /\ both = [op |-> "TrimStroke", layer |-> both.layer, node |-> both.node, count |-> both.count]
    BY <1>5
  <2>2. IsOfNode(f, both)
    BY <1>8, <2>1 DEF IsOfNode
  <2>3. all \in Nat /\ all <= Len(n.points)
    BY <1>13, <1>18
  <2>4. TakesTrimStroke(f, both)
    BY <1>8, <2>1, <2>2, <2>3 DEF TakesTrimStroke
  <2>5. QED
    BY <1>6, <2>1, <2>4, TrimOf
<1>23. QED
  BY <1>11, <1>12, <1>21, <1>22 DEF Takes

\* What an edit leaves of a session s whose steps back lead through L: one step more, or
\* the step on top led from further on, and nothing to bring again.
IsStepFrom(t, s, L) ==
    /\ t = [scene |-> t.scene, undo |-> t.undo, redo |-> <<>>] /\ IsDocument(t.scene)
    /\ \E entry : \/ t.undo = Append(s.undo, entry) /\ IsEntry(entry, t.scene, s.scene)
                  \/ /\ s.undo # <<>> /\ t.undo = Append(Front(s.undo), entry)
                     /\ IsEntry(entry, t.scene, L[Len(s.undo) - 1])

\* A session whose steps back lead through L, and whose document is d.
IsEditable(s, L) ==
    /\ s = [scene |-> s.scene, undo |-> s.undo, redo |-> s.redo]
    /\ IsDocument(s.scene) /\ LeadsThrough(s.undo, L, s.scene)

\* The inverse of an append: a trim of as many points.
LEMMA AppendIsTrimmed ==
    ASSUME NEW d, IsDocument(d), NEW c, c.op = "AppendStroke", Takes(d, c)
    PROVE  LET b == Apply(d, c).inverse IN
           b.op = "TrimStroke" /\ b.layer = c.layer /\ b.node = c.node
<1>1. TakesAppendStroke(d, c)
  BY DEF Takes, TakesAddNode, TakesRemoveNode, TakesMoveNode, TakesSetLook, TakesSetPrim,
         TakesTrimStroke, TakesSetStrokePoints, TakesSetArmature, TakesAddLayer, TakesRemoveLayer,
         TakesSetLayerLook, TakesSetLayerProtection, TakesSetLayerSymmetry, TakesSetLayerComposition
<1>2. IsOfNode(d, c) /\ NodeAt(d, c.layer, c.node).prim = "stroke"
  BY <1>1 DEF TakesAppendStroke
<1>3. HasNode(d, c.layer, c.node)
  BY <1>2, NodeOfCommand
<1>4. Apply(d, c) = AppendStroke(d, c)
  BY <1>2, Dispatching, OpenIsNotProtected DEF IsOfNode
<1>5. QED
  BY <1>2, <1>3, <1>4 DEF AppendStroke, Answer

\* perform, outside a bracket.
LEMMA PerformingAlone ==
    ASSUME NEW s, NEW L, IsEditable(s, L), NEW c, Takes(s.scene, c)
    PROVE  IsStepFrom(Performed(s, c, FALSE), s, L) /\ Performed(s, c, FALSE).scene = Apply(s.scene, c).doc
<1> DEFINE a == Apply(s.scene, c)
           t == Performed(s, c, FALSE)
           n == Len(s.undo)
<1>1. a.ok /\ IsDocument(a.doc) /\ LeadsBack(a.inverse, a.doc, s.scene)
  BY EveryCommandIsUndoable DEF IsUndoable, IsEditable
<1>2. CASE ~Coalesces(s.undo, c)
  <2>1. t = [scene |-> a.doc, redo |-> <<>>, undo |-> Append(s.undo, <<a.inverse>>)]
    <3> HIDE DEF a
    <3>1. Recorded(s, c, FALSE, a) = [scene |-> a.doc, redo |-> <<>>, undo |-> Append(s.undo, <<a.inverse>>)]
      BY <1>1, <1>2 DEF Recorded
    <3>2. QED
      BY <3>1 DEF Performed, a
  <2> HIDE DEF t
  <2>2. t.scene = a.doc /\ t.undo = Append(s.undo, <<a.inverse>>)
        /\ t = [scene |-> t.scene, undo |-> t.undo, redo |-> <<>>]
    BY <2>1
  <2>3. IsEntry(<<a.inverse>>, a.doc, s.scene)
    BY <1>1 DEF IsEntry
  <2>4. IsStepFrom(t, s, L)
    BY <1>1, <2>2, <2>3 DEF IsStepFrom
  <2>5. QED
    BY <2>2, <2>4 DEF t
<1>3. CASE Coalesces(s.undo, c)
  <2> DEFINE top == Last(s.undo)[1]
             one == [top EXCEPT !.count = @ + a.inverse.count]
  <2>1. /\ c.op = "AppendStroke" /\ s.undo # <<>> /\ Len(Last(s.undo)) = 1
        /\ top.op = "TrimStroke" /\ top.layer = c.layer /\ top.node = c.node
    BY <1>3 DEF Coalesces
  <2>2. t = [scene |-> a.doc, redo |-> <<>>, undo |-> Append(Front(s.undo), <<one>>)]
    <3> HIDE DEF a
    <3>1. Recorded(s, c, FALSE, a) = [scene |-> a.doc, redo |-> <<>>, undo |-> Append(Front(s.undo), <<one>>)]
      BY <1>1, <1>3 DEF Recorded
    <3>2. QED
      BY <3>1 DEF Performed, a
  <2>3. LeadsThrough(s.undo, L, s.scene)
    BY DEF IsEditable
  <2>4. Within(L[n - 1], L[n - 1])
    <3>1. n \in Nat /\ n # 0 /\ IsList(s.undo)
      BY <2>1, <2>3, Listing DEF LeadsThrough
    <3>2. IsDocument(L[n - 1])
      <4> HIDE DEF n
      <4>1. n - 1 \in 0..n
        BY <3>1
      <4>2. QED
        BY <2>3, <4>1 DEF LeadsThrough, n
    <3>3. QED
      BY <3>2, WithinItself, DocumentsAreSound
  <2>5. /\ IsEntry(Last(s.undo), L[n], L[n - 1])
        /\ IsDocument(L[n]) /\ IsDocument(L[n - 1]) /\ Within(L[n], s.scene)
    BY <2>1, <2>3, <2>4, Popping
  <2>6. LeadsBack(top, L[n], L[n - 1])
    <3>1. CASE \E x : Last(s.undo) = <<x>> /\ LeadsBack(x, L[n], L[n - 1])
      BY <3>1
    <3>2. CASE \E x, y : Last(s.undo) = <<x, y>>
      <4>1. PICK x, y : Last(s.undo) = <<x, y>>
        BY <3>2
      <4>2. Len(<<x, y>>) = 2
        OBVIOUS
      <4>3. FALSE
        BY <2>1, <4>1, <4>2
      <4>4. QED
        BY <4>3
    <3>3. (\E x : Last(s.undo) = <<x>> /\ LeadsBack(x, L[n], L[n - 1])) \/ \E x, y : Last(s.undo) = <<x, y>>
      BY <2>5 DEF IsEntry
    <3>4. QED
      BY <3>1, <3>2, <3>3
  <2>7. a.inverse.op = "TrimStroke" /\ a.inverse.layer = c.layer /\ a.inverse.node = c.node
    BY <2>1, AppendIsTrimmed DEF IsEditable
  <2>8. IsDocument(s.scene)
    BY DEF IsEditable
  <2> DEFINE b == a.inverse
             d == a.doc
  <2>9. LeadsBack(one, a.doc, L[n - 1])
    <3>1. top.layer = b.layer /\ top.node = b.node /\ b.op = "TrimStroke" /\ top.op = "TrimStroke"
      BY <2>1, <2>7
    <3>2. LeadsBack(b, d, s.scene) /\ IsDocument(d)
      BY <1>1
    <3> HIDE DEF top, b, d, n
    <3>3. LeadsBack([top EXCEPT !.count = @ + b.count], d, L[n - 1])
      BY <2>5, <2>6, <2>8, <3>1, <3>2, CoalescingTrims
    <3>4. QED
      BY <3>3 DEF b, d
  <2> HIDE DEF one, t
  <2>10. t.scene = a.doc /\ t.undo = Append(Front(s.undo), <<one>>)
         /\ t = [scene |-> t.scene, undo |-> t.undo, redo |-> <<>>]
    BY <2>2
  <2>11. IsEntry(<<one>>, a.doc, L[n - 1])
    BY <2>9 DEF IsEntry
  <2>12. IsStepFrom(t, s, L)
    BY <1>1, <2>1, <2>10, <2>11 DEF IsStepFrom
  <2>13. QED
    BY <2>10, <2>12 DEF t
<1>4. QED
  BY <1>2, <1>3

-----------------------------------------------------------------------------
(* A bracket of two commands. *)

\* A bracket of two commands, one after the other.
LEMMA PerformingTwo ==
    ASSUME NEW s, NEW b, NEW c
    PROVE  PerformedTogether(s, <<b, c>>)
             = Closed(Performed(Performed([s EXCEPT !.undo = Append(@, <<>>)], b, TRUE), c, TRUE))
<1> DEFINE base == [s EXCEPT !.undo = Append(@, <<>>)]
           Step(acc, x) == Performed(acc, x, TRUE)
           seq == <<b, c>>
           Iter(it) == it = [z \in SUBSET (DOMAIN seq) |->
                                IF z = {} THEN base
                                ELSE Step(it[z \ {Max(z)}], seq[Max(z)])]
           iter == CHOOSE it : Iter(it)
           h == [z \in SUBSET (1..2) |-> IF z = {} THEN base
                                         ELSE IF z = {1} THEN Step(base, b)
                                         ELSE IF z = {2} THEN Step(base, c)
                                         ELSE Step(Step(base, b), c)]
<1>1. PerformedTogether(s, <<b, c>>) = Closed(iter[DOMAIN seq])
  BY Zenon DEF PerformedTogether, FoldLeft, MapThenFoldSet
<1>2. DOMAIN seq = 1..2 /\ seq[1] = b /\ seq[2] = c
  OBVIOUS
<1> HIDE DEF seq, base
<1>4. Iter(h)
  <2> HIDE DEF Step
  <2>0. h = [z \in SUBSET (1..2) |-> h[z]]
    OBVIOUS
  <2>1. h[{}] = base /\ h[{1}] = Step(base, b) /\ h[{2}] = Step(base, c)
        /\ h[{1, 2}] = Step(Step(base, b), c)
    BY FirstTwo
  <2>2. {1} \ {1} = {} /\ {2} \ {2} = {} /\ {1, 2} \ {2} = {1} /\ {1} # {} /\ {2} # {} /\ {1, 2} # {}
    OBVIOUS
  <2> HIDE DEF h
  <2>3. ASSUME NEW z \in SUBSET (1..2)
        PROVE  h[z] = IF z = {} THEN base ELSE Step(h[z \ {Max(z)}], seq[Max(z)])
    <3>1. CASE z = {}
      BY <2>1, <3>1
    <3>2. CASE z = {1}
      <4>1. Max(z) = 1
        BY <3>2, FirstTwo
      <4>2. z # {} /\ z \ {Max(z)} = {} /\ seq[Max(z)] = b
        BY <1>2, <3>2, <4>1
      <4>3. QED
        BY <2>1, <3>2, <4>2
    <3>3. CASE z = {2}
      <4>1. Max(z) = 2
        BY <3>3, FirstTwo
      <4>2. z # {} /\ z \ {Max(z)} = {} /\ seq[Max(z)] = c
        BY <1>2, <3>3, <4>1
      <4>3. QED
        BY <2>1, <3>3, <4>2
    <3>4. CASE z = {1, 2}
      <4>1. Max(z) = 2
        BY <3>4, FirstTwo
      <4>2. z # {} /\ z \ {Max(z)} = {1} /\ seq[Max(z)] = c
        BY <1>2, <3>4, <4>1
      <4>3. QED
        BY <2>1, <3>4, <4>2
    <3>5. QED
      BY <3>1, <3>2, <3>3, <3>4, FirstTwo
  <2>4. QED
    BY <1>2, <2>0, <2>3
<1>5. Iter(iter)
  <2> HIDE DEF Iter, h
  <2>1. QED
    BY <1>4
<1> HIDE DEF iter, h, Step
<1>6. /\ iter[{1, 2}] = Step(iter[{1}], c)
      /\ iter[{1}] = Step(iter[{}], b) /\ iter[{}] = base
  <2>1. {1} \ {1} = {} /\ {1, 2} \ {2} = {1} /\ {1} # {} /\ {1, 2} # {}
    OBVIOUS
  <2>2. \A z \in SUBSET (1..2) : iter[z] = IF z = {} THEN base ELSE Step(iter[z \ {Max(z)}], seq[Max(z)])
    BY <1>2, <1>5
  <2>3. {} \in SUBSET (1..2) /\ {1} \in SUBSET (1..2) /\ {1, 2} \in SUBSET (1..2)
    OBVIOUS
  <2>4. iter[{}] = base
    BY <2>2, <2>3
  <2>5. iter[{1}] = Step(iter[{1} \ {Max({1})}], seq[Max({1})])
    BY <2>1, <2>2, <2>3
  <2>6. iter[{1, 2}] = Step(iter[{1, 2} \ {Max({1, 2})}], seq[Max({1, 2})])
    BY <2>1, <2>2, <2>3
  <2>7. Max({1}) = 1 /\ Max({1, 2}) = 2
    BY FirstTwo
  <2>8. iter[{1}] = Step(iter[{}], b)
    BY <1>2, <2>1, <2>5, <2>7
  <2>9. iter[{1, 2}] = Step(iter[{1}], c)
    BY <1>2, <2>1, <2>6, <2>7
  <2>10. QED
    BY <2>4, <2>8, <2>9
<1>7. iter[DOMAIN seq] = Step(Step(base, b), c)
  BY <1>2, <1>6, FirstTwo
<1>8. QED
  BY <1>1, <1>7 DEF Step, base

\* An entry collected from two inverses.
LEMMA Pair ==
    ASSUME NEW u, NEW v
    PROVE  Append(<<u>>, v) = <<u, v>>
<1> DEFINE X == {u, v}
           s == Append(<<u>>, v)
           t == <<u, v>>
<1>1. <<u>> \in Seq(X) /\ Len(<<u>>) = 1 /\ <<u>>[1] = u
  OBVIOUS
<1>2. s \in Seq(X) /\ Len(s) = 2 /\ s[1] = u /\ s[2] = v
  BY <1>1
<1>3. t \in Seq(X) /\ Len(t) = 2 /\ t[1] = u /\ t[2] = v
  OBVIOUS
<1> HIDE DEF s, t, X
<1>4. \A i \in 1..2 : s[i] = t[i]
  <2>1. \A i \in 1..2 : i = 1 \/ i = 2
    OBVIOUS
  <2>2. QED
    BY <1>2, <1>3, <2>1
<1>5. s = t
  BY <1>2, <1>3, <1>4
<1>6. QED
  BY <1>5 DEF s, t

\* begin_group, two commands, end_group: one step.
LEMMA PerformingTogether ==
    ASSUME NEW s, NEW L, IsEditable(s, L), NEW b, Takes(s.scene, b),
           NEW c, Takes(Apply(s.scene, b).doc, c)
    PROVE  IsStepFrom(PerformedTogether(s, <<b, c>>), s, L)
<1> DEFINE x == Apply(s.scene, b)
           y == Apply(x.doc, c)
           s0 == [s EXCEPT !.undo = Append(@, <<>>)]
           s1 == Performed(s0, b, TRUE)
           s2 == Performed(s1, c, TRUE)
           stack == s.undo
<1>1. x.ok /\ IsDocument(x.doc) /\ LeadsBack(x.inverse, x.doc, s.scene)
  BY EveryCommandIsUndoable DEF IsUndoable, IsEditable
<1>2. y.ok /\ IsDocument(y.doc) /\ LeadsBack(y.inverse, y.doc, x.doc)
  <2> HIDE DEF x
  <2>1. QED
    BY <1>1, EveryCommandIsUndoable DEF IsUndoable, x
<1>3. s0 = [scene |-> s.scene, undo |-> Append(stack, <<>>), redo |-> s.redo]
  <2>1. s = [scene |-> s.scene, undo |-> s.undo, redo |-> s.redo]
    BY DEF IsEditable
  <2> HIDE DEF x, y, s1, s2
  <2>2. QED
    BY <2>1
<1>4. IsList(stack)
  BY DEF IsEditable, LeadsThrough
<1> HIDE DEF s0, stack, x, y
<1>5. \A e : Front(Append(stack, e)) = stack /\ Last(Append(stack, e)) = e
  BY <1>4, Listing
<1>6. s1 = [scene |-> x.doc, redo |-> <<>>, undo |-> Append(stack, <<x.inverse>>)]
  <2>1. s0.scene = s.scene /\ s0.undo = Append(stack, <<>>)
    BY <1>3
  <2>2. Recorded(s0, b, TRUE, x) = [scene |-> x.doc, redo |-> <<>>,
                                    undo |-> Append(Front(s0.undo), Append(Last(s0.undo), x.inverse))]
    BY <1>1 DEF Recorded
  <2>3. Append(<<>>, x.inverse) = <<x.inverse>>
    OBVIOUS
  <2>4. QED
    BY <1>5, <2>1, <2>2, <2>3 DEF Performed, x
<1> HIDE DEF s1
<1>7. s2 = [scene |-> y.doc, redo |-> <<>>, undo |-> Append(stack, <<x.inverse, y.inverse>>)]
  <2>1. s1.scene = x.doc /\ s1.undo = Append(stack, <<x.inverse>>)
    BY <1>6
  <2>2. Recorded(s1, c, TRUE, y) = [scene |-> y.doc, redo |-> <<>>,
                                    undo |-> Append(Front(s1.undo), Append(Last(s1.undo), y.inverse))]
    BY <1>2 DEF Recorded
  <2>3. Append(<<x.inverse>>, y.inverse) = <<x.inverse, y.inverse>>
    BY Pair
  <2>4. QED
    BY <1>5, <2>1, <2>2, <2>3 DEF Performed, y
<1> DEFINE entry == <<x.inverse, y.inverse>>
<1>8. entry # <<>> /\ IsEntry(entry, y.doc, s.scene)
  BY <1>1, <1>2 DEF IsEntry
<1> HIDE DEF s2, entry
<1>9. s2.undo = Append(stack, entry) /\ s2.scene = y.doc
      /\ s2 = [scene |-> s2.scene, undo |-> s2.undo, redo |-> <<>>]
  BY <1>7 DEF entry
<1>10. Closed(s2) = s2
  BY <1>5, <1>8, <1>9 DEF Closed
<1>11. PerformedTogether(s, <<b, c>>) = s2
  BY <1>10, PerformingTwo DEF s2, s1, s0
<1>12. IsStepFrom(s2, s, L)
  BY <1>2, <1>8, <1>9 DEF IsStepFrom, stack
<1>13. QED
  BY <1>11, <1>12

-----------------------------------------------------------------------------
(* The stack after a step. *)

\* What the steps back lead through after it: L, with the new document or the last replaced.
LEMMA Stepping ==
    ASSUME NEW s, NEW L, IsEditable(s, L), NEW t, IsStepFrom(t, s, L)
    PROVE  \/ /\ LeadsThrough(t.undo, Longer(L, Len(s.undo), t.scene), t.scene)
              /\ Len(t.undo) = Len(s.undo) + 1
           \/ /\ LeadsThrough(t.undo, Longer(Shorter(L, Len(s.undo)), Len(s.undo) - 1, t.scene), t.scene)
              /\ s.undo # <<>> /\ Len(t.undo) = Len(s.undo)
<1> DEFINE n == Len(s.undo)
<1>1. IsDocument(s.scene) /\ LeadsThrough(s.undo, L, s.scene) /\ IsList(s.undo)
  BY DEF IsEditable, LeadsThrough
<1>2. IsDocument(t.scene)
  BY DEF IsStepFrom
<1>3. PICK entry : \/ t.undo = Append(s.undo, entry) /\ IsEntry(entry, t.scene, s.scene)
                   \/ /\ s.undo # <<>> /\ t.undo = Append(Front(s.undo), entry)
                      /\ IsEntry(entry, t.scene, L[Len(s.undo) - 1])
  BY DEF IsStepFrom
<1>4. CASE t.undo = Append(s.undo, entry) /\ IsEntry(entry, t.scene, s.scene)
  <2>1. LeadsThrough(Append(s.undo, entry), Longer(L, Len(s.undo), t.scene), t.scene)
    BY <1>1, <1>2, <1>4, Pushing
  <2>2. Len(Append(s.undo, entry)) = Len(s.undo) + 1
    BY <1>1, Listing
  <2>3. QED
    BY <1>4, <2>1, <2>2
<1>5. CASE /\ s.undo # <<>> /\ t.undo = Append(Front(s.undo), entry)
           /\ IsEntry(entry, t.scene, L[Len(s.undo) - 1])
  <2>1. n \in Nat /\ n # 0 /\ n - 1 \in 0..n /\ IsList(Front(s.undo)) /\ Len(Front(s.undo)) = n - 1
    BY <1>1, <1>5, Listing
  <2>2. IsDocument(L[n - 1])
    BY <1>1, <2>1 DEF LeadsThrough
  <2>3. Within(L[n - 1], L[n - 1])
    BY <2>2, WithinItself, DocumentsAreSound
  <2>4. LeadsThrough(Front(s.undo), Shorter(L, Len(s.undo)), L[n - 1])
    BY <1>1, <1>5, <2>3, Popping
  <2> DEFINE M == Shorter(L, Len(s.undo))
             front == Front(s.undo)
  <2> HIDE DEF M, front
  <2>5. LeadsThrough(Append(front, entry), Longer(M, Len(front), t.scene), t.scene)
    BY <1>2, <1>5, <2>2, <2>4, Pushing DEF M, front
  <2>6. Len(Append(front, entry)) = Len(front) + 1
    BY <2>1, Listing DEF front
  <2>7. Len(front) = n - 1 /\ Len(front) + 1 = n
    BY <2>1 DEF front
  <2>8. QED
    BY <1>5, <2>5, <2>6, <2>7 DEF M, front
<1>6. QED
  BY <1>3, <1>4, <1>5

-----------------------------------------------------------------------------
(* The calls of the host: commands the document takes. *)

\* Commands, one or two in a bracket, that a document which shows the scene takes.
IsPerformable(d, commands) ==
    /\ IsDocument(d) /\ Within(Scene, d)
    /\ \/ \E c : commands = <<c>> /\ Takes(d, c)
       \/ \E b, c : commands = <<b, c>> /\ Takes(d, b) /\ Takes(Apply(d, b).doc, c)

\* perform of the commands of a call, alone or in a bracket, is a step.
LEMMA EditsAsPerformed ==
    ASSUME NEW L, IsEditable(session, L), NEW d, NEW commands, IsPerformable(d, commands)
    PROVE  LET s == [session EXCEPT !.scene = d] IN
           IsEditable(s, L) /\ IsStepFrom(PerformedAs(s, commands), s, L)
<1> DEFINE s == [session EXCEPT !.scene = d]
<1>1. /\ session = [scene |-> Scene, undo |-> session.undo, redo |-> session.redo]
      /\ IsDocument(Scene) /\ LeadsThrough(session.undo, L, Scene)
      /\ IsDocument(d) /\ Within(Scene, d)
  BY DEF IsEditable, IsPerformable, Scene
<1>2. s = [scene |-> d, undo |-> session.undo, redo |-> session.redo]
  BY <1>1
<1>3. LeadsThrough(session.undo, L, d)
  BY <1>1, StackLeadsFurther
<1>4. IsEditable(s, L)
  BY <1>1, <1>2, <1>3 DEF IsEditable
<1>5. s.scene = d
  BY <1>2
<1> HIDE DEF s
<1>6. CASE \E c : commands = <<c>> /\ Takes(d, c)
  <2>1. PICK c : commands = <<c>> /\ Takes(d, c)
    BY <1>6
  <2>2. PerformedAs(s, commands) = Performed(s, c, FALSE)
    BY <2>1 DEF PerformedAs
  <2>3. IsStepFrom(Performed(s, c, FALSE), s, L)
    BY <1>4, <1>5, <2>1, PerformingAlone
  <2>4. QED
    BY <1>4, <2>2, <2>3 DEF s
<1>7. CASE \E b, c : commands = <<b, c>> /\ Takes(d, b) /\ Takes(Apply(d, b).doc, c)
  <2>1. PICK b, c : commands = <<b, c>> /\ Takes(d, b) /\ Takes(Apply(d, b).doc, c)
    BY <1>7
  <2>2. Len(<<b, c>>) = 2
    OBVIOUS
  <2>3. PerformedAs(s, commands) = PerformedTogether(s, <<b, c>>)
    BY <2>1, <2>2 DEF PerformedAs
  <2>4. IsStepFrom(PerformedTogether(s, <<b, c>>), s, L)
    BY <1>4, <1>5, <2>1, PerformingTogether
  <2>5. QED
    BY <1>4, <2>3, <2>4 DEF s
<1>8. QED
  BY <1>6, <1>7 DEF IsPerformable

\* What a guard that an edit is accepted says.
LEMMA Accepted ==
    ASSUME NEW commands, MayEdit(commands)
    PROVE  LET c == commands[1] IN
           /\ ~EditsProtected(Scene, c) /\ ~AlreadySet(Scene, c) /\ ApplyOne(Scene, c).ok
BY DEF MayEdit, Apply, Refusal

\* A call of one command the document takes is performable.
LEMMA OneCommand ==
    ASSUME IsDocument(Scene), NEW c, MayEdit(<<c>>) => Takes(Scene, c), Perform(Scene, <<c>>)
    PROVE  IsPerformable(Scene, <<c>>)
BY WithinItself, DocumentsAreSound DEF IsPerformable, Perform

\* A node of a layer whose edit is accepted.
LEMMA OfAnOpenLayer ==
    ASSUME IsDocument(Scene), NEW layer \in TreeLayers, NEW c, c.layer = layer,
           c.op \notin {"AddLayer", "SetLayerProtection"}, MayEdit(<<c>>)
    PROVE  IsOpen(Scene, layer) /\ layer \in Ids /\ IsTree(TreeOf(Scene, layer))
<1>1. HasTree(Scene, layer) /\ layer \in LayerIds(Scene)
  BY DEF TreeLayers
<1>2. ~LayerOf(Scene, layer).locked
  <2>1. ~EditsProtected(Scene, c)
    BY Accepted
  <2>2. QED
    BY <1>1, <2>1 DEF EditsProtected
<1>3. layer \in Ids
  BY <1>1, LayerThere, DocumentsAreSound
<1>4. IsTree(TreeOf(Scene, layer))
  BY <1>1, TreeOfLayer
<1>5. QED
  BY <1>1, <1>2, <1>3, <1>4 DEF IsOpen

\* Ids of nodes are ids.
LEMMA NodesAreIds ==
    ASSUME NEW tree, IsTree(tree), NEW id \in IdsOf(tree.nodes)
    PROVE  id \in Ids
<1>1. IsArena(tree)
  BY DEF IsTree
<1>2. QED
  BY <1>1, NodesById DEF Nodes, IsArena, Trees

-----------------------------------------------------------------------------
(* Nodes. *)

\* clay_remove_node is performable.
LEMMA DeletesANode ==
    ASSUME IsDocument(Scene), NEW layer \in TreeLayers, NEW node \in NodesOf(layer),
           DeleteNode(layer, node)
    PROVE  \E d, commands : IsPerformable(d, commands) /\ Perform(d, commands)
<1> DEFINE c == [op |-> "RemoveNode", layer |-> layer, node |-> node]
<1>1. Perform(Scene, <<c>>)
  BY DEF DeleteNode
<1>2. ASSUME MayEdit(<<c>>) PROVE Takes(Scene, c)
  <2>1. c.layer = layer /\ c.op = "RemoveNode" /\ c.node = node
        /\ c = [op |-> "RemoveNode", layer |-> c.layer, node |-> c.node]
    OBVIOUS
  <2> HIDE DEF c
  <2>2. IsOpen(Scene, layer) /\ layer \in Ids /\ IsTree(TreeOf(Scene, layer))
    BY <1>2, <2>1, OfAnOpenLayer
  <2>3. node \in Ids /\ node \in IdsOf(TreeOf(Scene, layer).nodes)
    BY <2>2, NodesAreIds DEF NodesOf
  <2>4. QED
    BY <2>1, <2>2, <2>3 DEF Takes, TakesRemoveNode, IsOfNode
<1> HIDE DEF c
<1>3. QED
  BY <1>1, <1>2, OneCommand

-----------------------------------------------------------------------------
(* The calls that write to a node, move it or grow it. *)

\* a look
LEMMA RestylesANode ==
    ASSUME IsDocument(Scene), NEW layer \in TreeLayers, NEW node \in NodesOf(layer),
           NEW look \in Looks,
           RestyleNode(layer, node, look)
    PROVE  \E d, commands : IsPerformable(d, commands) /\ Perform(d, commands)
<1> DEFINE n == NodeAt(Scene, layer, node)
           c == [op |-> "SetLook", layer |-> layer, node |-> node, look |-> look]
<1>1. Perform(Scene, <<c>>)
  BY DEF RestyleNode
<1>2. ASSUME MayEdit(<<c>>) PROVE Takes(Scene, c)
  <2>1. /\ c.layer = layer /\ c.op = "SetLook" /\ c.node = node
        /\ c.look = look
        /\ c = [op |-> "SetLook", layer |-> c.layer, node |-> c.node, look |-> c.look]
    OBVIOUS
  <2> HIDE DEF c, n
  <2>2. IsOpen(Scene, layer) /\ layer \in Ids /\ IsTree(TreeOf(Scene, layer))
    BY <1>2, <2>1, OfAnOpenLayer
  <2>3. IsOfNode(Scene, c)
    <3>1. node \in Ids /\ node \in IdsOf(TreeOf(Scene, layer).nodes)
      BY <2>2, NodesAreIds DEF NodesOf
    <3>2. QED
      BY <2>1, <2>2, <3>1 DEF IsOfNode
  <2>4. look \in AllLooks
    BY DEF AllLooks
  <2>5. QED
    BY <2>1, <2>3, <2>4 DEF Takes, TakesSetLook
<1> HIDE DEF c
<1>3. QED
  BY <1>1, <1>2, OneCommand

\* set_prim
LEMMA ReplacesAPrim ==
    ASSUME IsDocument(Scene), NEW layer \in TreeLayers, NEW node \in NodesOf(layer),
           NEW prim \in Replacements,
           ReplacePrim(layer, node, prim)
    PROVE  \E d, commands : IsPerformable(d, commands) /\ Perform(d, commands)
<1> DEFINE n == NodeAt(Scene, layer, node)
           c == [op |-> "SetPrim", layer |-> layer, node |-> node, prim |-> prim]
<1>1. Perform(Scene, <<c>>)
  BY DEF ReplacePrim
<1>2. ASSUME MayEdit(<<c>>) PROVE Takes(Scene, c)
  <2>1. /\ c.layer = layer /\ c.op = "SetPrim" /\ c.node = node
        /\ c.prim = prim
        /\ c = [op |-> "SetPrim", layer |-> c.layer, node |-> c.node, prim |-> c.prim]
    OBVIOUS
  <2> HIDE DEF c, n
  <2>2. IsOpen(Scene, layer) /\ layer \in Ids /\ IsTree(TreeOf(Scene, layer))
    BY <1>2, <2>1, OfAnOpenLayer
  <2>3. IsOfNode(Scene, c)
    <3>1. node \in Ids /\ node \in IdsOf(TreeOf(Scene, layer).nodes)
      BY <2>2, NodesAreIds DEF NodesOf
    <3>2. QED
      BY <2>1, <2>2, <3>1 DEF IsOfNode
  <2>4. c.prim \in Prims
    BY <2>1 DEF Prims, Replacements
  <2>5. TakesSetPrim(Scene, c)
    BY <2>1, <2>3, <2>4 DEF TakesSetPrim
  <2>6. QED
    BY <2>5 DEF Takes
<1> HIDE DEF c
<1>3. QED
  BY <1>1, <1>2, OneCommand

\* append_stroke
LEMMA ExtendsAStroke ==
    ASSUME IsDocument(Scene), NEW layer \in TreeLayers, NEW node \in NodesOf(layer),
           NEW point \in Points,
           ExtendStroke(layer, node, point)
    PROVE  \E d, commands : IsPerformable(d, commands) /\ Perform(d, commands)
<1> DEFINE n == NodeAt(Scene, layer, node)
           c == [op |-> "AppendStroke", layer |-> layer, node |-> node, points |-> <<point>>]
<1>1. Perform(Scene, <<c>>)
  BY DEF ExtendStroke
<1>2. ASSUME MayEdit(<<c>>) PROVE Takes(Scene, c)
  <2>1. /\ c.layer = layer /\ c.op = "AppendStroke" /\ c.node = node
        /\ c.points = <<point>>
        /\ c = [op |-> "AppendStroke", layer |-> c.layer, node |-> c.node, points |-> c.points]
    OBVIOUS
  <2> HIDE DEF c, n
  <2>2. IsOpen(Scene, layer) /\ layer \in Ids /\ IsTree(TreeOf(Scene, layer))
    BY <1>2, <2>1, OfAnOpenLayer
  <2>3. IsOfNode(Scene, c)
    <3>1. node \in Ids /\ node \in IdsOf(TreeOf(Scene, layer).nodes)
      BY <2>2, NodesAreIds DEF NodesOf
    <3>2. QED
      BY <2>1, <2>2, <3>1 DEF IsOfNode
  <2>4. AppendStroke(Scene, c).ok
    <3>1. ApplyOne(Scene, c).ok
      BY <1>2, Accepted
    <3>2. QED
      BY <2>1, <3>1 DEF ApplyOne
  <2>5. NodeAt(Scene, layer, node).prim = "stroke"
    BY <2>1, <2>4 DEF AppendStroke, Refusal
  <2>6. <<point>> \in Seq(AllPoints)
    BY DEF AllPoints
  <2>7. QED
    BY <2>1, <2>3, <2>5, <2>6 DEF Takes, TakesAppendStroke
<1> HIDE DEF c
<1>3. QED
  BY <1>1, <1>2, OneCommand

\* trim_stroke
LEMMA ShortensAStroke ==
    ASSUME IsDocument(Scene), NEW layer \in TreeLayers, NEW node \in NodesOf(layer),
           "trimsAnything" \notin Calls,
           ShortenStroke(layer, node)
    PROVE  \E d, commands : IsPerformable(d, commands) /\ Perform(d, commands)
<1> DEFINE n == NodeAt(Scene, layer, node)
           c == [op |-> "TrimStroke", layer |-> layer, node |-> node, count |-> 1]
<1>1. Perform(Scene, <<c>>)
  BY DEF ShortenStroke
<1>2. ASSUME MayEdit(<<c>>) PROVE Takes(Scene, c)
  <2>1. /\ c.layer = layer /\ c.op = "TrimStroke" /\ c.node = node
        /\ c.count = 1
        /\ c = [op |-> "TrimStroke", layer |-> c.layer, node |-> c.node, count |-> c.count]
    OBVIOUS
  <2> HIDE DEF c, n
  <2>2. IsOpen(Scene, layer) /\ layer \in Ids /\ IsTree(TreeOf(Scene, layer))
    BY <1>2, <2>1, OfAnOpenLayer
  <2>3. IsOfNode(Scene, c)
    <3>1. node \in Ids /\ node \in IdsOf(TreeOf(Scene, layer).nodes)
      BY <2>2, NodesAreIds DEF NodesOf
    <3>2. QED
      BY <2>1, <2>2, <3>1 DEF IsOfNode
  <2>4. TrimStroke(Scene, c).ok
    <3>1. ApplyOne(Scene, c).ok
      BY <1>2, Accepted
    <3>2. QED
      BY <2>1, <3>1 DEF ApplyOne
  <2>5. NodeAt(Scene, layer, node).prim = "stroke"
    BY DEF ShortenStroke
  <2>6. NodeAt(Scene, layer, node) \in Nodes
    BY <2>1, <2>3, NodeOfCommand
  <2>7. Len(NodeAt(Scene, layer, node).points) - 1 >= 0
    BY <2>1, <2>4 DEF TrimStroke, Refusal
  <2>8. 1 <= Len(NodeAt(Scene, layer, node).points)
    BY <2>6, <2>7 DEF Nodes
  <2>9. QED
    BY <2>1, <2>3, <2>5, <2>8 DEF Takes, TakesTrimStroke
<1> HIDE DEF c
<1>3. QED
  BY <1>1, <1>2, OneCommand

\* set_stroke_points
LEMMA ReplacesPoints ==
    ASSUME IsDocument(Scene), NEW layer \in TreeLayers, NEW node \in NodesOf(layer),
           NEW point \in Points,
           ReplacePoints(layer, node, point)
    PROVE  \E d, commands : IsPerformable(d, commands) /\ Perform(d, commands)
<1> DEFINE n == NodeAt(Scene, layer, node)
           c == [op |-> "SetStrokePoints", layer |-> layer, node |-> node, points |-> <<point>>]
<1>1. Perform(Scene, <<c>>)
  BY DEF ReplacePoints
<1>2. ASSUME MayEdit(<<c>>) PROVE Takes(Scene, c)
  <2>1. /\ c.layer = layer /\ c.op = "SetStrokePoints" /\ c.node = node
        /\ c.points = <<point>>
        /\ c = [op |-> "SetStrokePoints", layer |-> c.layer, node |-> c.node, points |-> c.points]
    OBVIOUS
  <2> HIDE DEF c, n
  <2>2. IsOpen(Scene, layer) /\ layer \in Ids /\ IsTree(TreeOf(Scene, layer))
    BY <1>2, <2>1, OfAnOpenLayer
  <2>3. IsOfNode(Scene, c)
    <3>1. node \in Ids /\ node \in IdsOf(TreeOf(Scene, layer).nodes)
      BY <2>2, NodesAreIds DEF NodesOf
    <3>2. QED
      BY <2>1, <2>2, <3>1 DEF IsOfNode
  <2>4. SetStrokePoints(Scene, c).ok
    <3>1. ApplyOne(Scene, c).ok
      BY <1>2, Accepted
    <3>2. QED
      BY <2>1, <3>1 DEF ApplyOne
  <2>5. NodeAt(Scene, layer, node).prim \in {"stroke", "sweep"}
    BY <2>1, <2>4 DEF SetStrokePoints, Refusal
  <2>6. <<point>> \in Seq(AllPoints)
    BY DEF AllPoints
  <2>7. QED
    BY <2>1, <2>3, <2>5, <2>6 DEF Takes, TakesSetStrokePoints
<1> HIDE DEF c
<1>3. QED
  BY <1>1, <1>2, OneCommand

\* armature_edit
LEMMA GrowsAnArmature ==
    ASSUME IsDocument(Scene), NEW layer \in TreeLayers, NEW node \in NodesOf(layer),
           NEW point \in Points,
           GrowArmature(layer, node, point)
    PROVE  \E d, commands : IsPerformable(d, commands) /\ Perform(d, commands)
<1> DEFINE n == NodeAt(Scene, layer, node)
           c == [op |-> "SetArmature", layer |-> layer, node |-> node, points |-> Append(n.points, point), parents |-> n.parents + 1]
<1>1. Perform(Scene, <<c>>)
  BY DEF GrowArmature
<1>2. ASSUME MayEdit(<<c>>) PROVE Takes(Scene, c)
  <2>1. /\ c.layer = layer /\ c.op = "SetArmature" /\ c.node = node
        /\ c.points = Append(n.points, point) /\ c.parents = n.parents + 1
        /\ c = [op |-> "SetArmature", layer |-> c.layer, node |-> c.node, points |-> c.points, parents |-> c.parents]
    OBVIOUS
  <2> HIDE DEF c, n
  <2>2. IsOpen(Scene, layer) /\ layer \in Ids /\ IsTree(TreeOf(Scene, layer))
    BY <1>2, <2>1, OfAnOpenLayer
  <2>3. IsOfNode(Scene, c)
    <3>1. node \in Ids /\ node \in IdsOf(TreeOf(Scene, layer).nodes)
      BY <2>2, NodesAreIds DEF NodesOf
    <3>2. QED
      BY <2>1, <2>2, <3>1 DEF IsOfNode
  <2>4. SetArmature(Scene, c).ok
    <3>1. ApplyOne(Scene, c).ok
      BY <1>2, Accepted
    <3>2. QED
      BY <2>1, <3>1 DEF ApplyOne
  <2>5. NodeAt(Scene, layer, node).prim = "armature" /\ c.parents = Len(c.points)
    BY <2>1, <2>4 DEF SetArmature, Refusal
  <2>6. n \in Nodes
    BY <2>1, <2>3, NodeOfCommand DEF n
  <2>7. Append(n.points, point) \in Seq(AllPoints)
    <3>1. n.points \in Seq(AllPoints) /\ point \in AllPoints
      BY <2>6 DEF Nodes, AllPoints
    <3>2. QED
      BY <3>1
  <2>8. n.parents = Len(n.points)
    <3>1. Len(Append(n.points, point)) = Len(n.points) + 1 /\ Len(n.points) \in Nat /\ n.parents \in Nat
      BY <2>6 DEF Nodes
    <3>2. QED
      BY <2>1, <2>5, <3>1
  <2>9. c.points \in Seq(AllPoints)
    BY <2>1, <2>7
  <2>10. TakesSetArmature(Scene, c)
    BY <2>1, <2>3, <2>5, <2>8, <2>9 DEF TakesSetArmature, n
  <2>11. QED
    BY <2>10 DEF Takes
<1> HIDE DEF c
<1>3. QED
  BY <1>1, <1>2, OneCommand

\* move_node
LEMMA ReparentsANode ==
    ASSUME IsDocument(Scene), NEW layer \in TreeLayers, NEW node \in NodesOf(layer),
           NEW parent \in NodesOf(layer) \cup {NoNode}, NEW index \in Int,
           ReparentNode(layer, node, parent, index)
    PROVE  \E d, commands : IsPerformable(d, commands) /\ Perform(d, commands)
<1> DEFINE n == NodeAt(Scene, layer, node)
           c == [op |-> "MoveNode", layer |-> layer, node |-> node, parent |-> parent, index |-> index]
<1>1. Perform(Scene, <<c>>)
  BY DEF ReparentNode
<1>2. ASSUME MayEdit(<<c>>) PROVE Takes(Scene, c)
  <2>1. /\ c.layer = layer /\ c.op = "MoveNode" /\ c.node = node
        /\ c.parent = parent /\ c.index = index
        /\ c = [op |-> "MoveNode", layer |-> c.layer, node |-> c.node, parent |-> c.parent, index |-> c.index]
    OBVIOUS
  <2> HIDE DEF c, n
  <2>2. IsOpen(Scene, layer) /\ layer \in Ids /\ IsTree(TreeOf(Scene, layer))
    BY <1>2, <2>1, OfAnOpenLayer
  <2>3. IsOfNode(Scene, c)
    <3>1. node \in Ids /\ node \in IdsOf(TreeOf(Scene, layer).nodes)
      BY <2>2, NodesAreIds DEF NodesOf
    <3>2. QED
      BY <2>1, <2>2, <3>1 DEF IsOfNode
  <2>4. MoveNode(Scene, c).ok
    <3>1. ApplyOne(Scene, c).ok
      BY <1>2, Accepted
    <3>2. QED
      BY <2>1, <3>1 DEF ApplyOne
  <2>5. MayMove(TreeOf(Scene, layer), node, parent)
    BY <2>1, <2>4 DEF MoveNode, Refusal
  <2>6. parent \in Nat
    <3>1. CASE parent \in NodesOf(layer)
      <4>1. parent \in Ids
        BY <2>2, <3>1, NodesAreIds DEF NodesOf
      <4>2. QED
        BY <4>1 DEF Ids
    <3>2. CASE parent = NoNode
      BY <3>2 DEF NoNode
    <3>3. QED
      BY <3>1, <3>2
  <2>7. QED
    BY <2>1, <2>3, <2>5, <2>6 DEF Takes, TakesMoveNode
<1> HIDE DEF c
<1>3. QED
  BY <1>1, <1>2, OneCommand

-----------------------------------------------------------------------------
(* insert_node. *)

\* reserve_id: the tree is the same, and the id is new.
LEMMA ReservingAnId ==
    ASSUME NEW tree, IsTree(tree)
    PROVE  IsTree(Reserved(tree)) /\ SameTree(tree, Reserved(tree)) /\ tree.next \in Ids
           /\ tree.next \notin IdsOf(tree.nodes)
<1> DEFINE new == Reserved(tree)
<1>1. tree \in Trees /\ IsFiniteSet(tree.nodes) /\ Unique(tree.nodes) /\ IsArena(tree)
      /\ \A id \in IdsOf(tree.nodes) : id < tree.next
  BY DEF IsTree, IsArena
<1>2. tree = [roots |-> tree.roots, nodes |-> tree.nodes, next |-> tree.next] /\ tree.next \in Ids
      /\ tree.roots \in Seq(Ids) /\ tree.nodes \in SUBSET Nodes
  BY <1>1 DEF Trees
<1>3. new = [roots |-> tree.roots, nodes |-> tree.nodes, next |-> tree.next + 1]
  BY <1>2 DEF Reserved
<1>4. new.roots = tree.roots /\ new.nodes = tree.nodes /\ new.next = tree.next + 1
  BY <1>3
<1>5. tree.next + 1 \in Ids
  BY <1>2 DEF Ids
<1>6. new \in Trees
  BY <1>2, <1>3, <1>5 DEF Trees
<1> HIDE DEF new
<1>7. IsArena(new) /\ SameTree(tree, new)
  BY <1>1, <1>4, <1>6 DEF IsArena, SameTree
<1>8. /\ IdsOf(new.nodes) = IdsOf(tree.nodes) /\ Places(new) = Places(tree)
      /\ \A id : Siblings(new, id) = Siblings(tree, id)
      /\ \A p : TakesChildren(new, p) <=> TakesChildren(tree, p)
  BY <1>7, SameReads
<1>9. \A id \in IdsOf(new.nodes) : id < new.next
  <2>1. \A id \in IdsOf(tree.nodes) : id \in Ids
    BY <1>1, NodesById
  <2>2. QED
    BY <1>1, <1>2, <1>4, <1>8, <2>1 DEF Ids
<1>10. IsListed(new) /\ HasOneParent(new) /\ IsReached(new)
  <2>1. IsListed(tree) /\ HasOneParent(tree) /\ IsReached(tree)
    BY DEF IsTree
  <2>2. IsListed(new)
    BY <1>8, <2>1 DEF IsListed
  <2>3. HasOneParent(new)
    BY <1>8, <2>1 DEF HasOneParent
  <2>4. IsReached(new)
    BY <1>4, <1>8, <2>1 DEF IsReached, Gathers
  <2>5. QED
    BY <2>2, <2>3, <2>4
<1>12. IsTree(new)
  BY <1>7, <1>9, <1>10 DEF IsTree
<1>13. tree.next \notin IdsOf(tree.nodes)
  BY <1>1, <1>2 DEF Ids
<1>14. QED
  BY <1>2, <1>7, <1>12, <1>13 DEF new

\* The document after reserve_id.
LEMMA ReservingInALayer ==
    ASSUME NEW d, IsDocument(d), NEW layer, HasTree(d, layer)
    PROVE  LET e == WithTree(d, layer, Reserved(TreeOf(d, layer))) IN
           /\ IsDocument(e) /\ Within(d, e) /\ HasTree(e, layer)
           /\ LayerOf(e, layer) = LayerOf(d, layer) /\ SameTree(TreeOf(d, layer), TreeOf(e, layer))
<1> DEFINE k == LayerOf(d, layer).tree
           tree == TreeOf(d, layer)
           new == Reserved(tree)
           e == WithTree(d, layer, new)
<1>1. k \in 1..Len(d.trees) /\ tree = d.trees[k] /\ IsTree(tree)
  BY TreeOfLayer
<1>2. IsTree(new) /\ SameTree(tree, new)
  BY <1>1, ReservingAnId
<1>3. d \in Records
  BY DocumentsAreSound
<1>4. d.trees \in Seq(Trees) /\ d = [layers |-> d.layers, trees |-> d.trees, next |-> d.next]
  BY <1>3 DEF Records
<1> HIDE DEF new, k
<1>5. e = [d EXCEPT !.trees = [d.trees EXCEPT ![k] = new]]
  BY DEF WithTree, k
<1>6. e.layers = d.layers /\ e.trees = [d.trees EXCEPT ![k] = new]
  BY <1>4, <1>5
<1>7. IsDocument(e)
  BY <1>2, WritingATree
<1> HIDE DEF e, tree
<1>8. Len(e.trees) = Len(d.trees) /\ e.trees[k] = new
      /\ \A i \in 1..Len(d.trees) : i # k => e.trees[i] = d.trees[i]
  BY <1>1, <1>4, <1>6
<1>9. \A i \in 1..Len(d.trees) : SameTree(d.trees[i], e.trees[i])
  BY <1>1, <1>2, <1>8 DEF SameTree
<1>10. Within(d, e)
  <2>1. Len(d.trees) \in Nat
    BY <1>4
  <2>2. QED
    BY <1>6, <1>8, <1>9, <2>1 DEF Within
<1>11. HasTree(e, layer) /\ LayerOf(e, layer) = LayerOf(d, layer)
  BY <1>6, SameLayers
<1>12. SameTree(tree, TreeOf(e, layer))
  BY <1>2, <1>8, <1>11 DEF TreeOf, k
<1>13. QED
  BY <1>7, <1>10, <1>11, <1>12 DEF e, tree, new

\* A node by its fields.
LEMMA NodeOfItsFields ==
    ASSUME NEW id \in Ids, NEW group \in BOOLEAN, NEW prim \in Prims, NEW look \in AllLooks,
           NEW points \in Seq(AllPoints), NEW parents \in Nat, NEW children \in Seq(Ids)
    PROVE  [id |-> id, group |-> group, prim |-> prim, look |-> look, points |-> points,
            parents |-> parents, children |-> children] \in Nodes
BY DEF Nodes

\* A new node alone.
LEMMA ANewNode ==
    ASSUME NEW id \in Ids, NEW group \in BOOLEAN
    PROVE  LET sub == [root |-> id, nodes |-> {NewNode(id, group)}] IN
           IsSubtree(sub) /\ IdsOf(sub.nodes) = {id}
<1> DEFINE n == NewNode(id, group)
           sub == [root |-> id, nodes |-> {n}]
           tree == Planted(sub, id + 1)
<1>1. /\ n.id = id /\ n.group = group /\ n.children = <<>> /\ n.prim # "armature"
      /\ n.prim \in {"none", "stroke"}
  BY DEF NewNode
<1>2. n \in Nodes
  <2>1. n = [id |-> id, group |-> group, prim |-> n.prim, look |-> "plain", points |-> <<>>,
             parents |-> 0, children |-> <<>>]
    BY DEF NewNode
  <2>2. n.prim \in Prims /\ "plain" \in AllLooks
    BY <1>1 DEF Prims, AllLooks
  <2>3. <<>> \in Seq(AllPoints) /\ <<>> \in Seq(Ids) /\ 0 \in Nat
    OBVIOUS
  <2> HIDE DEF n
  <2>4. QED
    BY <2>1, <2>2, <2>3, NodeOfItsFields
<1> HIDE DEF n
<1>3. tree = [roots |-> <<id>>, nodes |-> {n}, next |-> id + 1]
  BY DEF Planted
<1>4. id + 1 \in Ids /\ <<id>> \in Seq(Ids) /\ id < id + 1
  BY DEF Ids
<1> HIDE DEF tree
<1>5. tree.roots = <<id>> /\ tree.nodes = {n} /\ tree.next = id + 1 /\ tree \in Trees
  BY <1>2, <1>3, <1>4 DEF Trees
<1>6. IdsOf(tree.nodes) = {id}
  BY <1>1, <1>5 DEF IdsOf
<1>7. IsArena(tree)
  BY <1>5, FS_Singleton DEF IsArena, Unique
<1>8. Places(tree) = {id, NoNode} /\ id # NoNode
  BY <1>6 DEF Places, Ids, NoNode
<1>9. NodeOf(tree, id) = n
  BY <1>1, <1>5, <1>6, <1>7, NodesById
<1>10. Siblings(tree, id) = <<>> /\ Siblings(tree, NoNode) = <<id>>
  BY <1>1, <1>5, <1>8, <1>9 DEF Siblings
<1>11. ToSet(<<id>>) = {id} /\ ToSet(<<>>) = {} /\ IsInjective(<<id>>) /\ IsInjective(<<>>)
  BY DEF ToSet, IsInjective
<1>12. IsListed(tree)
  BY <1>6, <1>8, <1>10, <1>11 DEF IsListed, TakesChildren
<1>13. HasOneParent(tree)
  BY <1>6, <1>8, <1>10, <1>11 DEF HasOneParent
<1>14. IsReached(tree)
  BY <1>5, <1>6, <1>11 DEF IsReached
<1>15. IsTree(tree)
  BY <1>4, <1>5, <1>6, <1>7, <1>12, <1>13, <1>14 DEF IsTree
<1>16. IsSubtree(sub)
  BY <1>2, <1>4, <1>15 DEF IsSubtree, tree
<1>18. IdsOf(sub.nodes) = {id}
  BY <1>1 DEF IdsOf
<1>19. QED
  BY <1>16, <1>18 DEF n

\* insert_node is performable: the subtree is of an id reserved for it.
LEMMA InsertsANode ==
    ASSUME IsDocument(Scene), NEW layer \in TreeLayers, NEW parent, NEW index \in Int,
           NEW group \in BOOLEAN, InsertNode(layer, parent, index, group)
    PROVE  \E d, commands : IsPerformable(d, commands) /\ Perform(d, commands)
<1> DEFINE tree == TreeOf(Scene, layer)
           e == WithTree(Scene, layer, Reserved(tree))
           sub == [root |-> tree.next, nodes |-> {NewNode(tree.next, group)}]
           c == [op |-> "AddNode", layer |-> layer, parent |-> parent, index |-> index,
                 subtree |-> sub]
<1>1. TakesChildren(tree, parent) /\ Perform(e, <<c>>)
  BY DEF InsertNode
<1>2. MayEdit(<<c>>)
  BY <1>1 DEF Perform
<1>3. /\ c.op = "AddNode" /\ c.layer = layer /\ c.parent = parent /\ c.index = index /\ c.subtree = sub
      /\ c = [op |-> "AddNode", layer |-> c.layer, parent |-> c.parent, index |-> c.index,
              subtree |-> c.subtree]
  OBVIOUS
<1> HIDE DEF c
<1>4. IsOpen(Scene, layer) /\ layer \in Ids /\ IsTree(tree)
  BY <1>2, <1>3, OfAnOpenLayer
<1>5. /\ IsDocument(e) /\ Within(Scene, e) /\ HasTree(e, layer)
      /\ LayerOf(e, layer) = LayerOf(Scene, layer) /\ SameTree(tree, TreeOf(e, layer))
  BY <1>4, ReservingInALayer DEF IsOpen
<1> HIDE DEF e
<1>6. tree.next \in Ids /\ tree.next \notin IdsOf(tree.nodes)
  <2> HIDE DEF tree
  <2>1. QED
    BY <1>4, ReservingAnId
<1>7. IsSubtree(sub) /\ IdsOf(sub.nodes) = {tree.next}
  <2> HIDE DEF tree
  <2>1. QED
    BY <1>6, ANewNode
<1> DEFINE t == TreeOf(e, layer)
<1> HIDE DEF sub, tree, t
<1>8. /\ IdsOf(t.nodes) = IdsOf(tree.nodes) /\ Places(t) = Places(tree)
      /\ TakesChildren(t, parent) <=> TakesChildren(tree, parent)
  BY <1>5, SameReads DEF t
<1>9. parent \in Places(tree) /\ parent \in Nat
  <2>1. parent \in Places(tree)
    BY <1>1 DEF TakesChildren, Places
  <2>2. \A id \in IdsOf(tree.nodes) : id \in Ids
    BY <1>4, NodesAreIds
  <2>3. QED
    BY <2>1, <2>2 DEF Places, Ids, NoNode
<1>10. MayAdmit(t, sub, parent)
  BY <1>1, <1>6, <1>7, <1>8, <1>9 DEF MayAdmit
<1>11. IsOpen(e, layer)
  BY <1>4, <1>5 DEF IsOpen
<1>12. Takes(e, c)
  BY <1>3, <1>4, <1>9, <1>10, <1>11 DEF Takes, TakesAddNode, t
<1>13. QED
  BY <1>1, <1>5, <1>12 DEF IsPerformable

-----------------------------------------------------------------------------
(* The calls that edit the layer stack. *)

\* An edit of the stack that is not refused is of a layer not locked.
LEMMA OfAnUnprotectedLayer ==
    ASSUME IsDocument(Scene), NEW layer \in LayerIds(Scene), NEW c, c.layer = layer,
           c.op \notin {"AddLayer", "SetLayerProtection"}, ~EditsProtected(Scene, c)
    PROVE  IsOfLayer(Scene, c)
<1>1. ~LayerOf(Scene, layer).locked
  BY DEF EditsProtected
<1>2. layer \in Ids
  BY LayerThere, DocumentsAreSound
<1>3. QED
  BY <1>1, <1>2 DEF IsOfLayer

\* reserve_layer_id: the document is the same, and the id is new.
LEMMA ReservingALayer ==
    ASSUME NEW d, IsDocument(d)
    PROVE  /\ IsDocument(LayerReserved(d)) /\ Within(d, LayerReserved(d))
           /\ LayerReserved(d).layers = d.layers /\ LayerReserved(d).trees = d.trees
           /\ d.next \in Ids /\ d.next \notin LayerIds(d) /\ Len(d.trees) \in Nat
<1> DEFINE e == LayerReserved(d)
<1>1. d \in Records /\ HasOwnIds(d) /\ KnowsItsLayers(d) /\ \A i \in DOMAIN d.trees : IsTree(d.trees[i])
  BY DocumentsAreSound
<1>2. /\ d = [layers |-> d.layers, trees |-> d.trees, next |-> d.next]
      /\ d.layers \in Seq(Layers) /\ d.trees \in Seq(Trees) /\ d.next \in Ids
  BY <1>1 DEF Records
<1>3. e = [layers |-> d.layers, trees |-> d.trees, next |-> d.next + 1]
  BY <1>2 DEF LayerReserved
<1>4. d.next + 1 \in Ids /\ d.next < d.next + 1
  BY <1>2 DEF Ids
<1> HIDE DEF e
<1>5. e.layers = d.layers /\ e.trees = d.trees /\ e.next = d.next + 1 /\ e \in Records
  BY <1>2, <1>3, <1>4 DEF Records
<1>6. \A i \in DOMAIN d.layers : d.layers[i].id \in Ids /\ d.layers[i].id < d.next
  <2>1. \A i \in DOMAIN d.layers : d.layers[i] \in Layers
    BY <1>2
  <2>2. \A layer \in Layers : layer.id \in Ids
    BY DEF Layers
  <2>3. QED
    BY <1>1, <2>1, <2>2 DEF KnowsItsLayers
<1>7. KnowsItsLayers(e)
  <2>1. \A i \in DOMAIN d.layers : d.layers[i].id < d.next + 1
    BY <1>2, <1>6 DEF Ids
  <2>2. QED
    BY <1>1, <1>5, <2>1 DEF KnowsItsLayers
<1>8. HasOwnIds(e) /\ \A i \in DOMAIN e.trees : IsTree(e.trees[i])
  BY <1>1, <1>5 DEF HasOwnIds
<1>9. IsDocument(e)
  BY <1>5, <1>7, <1>8, DocumentsAreSound
<1>10. Len(d.trees) \in Nat
  BY <1>2
<1>11. Within(d, e)
  BY <1>5, <1>10 DEF Within, SameTree
<1>12. d.next \notin LayerIds(d)
  <2>1. ASSUME NEW i \in DOMAIN d.layers PROVE d.layers[i].id # d.next
    BY <1>2, <1>6 DEF Ids
  <2>2. QED
    BY <2>1 DEF LayerIds
<1>13. QED
  BY <1>2, <1>5, <1>9, <1>10, <1>11, <1>12 DEF e

\* A tree without nodes is sound.
LEMMA AnEmptyTree == IsTree(EmptyTree) /\ EmptyTree \in Trees
<1> DEFINE tree == EmptyTree
<1>1. tree.roots = <<>> /\ tree.nodes = {} /\ tree.next = 1
      /\ tree = [roots |-> <<>>, nodes |-> {}, next |-> 1]
  BY DEF EmptyTree
<1> HIDE DEF tree
<1>2. tree \in Trees
  <2>1. <<>> \in Seq(Ids) /\ 1 \in Ids
    BY DEF Ids
  <2>2. QED
    BY <1>1, <2>1 DEF Trees
<1>3. IsArena(tree)
  BY <1>1, <1>2, FS_EmptySet DEF IsArena, Unique
<1>4. IdsOf(tree.nodes) = {} /\ Places(tree) = {NoNode} /\ Siblings(tree, NoNode) = <<>>
  BY <1>1 DEF IdsOf, Places, Siblings
<1>5. ToSet(<<>>) = {} /\ IsInjective(<<>>)
  BY DEF ToSet, IsInjective
<1>6. IsListed(tree) /\ HasOneParent(tree)
  BY <1>4, <1>5 DEF IsListed, HasOneParent, TakesChildren
<1>7. IsReached(tree)
  BY <1>4 DEF IsReached
<1>9. IsTree(tree)
  BY <1>3, <1>4, <1>6, <1>7 DEF IsTree
<1>10. QED
  BY <1>2, <1>9 DEF tree

\* The document with a tree that no layer leads to yet.
LEMMA GrowingATree ==
    ASSUME NEW d, IsDocument(d)
    PROVE  LET e == [d EXCEPT !.trees = Append(@, EmptyTree)] IN
           /\ IsDocument(e) /\ Within(d, e)
           /\ e.layers = d.layers /\ e.next = d.next /\ Len(e.trees) = Len(d.trees) + 1
<1> DEFINE more == Append(d.trees, EmptyTree)
           e == [d EXCEPT !.trees = Append(@, EmptyTree)]
<1>1. d \in Records /\ HasOwnIds(d) /\ KnowsItsLayers(d) /\ \A i \in DOMAIN d.trees : IsTree(d.trees[i])
  BY DocumentsAreSound
<1>2. /\ d = [layers |-> d.layers, trees |-> d.trees, next |-> d.next]
      /\ d.layers \in Seq(Layers) /\ d.trees \in Seq(Trees) /\ d.next \in Ids
  BY <1>1 DEF Records
<1>3. e = [layers |-> d.layers, trees |-> more, next |-> d.next]
  <2>1. e = [d EXCEPT !.trees = more]
    OBVIOUS
  <2> HIDE DEF e, more
  <2>2. QED
    BY <1>2, <2>1
<1>4. /\ more \in Seq(Trees) /\ Len(more) = Len(d.trees) + 1 /\ Len(d.trees) \in Nat
      /\ \A i \in 1..Len(d.trees) : more[i] = d.trees[i]
      /\ more[Len(d.trees) + 1] = EmptyTree
  <2>1. EmptyTree \in Trees
    BY AnEmptyTree
  <2>2. QED
    BY <1>2, <2>1
<1> HIDE DEF e, more
<1>5. e.layers = d.layers /\ e.trees = more /\ e.next = d.next /\ e \in Records
  BY <1>2, <1>3, <1>4 DEF Records
<1>6. \A i \in DOMAIN d.layers : d.layers[i].tree \in Nat /\ d.layers[i].tree <= Len(d.trees)
  <2>1. \A i \in DOMAIN d.layers : d.layers[i] \in Layers
    BY <1>2
  <2>2. \A layer \in Layers : layer.tree \in Nat
    BY DEF Layers
  <2>3. QED
    BY <1>1, <2>1, <2>2 DEF KnowsItsLayers
<1>7. KnowsItsLayers(e)
  <2>1. \A i \in DOMAIN d.layers : d.layers[i].tree <= Len(d.trees) + 1
    BY <1>4, <1>6
  <2>2. QED
    BY <1>1, <1>4, <1>5, <2>1 DEF KnowsItsLayers
<1>8. HasOwnIds(e)
  BY <1>1, <1>5 DEF HasOwnIds
<1>9. ASSUME NEW i \in DOMAIN e.trees PROVE IsTree(e.trees[i])
  <2>1. i \in 1..(Len(d.trees) + 1)
    BY <1>4, <1>5
  <2>2. i = Len(d.trees) + 1 \/ i \in 1..Len(d.trees)
    BY <1>4, <2>1
  <2>3. \A j \in 1..Len(d.trees) : IsTree(d.trees[j])
    BY <1>1, <1>2
  <2>4. QED
    BY <1>4, <1>5, <2>2, <2>3, AnEmptyTree
<1>10. IsDocument(e)
  BY <1>5, <1>7, <1>8, <1>9, DocumentsAreSound
<1>11. Within(d, e)
  BY <1>4, <1>5 DEF Within, SameTree
<1>12. QED
  BY <1>4, <1>5, <1>10, <1>11 DEF e

\* add_sdf_layer
LEMMA CreatesALayer ==
    ASSUME IsDocument(Scene), CreateSdfLayer
    PROVE  \E d, commands : IsPerformable(d, commands) /\ Perform(d, commands)
<1> DEFINE grown == [Scene EXCEPT !.trees = Append(@, EmptyTree)]
           e == LayerReserved(grown)
           new == NewLayer(Len(e.trees))
           c == [op |-> "AddLayer", layer |-> new, index |-> -1, source |-> NoLayer, read |-> <<>>]
<1>1. Perform(e, <<c>>)
  BY DEF CreateSdfLayer
<1>2. /\ IsDocument(grown) /\ Within(Scene, grown)
      /\ grown.layers = Scene.layers /\ grown.next = Scene.next
      /\ Len(grown.trees) = Len(Scene.trees) + 1
  BY GrowingATree
<1> HIDE DEF grown
<1>3. /\ IsDocument(e) /\ Within(grown, e) /\ e.layers = grown.layers /\ e.trees = grown.trees
      /\ Len(Scene.trees) \in Nat /\ Scene.next \in Ids /\ Scene.next \notin LayerIds(Scene)
  BY <1>2, ReservingALayer
<1> HIDE DEF e
<1>4. Within(Scene, e)
  BY <1>2, <1>3, WithinThrough, DocumentsAreSound
<1>5. Len(e.trees) = Len(Scene.trees) + 1 /\ LayerIds(e) = LayerIds(Scene)
  BY <1>2, <1>3, SameLayers
<1>6. /\ new = [id |-> Scene.next, tree |-> Len(e.trees), look |-> "plain", symmetry |-> "plain",
                composition |-> "plain", locked |-> FALSE]
      /\ "plain" \in AllLooks /\ Len(e.trees) \in Nat
  BY <1>3, <1>5 DEF NewLayer, AllLooks
<1>7. new \in Layers
  BY <1>3, <1>6 DEF Layers
<1>8. new.id = Scene.next /\ new.tree = Len(e.trees) /\ ~new.locked
  BY <1>6
<1> HIDE DEF new
<1>9. new.id \notin LayerIds(e) /\ new.tree <= Len(e.trees)
  BY <1>3, <1>5, <1>6, <1>8
<1>10. TakesAddLayer(e, c)
  <2>1. /\ c.layer = new /\ c.index = -1 /\ c.source = NoLayer
        /\ c = [op |-> "AddLayer", layer |-> c.layer, index |-> c.index, source |-> c.source,
                read |-> <<>>]
    OBVIOUS
  <2> HIDE DEF c
  <2>2. QED
    BY <1>7, <1>8, <1>9, <2>1 DEF TakesAddLayer
<1>11. QED
  BY <1>1, <1>3, <1>4, <1>10 DEF IsPerformable, Takes

\* instance_layer, of a layer that is not protected.
LEMMA InstancesALayer ==
    ASSUME IsDocument(Scene), "copiesLocks" \notin Calls, NEW source \in LayerIds(Scene),
           InstanceLayer(source)
    PROVE  \E d, commands : IsPerformable(d, commands) /\ Perform(d, commands)
<1> DEFINE e == LayerReserved(Scene)
           l == LayerOf(Scene, source)
           new == [l EXCEPT !.id = Scene.next]
           c == [op |-> "AddLayer", layer |-> new, index |-> -1, source |-> source, read |-> <<>>]
<1>1. HasTree(Scene, source) /\ ~l.locked /\ Perform(e, <<c>>)
  BY DEF InstanceLayer
<1>2. /\ IsDocument(e) /\ Within(Scene, e) /\ e.layers = Scene.layers /\ e.trees = Scene.trees
      /\ Scene.next \in Ids /\ Scene.next \notin LayerIds(Scene) /\ Len(Scene.trees) \in Nat
  BY ReservingALayer
<1>3. LayerIds(e) = LayerIds(Scene)
  BY <1>2, SameLayers
<1>4. l \in Layers /\ l.tree \in 1..Len(Scene.trees)
  BY <1>1, LayerThere, DocumentsAreSound, TreeOfLayer
<1> HIDE DEF e, l
<1>5. new \in Layers /\ new.id = Scene.next /\ new.tree = l.tree /\ new.locked = l.locked
  BY <1>2, <1>4 DEF Layers
<1> HIDE DEF new
<1>6. new.tree <= Len(e.trees) /\ new.tree # NoTree /\ new.id \notin LayerIds(e)
  BY <1>2, <1>3, <1>4, <1>5 DEF NoTree
<1>7. TakesAddLayer(e, c)
  <2>1. /\ c.layer = new /\ c.index = -1 /\ c.source = source
        /\ c = [op |-> "AddLayer", layer |-> c.layer, index |-> c.index, source |-> c.source,
                read |-> <<>>]
    OBVIOUS
  <2> HIDE DEF c
  <2>2. QED
    BY <1>1, <1>5, <1>6, <2>1 DEF TakesAddLayer
<1>8. QED
  BY <1>1, <1>2, <1>7 DEF IsPerformable, Takes

\* remove_layer
LEMMA DeletesALayer ==
    ASSUME IsDocument(Scene), NEW layer \in LayerIds(Scene), DeleteLayer(layer)
    PROVE  \E d, commands : IsPerformable(d, commands) /\ Perform(d, commands)
<1> DEFINE c == [op |-> "RemoveLayer", layer |-> layer]
<1>1. Perform(Scene, <<c>>)
  BY DEF DeleteLayer
<1>2. ASSUME MayEdit(<<c>>) PROVE Takes(Scene, c)
  <2>1. c.op = "RemoveLayer" /\ c.layer = layer /\ c = [op |-> "RemoveLayer", layer |-> c.layer]
    OBVIOUS
  <2> HIDE DEF c
  <2>2. ~EditsProtected(Scene, c)
    BY <1>2, Accepted
  <2>3. QED
    BY <2>1, <2>2, OfAnUnprotectedLayer DEF Takes, TakesRemoveLayer
<1> HIDE DEF c
<1>3. QED
  BY <1>1, <1>2, OneCommand

\* move_layer: the layer that was removed can be put back.
LEMMA MovesALayer ==
    ASSUME IsDocument(Scene), NEW layer \in LayerIds(Scene), NEW index \in Int, MoveLayer(layer, index)
    PROVE  \E d, commands : IsPerformable(d, commands) /\ Perform(d, commands)
<1> DEFINE l == LayerOf(Scene, layer)
           sharer == SharerOf(Scene, layer)
           b == [op |-> "RemoveLayer", layer |-> layer]
           c == [op |-> "AddLayer", layer |-> l, index |-> index, source |-> sharer, read |-> <<>>]
           k == IndexOfLayer(Scene, layer)
           left == WithoutLayerAt(Scene, k)
<1>1. Perform(Scene, <<b, c>>)
  BY DEF MoveLayer
<1>2. b.op = "RemoveLayer" /\ b.layer = layer /\ b = [op |-> "RemoveLayer", layer |-> b.layer]
  OBVIOUS
<1>3. /\ c.layer = l /\ c.index = index /\ c.source = sharer
      /\ c = [op |-> "AddLayer", layer |-> c.layer, index |-> c.index, source |-> c.source,
              read |-> <<>>]
  OBVIOUS
<1>4. l.tree = NoTree => sharer = NoLayer
  BY DEF SharerOf, HasTree
<1> HIDE DEF b, c, sharer
<1>5. ~EditsProtected(Scene, b)
  <2>1. MayEdit(<<b, c>>) /\ <<b, c>>[1] = b
    BY <1>1 DEF Perform
  <2>2. QED
    BY <2>1, Accepted
<1>6. IsOfLayer(Scene, b) /\ TakesRemoveLayer(Scene, b)
  BY <1>2, <1>5, OfAnUnprotectedLayer DEF TakesRemoveLayer
<1>7. Scene \in Records /\ HasOwnIds(Scene) /\ KnowsItsLayers(Scene)
  BY DocumentsAreSound
<1>8. k \in 1..Len(Scene.layers) /\ Scene.layers[k] = l /\ l \in Layers /\ l.id = layer
  BY <1>7, LayerThere
<1>9. ~l.locked /\ l.tree <= Len(Scene.trees)
  BY <1>2, <1>6, <1>7, <1>8 DEF IsOfLayer, KnowsItsLayers
<1> HIDE DEF k, l
<1>10. Apply(Scene, b).doc = left
  BY <1>2, <1>8, <1>9, RemoveLayerAnswers DEF Answer
<1>11. left.trees = Scene.trees /\ l.id \notin LayerIds(left)
  BY <1>8, CuttingALayer DEF WithoutLayerAt
<1> HIDE DEF left
<1>12. TakesAddLayer(left, c)
  BY <1>3, <1>4, <1>8, <1>9, <1>11 DEF TakesAddLayer
<1>13. Within(Scene, Scene)
  BY <1>7, WithinItself
<1>14. QED
  BY <1>1, <1>6, <1>10, <1>12, <1>13 DEF IsPerformable, Takes

\* set_layer_visible and its like
LEMMA SetsALook ==
    ASSUME IsDocument(Scene), NEW layer \in LayerIds(Scene), NEW look \in Looks,
           Perform(Scene, <<[op |-> "SetLayerLook", layer |-> layer, look |-> look]>>)
    PROVE  \E d, commands : IsPerformable(d, commands) /\ Perform(d, commands)
<1> DEFINE c == [op |-> "SetLayerLook", layer |-> layer, look |-> look]
<1>1. ASSUME MayEdit(<<c>>) PROVE Takes(Scene, c)
  <2>1. /\ c.op = "SetLayerLook" /\ c.layer = layer /\ c.look = look
        /\ c = [op |-> "SetLayerLook", layer |-> c.layer, look |-> c.look]
    OBVIOUS
  <2> HIDE DEF c
  <2>2. ~EditsProtected(Scene, c) /\ ~AlreadySet(Scene, c) /\ ApplyOne(Scene, c).ok
    BY <1>1, Accepted
  <2>3. look \in AllLooks
    BY DEF AllLooks
  <2>4. IsOfLayer(Scene, c)
    BY <2>1, <2>2, OfAnUnprotectedLayer
  <2>5. QED
    BY <2>1, <2>3, <2>4 DEF Takes, TakesSetLayerLook
<1>2. Perform(Scene, <<c>>)
  OBVIOUS
<1> HIDE DEF c
<1>3. QED
  BY <1>1, <1>2, OneCommand

\* set_layer_mirror, to another value than the one that is there.
LEMMA SetsASymmetry ==
    ASSUME IsDocument(Scene), NEW layer \in LayerIds(Scene), NEW look \in Looks,
           Perform(Scene, <<[op |-> "SetLayerSymmetry", layer |-> layer, symmetry |-> look]>>)
    PROVE  \E d, commands : IsPerformable(d, commands) /\ Perform(d, commands)
<1> DEFINE c == [op |-> "SetLayerSymmetry", layer |-> layer, symmetry |-> look]
<1>1. ASSUME MayEdit(<<c>>) PROVE Takes(Scene, c)
  <2>1. /\ c.op = "SetLayerSymmetry" /\ c.layer = layer /\ c.symmetry = look
        /\ c = [op |-> "SetLayerSymmetry", layer |-> c.layer, symmetry |-> c.symmetry]
    OBVIOUS
  <2> HIDE DEF c
  <2>2. ~EditsProtected(Scene, c) /\ ~AlreadySet(Scene, c) /\ ApplyOne(Scene, c).ok
    BY <1>1, Accepted
  <2>3. look \in AllLooks
    BY DEF AllLooks
  <2>4. IsOfLayer(Scene, c)
    BY <2>1, <2>2, OfAnUnprotectedLayer
  <2>5. look # LayerOf(Scene, layer).symmetry
    BY <2>1, <2>2 DEF AlreadySet
  <2>6. QED
    BY <2>1, <2>3, <2>4, <2>5 DEF Takes, TakesSetLayerSymmetry
<1>2. Perform(Scene, <<c>>)
  OBVIOUS
<1> HIDE DEF c
<1>3. QED
  BY <1>1, <1>2, OneCommand

\* set_layer_composition, of a layer that has a tree.
LEMMA SetsAComposition ==
    ASSUME IsDocument(Scene), NEW layer \in LayerIds(Scene), NEW look \in Looks,
           Perform(Scene, <<[op |-> "SetLayerComposition", layer |-> layer, composition |-> look]>>)
    PROVE  \E d, commands : IsPerformable(d, commands) /\ Perform(d, commands)
<1> DEFINE c == [op |-> "SetLayerComposition", layer |-> layer, composition |-> look]
<1>1. ASSUME MayEdit(<<c>>) PROVE Takes(Scene, c)
  <2>1. /\ c.op = "SetLayerComposition" /\ c.layer = layer /\ c.composition = look
        /\ c = [op |-> "SetLayerComposition", layer |-> c.layer, composition |-> c.composition]
    OBVIOUS
  <2> HIDE DEF c
  <2>2. ~EditsProtected(Scene, c) /\ ~AlreadySet(Scene, c) /\ ApplyOne(Scene, c).ok
    BY <1>1, Accepted
  <2>3. look \in AllLooks
    BY DEF AllLooks
  <2>4. IsOfLayer(Scene, c)
    BY <2>1, <2>2, OfAnUnprotectedLayer
  <2>5. SetLayerComposition(Scene, c).ok
    BY <2>1, <2>2 DEF ApplyOne
  <2>6. HasTree(Scene, layer)
    BY <2>1, <2>5 DEF SetLayerComposition, Refusal
  <2>7. QED
    BY <2>1, <2>3, <2>4, <2>6 DEF Takes, TakesSetLayerComposition
<1>2. Perform(Scene, <<c>>)
  OBVIOUS
<1> HIDE DEF c
<1>3. QED
  BY <1>1, <1>2, OneCommand

\* set_layer_protected, in both directions.
LEMMA ProtectsALayer ==
    ASSUME IsDocument(Scene), NEW layer \in LayerIds(Scene), NEW locked \in BOOLEAN,
           Perform(Scene, <<[op |-> "SetLayerProtection", layer |-> layer, locked |-> locked]>>)
    PROVE  \E d, commands : IsPerformable(d, commands) /\ Perform(d, commands)
<1> DEFINE c == [op |-> "SetLayerProtection", layer |-> layer, locked |-> locked]
<1>1. ASSUME MayEdit(<<c>>) PROVE Takes(Scene, c)
  <2>1. /\ c.op = "SetLayerProtection" /\ c.layer = layer /\ c.locked = locked
        /\ c = [op |-> "SetLayerProtection", layer |-> c.layer, locked |-> c.locked]
    OBVIOUS
  <2> HIDE DEF c
  <2>2. ~EditsProtected(Scene, c) /\ ~AlreadySet(Scene, c) /\ ApplyOne(Scene, c).ok
    BY <1>1, Accepted
  <2>3. layer \in Ids
    BY LayerThere, DocumentsAreSound
  <2>4. QED
    BY <2>1, <2>3 DEF Takes, TakesSetLayerProtection
<1>2. Perform(Scene, <<c>>)
  OBVIOUS
<1> HIDE DEF c
<1>3. QED
  BY <1>1, <1>2, OneCommand

-----------------------------------------------------------------------------
(* Undo and redo. *)

\* Replaying the entry on top of one stack leaves that stack a step shorter and the other
\* one a step longer, both leading on from the document it comes to.
LEMMA Walking ==
    ASSUME NEW f, IsDocument(f), NEW a, a # <<>>, NEW L, LeadsThrough(a, L, f),
           NEW b, NEW R, LeadsThrough(b, R, f)
    PROVE  LET r == Replayed(f, Last(a)) IN
           /\ IsDocument(r.doc) /\ Within(L[Len(a) - 1], r.doc) /\ Len(a) \in Nat \ {0}
           /\ IsList(Front(a)) /\ Len(Front(a)) = Len(a) - 1
           /\ LeadsThrough(Front(a), Shorter(L, Len(a)), r.doc)
           /\ LeadsThrough(Append(b, r.opposite), Longer(R, Len(b), r.doc), r.doc)
<1> DEFINE n == Len(a)
           r == Replayed(f, Last(a))
<1>1. n \in Nat /\ n # 0 /\ IsList(a) /\ IsList(Front(a)) /\ Len(Front(a)) = n - 1
  BY Listing DEF LeadsThrough
<1>2. n - 1 \in 0..n
  <2> HIDE DEF n
  <2>1. QED
    BY <1>1
<1>3. IsDocument(L[n - 1])
  BY <1>2 DEF LeadsThrough
<1>4. Within(L[n - 1], L[n - 1])
  BY <1>3, WithinItself, DocumentsAreSound
<1>5. IsEntry(Last(a), L[n], L[n - 1]) /\ IsDocument(L[n]) /\ Within(L[n], f)
  BY <1>4, Popping
<1>6. IsDocument(r.doc) /\ Within(L[n - 1], r.doc) /\ IsEntry(r.opposite, r.doc, f)
  <2> DEFINE d == L[n]
             e == L[n - 1]
             entry == Last(a)
  <2> HIDE DEF n, d, e, entry
  <2>1. IsDocument(Replayed(f, entry).doc) /\ Within(e, Replayed(f, entry).doc)
        /\ IsEntry(Replayed(f, entry).opposite, Replayed(f, entry).doc, f)
    BY <1>3, <1>5, ReplayingAnEntry DEF d, e, entry
  <2>2. QED
    BY <2>1 DEF e, entry, r
<1>7. LeadsThrough(Front(a), Shorter(L, Len(a)), r.doc)
  <2> HIDE DEF r
  <2>1. QED
    BY <1>6, Popping
<1>8. LeadsThrough(Append(b, r.opposite), Longer(R, Len(b), r.doc), r.doc)
  <2> DEFINE entry == r.opposite
             e == r.doc
  <2> HIDE DEF r, entry, e
  <2>1. LeadsThrough(Append(b, entry), Longer(R, Len(b), e), e)
    BY <1>6, Pushing DEF entry, e
  <2>2. QED
    BY <2>1 DEF entry, e
<1>9. QED
  BY <1>1, <1>6, <1>7, <1>8

\* A session whose steps back lead through L and whose steps forth lead through R.
IsWalkable(s, L, R) ==
    /\ s = [scene |-> s.scene, undo |-> s.undo, redo |-> s.redo]
    /\ IsDocument(s.scene)
    /\ LeadsThrough(s.undo, L, s.scene) /\ LeadsThrough(s.redo, R, s.scene)

\* UndoStack::undo: one step less to take back, and one more to bring again.
LEMMA SteppingBack ==
    ASSUME NEW s, NEW L, NEW R, IsWalkable(s, L, R), s.undo # <<>>
    PROVE  LET t == Undone(s) IN
           /\ IsWalkable(t, Shorter(L, Len(s.undo)), Longer(R, Len(s.redo), t.scene))
           /\ Within(L[Len(s.undo) - 1], t.scene) /\ Len(s.undo) \in Nat \ {0}
           /\ Len(t.undo) = Len(s.undo) - 1 /\ Len(t.redo) = Len(s.redo) + 1
<1> DEFINE r == Replayed(s.scene, Last(s.undo))
           t == Undone(s)
           f == s.scene
           a == s.undo
           b == s.redo
<1>1. IsDocument(f) /\ a # <<>> /\ LeadsThrough(a, L, f) /\ LeadsThrough(b, R, f) /\ r = Replayed(f, Last(a))
  BY DEF IsWalkable
<1>2. t = [scene |-> r.doc, undo |-> Front(a), redo |-> Append(b, r.opposite)]
  BY DEF Undone, TakenBack
<1> HIDE DEF f, a, b, t
<1>3. /\ IsDocument(r.doc) /\ Within(L[Len(a) - 1], r.doc) /\ Len(a) \in Nat \ {0}
      /\ Len(Front(a)) = Len(a) - 1
      /\ LeadsThrough(Front(a), Shorter(L, Len(a)), r.doc)
      /\ LeadsThrough(Append(b, r.opposite), Longer(R, Len(b), r.doc), r.doc)
  <2> HIDE DEF r
  <2>1. QED
    BY <1>1, Walking
<1> HIDE DEF r
<1>4. t.scene = r.doc /\ t.undo = Front(a) /\ t.redo = Append(b, r.opposite)
      /\ t = [scene |-> t.scene, undo |-> t.undo, redo |-> t.redo]
  BY <1>2
<1>5. Len(t.redo) = Len(b) + 1
  BY <1>1, <1>4, Listing DEF LeadsThrough
<1>6. IsWalkable(t, Shorter(L, Len(a)), Longer(R, Len(b), t.scene))
  BY <1>3, <1>4 DEF IsWalkable
<1>7. QED
  BY <1>3, <1>4, <1>5, <1>6 DEF t, a, b

\* UndoStack::redo: one step less to bring again, and one more to take back.
LEMMA SteppingForward ==
    ASSUME NEW s, NEW L, NEW R, IsWalkable(s, L, R), s.redo # <<>>
    PROVE  LET t == Redone(s) IN
           /\ IsWalkable(t, Longer(L, Len(s.undo), t.scene), Shorter(R, Len(s.redo)))
           /\ Within(R[Len(s.redo) - 1], t.scene) /\ Len(s.redo) \in Nat \ {0}
           /\ Len(t.redo) = Len(s.redo) - 1 /\ Len(t.undo) = Len(s.undo) + 1
<1> DEFINE r == Replayed(s.scene, Last(s.redo))
           t == Redone(s)
           f == s.scene
           a == s.redo
           b == s.undo
<1>1. IsDocument(f) /\ a # <<>> /\ LeadsThrough(a, R, f) /\ LeadsThrough(b, L, f) /\ r = Replayed(f, Last(a))
  BY DEF IsWalkable
<1>2. t = [scene |-> r.doc, redo |-> Front(a), undo |-> Append(b, r.opposite)]
  BY DEF Redone, BroughtAgain
<1> HIDE DEF f, a, b, t
<1>3. /\ IsDocument(r.doc) /\ Within(R[Len(a) - 1], r.doc) /\ Len(a) \in Nat \ {0}
      /\ Len(Front(a)) = Len(a) - 1
      /\ LeadsThrough(Front(a), Shorter(R, Len(a)), r.doc)
      /\ LeadsThrough(Append(b, r.opposite), Longer(L, Len(b), r.doc), r.doc)
  <2> HIDE DEF r
  <2>1. QED
    BY <1>1, Walking
<1> HIDE DEF r
<1>4. t.scene = r.doc /\ t.redo = Front(a) /\ t.undo = Append(b, r.opposite)
      /\ t = [scene |-> t.scene, undo |-> t.undo, redo |-> t.redo]
  BY <1>2
<1>5. Len(t.undo) = Len(b) + 1
  BY <1>1, <1>4, Listing DEF LeadsThrough
<1>6. IsWalkable(t, Longer(L, Len(b), t.scene), Shorter(R, Len(a)))
  BY <1>3, <1>4 DEF IsWalkable
<1>7. QED
  BY <1>3, <1>4, <1>5, <1>6 DEF t, a, b

-----------------------------------------------------------------------------
(* The session. *)

\* A host that trims placed strokes alone, and makes no instance of a protected layer.
UsesAsDocumented == "trimsAnything" \notin Calls /\ "copiesLocks" \notin Calls

\* The document is one, and both stacks are steps that lead from it.
SessionIsSound == \E L, R : IsWalkable(session, L, R)

\* A session starts with a loaded document and nothing to take back.
LEMMA StartsSound == Init => SessionIsSound
<1>1. SUFFICES ASSUME Init PROVE SessionIsSound
  OBVIOUS
<1>2. /\ session = [scene |-> Loaded, undo |-> <<>>, redo |-> <<>>] /\ IsDocument(Loaded)
  BY <1>1, LoadedAssumption DEF Init, Fresh
<1>3. LeadsThrough(<<>>, [i \in 0..0 |-> Loaded], Loaded)
  BY <1>2, NoSteps
<1> DEFINE L == [i \in 0..0 |-> Loaded]
<1> HIDE DEF L
<1>4. IsWalkable(session, L, L)
  BY <1>2, <1>3 DEF IsWalkable, L
<1>5. QED
  BY <1>4 DEF SessionIsSound

\* What a step of the session is.
LEMMA EveryStepIsOne ==
    ASSUME UsesAsDocumented, SessionIsSound, Next
    PROVE  \/ \E d, commands : IsPerformable(d, commands) /\ Perform(d, commands)
           \/ StepBack \/ StepForward \/ Drain
<1>1. IsDocument(Scene)
  BY DEF SessionIsSound, IsWalkable, Scene
<1>2. ASSUME NEW layer \in TreeLayers, TreeEdit(layer)
      PROVE  \E d, commands : IsPerformable(d, commands) /\ Perform(d, commands)
  <2>0. -1 \in Int /\ 0 \in Int
    OBVIOUS
  <2>1. CASE \E parent \in NodesOf(layer) \cup {NoNode} : InsertNode(layer, parent, -1, FALSE)
    BY <1>1, <2>0, <2>1, InsertsANode
  <2>2. CASE InsertNode(layer, NoNode, 0, TRUE)
    <3> DEFINE group == TRUE
    <3>1. InsertNode(layer, NoNode, 0, group) /\ group \in BOOLEAN
      BY <2>2
    <3> HIDE DEF group
    <3>2. QED
      BY <1>1, <2>0, <3>1, InsertsANode
  <2>3. ASSUME NEW node \in NodesOf(layer),
               \/ DeleteNode(layer, node)
               \/ \E parent \in NodesOf(layer) \cup {NoNode}, index \in {-1, 0} :
                      ReparentNode(layer, node, parent, index)
               \/ \E look \in Looks : RestyleNode(layer, node, look)
               \/ \E prim \in Replacements : ReplacePrim(layer, node, prim)
               \/ \E point \in Points :
                   \/ ExtendStroke(layer, node, point)
                   \/ ReplacePoints(layer, node, point)
                   \/ GrowArmature(layer, node, point)
               \/ ShortenStroke(layer, node)
        PROVE  \E d, commands : IsPerformable(d, commands) /\ Perform(d, commands)
    <3>1. CASE DeleteNode(layer, node)
      BY <1>1, <3>1, DeletesANode
    <3>2. CASE \E parent \in NodesOf(layer) \cup {NoNode}, index \in {-1, 0} :
                  ReparentNode(layer, node, parent, index)
      BY <1>1, <2>0, <3>2, ReparentsANode
    <3>3. CASE \E look \in Looks : RestyleNode(layer, node, look)
      BY <1>1, <3>3, RestylesANode
    <3>4. CASE \E prim \in Replacements : ReplacePrim(layer, node, prim)
      BY <1>1, <3>4, ReplacesAPrim
    <3>5. CASE \E point \in Points : ExtendStroke(layer, node, point)
      BY <1>1, <3>5, ExtendsAStroke
    <3>6. CASE \E point \in Points : ReplacePoints(layer, node, point)
      BY <1>1, <3>6, ReplacesPoints
    <3>7. CASE \E point \in Points : GrowArmature(layer, node, point)
      BY <1>1, <3>7, GrowsAnArmature
    <3>8. CASE ShortenStroke(layer, node)
      BY <1>1, <3>8, ShortensAStroke DEF UsesAsDocumented
    <3>9. QED
      BY <2>3, <3>1, <3>2, <3>3, <3>4, <3>5, <3>6, <3>7, <3>8
  <2>4. QED
    BY <1>2, <2>1, <2>2, <2>3 DEF TreeEdit
<1>3. ASSUME StackEdit
      PROVE  \E d, commands : IsPerformable(d, commands) /\ Perform(d, commands)
  <2>1. CASE CreateSdfLayer
    BY <1>1, <2>1, CreatesALayer
  <2>2. ASSUME NEW layer \in LayerIds(Scene),
               \/ InstanceLayer(layer)
               \/ DeleteLayer(layer)
               \/ \E index \in {-1, 0} : MoveLayer(layer, index)
               \/ \E look \in Looks : RestyleLayer(layer, look)
               \/ ProtectLayer(layer, ~LayerOf(Scene, layer).locked)
        PROVE  \E d, commands : IsPerformable(d, commands) /\ Perform(d, commands)
    <3>1. CASE InstanceLayer(layer)
      BY <1>1, <3>1, InstancesALayer DEF UsesAsDocumented
    <3>2. CASE DeleteLayer(layer)
      BY <1>1, <3>2, DeletesALayer
    <3>3. CASE \E index \in {-1, 0} : MoveLayer(layer, index)
      <4>1. PICK index \in {-1, 0} : MoveLayer(layer, index)
        BY <3>3
      <4>2. index \in Int
        BY <4>1
      <4>3. QED
        BY <1>1, <4>1, <4>2, MovesALayer
    <3>4. CASE \E look \in Looks : RestyleLayer(layer, look)
      <4>1. PICK look \in Looks : RestyleLayer(layer, look)
        BY <3>4
      <4>2. CASE Perform(Scene, <<[op |-> "SetLayerLook", layer |-> layer, look |-> look]>>)
        BY <1>1, <4>2, SetsALook
      <4>3. CASE Perform(Scene, <<[op |-> "SetLayerSymmetry", layer |-> layer, symmetry |-> look]>>)
        BY <1>1, <4>3, SetsASymmetry
      <4>4. CASE Perform(Scene, <<[op |-> "SetLayerComposition", layer |-> layer, composition |-> look]>>)
        BY <1>1, <4>4, SetsAComposition
      <4>5. QED
        BY <4>1, <4>2, <4>3, <4>4 DEF RestyleLayer
    <3>5. CASE ProtectLayer(layer, ~LayerOf(Scene, layer).locked)
      <4> DEFINE locked == ~LayerOf(Scene, layer).locked
      <4>1. locked \in BOOLEAN
        OBVIOUS
      <4>2. Perform(Scene, <<[op |-> "SetLayerProtection", layer |-> layer, locked |-> locked]>>)
        BY <3>5 DEF ProtectLayer
      <4> HIDE DEF locked
      <4>3. QED
        BY <1>1, <4>1, <4>2, ProtectsALayer
    <3>6. QED
      BY <2>2, <3>1, <3>2, <3>3, <3>4, <3>5
  <2>3. QED
    BY <1>3, <2>1, <2>2 DEF StackEdit
<1>4. QED
  BY <1>2, <1>3 DEF Next

\* An edit leaves a session that walks back one step more, or as many, and none forth.
LEMMA EditingTheSession ==
    ASSUME NEW L, NEW R, IsWalkable(session, L, R),
           NEW d, NEW commands, IsPerformable(d, commands), Perform(d, commands)
    PROVE  LET t == session'
               n == Len(session.undo) IN
           /\ t.redo = <<>> /\ IsDocument(t.scene)
           /\ \/ /\ IsWalkable(t, Longer(L, n, t.scene), [i \in 0..0 |-> t.scene])
                 /\ Len(t.undo) = n + 1
              \/ /\ IsWalkable(t, Longer(Shorter(L, n), n - 1, t.scene), [i \in 0..0 |-> t.scene])
                 /\ session.undo # <<>> /\ Len(t.undo) = n
<1> DEFINE s == [session EXCEPT !.scene = d]
           t == PerformedAs(s, commands)
           n == Len(session.undo)
           none == [i \in 0..0 |-> t.scene]
<1>1. session' = t
  BY DEF Perform
<1>2. IsEditable(session, L)
  BY DEF IsWalkable, IsEditable
<1>3. IsEditable(s, L) /\ IsStepFrom(t, s, L)
  BY <1>2, EditsAsPerformed
<1>4. s.undo = session.undo
  BY DEF IsWalkable
<1> HIDE DEF s, t
<1>5. \/ LeadsThrough(t.undo, Longer(L, Len(s.undo), t.scene), t.scene) /\ Len(t.undo) = Len(s.undo) + 1
      \/ /\ LeadsThrough(t.undo, Longer(Shorter(L, Len(s.undo)), Len(s.undo) - 1, t.scene), t.scene)
         /\ s.undo # <<>> /\ Len(t.undo) = Len(s.undo)
  BY <1>3, Stepping
<1>6. t = [scene |-> t.scene, undo |-> t.undo, redo |-> <<>>] /\ IsDocument(t.scene)
  BY <1>3 DEF IsStepFrom
<1>7. t.redo = <<>>
  BY <1>6
<1>8. LeadsThrough(t.redo, none, t.scene)
  BY <1>6, <1>7, NoSteps
<1> HIDE DEF none
<1>9. \A M : LeadsThrough(t.undo, M, t.scene) => IsWalkable(t, M, none)
  BY <1>6, <1>7, <1>8 DEF IsWalkable
<1>10. QED
  BY <1>1, <1>4, <1>5, <1>6, <1>7, <1>9 DEF none

\* Every call keeps the session sound.
LEMMA StaysSound ==
    ASSUME UsesAsDocumented, SessionIsSound, [Next]_vars
    PROVE  \E L, R : IsWalkable(session', L, R)
<1>1. PICK L, R : IsWalkable(session, L, R)
  BY DEF SessionIsSound
<1>2. CASE \E d, commands : IsPerformable(d, commands) /\ Perform(d, commands)
  <2>1. PICK d, commands : IsPerformable(d, commands) /\ Perform(d, commands)
    BY <1>2
  <2>2. QED
    BY <1>1, <2>1, EditingTheSession
<1>3. CASE StepBack
  <2>1. session.undo # <<>> /\ session' = Undone(session)
    BY <1>3 DEF StepBack
  <2>2. QED
    BY <1>1, <2>1, SteppingBack
<1>4. CASE StepForward
  <2>1. session.redo # <<>> /\ session' = Redone(session)
    BY <1>4 DEF StepForward
  <2>2. QED
    BY <1>1, <2>1, SteppingForward
<1>5. CASE Drain \/ UNCHANGED vars
  <2>1. session' = session
    BY <1>5 DEF Drain, vars
  <2>2. QED
    BY <1>1, <2>1
<1>6. QED
  BY <1>2, <1>3, <1>4, <1>5, EveryStepIsOne

\* In a sound session every tree is whole.
LEMMA SoundIsWhole == SessionIsSound => TreesAreWhole
<1>1. SUFFICES ASSUME SessionIsSound PROVE TreesAreWhole
  OBVIOUS
<1>2. IsDocument(Scene)
  BY <1>1 DEF SessionIsSound, IsWalkable, Scene
<1>3. QED
  BY <1>2 DEF IsDocument, TreesAreWhole

\* No edit, undo or redo of a host that keeps to the documented use leaves a node outside
\* its tree, in two places or below itself, nor an id that would be given again.
THEOREM TreesStayWhole ==
    ASSUME UsesAsDocumented
    PROVE  Spec => []TreesAreWhole
<1>1. Init => SessionIsSound
  BY StartsSound
<1>2. SessionIsSound /\ [Next]_vars => SessionIsSound'
  BY StaysSound DEF SessionIsSound
<1>3. SessionIsSound => TreesAreWhole
  BY SoundIsWhole
<1>4. QED
  BY <1>1, <1>2, <1>3, PTL DEF Spec

-----------------------------------------------------------------------------
(* The line of documents. *)

\* What Image says of a layer.
Seen(d, i) ==
    LET layer == d.layers[i]
        tree  == d.trees[layer.tree]
    IN  [layer  |-> [layer EXCEPT !.tree = NoTree],
         tree   |-> IF layer.tree = NoTree THEN <<>> ELSE <<tree.roots, tree.nodes>>,
         shares |-> {j \in DOMAIN d.layers : layer.tree # NoTree /\ d.layers[j].tree = layer.tree}]

\* The image of a document, layer by layer.
LEMMA ImageIsSeen ==
    ASSUME NEW d
    PROVE  Image(d) = [i \in DOMAIN d.layers |-> Seen(d, i)]
BY DEF Image, Seen

\* A document that shows another has its image.
LEMMA SameImage ==
    ASSUME NEW d, IsDocument(d), NEW e, IsDocument(e), Within(d, e)
    PROVE  Image(d) = Image(e)
<1>1. d \in Records /\ e \in Records /\ KnowsItsLayers(d)
  BY DocumentsAreSound
<1>2. /\ d.layers = e.layers /\ d.layers \in Seq(Layers) /\ Len(d.trees) \in Nat
      /\ \A i \in 1..Len(d.trees) : SameTree(d.trees[i], e.trees[i])
  BY <1>1 DEF Within, Records
<1>3. ASSUME NEW i \in DOMAIN d.layers PROVE Seen(d, i) = Seen(e, i)
  <2> DEFINE layer == d.layers[i]
  <2>1. layer.tree \in Nat /\ layer.tree <= Len(d.trees) /\ layer = e.layers[i]
    <3>1. layer \in Layers
      BY <1>2
    <3>2. QED
      BY <1>1, <1>2, <3>1 DEF Layers, KnowsItsLayers
  <2> HIDE DEF layer
  <2>2. layer.tree = NoTree \/ SameTree(d.trees[layer.tree], e.trees[layer.tree])
    BY <1>2, <2>1 DEF NoTree
  <2> DEFINE shown == [layer EXCEPT !.tree = NoTree]
             sharers == {j \in DOMAIN d.layers : layer.tree # NoTree /\ d.layers[j].tree = layer.tree}
             rootsOf(f) == IF layer.tree = NoTree THEN <<>>
                           ELSE <<f.trees[layer.tree].roots, f.trees[layer.tree].nodes>>
  <2>3. rootsOf(d) = rootsOf(e)
    BY <2>2 DEF SameTree
  <2>4. Seen(d, i) = [layer |-> shown, tree |-> rootsOf(d), shares |-> sharers]
    BY DEF Seen, layer
  <2>5. Seen(e, i) = [layer |-> shown, tree |-> rootsOf(e), shares |-> sharers]
    BY <1>2, <2>1 DEF Seen
  <2> DEFINE x == rootsOf(d)
             y == rootsOf(e)
  <2>6. x = y /\ Seen(d, i) = [layer |-> shown, tree |-> x, shares |-> sharers]
        /\ Seen(e, i) = [layer |-> shown, tree |-> y, shares |-> sharers]
    BY <2>3, <2>4, <2>5
  <2> HIDE DEF x, y, shown, sharers, rootsOf
  <2>7. QED
    BY <2>6
<1>4. QED
  BY <1>2, <1>3, ImageIsSeen

\* The images of n documents, the nearest last.
Images(L, n) == [i \in 1..n |-> Image(L[i - 1])]

\* The images along a stack are a list.
LEMMA ImagesAreListed ==
    ASSUME NEW L, NEW n \in Nat
    PROVE  LET X == {Image(L[i - 1]) : i \in 1..n} IN
           /\ Images(L, n) \in Seq(X) /\ Len(Images(L, n)) = n
           /\ \A i \in 1..n : Images(L, n)[i] = Image(L[i - 1])
<1> DEFINE X == {Image(L[i - 1]) : i \in 1..n}
           old == Images(L, n)
<1>1. old = [i \in 1..n |-> Image(L[i - 1])]
  BY DEF Images
<1>2. \A i \in 1..n : Image(L[i - 1]) \in X
  OBVIOUS
<1> HIDE DEF old, X
<1>3. \A i \in 1..n : old[i] = Image(L[i - 1]) /\ old[i] \in X
  BY <1>1, <1>2
<1>4. old = [i \in 1..n |-> old[i]]
  BY <1>1
<1>5. old \in [1..n -> X]
  BY <1>3, <1>4
<1>6. old \in Seq(X) /\ Len(old) = n
  BY <1>5
<1>7. QED
  BY <1>3, <1>6 DEF old, X

\* A step pushed adds the image of the document before it; a step merged adds none.
LEMMA ImagesLonger ==
    ASSUME NEW stack, NEW L, NEW d, IsDocument(d), LeadsThrough(stack, L, d), NEW e
    PROVE  /\ Images(Longer(L, Len(stack), e), Len(stack) + 1) = Append(Images(L, Len(stack)), Image(d))
           /\ IsList(Images(L, Len(stack))) /\ Len(Images(L, Len(stack))) = Len(stack)
           /\ stack # <<>> => Images(Longer(Shorter(L, Len(stack)), Len(stack) - 1, e), Len(stack))
                                = Images(L, Len(stack))
<1> DEFINE n == Len(stack)
           M == Longer(L, n, e)
           N == Longer(Shorter(L, n), n - 1, e)
           old == Images(L, n)
           new == Images(M, n + 1)
           X == {Image(L[i - 1]) : i \in 1..n} \cup {Image(d)}
<1>1. n \in Nat /\ IsDocument(L[n]) /\ Within(L[n], d) /\ (stack # <<>> => n # 0)
  <2>1. n \in Nat /\ n \in 0..n /\ (stack # <<>> => n # 0)
    BY Listing DEF LeadsThrough
  <2>2. QED
    BY <2>1 DEF LeadsThrough
<1>2. Image(L[n]) = Image(d)
  BY <1>1, SameImage
<1> HIDE DEF n
<1>3. old \in Seq(X) /\ Len(old) = n /\ \A i \in 1..n : old[i] = Image(L[i - 1])
  <2> DEFINE Y == {Image(L[i - 1]) : i \in 1..n}
  <2>1. old \in Seq(Y) /\ Len(old) = n /\ \A i \in 1..n : old[i] = Image(L[i - 1])
    BY <1>1, ImagesAreListed
  <2>2. Y \subseteq X
    OBVIOUS
  <2> HIDE DEF old, X, Y
  <2>3. old \in Seq(X)
    BY <1>1, <2>1, <2>2
  <2>4. QED
    BY <2>1, <2>3
<1>4. \A i \in 0..n : M[i] = L[i]
  BY <1>1 DEF Longer
<1> HIDE DEF M
<1>5. new = [i \in 1..(n + 1) |-> Image(M[i - 1])]
  BY DEF Images
<1>6. ASSUME NEW i \in 1..(n + 1) PROVE Image(M[i - 1]) = Append(old, Image(d))[i]
  <2>1. i - 1 \in 0..n /\ (i = n + 1 \/ i \in 1..n)
    BY <1>1
  <2>2. Image(M[i - 1]) = Image(L[i - 1])
    BY <1>4, <2>1
  <2> HIDE DEF old
  <2>3. CASE i = n + 1
    <3>1. i - 1 = n
      BY <1>1, <2>3
    <3>2. Append(old, Image(d))[i] = Image(d)
      BY <1>3, <2>3
    <3>3. QED
      BY <1>2, <2>2, <3>1, <3>2
  <2>4. CASE i \in 1..n
    <3>1. Append(old, Image(d))[i] = old[i]
      BY <1>1, <1>3, <2>4
    <3>2. QED
      BY <1>3, <2>2, <2>4, <3>1
  <2>5. QED
    BY <2>1, <2>3, <2>4
<1>7. new = Append(old, Image(d))
  <2> DEFINE long == Append(old, Image(d))
  <2> HIDE DEF old, X
  <2>1. Image(d) \in X
    BY DEF X
  <2>2. long \in Seq(X) /\ Len(long) = n + 1
    BY <1>1, <1>3, <2>1
  <2> HIDE DEF long
  <2>3. long = [i \in 1..(n + 1) |-> long[i]]
    BY <1>1, <2>2
  <2>4. \A i \in 1..(n + 1) : Image(M[i - 1]) = long[i]
    BY <1>6 DEF long
  <2>5. QED
    BY <1>5, <2>3, <2>4 DEF long
<1>8. ASSUME stack # <<>> PROVE Images(N, n) = old
  <2>1. n - 1 \in Nat /\ (n - 1) + 1 = n
    BY <1>1, <1>8
  <2>2. N = [i \in 0..n |-> IF i = n THEN e ELSE Shorter(L, n)[i]]
    BY <2>1 DEF Longer
  <2>3. \A i \in 0..(n - 1) : Shorter(L, n)[i] = L[i]
    BY DEF Shorter
  <2>4. \A i \in 0..(n - 1) : N[i] = L[i]
    BY <1>1, <2>2, <2>3
  <2> HIDE DEF N
  <2>5. \A i \in 1..n : i - 1 \in 0..(n - 1)
    BY <1>1
  <2>6. \A i \in 1..n : Image(N[i - 1]) = Image(L[i - 1])
    BY <2>4, <2>5
  <2>7. QED
    BY <2>6 DEF Images
<1>9. IsList(old)
  BY <1>3 DEF IsList
<1>10. QED
  BY <1>3, <1>7, <1>8, <1>9 DEF n, M

\* A step popped takes the last image off.
LEMMA ImagesShorter ==
    ASSUME NEW L, NEW n \in Nat \ {0}
    PROVE  /\ Images(Shorter(L, n), n - 1) = Front(Images(L, n))
           /\ Last(Images(L, n)) = Image(L[n - 1]) /\ Images(L, n) # <<>>
<1> DEFINE old == Images(L, n)
           M == Shorter(L, n)
           X == {Image(L[i - 1]) : i \in 1..n}
<1>1. old \in Seq(X) /\ Len(old) = n /\ \A i \in 1..n : old[i] = Image(L[i - 1])
  <2>1. n \in Nat
    OBVIOUS
  <2>2. QED
    BY <2>1, ImagesAreListed
<1>2. \A i \in 0..(n - 1) : M[i] = L[i]
  BY DEF Shorter
<1>3. n \in 1..n /\ n - 1 \in Nat /\ \A i \in 1..(n - 1) : i \in 1..n /\ i - 1 \in 0..(n - 1)
  OBVIOUS
<1> HIDE DEF old, M, X
<1>4. old # <<>> /\ IsList(old)
  <2>1. n # 0
    OBVIOUS
  <2>2. QED
    BY <1>1, <2>1 DEF IsList
<1>5. /\ IsList(Front(old)) /\ Len(Front(old)) = n - 1
      /\ \A i \in 1..(n - 1) : Front(old)[i] = old[i]
      /\ Last(old) = old[n]
  BY <1>1, <1>4, Listing
<1> DEFINE front == Front(old)
<1> HIDE DEF front
<1>6. front = [i \in 1..(n - 1) |-> front[i]]
  <2>1. PICK Y : front \in Seq(Y)
    BY <1>5 DEF IsList, front
  <2>2. Len(front) = n - 1
    BY <1>5 DEF front
  <2>3. QED
    BY <2>1, <2>2
<1>7. \A i \in 1..(n - 1) : Image(M[i - 1]) = front[i]
  BY <1>1, <1>2, <1>3, <1>5 DEF front
<1>8. Images(M, n - 1) = front
  BY <1>6, <1>7 DEF Images
<1>9. QED
  BY <1>1, <1>3, <1>4, <1>5, <1>8 DEF front, old, M

-----------------------------------------------------------------------------
(* Step by step along a stack. *)

\* The first steps back from s, one after the other.
StepsBack(f, s, n) == f = [k \in 0..n |-> IF k = 0 THEN s ELSE Undone(f[k - 1])]

\* The sessions that taking steps back leads to, as one function.
LEMMA BackExists ==
    ASSUME NEW s, NEW n \in Nat
    PROVE  \E f : StepsBack(f, s, n)
<1> DEFINE P == {m \in Nat : \E f : StepsBack(f, s, m)}
<1>1. 0 \in P
  <2> DEFINE f == [k \in 0..0 |-> s]
  <2>1. \A k \in 0..0 : k = 0
    OBVIOUS
  <2>2. f = [k \in 0..0 |-> IF k = 0 THEN s ELSE Undone(f[k - 1])]
    BY <2>1
  <2>3. StepsBack(f, s, 0)
    BY <2>2 DEF StepsBack
  <2>4. QED
    BY <2>3
<1>2. ASSUME NEW m \in Nat, m \in P PROVE m + 1 \in P
  <2>1. PICK f : StepsBack(f, s, m)
    BY <1>2
  <2>2. f = [k \in 0..m |-> IF k = 0 THEN s ELSE Undone(f[k - 1])]
    BY <2>1 DEF StepsBack
  <2> DEFINE g == [k \in 0..(m + 1) |-> IF k = m + 1 THEN Undone(f[m]) ELSE f[k]]
  <2>3. \A k \in 0..m : g[k] = f[k]
    OBVIOUS
  <2>4. g[m + 1] = Undone(f[m]) /\ g = [k \in 0..(m + 1) |-> g[k]]
    OBVIOUS
  <2> HIDE DEF g
  <2>5. ASSUME NEW k \in 0..(m + 1) PROVE g[k] = IF k = 0 THEN s ELSE Undone(g[k - 1])
    <3>1. k = m + 1 \/ k \in 0..m
      OBVIOUS
    <3>2. CASE k = m + 1
      <4>1. k - 1 = m /\ k # 0 /\ m \in 0..m
        BY <3>2
      <4>2. QED
        BY <2>3, <2>4, <3>2, <4>1
    <3>3. CASE k \in 0..m
      <4>1. f[k] = IF k = 0 THEN s ELSE Undone(f[k - 1])
        BY <2>2, <3>3
      <4>2. k = 0 \/ k - 1 \in 0..m
        BY <3>3
      <4>3. QED
        BY <2>3, <3>3, <4>1, <4>2
    <3>4. QED
      BY <3>1, <3>2, <3>3
  <2>6. StepsBack(g, s, m + 1)
    BY <2>4, <2>5 DEF StepsBack
  <2>7. QED
    BY <2>6
<1>3. Nat \subseteq P
  <2> HIDE DEF P
  <2>1. QED
    BY <1>1, <1>2, NatSetInduction
<1>4. QED
  BY <1>3

\* A step back leads to a document that shows what the stack led to.
LEMMA TakingBack ==
    ASSUME NEW s, NEW L, NEW R, IsWalkable(s, L, R), NEW n \in 0..Len(s.undo)
    PROVE  Image(TakenBackBy(s, n).scene) = Image(L[Len(s.undo) - n])
<1> DEFINE all == Len(s.undo)
           f == CHOOSE h : StepsBack(h, s, n)
<1>0. all \in Nat
  BY Listing DEF IsWalkable, LeadsThrough
<1>1. TakenBackBy(s, n) = f[n]
  BY Zenon DEF TakenBackBy, StepsBack
<1> HIDE DEF all
<1>2. n \in Nat /\ n \in 0..all /\ n \in 0..n
  BY <1>0 DEF all
<1>3. StepsBack(f, s, n)
  BY <1>2, BackExists
<1> HIDE DEF f
<1>4. f[0] = s /\ \A k \in 1..n : f[k] = Undone(f[k - 1])
  <2>1. f = [k \in 0..n |-> IF k = 0 THEN s ELSE Undone(f[k - 1])]
    BY <1>3 DEF StepsBack
  <2> HIDE DEF f
  <2>2. 0 \in 0..n /\ \A k \in 1..n : k \in 0..n /\ k # 0
    BY <1>2
  <2>3. QED
    BY <2>1, <2>2
<1> DEFINE Led(t, k) == \E M, Q : /\ IsWalkable(t, M, Q) /\ Len(t.undo) = all - k
                                  /\ \A i \in 0..(all - k) : M[i] = L[i]
           P == {k \in Nat : k <= n => Led(f[k], k)}
<1>5. 0 \in P
  <2>1. Led(s, 0)
    BY <1>0 DEF all
  <2>2. QED
    BY <1>4, <2>1
<1>6. ASSUME NEW k \in Nat, k \in P PROVE k + 1 \in P
  <2>1. SUFFICES ASSUME k + 1 <= n PROVE Led(f[k + 1], k + 1)
    OBVIOUS
  <2>2. k <= n /\ k + 1 \in 1..n /\ (k + 1) - 1 = k /\ all - k \in Nat \ {0}
        /\ (all - k) - 1 = all - (k + 1)
    BY <1>0, <1>2, <2>1
  <2>3. PICK M, Q : /\ IsWalkable(f[k], M, Q) /\ Len(f[k].undo) = all - k
                    /\ \A i \in 0..(all - k) : M[i] = L[i]
    BY <1>6, <2>2
  <2>4. f[k + 1] = Undone(f[k])
    BY <1>4, <2>2
  <2> DEFINE t == f[k]
             u == f[k + 1]
             j == all - k
  <2>5. t.undo # <<>>
    BY <2>2, <2>3, Listing DEF IsWalkable, LeadsThrough
  <2> HIDE DEF t, u, j
  <2>6. /\ IsWalkable(u, Shorter(M, Len(t.undo)), Longer(Q, Len(t.redo), u.scene))
        /\ Len(u.undo) = Len(t.undo) - 1
    BY <2>3, <2>4, <2>5, SteppingBack DEF t, u
  <2>7. Len(t.undo) = j /\ j \in Nat \ {0} /\ j - 1 = all - (k + 1)
    BY <2>2, <2>3 DEF t, j
  <2>8. \A i \in 0..(j - 1) : Shorter(M, j)[i] = L[i]
    <3>1. \A i \in 0..(j - 1) : Shorter(M, j)[i] = M[i] /\ i \in 0..j
      BY <2>7 DEF Shorter
    <3>2. QED
      BY <2>3, <3>1 DEF j
  <2>9. Led(u, k + 1)
    BY <2>6, <2>7, <2>8
  <2>10. QED
    BY <2>9 DEF u
<1>7. Nat \subseteq P
  <2> HIDE DEF P
  <2>1. QED
    BY <1>5, <1>6, NatSetInduction
<1>8. Led(f[n], n)
  BY <1>2, <1>7
<1>9. PICK M, Q : /\ IsWalkable(f[n], M, Q) /\ Len(f[n].undo) = all - n
                  /\ \A i \in 0..(all - n) : M[i] = L[i]
  BY <1>8
<1>10. all - n \in 0..(all - n)
  BY <1>0, <1>2
<1>11. IsDocument(M[all - n]) /\ Within(M[all - n], f[n].scene) /\ IsDocument(f[n].scene)
  BY <1>9, <1>10 DEF IsWalkable, LeadsThrough
<1>12. Image(M[all - n]) = Image(f[n].scene)
  BY <1>11, SameImage
<1>13. QED
  BY <1>1, <1>9, <1>10, <1>12 DEF all

\* The first steps forth from s, one after the other.
StepsForth(f, s, n) == f = [k \in 0..n |-> IF k = 0 THEN s ELSE Redone(f[k - 1])]

\* The sessions that bringing steps again leads to, as one function.
LEMMA ForthExists ==
    ASSUME NEW s, NEW n \in Nat
    PROVE  \E f : StepsForth(f, s, n)
<1> DEFINE P == {m \in Nat : \E f : StepsForth(f, s, m)}
<1>1. 0 \in P
  <2> DEFINE f == [k \in 0..0 |-> s]
  <2>1. \A k \in 0..0 : k = 0
    OBVIOUS
  <2>2. f = [k \in 0..0 |-> IF k = 0 THEN s ELSE Redone(f[k - 1])]
    BY <2>1
  <2>3. StepsForth(f, s, 0)
    BY <2>2 DEF StepsForth
  <2>4. QED
    BY <2>3
<1>2. ASSUME NEW m \in Nat, m \in P PROVE m + 1 \in P
  <2>1. PICK f : StepsForth(f, s, m)
    BY <1>2
  <2>2. f = [k \in 0..m |-> IF k = 0 THEN s ELSE Redone(f[k - 1])]
    BY <2>1 DEF StepsForth
  <2> DEFINE g == [k \in 0..(m + 1) |-> IF k = m + 1 THEN Redone(f[m]) ELSE f[k]]
  <2>3. \A k \in 0..m : g[k] = f[k]
    OBVIOUS
  <2>4. g[m + 1] = Redone(f[m]) /\ g = [k \in 0..(m + 1) |-> g[k]]
    OBVIOUS
  <2> HIDE DEF g
  <2>5. ASSUME NEW k \in 0..(m + 1) PROVE g[k] = IF k = 0 THEN s ELSE Redone(g[k - 1])
    <3>1. k = m + 1 \/ k \in 0..m
      OBVIOUS
    <3>2. CASE k = m + 1
      <4>1. k - 1 = m /\ k # 0 /\ m \in 0..m
        BY <3>2
      <4>2. QED
        BY <2>3, <2>4, <3>2, <4>1
    <3>3. CASE k \in 0..m
      <4>1. f[k] = IF k = 0 THEN s ELSE Redone(f[k - 1])
        BY <2>2, <3>3
      <4>2. k = 0 \/ k - 1 \in 0..m
        BY <3>3
      <4>3. QED
        BY <2>3, <3>3, <4>1, <4>2
    <3>4. QED
      BY <3>1, <3>2, <3>3
  <2>6. StepsForth(g, s, m + 1)
    BY <2>4, <2>5 DEF StepsForth
  <2>7. QED
    BY <2>6
<1>3. Nat \subseteq P
  <2> HIDE DEF P
  <2>1. QED
    BY <1>1, <1>2, NatSetInduction
<1>4. QED
  BY <1>3

\* A step forth leads to a document that shows what the stack led to.
LEMMA BringingAgain ==
    ASSUME NEW s, NEW L, NEW R, IsWalkable(s, R, L), NEW n \in 0..Len(s.redo)
    PROVE  Image(BroughtAgainBy(s, n).scene) = Image(L[Len(s.redo) - n])
<1> DEFINE all == Len(s.redo)
           f == CHOOSE h : StepsForth(h, s, n)
<1>0. all \in Nat
  BY Listing DEF IsWalkable, LeadsThrough
<1>1. BroughtAgainBy(s, n) = f[n]
  BY Zenon DEF BroughtAgainBy, StepsForth
<1> HIDE DEF all
<1>2. n \in Nat /\ n \in 0..all /\ n \in 0..n
  BY <1>0 DEF all
<1>3. StepsForth(f, s, n)
  BY <1>2, ForthExists
<1> HIDE DEF f
<1>4. f[0] = s /\ \A k \in 1..n : f[k] = Redone(f[k - 1])
  <2>1. f = [k \in 0..n |-> IF k = 0 THEN s ELSE Redone(f[k - 1])]
    BY <1>3 DEF StepsForth
  <2> HIDE DEF f
  <2>2. 0 \in 0..n /\ \A k \in 1..n : k \in 0..n /\ k # 0
    BY <1>2
  <2>3. QED
    BY <2>1, <2>2
<1> DEFINE Led(t, k) == \E M, Q : /\ IsWalkable(t, Q, M) /\ Len(t.redo) = all - k
                                  /\ \A i \in 0..(all - k) : M[i] = L[i]
           P == {k \in Nat : k <= n => Led(f[k], k)}
<1>5. 0 \in P
  <2>1. Led(s, 0)
    BY <1>0 DEF all
  <2>2. QED
    BY <1>4, <2>1
<1>6. ASSUME NEW k \in Nat, k \in P PROVE k + 1 \in P
  <2>1. SUFFICES ASSUME k + 1 <= n PROVE Led(f[k + 1], k + 1)
    OBVIOUS
  <2>2. k <= n /\ k + 1 \in 1..n /\ (k + 1) - 1 = k /\ all - k \in Nat \ {0}
        /\ (all - k) - 1 = all - (k + 1)
    BY <1>0, <1>2, <2>1
  <2>3. PICK M, Q : /\ IsWalkable(f[k], Q, M) /\ Len(f[k].redo) = all - k
                    /\ \A i \in 0..(all - k) : M[i] = L[i]
    BY <1>6, <2>2
  <2>4. f[k + 1] = Redone(f[k])
    BY <1>4, <2>2
  <2> DEFINE t == f[k]
             u == f[k + 1]
             j == all - k
  <2>5. t.redo # <<>>
    BY <2>2, <2>3, Listing DEF IsWalkable, LeadsThrough
  <2> HIDE DEF t, u, j
  <2>6. /\ IsWalkable(u, Longer(Q, Len(t.undo), u.scene), Shorter(M, Len(t.redo)))
        /\ Len(u.redo) = Len(t.redo) - 1
    BY <2>3, <2>4, <2>5, SteppingForward DEF t, u
  <2>7. Len(t.redo) = j /\ j \in Nat \ {0} /\ j - 1 = all - (k + 1)
    BY <2>2, <2>3 DEF t, j
  <2>8. \A i \in 0..(j - 1) : Shorter(M, j)[i] = L[i]
    <3>1. \A i \in 0..(j - 1) : Shorter(M, j)[i] = M[i] /\ i \in 0..j
      BY <2>7 DEF Shorter
    <3>2. QED
      BY <2>3, <3>1 DEF j
  <2>9. Led(u, k + 1)
    BY <2>6, <2>7, <2>8
  <2>10. QED
    BY <2>9 DEF u
<1>7. Nat \subseteq P
  <2> HIDE DEF P
  <2>1. QED
    BY <1>5, <1>6, NatSetInduction
<1>8. Led(f[n], n)
  BY <1>2, <1>7
<1>9. PICK M, Q : /\ IsWalkable(f[n], Q, M) /\ Len(f[n].redo) = all - n
                  /\ \A i \in 0..(all - n) : M[i] = L[i]
  BY <1>8
<1>10. all - n \in 0..(all - n)
  BY <1>0, <1>2
<1>11. IsDocument(M[all - n]) /\ Within(M[all - n], f[n].scene) /\ IsDocument(f[n].scene)
  BY <1>9, <1>10 DEF IsWalkable, LeadsThrough
<1>12. Image(M[all - n]) = Image(f[n].scene)
  BY <1>11, SameImage
<1>13. QED
  BY <1>1, <1>9, <1>10, <1>12 DEF all

\* The line of a session that walks back through L and forth through R.
LEMMA LineIs ==
    ASSUME NEW s, NEW L, NEW R, IsWalkable(s, L, R)
    PROVE  LineOf(s) = [past |-> Images(L, Len(s.undo)), future |-> Images(R, Len(s.redo))]
<1> DEFINE n == Len(s.undo)
           m == Len(s.redo)
<1>1. n \in Nat /\ m \in Nat
  BY Listing DEF IsWalkable, LeadsThrough
<1>2. \A i \in 1..n : Image(TakenBackBy(s, n - i + 1).scene) = Image(L[i - 1])
  <2>1. ASSUME NEW i \in 1..n PROVE Image(TakenBackBy(s, n - i + 1).scene) = Image(L[i - 1])
    <3> DEFINE k == n - i + 1
    <3>1. k \in 0..n /\ n - k = i - 1
      BY <1>1
    <3> HIDE DEF k
    <3>2. Image(TakenBackBy(s, k).scene) = Image(L[n - k])
      BY <3>1, TakingBack
    <3>3. QED
      BY <3>1, <3>2 DEF k
  <2>2. QED
    BY <2>1
<1>3. \A i \in 1..m : Image(BroughtAgainBy(s, m - i + 1).scene) = Image(R[i - 1])
  <2>1. ASSUME NEW i \in 1..m PROVE Image(BroughtAgainBy(s, m - i + 1).scene) = Image(R[i - 1])
    <3> DEFINE k == m - i + 1
    <3>1. k \in 0..m /\ m - k = i - 1
      BY <1>1
    <3> HIDE DEF k
    <3>2. Image(BroughtAgainBy(s, k).scene) = Image(R[m - k])
      BY <3>1, BringingAgain
    <3>3. QED
      BY <3>1, <3>2 DEF k
  <2>2. QED
    BY <2>1
<1>4. LineOf(s) = [past   |-> [i \in 1..n |-> Image(TakenBackBy(s, n - i + 1).scene)],
                   future |-> [i \in 1..m |-> Image(BroughtAgainBy(s, m - i + 1).scene)]]
  BY DEF LineOf
<1> HIDE DEF n, m
<1>5. [i \in 1..n |-> Image(TakenBackBy(s, n - i + 1).scene)] = Images(L, n)
  BY <1>2 DEF Images
<1>6. [i \in 1..m |-> Image(BroughtAgainBy(s, m - i + 1).scene)] = Images(R, m)
  BY <1>3 DEF Images
<1>7. QED
  BY <1>4, <1>5, <1>6 DEF n, m

-----------------------------------------------------------------------------
(* The steps of the line. *)

\* The session is sound, and the line is the one its stacks lead along.
LineIsSound == SessionIsSound /\ line = LineOf(session)

\* Along an empty stack there are no images.
LEMMA NoImages ==
    ASSUME NEW L, NEW stack, stack = <<>>
    PROVE  Images(L, Len(stack)) = <<>>
<1>1. Len(stack) = 0
  OBVIOUS
<1>2. Len(Images(L, 0)) = 0 /\ IsList(Images(L, 0))
  BY ImagesAreListed DEF IsList
<1>3. QED
  BY <1>1, <1>2, Listing

\* A list has all of its own states.
LEMMA NothingForgotten ==
    ASSUME NEW list, IsList(list), NEW least \in Nat, least <= Len(list)
    PROVE  list \in Linear!Forgotten(list, least)
<1>1. PICK X : list \in Seq(X)
  BY DEF IsList
<1>2. 0 \in 0..(Len(list) - least)
  BY <1>1
<1>3. SubSeq(list, 0 + 1, Len(list)) = list
  BY <1>1
<1>4. QED
  BY <1>2, <1>3 DEF Linear!Forgotten

\* A session starts where a line starts.
LEMMA LineStarts == LineInit => LineIsSound /\ Linear!LinearInit
<1>1. SUFFICES ASSUME LineInit PROVE LineIsSound /\ Linear!LinearInit
  OBVIOUS
<1>2. SessionIsSound /\ session.undo = <<>> /\ session.redo = <<>> /\ line = LineOf(session)
  BY <1>1, StartsSound DEF LineInit, Init, Fresh
<1>3. PICK L, R : IsWalkable(session, L, R)
  BY <1>2 DEF SessionIsSound
<1>4. LineOf(session) = [past |-> Images(L, Len(session.undo)), future |-> Images(R, Len(session.redo))]
  BY <1>3, LineIs
<1>5. Images(L, Len(session.undo)) = <<>> /\ Images(R, Len(session.redo)) = <<>>
  <2> DEFINE a == session.undo
             b == session.redo
  <2>1. a = <<>> /\ b = <<>>
    BY <1>2
  <2> HIDE DEF a, b
  <2>2. Images(L, Len(a)) = <<>> /\ Images(R, Len(b)) = <<>>
    BY <2>1, NoImages
  <2>3. QED
    BY <2>2 DEF a, b
<1>6. line = [past |-> <<>>, future |-> <<>>]
  BY <1>2, <1>4, <1>5
<1>7. line.past = <<>> /\ line.future = <<>>
  BY <1>6
<1>8. QED
  BY <1>2, <1>7 DEF LineIsSound, Linear!LinearInit, Linear!Closed

\* A call that edits is an edit of the line, or extends its last step.
LEMMA LineEdits ==
    ASSUME LineIsSound, NEW d, NEW commands, IsPerformable(d, commands), Perform(d, commands),
           line' = LineOf(session')
    PROVE  Linear!Edit \/ Linear!Extend
<1>1. PICK L, R : IsWalkable(session, L, R)
  BY DEF LineIsSound, SessionIsSound
<1> DEFINE t == session'
           n == Len(session.undo)
           none == [i \in 0..0 |-> t.scene]
<1>2. line.past = Images(L, n)
  BY <1>1, LineIs DEF LineIsSound
<1>3. IsDocument(Scene) /\ LeadsThrough(session.undo, L, Scene) /\ n \in Nat
  BY <1>1, Listing DEF IsWalkable, Scene, LeadsThrough
<1>4. /\ \A e : Images(Longer(L, n, e), n + 1) = Append(Images(L, n), Image(Scene))
      /\ IsList(Images(L, n)) /\ Len(Images(L, n)) = n
      /\ session.undo # <<>> => \A e : Images(Longer(Shorter(L, n), n - 1, e), n) = Images(L, n)
  BY <1>3, ImagesLonger
<1>5. /\ t.redo = <<>>
      /\ \/ IsWalkable(t, Longer(L, n, t.scene), none) /\ Len(t.undo) = n + 1
         \/ /\ IsWalkable(t, Longer(Shorter(L, n), n - 1, t.scene), none)
            /\ session.undo # <<>> /\ Len(t.undo) = n
  BY <1>1, EditingTheSession
<1>6. line' = LineOf(t)
  OBVIOUS
<1> HIDE DEF t, n, none
<1>7. \A M : IsWalkable(t, M, none) => line'.past = Images(M, Len(t.undo)) /\ line'.future = <<>>
  <2>1. SUFFICES ASSUME NEW M, IsWalkable(t, M, none)
                 PROVE  line'.past = Images(M, Len(t.undo)) /\ line'.future = <<>>
    OBVIOUS
  <2>2. LineOf(t) = [past |-> Images(M, Len(t.undo)), future |-> Images(none, Len(t.redo))]
    BY <2>1, LineIs
  <2>3. Images(none, Len(t.redo)) = <<>>
    BY <1>5, NoImages
  <2>4. QED
    BY <1>6, <2>2, <2>3
<1>8. CASE IsWalkable(t, Longer(L, n, t.scene), none) /\ Len(t.undo) = n + 1
  <2> DEFINE long == Append(line.past, Image(Scene))
  <2>1. line'.past = long /\ line'.future = <<>>
    BY <1>2, <1>4, <1>7, <1>8
  <2>2. IsList(long) /\ Len(long) = n + 1
    BY <1>2, <1>4, Listing
  <2> HIDE DEF long
  <2>3. 1 \in Nat /\ 1 <= Len(long)
    BY <1>3, <2>2
  <2>4. long \in Linear!Forgotten(long, 1)
    BY <2>2, <2>3, NothingForgotten
  <2>5. line'.past \in Linear!Forgotten(Append(line.past, Image(session.scene)), 1)
    BY <2>1, <2>4 DEF long, Scene
  <2>6. Linear!Edit
    BY <2>1, <2>5 DEF Linear!Edit, Linear!Closed
  <2>7. QED
    BY <2>6
<1>9. CASE /\ IsWalkable(t, Longer(Shorter(L, n), n - 1, t.scene), none)
           /\ session.undo # <<>> /\ Len(t.undo) = n
  <2>1. line'.past = line.past /\ line'.future = <<>>
    BY <1>2, <1>4, <1>7, <1>9
  <2>2. line.past # <<>>
    <3>1. n # 0
      BY <1>3, <1>9, Listing DEF n, LeadsThrough
    <3>2. QED
      BY <1>2, <1>4, <3>1, Listing
  <2>3. QED
    BY <2>1, <2>2 DEF Linear!Extend, Linear!Closed
<1>10. QED
  BY <1>5, <1>8, <1>9

\* Undo is a step back along the line.
LEMMA LineStepsBack ==
    ASSUME LineIsSound, StepBack, line' = LineOf(session')
    PROVE  Linear!StepBack
<1>1. PICK L, R : IsWalkable(session, L, R)
  BY DEF LineIsSound, SessionIsSound
<1>2. session.undo # <<>> /\ session' = Undone(session)
  BY DEF StepBack
<1> DEFINE t == Undone(session)
           n == Len(session.undo)
           m == Len(session.redo)
<1>3. line.past = Images(L, n) /\ line.future = Images(R, m)
  BY <1>1, LineIs DEF LineIsSound
<1>4. IsDocument(Scene) /\ LeadsThrough(session.undo, L, Scene) /\ LeadsThrough(session.redo, R, Scene)
  BY <1>1 DEF IsWalkable, Scene
<1>5. /\ IsWalkable(t, Shorter(L, n), Longer(R, m, t.scene))
      /\ Within(L[n - 1], t.scene) /\ n \in Nat \ {0}
      /\ Len(t.undo) = n - 1 /\ Len(t.redo) = m + 1
  BY <1>1, <1>2, SteppingBack
<1>6. /\ Images(Longer(R, m, t.scene), m + 1) = Append(Images(R, m), Image(Scene))
  BY <1>4, ImagesLonger
<1> HIDE DEF t, n, m
<1>7. /\ Images(Shorter(L, n), n - 1) = Front(Images(L, n))
      /\ Last(Images(L, n)) = Image(L[n - 1]) /\ Images(L, n) # <<>>
  BY <1>5, ImagesShorter
<1>8. LineOf(t) = [past |-> Images(Shorter(L, n), Len(t.undo)),
                   future |-> Images(Longer(R, m, t.scene), Len(t.redo))]
  BY <1>5, LineIs
<1>9. Image(t.scene) = Image(L[n - 1])
  <2>1. n - 1 \in 0..n
    BY <1>5
  <2>2. IsDocument(L[n - 1])
    BY <1>4, <2>1 DEF LeadsThrough, n
  <2>3. IsDocument(t.scene)
    BY <1>5 DEF IsWalkable
  <2>4. QED
    BY <1>5, <2>2, <2>3, SameImage
<1>10. /\ line'.past = Front(line.past) /\ line'.future = Append(line.future, Image(session.scene))
       /\ Image(t.scene) = Last(line.past) /\ line.past # <<>>
  <2>1. line' = LineOf(t)
    BY <1>2 DEF t
  <2>2. QED
    BY <1>3, <1>5, <1>6, <1>7, <1>8, <1>9, <2>1 DEF Scene
<1>11. Image(session.scene)' = Last(line.past)
  BY <1>2, <1>10 DEF t, Image
<1>12. Linear!Last(line.past) = Last(line.past) /\ Linear!Front(line.past) = Front(line.past)
  BY DEF Linear!Last, Linear!Front, Last, Front
<1>13. QED
  BY <1>10, <1>11, <1>12 DEF Linear!StepBack, Linear!Closed

\* Redo is a step forward along the line.
LEMMA LineStepsForward ==
    ASSUME LineIsSound, StepForward, line' = LineOf(session')
    PROVE  Linear!StepForward
<1>1. PICK L, R : IsWalkable(session, L, R)
  BY DEF LineIsSound, SessionIsSound
<1>2. session.redo # <<>> /\ session' = Redone(session)
  BY DEF StepForward
<1> DEFINE t == Redone(session)
           n == Len(session.redo)
           m == Len(session.undo)
<1>3. line.future = Images(R, n) /\ line.past = Images(L, m)
  BY <1>1, LineIs DEF LineIsSound
<1>4. IsDocument(Scene) /\ LeadsThrough(session.redo, R, Scene) /\ LeadsThrough(session.undo, L, Scene)
  BY <1>1 DEF IsWalkable, Scene
<1>5. /\ IsWalkable(t, Longer(L, m, t.scene), Shorter(R, n))
      /\ Within(R[n - 1], t.scene) /\ n \in Nat \ {0}
      /\ Len(t.redo) = n - 1 /\ Len(t.undo) = m + 1
  BY <1>1, <1>2, SteppingForward
<1>6. /\ Images(Longer(L, m, t.scene), m + 1) = Append(Images(L, m), Image(Scene))
  BY <1>4, ImagesLonger
<1> HIDE DEF t, n, m
<1>7. /\ Images(Shorter(R, n), n - 1) = Front(Images(R, n))
      /\ Last(Images(R, n)) = Image(R[n - 1]) /\ Images(R, n) # <<>>
  BY <1>5, ImagesShorter
<1>8. LineOf(t) = [past |-> Images(Longer(L, m, t.scene), Len(t.undo)),
                   future |-> Images(Shorter(R, n), Len(t.redo))]
  BY <1>5, LineIs
<1>9. Image(t.scene) = Image(R[n - 1])
  <2>1. n - 1 \in 0..n
    BY <1>5
  <2>2. IsDocument(R[n - 1])
    BY <1>4, <2>1 DEF LeadsThrough, n
  <2>3. IsDocument(t.scene)
    BY <1>5 DEF IsWalkable
  <2>4. QED
    BY <1>5, <2>2, <2>3, SameImage
<1>10. /\ line'.future = Front(line.future) /\ line'.past = Append(line.past, Image(session.scene))
       /\ Image(t.scene) = Last(line.future) /\ line.future # <<>>
  <2>1. line' = LineOf(t)
    BY <1>2 DEF t
  <2>2. QED
    BY <1>3, <1>5, <1>6, <1>7, <1>8, <1>9, <2>1 DEF Scene
<1>11. Image(session.scene)' = Last(line.future)
  BY <1>2, <1>10 DEF t, Image
<1>12. Linear!Last(line.future) = Last(line.future) /\ Linear!Front(line.future) = Front(line.future)
  BY DEF Linear!Last, Linear!Front, Last, Front
<1>13. QED
  BY <1>10, <1>11, <1>12 DEF Linear!StepForward, Linear!Closed

\* Every call is a step of the line, or leaves it.
LEMMA LineMoves ==
    ASSUME UsesAsDocumented, LineIsSound, [LineNext]_<<vars, line>>
    PROVE  LineIsSound' /\ [Linear!LinearNext]_(Linear!linearVars)
<1>1. [Next]_vars
  BY DEF LineNext
<1>2. \E L, R : IsWalkable(session', L, R)
  BY <1>1, StaysSound DEF LineIsSound
<1>3. SessionIsSound'
  BY <1>2 DEF SessionIsSound
<1>4. CASE LineNext
  <2>1. Next /\ line' = LineOf(session')
    BY <1>4 DEF LineNext
  <2>2. LineIsSound'
    BY <1>3, <2>1 DEF LineIsSound
  <2>3. CASE \E d, commands : IsPerformable(d, commands) /\ Perform(d, commands)
    BY <2>1, <2>2, <2>3, LineEdits DEF Linear!LinearNext
  <2>4. CASE StepBack
    BY <2>1, <2>2, <2>4, LineStepsBack DEF Linear!LinearNext
  <2>5. CASE StepForward
    BY <2>1, <2>2, <2>5, LineStepsForward DEF Linear!LinearNext
  <2>6. CASE Drain
    <3>1. session' = session
      BY <2>6 DEF Drain
    <3>2. line' = line
      BY <2>1, <3>1 DEF LineIsSound
    <3>3. Image(session.scene)' = Image(session.scene)
      BY <3>1 DEF Image
    <3>4. QED
      BY <2>2, <3>2, <3>3 DEF Linear!linearVars
  <2>7. QED
    BY <2>1, <2>3, <2>4, <2>5, <2>6, EveryStepIsOne DEF LineIsSound
<1>5. CASE UNCHANGED <<vars, line>>
  <2>1. session' = session /\ line' = line
    BY <1>5 DEF vars
  <2>2. LineIsSound'
    BY <1>3, <2>1 DEF LineIsSound
  <2>3. Image(session.scene)' = Image(session.scene)
    BY <2>1 DEF Image
  <2>4. QED
    BY <2>1, <2>2, <2>3 DEF Linear!linearVars
<1>6. QED
  BY <1>4, <1>5

\* Undo and redo of a host that keeps to the documented use walk one line of documents:
\* every call can be taken back, and brought again.
THEOREM EveryEditReverses ==
    ASSUME UsesAsDocumented
    PROVE  LineSpec => EveryEditIsReversible
<1>1. LineInit => LineIsSound /\ Linear!LinearInit
  BY LineStarts
<1>2. LineIsSound /\ [LineNext]_<<vars, line>> => LineIsSound' /\ [Linear!LinearNext]_(Linear!linearVars)
  BY LineMoves
<1>3. QED
  BY <1>1, <1>2, PTL DEF LineSpec, EveryEditIsReversible, Linear!LinearSpec
=============================================================================
