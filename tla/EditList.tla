------------------------------ MODULE EditList ------------------------------
(***************************************************************************)
(* The command vocabulary of the edit list: scene::apply and the inverse   *)
(* it returns (src/src/scene/commands.cpp).                                *)
(*                                                                         *)
(* A command is all an edit is: applying it either refuses and leaves the  *)
(* document as it stands, or changes the document and yields the command   *)
(* that puts it back.  SceneCommands models the whole vocabulary; of its   *)
(* twenty-two commands, five tell every behaviour of the history apart:    *)
(*   - AddNode / RemoveNode decide whether a node exists, so a command     *)
(*     applied out of order can be refused;                                *)
(*   - SetColor stands for every setter (apply_field): it overwrites one   *)
(*     field and its inverse carries the value it found;                   *)
(*   - AppendStroke / TrimStroke are relative, so their inverses depend on *)
(*     what was applied in between, and they are the pair that coalesces.  *)
(* A document is one SDF layer: a function from node ids to items.         *)
(***************************************************************************)
EXTENDS Integers, Sequences, SequencesExt

CONSTANTS
    Nodes,    \* the node ids of the layer
    Colors,   \* the values a field setter writes
    Points,   \* the control points a stroke is made of
    NoItem    \* what an id without a node maps to

ASSUME NoItemAssumption ==
    NoItem \notin [color: Colors, stroke: Seq(Points)]

Item == [color: Colors, stroke: Seq(Points)]

Document == [Nodes -> Item \cup {NoItem}]

Command ==
         [op: {"AddNode"}, node: Nodes, item: Item]
    \cup [op: {"RemoveNode"}, node: Nodes]
    \cup [op: {"SetColor"}, node: Nodes, color: Colors]
    \cup [op: {"AppendStroke"}, node: Nodes, points: Seq(Points)]
    \cup [op: {"TrimStroke"}, node: Nodes, count: Nat]

(***************************************************************************)
(* Whether apply() answers a command at all, or returns nullopt: a missing *)
(* node takes no edit, and a stroke cannot lose more points than it has.   *)
(* An AddNode of an id in use is out of bounds here: the one insertion     *)
(* path reserves a fresh id (insert_node, clay_c.cpp), and what reinsert   *)
(* does with another is in EditTree.                                       *)
(***************************************************************************)
Applicable(d, cmd) ==
    CASE cmd.op = "AddNode"    -> d[cmd.node] = NoItem
      [] cmd.op = "TrimStroke" -> /\ d[cmd.node] # NoItem
                                  /\ cmd.count <= Len(d[cmd.node].stroke)
      [] OTHER                 -> d[cmd.node] # NoItem

\* The document an applicable command leaves.
Applied(d, cmd) ==
    LET item == d[cmd.node] IN
    [d EXCEPT ![cmd.node] =
        CASE cmd.op = "AddNode"      -> cmd.item
          [] cmd.op = "RemoveNode"   -> NoItem
          [] cmd.op = "SetColor"     -> [item EXCEPT !.color = cmd.color]
          [] cmd.op = "AppendStroke" -> [item EXCEPT !.stroke = @ \o cmd.points]
          [] cmd.op = "TrimStroke"   ->
                [item EXCEPT !.stroke = SubSeq(@, 1, Len(@) - cmd.count)]]

\* The command apply() returns, built from the document as it found it.
InverseOf(d, cmd) ==
    LET n == cmd.node
        item == d[n]
    IN  CASE cmd.op = "AddNode"      -> [op |-> "RemoveNode", node |-> n]
          [] cmd.op = "RemoveNode"   -> [op |-> "AddNode", node |-> n, item |-> item]
          [] cmd.op = "SetColor"     ->
                [op |-> "SetColor", node |-> n, color |-> item.color]
          [] cmd.op = "AppendStroke" ->
                [op |-> "TrimStroke", node |-> n, count |-> Len(cmd.points)]
          [] cmd.op = "TrimStroke"   ->
                [op |-> "AppendStroke", node |-> n,
                 points |-> SubSeq(item.stroke, Len(item.stroke) - cmd.count + 1,
                                  Len(item.stroke))]
=============================================================================
