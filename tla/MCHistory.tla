------------------------------ MODULE MCHistory -----------------------------
(***************************************************************************)
(* Small instances of History: one node, one colour to change, one layer   *)
(* of payload or two, and the host's calls chosen run by run.              *)
(***************************************************************************)
EXTENDS History

CONSTANTS n1, v0, v1, red, blue, p

AddItem == [op |-> "AddNode", node |-> n1, item |-> [color |-> red, stroke |-> <<>>]]
RemoveItem == [op |-> "RemoveNode", node |-> n1]
AppendOne == [op |-> "AppendStroke", node |-> n1, points |-> <<p>>]
Paint == [op |-> "SetColor", node |-> n1, color |-> blue]

\* Host commands without the append, and all of them.
PlainCommands == {AddItem, Paint}
StrokeCommands == {AddItem, AppendOne, Paint}

Consolidate == <<RemoveItem, AddItem>>
CommitStroke == <<AppendOne, Paint>>
SculptEdits == {Consolidate, CommitStroke}
NoEdits == {}
NoLimits == {}
TightLimits == {3, 5}
EvictedBrackets == {"evictionInClose"}
FailingLayers == {"resolver"}
BoundedCalls == {"barrier", "trim", "clear", "resolver"}

\* The content of the journal decides nothing but a replay: runs without one
\* tell states apart by its length alone.
ButJournalContent ==
    <<world, present, steps, redo, depth, start, budget, dropped, base + Len(journal)>>
=============================================================================
