------------------------------ MODULE UndoStack -----------------------------
(***************************************************************************)
(* scene::UndoStack: the undo history of the edit list alone               *)
(* (src/src/scene/commands.cpp, src/include/clay/scene/commands.h).        *)
(*                                                                         *)
(* A stack is a record [undo, redo, depth].  An entry is the sequence of   *)
(* inverses one step collected, in the order they were collected; a step   *)
(* is taken back by applying them newest first.  The member functions are  *)
(* operators that take the stack and the document and return both, because *)
(* session::History and the engine calls that perform commands through     *)
(* History::commands() run several of them inside one step of their own.   *)
(***************************************************************************)
EXTENDS EditList

Entry == Seq(Command)

UndoStackType == [undo: Seq(Entry), redo: Seq(Entry), depth: Nat]

EmptyStack == [undo |-> <<>>, redo |-> <<>>, depth |-> 0]

(***************************************************************************)
(* try_coalesce: an append merges into the entry on top when that entry is *)
(* a single trim of the same node, by adding the points to its count.      *)
(***************************************************************************)
Coalesces(stack, cmd) ==
    /\ cmd.op = "AppendStroke"
    /\ stack.undo # <<>>
    /\ Len(Last(stack.undo)) = 1
    /\ Last(stack.undo)[1].op = "TrimStroke"
    /\ Last(stack.undo)[1].node = cmd.node

\* The undo side with `entry` in the place of its top.
Retop(undo, entry) == Append(Front(undo), entry)

(***************************************************************************)
(* perform: a command that applies discards the redo side whatever happens *)
(* to its inverse, which joins the open group's entry, merges into the     *)
(* entry on top, or becomes an entry of its own.                           *)
(***************************************************************************)
StackAfter(stack, d, cmd) ==
    LET inverse == InverseOf(d, cmd)
        top     == Last(stack.undo)
    IN  [stack EXCEPT
            !.redo = <<>>,
            !.undo =
                IF stack.depth > 0 /\ @ # <<>>
                THEN Retop(@, Append(top, inverse))
                ELSE IF Coalesces(stack, cmd)
                THEN Retop(@, <<[top[1] EXCEPT !.count = @ + Len(cmd.points)]>>)
                ELSE Append(@, <<inverse>>)]

StackPerform(world, cmd) ==
    IF Applicable(world.doc, cmd)
    THEN [world EXCEPT !.doc = Applied(@, cmd),
                       !.commands = StackAfter(@, world.doc, cmd)]
    ELSE world

\* The order a step is taken back in, and a plausible mistake.
OldestFirst(entry) == entry
NewestFirst(entry) == Reverse(entry)

(***************************************************************************)
(* replay: the inverses of an entry, newest first.  One that no longer     *)
(* applies is skipped and leaves nothing on the opposite side.             *)
(***************************************************************************)
Replay(d, entry) ==
    LET step(acc, cmd) ==
            IF Applicable(acc.doc, cmd)
            THEN [doc      |-> Applied(acc.doc, cmd),
                  opposite |-> Append(acc.opposite, InverseOf(acc.doc, cmd))]
            ELSE acc
    IN  FoldLeft(step, [doc |-> d, opposite |-> <<>>], NewestFirst(entry))

\* undo: the newest entry, replayed onto the redo side.
StackUndo(world) ==
    LET stack == world.commands
        r     == Replay(world.doc, Last(stack.undo))
    IN  [world EXCEPT
            !.doc = r.doc,
            !.commands = [stack EXCEPT !.undo = Front(@),
                                       !.redo = Append(@, r.opposite)]]

\* redo: the same, the other way round.
StackRedo(world) ==
    LET stack == world.commands
        r     == Replay(world.doc, Last(stack.redo))
    IN  [world EXCEPT
            !.doc = r.doc,
            !.commands = [stack EXCEPT !.redo = Front(@),
                                       !.undo = Append(@, r.opposite)]]

\* Mutant: the bracket as a flag, its nesting not counted.
FlagBeginGroup(stack) ==
    [stack EXCEPT !.depth = 1,
                  !.undo  = IF stack.depth = 0 THEN Append(@, <<>>) ELSE @]

\* begin_group: the outermost bracket pushes its entry at once, empty.
StackBeginGroup(stack) ==
    [stack EXCEPT !.depth = @ + 1,
                  !.undo  = IF stack.depth = 0 THEN Append(@, <<>>) ELSE @]

(***************************************************************************)
(* end_group: unbalanced ends do nothing; the outermost one drops the      *)
(* entry on top when nothing was collected in it.                          *)
(***************************************************************************)
StackEndGroup(stack) ==
    IF stack.depth = 0 THEN stack
    ELSE [stack EXCEPT
            !.depth = @ - 1,
            !.undo  = IF stack.depth = 1 /\ @ # <<>> /\ Last(@) = <<>>
                      THEN Front(@) ELSE @]
=============================================================================
