------------------------------- MODULE History ------------------------------
(***************************************************************************)
(* session::History: one undo across the edit list, the voxel grids, the   *)
(* masks, the surface groups and the meshes                                *)
(* (src/include/clay/session/history.h, src/src/session/history.cpp).      *)
(*                                                                         *)
(* History does not own an inverse of its own.  It keeps an ORDER: a list  *)
(* of steps, each of which either names the next entry of the wrapped      *)
(* UndoStack (a Scene step), or carries the two sides of an edit to one    *)
(* layer's payload, or is a barrier.  What can go wrong is that the list   *)
(* and the stack it indexes drift apart, and this module keeps every path  *)
(* on which either of them moves: performing, coalescing, bracketing,      *)
(* folding, reconciling, evicting, undoing, redoing and clearing.  The     *)
(* journal of the session, which every one of those paths writes or        *)
(* deliberately does not write, is kept here too; module Recovery replays  *)
(* it.                                                                     *)
(*                                                                         *)
(* A step is the non-empty sequence of its LEAVES: one leaf is a plain     *)
(* step, several are a Compound.  A Compound folded into another one keeps *)
(* its leaves in place, which is how apply_step walks nested children.     *)
(* The session is one whose undo is enabled, as enable_undo leaves it.     *)
(***************************************************************************)
EXTENDS UndoStack, FiniteSets

CONSTANTS
    Layers,         \* layers with a payload: grids, masks, groups, meshes
    Values,         \* the contents such a payload can have
    Blank,          \* the content every payload starts with
    HostCommands,   \* the commands the host performs, one at a time
    EngineEdits,    \* the command sequences an engine call performs through
                    \* commands(): a consolidation, a sculpt commit
    Limits,         \* byte budgets and trim limits the host asks for
    MaxDepth,       \* how deep the host nests undo groups
    Calls,          \* the optional entry points this host uses
    NoSnapshot,     \* the identity of a document never serialized
    MaxEvents,      \* bound on the events of a session
    MaxStack        \* bound on the inverses an engine call leaves on the stack

OptionalCalls ==
    {"barrier", "barrierInBracket", "bracketAfterEviction", "clear",
     "clearInBracket", "clearOverCommands", "evictionInClose", "resolver",
     "snapshot", "snapshotInBracket", "strokeAcrossSteps", "trim",
     "trimInBracket", "trimJournal", "undoInBracket"}

ASSUME HistoryAssumption ==
    /\ Blank \in Values
    /\ HostCommands \subseteq Command
    /\ EngineEdits \subseteq Seq(Command)
    /\ Limits \subseteq Nat
    /\ MaxDepth \in Nat
    /\ Calls \subseteq OptionalCalls
    /\ MaxEvents \in Nat
    /\ MaxStack \in Nat

VARIABLES
    world,      \* what a step is applied to: the document, the payloads and commands_
    present,    \* the layers whose payload the resolvers find
    steps,      \* steps_
    redo,       \* redo_
    depth,      \* group_depth_; grouping_ is depth > 0
    start,      \* group_start_
    budget,     \* budget_
    dropped,    \* dropped_steps_
    journal,    \* journal_
    base,       \* journal_base_
    snapshots   \* snapshots_: journal index -> identity of the bytes written

recordVars == <<journal, base, snapshots>>
vars == <<world, present, steps, redo, depth, start, budget, dropped, recordVars>>

-----------------------------------------------------------------------------
(* Steps and events. *)

Scene == [kind |-> "Scene"]
Barrier == [kind |-> "Barrier"]
Payload(layer, before, after) ==
    [kind |-> "Payload", layer |-> layer, before |-> before, after |-> after]

Leaf ==      {Scene, Barrier}
        \cup [kind: {"Payload"}, layer: Layers, before: Values, after: Values]

Step == Seq(Leaf) \ {<<>>}

Reversible(step) == step # <<Barrier>>

Event ==
         [kind: {"Command"}, command: HostCommands]
    \cup [kind: {"Payload"}, layer: Layers, before: Values, after: Values]
    \cup [kind: {"GroupBegin", "GroupEnd", "Barrier", "Undo", "Redo"}]

Plain(kind) == [kind |-> kind]

World == [doc: Document, content: [Layers -> Values], commands: UndoStackType]

\* What a save writes: the document and its payloads, not its history.
Image(w) == [doc |-> w.doc, content |-> w.content]

Leaves(list) == FlattenSeq(list)
IsScene(leaf) == leaf = Scene
IsPayload(leaf) == leaf.kind = "Payload"

\* Mutant: a Compound's Scene leaves are not counted.
PlainSceneSteps(list) == Cardinality({i \in 1..Len(list) : list[i] = <<Scene>>})

\* scene_steps_in: how many stack entries a step names.
ScenesIn(step) == Cardinality({k \in 1..Len(step) : IsScene(step[k])})

\* The same, summed over a list of steps.
SceneSteps(list) ==
    LET count(n, step) == n + ScenesIn(step)
    IN  FoldLeft(count, 0, list)

\* undo_depth and redo_depth: the steps above the nearest barrier.
ReversibleDepth(list) ==
    Cardinality({i \in 1..Len(list) : \A j \in i..Len(list) : Reversible(list[j])})

-----------------------------------------------------------------------------
(* What the history costs, and bounding it.                                *)
(*                                                                         *)
(* Costs are abstract: a leaf costs one, its payload one more, an inverse  *)
(* on the stack one.  What matters is kept: a payload outweighs the step   *)
(* that names a stack entry, and the stack's own inverses are counted.     *)

StepCost(list) == Len(Leaves(list)) + Len(SelectSeq(Leaves(list), IsPayload))

StackCost(commands) ==
    Len(FlattenSeq(commands.undo)) + Len(FlattenSeq(commands.redo))

\* bytes().undo + bytes().redo, of a step list, a redo list and the stack.
Cost(lists, commands) ==
    StepCost(lists.steps) + StepCost(lists.redo) + StackCost(commands)

Without(list, k) == SubSeq(list, k + 1, Len(list))

\* The least number of the oldest elements whose loss makes `Fits` true, or `most`.
FewestDropped(Fits(_), most) ==
    CHOOSE k \in 0..most :
        /\ k = most \/ Fits(k)
        /\ \A j \in 0..(k - 1) : ~Fits(j)

\* Mutant: eviction reaches the newest step.
EverythingGoes(list) == Len(list)

\* How many steps may go: all but the newest.
Evictable(list) == IF list = <<>> THEN 0 ELSE Len(list) - 1

Evicted(lists, r, s) ==
    [steps   |-> Without(lists.steps, s),
     redo    |-> Without(lists.redo, r),
     dropped |-> lists.dropped + s]

(***************************************************************************)
(* The loop of enforce_budget and trim_to: redo goes first, oldest first;  *)
(* then the oldest steps, and never the newest one.  The command stack is  *)
(* counted and is not evicted.                                             *)
(***************************************************************************)
Evict(lists, commands, limit) ==
    LET spent(r, s) == Cost([lists EXCEPT !.redo = Without(@, r),
                                          !.steps = Without(@, s)], commands) <= limit
        fitsRedo(r) == spent(r, 0)
        r0 == FewestDropped(fitsRedo, Len(lists.redo))
        fitsSteps(s) == spent(r0, s)
        s0 == FewestDropped(fitsSteps, Evictable(lists.steps))
    IN  Evicted(lists, r0, s0)

\* Mutant: the budget is applied inside a bracket.
EnforceBudgetAlways(lists, commands, grouping) ==
    IF budget = 0 THEN lists ELSE Evict(lists, commands, budget)

EnforceBudget(lists, commands, grouping) ==
    IF budget = 0 \/ grouping THEN lists ELSE Evict(lists, commands, budget)

\* Mutant: the redo side outlives a new step.
PushKeepingRedo(lists, commands, grouping, step) ==
    EnforceBudget([lists EXCEPT !.steps = Append(@, step)], commands, grouping)

\* push: the budget is settled before the redo side is discarded.
Push(lists, commands, grouping, step) ==
    [EnforceBudget([lists EXCEPT !.steps = Append(@, step)], commands, grouping)
        EXCEPT !.redo = <<>>]

-----------------------------------------------------------------------------
(* Reconciling the step list with the wrapped stack. *)

\* The list without its newest plain Scene step, if it has one.
WithoutNewestScene(list) ==
    LET at == {i \in 1..Len(list) : list[i] = <<Scene>>}
    IN  IF at = {} THEN list
        ELSE RemoveAt(list, CHOOSE i \in at : \A j \in at : j <= i)

\* Mutant: the list is never reconciled.
NeverSynced(lists, commands, grouping) == lists

(***************************************************************************)
(* sync_scene_steps: one step for every entry the list does not name yet,  *)
(* pushed on top; one plain Scene step less for every one too many.        *)
(***************************************************************************)
SyncSceneSteps(lists, commands, grouping) ==
    LET counted == SceneSteps(lists.steps)
        actual  == Len(commands.undo)
        add(acc, i) == Push(acc, commands, grouping, <<Scene>>)
        remove(acc, i) == [acc EXCEPT !.steps = WithoutNewestScene(@)]
        times(n) == [i \in 1..n |-> i]
    IN  IF grouping THEN lists
        ELSE IF counted < actual THEN FoldLeft(add, lists, times(actual - counted))
        ELSE FoldLeft(remove, lists, times(counted - actual))

\* Mutant: a bracket that produced nothing is folded too.
FoldsAnything(produced) == \A i \in 1..Len(produced) : Reversible(produced[i])

\* Two steps or more, and no barrier among them.
FoldsIntoOne(produced) ==
    Len(produced) >= 2 /\ \A i \in 1..Len(produced) : Reversible(produced[i])

\* The leaves of the plain Scene steps of a list, or of the others.
Gathered(list, plain) ==
    LET add(leaves, step) == IF (step = <<Scene>>) <=> plain THEN leaves \o step ELSE leaves
    IN  FoldLeft(add, <<>>, list)

(***************************************************************************)
(* collapse_group: what the bracket produced becomes one step, Scene       *)
(* leaves first, unless it is a single step or holds a barrier.            *)
(***************************************************************************)
CollapseGroup(lists, commands) ==
    LET from     == IF start > Len(lists.steps) THEN Len(lists.steps) ELSE start
        produced == Without(lists.steps, from)
        compound == Gathered(produced, TRUE) \o Gathered(produced, FALSE)
    IN  IF FoldsIntoOne(produced)
        THEN EnforceBudget(
                [lists EXCEPT !.steps = Append(SubSeq(@, 1, from), compound)],
                commands, FALSE)
        ELSE lists

-----------------------------------------------------------------------------
(* Applying a step. *)

(***************************************************************************)
(* apply_step of one leaf, as a record [ok, world], given the layers the   *)
(* resolvers find.  A Scene leaf moves the wrapped stack; a payload leaf   *)
(* needs its layer; a barrier refuses.                                     *)
(***************************************************************************)
ApplyLeaf(found, w, leaf, forward) ==
    LET refused == [ok |-> FALSE, world |-> w]
        done(v) == [ok |-> TRUE, world |-> v]
    IN  CASE leaf.kind = "Barrier" -> refused
          [] leaf.kind = "Scene" /\ forward ->
                IF w.commands.redo = <<>> THEN refused ELSE done(StackRedo(w))
          [] leaf.kind = "Scene" /\ ~forward ->
                IF w.commands.undo = <<>> THEN refused ELSE done(StackUndo(w))
          [] leaf.kind = "Payload" ->
                IF leaf.layer \notin found THEN refused
                ELSE done([w EXCEPT !.content[leaf.layer] =
                              IF forward THEN leaf.after ELSE leaf.before])

\* Mutant: what a refused step has moved stays moved.
NothingPutBack(found, w, moved, forward) == w

\* The leaves already moved are moved the other way, the last one first.
PutBack(found, w, moved, forward) ==
    LET back(v, leaf) == ApplyLeaf(found, v, leaf, ~forward).world
    IN  FoldLeft(back, w, Reverse(moved))

(***************************************************************************)
(* apply_step of a whole step: its leaves forwards on a redo, backwards on *)
(* an undo.  When one refuses, those already moved are put back by moving  *)
(* them the other way, and the step is refused.                            *)
(***************************************************************************)
ApplyStep(found, w, step, forward) ==
    LET order == IF forward THEN step ELSE Reverse(step)
        walk(acc, k) ==
            LET r == ApplyLeaf(found, acc.world, order[k], forward)
            IN  IF ~acc.ok THEN acc
                ELSE IF r.ok THEN r
                ELSE [ok |-> FALSE,
                      world |-> PutBack(found, r.world, SubSeq(order, 1, k - 1), forward)]
    IN  FoldLeft(walk, [ok |-> TRUE, world |-> w], [k \in 1..Len(order) |-> k])

-----------------------------------------------------------------------------
Init ==
    /\ world = [doc      |-> [n \in Nodes |-> NoItem],
                content  |-> [l \in Layers |-> Blank],
                commands |-> EmptyStack]
    /\ present = Layers
    /\ steps = <<>>
    /\ redo = <<>>
    /\ depth = 0
    /\ start = 0
    /\ budget = 0
    /\ dropped = 0
    /\ journal = <<>>
    /\ base = 0
    /\ snapshots = <<>>

Grouping == depth > 0
JournalNext == base + Len(journal)
Lists == [steps |-> steps, redo |-> redo, dropped |-> dropped]

SetLists(lists) ==
    /\ steps' = lists.steps
    /\ redo' = lists.redo
    /\ dropped' = lists.dropped

\* One event more, in a session of at most MaxEvents of them.
Record(event) ==
    /\ JournalNext < MaxEvents
    /\ journal' = Append(journal, event)
    /\ UNCHANGED <<base, snapshots>>

\* A host that goes on with a stroke only where it left off: nothing undone
\* since, and no other step above the append.
GoesOn(cmd) ==
    ~ Grouping /\ Coalesces(world.commands, cmd) =>
        redo = <<>> /\ steps # <<>> /\ Last(steps) = <<Scene>>

(***************************************************************************)
(* perform: a command that applies is journaled, and is a step of its own  *)
(* only when the wrapped stack grew.  A refused command changes nothing.   *)
(***************************************************************************)
Perform(cmd) ==
    LET after == StackPerform(world, cmd)
        grew  == Len(after.commands.undo) > Len(world.commands.undo)
    IN  /\ Applicable(world.doc, cmd)
        /\ world' = after
        /\ Record([kind |-> "Command", command |-> cmd])
        /\ SetLists(IF grew THEN Push(Lists, after.commands, Grouping, <<Scene>>)
                    ELSE Lists)
        /\ UNCHANGED <<present, depth, start, budget>>

(***************************************************************************)
(* An edit of a layer's payload, bracketed by the begin and end of its     *)
(* representation or reported by one of the record_* calls.  An edit that  *)
(* changed nothing is dropped.                                             *)
(***************************************************************************)
EditPayload(layer, value) ==
    /\ layer \in present
    /\ value # world.content[layer]
    /\ world' = [world EXCEPT !.content[layer] = value]
    /\ Record(Payload(layer, world.content[layer], value))
    /\ SetLists(Push(Lists, world.commands, Grouping,
                     <<Payload(layer, world.content[layer], value)>>))
    /\ UNCHANGED <<present, depth, start, budget>>

\* An operation nothing records, reported by record_barrier.
Unrecorded(layer, value) ==
    /\ "barrier" \in Calls
    /\ Grouping => "barrierInBracket" \in Calls
    /\ layer \in present
    /\ world' = [world EXCEPT !.content[layer] = value]
    /\ Record(Plain("Barrier"))
    /\ SetLists(Push(Lists, world.commands, Grouping, <<Barrier>>))
    /\ UNCHANGED <<present, depth, start, budget>>

\* begin_group: only the outermost bracket marks its start and is journaled.
BeginGroup ==
    /\ depth < MaxDepth
    /\ \/ Grouping \/ "bracketAfterEviction" \in Calls
       \/ SceneSteps(steps) = Len(world.commands.undo)
    /\ depth' = depth + 1
    /\ start' = IF depth = 0 THEN Len(steps) ELSE start
    /\ world' = [world EXCEPT !.commands = StackBeginGroup(@)]
    /\ IF depth = 0 THEN Record(Plain("GroupBegin")) ELSE UNCHANGED recordVars
    /\ UNCHANGED <<present, steps, redo, budget, dropped>>

\* The budget, back when the bracket is reconciled and before it is folded,
\* takes no step while the bracket holds steps of its own.
ClosesWhole(synced) == Len(steps) = start \/ synced.dropped = dropped

\* end_group: an inner end only counts down; the outermost reconciles and folds.
EndGroup ==
    LET commands == StackEndGroup(world.commands)
        synced   == SyncSceneSteps(Lists, commands, FALSE)
    IN  /\ depth > 0
        /\ depth' = depth - 1
        /\ world' = [world EXCEPT !.commands = commands]
        /\ IF depth > 1
           THEN UNCHANGED <<steps, redo, dropped, recordVars>>
           ELSE /\ "evictionInClose" \in Calls \/ ClosesWhole(synced)
                /\ Record(Plain("GroupEnd"))
                /\ SetLists(CollapseGroup(synced, commands))
        /\ UNCHANGED <<present, start, budget>>

(***************************************************************************)
(* An engine call that performs its commands through commands() inside a   *)
(* bracket of its own and is followed by sync_scene_steps: consolidation,  *)
(* and the commit of a sculpt transaction.  Nothing here is journaled.     *)
(***************************************************************************)
EngineEdit(cmds) ==
    LET opened == [world EXCEPT !.commands = StackBeginGroup(@)]
        edited == FoldLeft(StackPerform, opened, cmds)
        closed == [edited EXCEPT !.commands = StackEndGroup(@)]
    IN  /\ closed # world
        /\ Len(FlattenSeq(closed.commands.undo)) <= MaxStack
        /\ world' = closed
        /\ SetLists(SyncSceneSteps(Lists, closed.commands, Grouping))
        /\ UNCHANGED <<present, depth, start, budget, recordVars>>

(***************************************************************************)
(* What undo does with the newest step: a step that cannot be applied is   *)
(* left in place; otherwise it crosses to the redo side, and the taking    *)
(* back is an event of its own.                                            *)
(***************************************************************************)
TakeBack ==
    LET r == ApplyStep(present, world, Last(steps), FALSE) IN
    /\ world' = r.world
    /\ IF r.ok
       THEN /\ steps' = Front(steps)
            /\ redo' = Append(redo, Last(steps))
            /\ Record(Plain("Undo"))
       ELSE UNCHANGED <<steps, redo, recordVars>>
    /\ UNCHANGED <<present, depth, start, budget, dropped>>

\* The same for redo, the other way.
BringBack ==
    LET r == ApplyStep(present, world, Last(redo), TRUE) IN
    /\ world' = r.world
    /\ IF r.ok
       THEN /\ redo' = Front(redo)
            /\ steps' = Append(steps, Last(redo))
            /\ Record(Plain("Redo"))
       ELSE UNCHANGED <<steps, redo, recordVars>>
    /\ UNCHANGED <<present, depth, start, budget, dropped>>

\* A barrier on top is never consumed.
CanUndo == steps # <<>> /\ Reversible(Last(steps))
CanRedo == redo # <<>>

\* The host's undo and redo; most hosts close their bracket first.
Undo == (Grouping => "undoInBracket" \in Calls) /\ CanUndo /\ TakeBack
Redo == (Grouping => "undoInBracket" \in Calls) /\ CanRedo /\ BringBack

\* set_budget: zero is unbounded; a new budget applies at once.
SetBudget(limit) ==
    /\ limit # budget
    /\ budget' = limit
    /\ SetLists(IF limit = 0 \/ Grouping THEN Lists
                ELSE Evict(Lists, world.commands, limit))
    /\ UNCHANGED <<world, present, depth, start, recordVars>>

\* trim_to: the same eviction on demand, whatever the budget and the bracket.
TrimTo(limit) ==
    /\ "trim" \in Calls
    /\ Grouping => "trimInBracket" \in Calls
    /\ SetLists(Evict(Lists, world.commands, limit))
    /\ UNCHANGED <<world, present, depth, start, budget, recordVars>>

(***************************************************************************)
(* clear: the lists, the journal and the bracket go.  The wrapped stack is *)
(* not told, and neither is the budget.                                    *)
(***************************************************************************)
Clear ==
    /\ "clear" \in Calls
    /\ Grouping => "clearInBracket" \in Calls
    /\ world.commands # EmptyStack => "clearOverCommands" \in Calls
    /\ steps' = <<>>
    /\ redo' = <<>>
    /\ dropped' = 0
    /\ depth' = 0
    /\ start' = 0
    /\ journal' = <<>>
    /\ base' = 0
    /\ snapshots' = <<>>
    /\ UNCHANGED <<world, present, budget>>

\* The owner of the payloads loses a layer, or has it back.
ResolverChanges(layer) ==
    /\ "resolver" \in Calls
    /\ present' = IF layer \in present THEN present \ {layer} ELSE present \cup {layer}
    /\ UNCHANGED <<world, steps, redo, depth, start, budget, dropped, recordVars>>

-----------------------------------------------------------------------------
(* The journal and the snapshots it continues from. *)

\* note_snapshot, called by every save: the identity is that of the bytes.
NoteSnapshot ==
    /\ "snapshot" \in Calls
    /\ Grouping => "snapshotInBracket" \in Calls
    /\ snapshots' = [i \in DOMAIN snapshots \cup {JournalNext} |->
                        IF i = JournalNext THEN Image(world) ELSE snapshots[i]]
    /\ UNCHANGED <<world, present, steps, redo, depth, start, budget, dropped, journal, base>>

\* snapshot_for: the newest snapshot taken at or before `from`.
SnapshotFor(from) ==
    LET before == {i \in DOMAIN snapshots : i <= from}
    IN  IF before = {} THEN NoSnapshot
        ELSE snapshots[CHOOSE i \in before : \A j \in before : j <= i]

(***************************************************************************)
(* journal_since: the events from an index on and the snapshot they        *)
(* continue from.  An index below the floor or past the end names neither. *)
(***************************************************************************)
JournalSince(from) ==
    IF from < base \/ from >= JournalNext
    THEN [stamp |-> NoSnapshot, events |-> <<>>]
    ELSE [stamp |-> SnapshotFor(from), events |-> Without(journal, from - base)]

\* Mutant: no snapshot below the floor is kept.
SnapshotsAbove(floor) == {i \in DOMAIN snapshots : i >= floor}

\* Those above the floor, and the newest at or below it.
SnapshotsKept(floor) ==
    {k \in DOMAIN snapshots : \A j \in DOMAIN snapshots : j <= floor => j <= k}

(***************************************************************************)
(* trim_journal: events below `upto` go, and with them every snapshot but  *)
(* the newest at or below the new floor.                                   *)
(***************************************************************************)
TrimJournal(upto) ==
    LET floor == IF upto > JournalNext THEN JournalNext ELSE upto
    IN  /\ "trimJournal" \in Calls
        /\ upto > base
        /\ journal' = Without(journal, floor - base)
        /\ base' = floor
        /\ snapshots' = [i \in SnapshotsKept(floor) |-> snapshots[i]]
        /\ UNCHANGED <<world, present, steps, redo, depth, start, budget, dropped>>

-----------------------------------------------------------------------------
\* The host's calls.  That it goes on with a stroke only where it left off is
\* its own habit, and no guard of perform.
Next ==
    \/ \E cmd \in HostCommands :
          ("strokeAcrossSteps" \notin Calls => GoesOn(cmd)) /\ Perform(cmd)
    \/ \E layer \in Layers, value \in Values : EditPayload(layer, value)
    \/ \E layer \in Layers, value \in Values : Unrecorded(layer, value)
    \/ BeginGroup
    \/ EndGroup
    \/ \E cmds \in EngineEdits : EngineEdit(cmds)
    \/ Undo
    \/ Redo
    \/ \E limit \in Limits : SetBudget(limit) \/ TrimTo(limit)
    \/ Clear
    \/ \E layer \in Layers : ResolverChanges(layer)
    \/ NoteSnapshot
    \/ \E upto \in 1..MaxEvents : TrimJournal(upto)

Spec == Init /\ [][Next]_vars

-----------------------------------------------------------------------------
(* Properties. *)

\* The values every member takes, the shape of the stack and of the lists included.
TypeOK ==
    /\ world \in World
    /\ present \subseteq Layers
    /\ steps \in Seq(Step)
    /\ redo \in Seq(Step)
    /\ depth \in 0..MaxDepth
    /\ start \in Nat
    /\ budget \in Limits \cup {0}
    /\ dropped \in Nat
    /\ journal \in Seq(Event)
    /\ base \in Nat
    /\ DOMAIN snapshots \subseteq 0..MaxEvents

(***************************************************************************)
(* The list is an index over the stack: outside a bracket, and until       *)
(* something was evicted, the steps name its undo entries one for one, and *)
(* the redo list never names more redo entries than the stack holds        *)
(* (perform, sync_scene_steps, undo and redo each move both sides).        *)
(***************************************************************************)
StepsNameEntries ==
    ~Grouping =>
        /\ dropped = 0 => SceneSteps(steps) = Len(world.commands.undo)
        /\ SceneSteps(steps) <= Len(world.commands.undo)
        /\ SceneSteps(redo) <= Len(world.commands.redo)

(***************************************************************************)
(* A depth above zero is a promise (undo_depth: "never offers an undo that *)
(* does nothing"): with every layer in place the undo it offers succeeds.  *)
(***************************************************************************)
UndoDepthIsHonest ==
    ~Grouping /\ ReversibleDepth(steps) > 0
        => ApplyStep(Layers, world, Last(steps), FALSE).ok

\* The same promise for redo_depth.
RedoDepthIsHonest ==
    ~Grouping /\ ReversibleDepth(redo) > 0
        => ApplyStep(Layers, world, Last(redo), TRUE).ok

(***************************************************************************)
(* The two bracket counters move together: begin_group and end_group open  *)
(* and close the wrapped stack's bracket with the history's own, so no     *)
(* command is collected into an entry the history believes closed.         *)
(***************************************************************************)
BracketsAgree == world.commands.depth = depth

(***************************************************************************)
(* An undo or redo that is refused, by a layer that is gone in the middle  *)
(* of a Compound, leaves the document, its payloads and the wrapped stack  *)
(* as they were (apply_step's rollback): moving a step always moves the    *)
(* lists, so a step that leaves the lists alone and writes is an edit.     *)
(***************************************************************************)
RefusalChangesNothing ==
    [][(Undo \/ Redo) /\ steps' = steps => world' = world]_vars

(***************************************************************************)
(* The newest step survives any budget and any trim: eviction never makes  *)
(* the next undo another one (enforce_budget, trim_to).                    *)
(***************************************************************************)
NewestStepSurvives ==
    [][\A limit \in Limits : (SetBudget(limit) \/ TrimTo(limit)) /\ steps # <<>>
            => steps' # <<>> /\ Last(steps') = Last(steps)]_vars

(***************************************************************************)
(* Trimming the journal changes no answer that is still given: above the   *)
(* new floor, an index yields the same events and names the same snapshot  *)
(* (trim_journal keeps the newest snapshot a lookup at the floor needs).   *)
(***************************************************************************)
TrimKeepsSegments ==
    [][\A upto \in 1..MaxEvents : TrimJournal(upto) =>
            \A from \in base'..MaxEvents : JournalSince(from)' = JournalSince(from)]_vars
=============================================================================
