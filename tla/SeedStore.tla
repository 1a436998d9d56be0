------------------------------ MODULE SeedStore ------------------------------
(***************************************************************************)
(* The resumable brick refill of bindings/c/clay_c.cpp: a document, the    *)
(* log of the appends made to it, and the store of the values its bricks   *)
(* had, kept so that the next dab folds one item onto a brick's value      *)
(* instead of walking the whole edit list.                                 *)
(*                                                                         *)
(* `revision` counts every edit; `structure` the ones that may move an     *)
(* ordinal of the active layer.  A seed says at which revision it was the  *)
(* brick's value.  Three things bring a seed forward: an edit that cannot  *)
(* reach the brick re-stamps it, the append log names what to fold onto    *)
(* it, and a drag folds the tail onto the prefix it kept.                  *)
(*                                                                         *)
(* Edits come from one thread and never during a refill; the code's one    *)
(* exception is the seam between the walks and the store of a resumed      *)
(* batch, which its tests open and which is open here.  Refills run on any *)
(* thread, so several may be between two of their steps at once.           *)
(***************************************************************************)
EXTENDS PrefixCache, FiniteSetsExt

CONSTANTS Reaches,      \* where an item may reach: subsets of Bricks, or with Space
          Documents,    \* the documents a host may open
          Readers,      \* threads that refill
          Batches,      \* the brick lists a host asks for
          Budget,       \* resume_budget_, in lattices
          PrefixBudgets,  \* byte budgets of the host's prefix cache, in prefixes
          KeepLive,     \* keep_live_suffix_roots of the host's policy
          NoBelow,      \* the half a seed of a lone layer does not have
          MaxRevision, MaxRoots, MaxLayers,   \* bounds on the edits
          MaxOverlap,   \* bound: refills overlap up to this revision
          MaxHostCall,  \* bound: calls on the prefix cache come up to this one
          Calls         \* optional host calls of this run

ASSUME CallsAssumption == Calls \subseteq {"coldOverHalf", "drag", "editPrefix", "newTopLayer"}

ASSUME BoundsAssumption ==
    /\ Space \notin Bricks
    /\ Batches \subseteq Seq(Bricks)
    /\ MaxRevision \in Nat \ {0} /\ MaxRoots \in Nat /\ KeepLive \in Nat /\ Budget \in Nat
    /\ PrefixBudgets \subseteq Nat /\ PrefixBudgets # {} /\ IsFiniteSet(PrefixBudgets)

Reach == SUBSET (Bricks \cup {Space})
Item == [node: Nat, shape: Nat, at: Reach]
Layer == [id: Nat, visible: BOOLEAN, hard: BOOLEAN, roots: Seq(Item), next: Nat]

\* No half at all is not a half with nothing in it.
ASSUME NoBelowAssumption == NoBelow \notin Seq([hard: BOOLEAN, chain: Seq(Nat)])

\* A document numbers its layers as AddLayer does: bottom first.
ASSUME DocumentsAssumption ==
    /\ Documents \subseteq Seq(Layer)
    /\ \A d \in Documents : \A l \in DOMAIN d : d[l].id = l
    /\ Reaches \subseteq Reach

VARIABLES doc,         \* the document's layers, bottom first
          revision,    \* revision
          structure,   \* structure_revision_
          log,         \* append_valid_, append_layer_, append_base_, append_log_ ...
          resume,      \* resume_ and resume_order_
          refills,     \* each reader's refill
          drag,        \* a prepare pass between its phases
          prefixes     \* the host's SdfPrefixCache

vars == <<doc, revision, structure, log, resume, refills, drag, prefixes>>

Clean == MaxRoots + 1            \* kFrontierClean
NoFrontier == MaxRoots + 2       \* kFrontierDrop
NoPrefix == [boundary |-> 0, structure |-> 0, chain |-> << >>]
Idle == [phase |-> "idle"]

-----------------------------------------------------------------------------
(* The append log.                                                         *)

EmptyLog == [valid |-> FALSE, layer |-> 0, base |-> 0, at |-> 0,
             nodes |-> << >>, reaches |-> << >>]

\* Mutant: an edit that is no append leaves the log standing.
StillThere(l) == l

\* forget_appends: the layer and the two revisions keep what they held.
Forgotten(l) == [l EXCEPT !.valid = FALSE, !.nodes = << >>, !.reaches = << >>]

\* touch_appended: extend the log while it is contiguous, else start one.
LogAppend(l, layer, node, reach) ==
    LET goesOn == l.valid /\ l.layer = layer /\ l.at = revision
    IN  [valid   |-> TRUE,
         layer   |-> layer,
         base    |-> IF goesOn THEN l.base ELSE revision,
         at      |-> revision + 1,
         nodes   |-> Append(IF goesOn THEN l.nodes ELSE << >>, node),
         reaches |-> Append(IF goesOn THEN l.reaches ELSE << >>, reach)]

\* appends_since: the appends that take revision `from` to the current one.
AppendsSince(from) ==
    IF log.valid /\ log.at = revision /\ from \in log.base..log.at
    THEN SubSeq(log.nodes, from - log.base + 1, Len(log.nodes))
    ELSE << >>

\* Mutant: an edit elsewhere re-stamps a lagging seed whatever its appends.
CarriedAnyway(rev, b) == TRUE

\* carried_across_appends: nothing between the seed and this edit reached it.
CarriedAcrossAppends(rev, b) ==
    \/ rev = revision
    \/ /\ log.valid
       /\ log.at = revision
       /\ rev \in log.base..log.at
       /\ \A k \in rev - log.base + 1 .. Len(log.reaches) :
             {b, Space} \cap log.reaches[k] = {}

-----------------------------------------------------------------------------
(* The store.  An entry keeps the buffers it was ever given, so its size   *)
(* counts those: entry_bytes sums capacities.                              *)

NoSeeds == [entries |-> [b \in {} |-> Clean], order |-> << >>]   \* forget_resume

Lattices(entries) ==
    {lattice \in (DOMAIN entries) \X {"active", "below", "prefix"} :
        lattice[2] \in entries[lattice[1]].room \cup {"active"}}
TotalSize(entries) == Cardinality(Lattices(entries))
KeepOnly(entries, bs) == [b \in bs |-> entries[b]]

\* evict_locked: oldest use first, never the last one used.
EvictTo(r, budget) ==
    LET Rest(k) == SubSeq(r.order, k + 1, Len(r.order))
        Enough(k) == \/ TotalSize(KeepOnly(r.entries, ToSet(Rest(k)))) <= budget
                     \/ Len(Rest(k)) <= 1
        dropped == Min({k \in 0..Len(r.order) : Enough(k)})
    IN  [entries |-> KeepOnly(r.entries, ToSet(Rest(dropped))), order |-> Rest(dropped)]

\* Mutant: one lattice over.
EvictLate(r) == EvictTo(r, Budget + 1)

Evict(r) == EvictTo(r, Budget)

\* Mutant: a use that leaves the old slot behind.
TouchedTwice(order, b) == Append(order, b)

\* touch_lru
Touched(order, b) == Append(Only(order, ToSet(order) \ {b}), b)

Put(r, b, e) ==
    [entries |-> [x \in DOMAIN r.entries \cup {b} |-> IF x = b THEN e ELSE r.entries[x]],
     order   |-> Touched(r.order, b)]

\* store_seed: a full walk's value, its half beneath, and no prefix.
StoreSeed(r, b, half) ==
    LET room == (IF b \in DOMAIN r.entries THEN r.entries[b].room ELSE {})
                    \cup (IF half.below = NoBelow THEN {} ELSE {"below"})
    IN  Evict(Put(r, b, [rev |-> revision, active |-> half.active, below |-> half.below,
                         dirty |-> Clean, prefix |-> NoPrefix, room |-> room]))

\* store_active: the active half moved, the one beneath and the prefix stay.
StoreActive(r, b, at, chain) ==
    IF b \notin DOMAIN r.entries THEN r
    ELSE Put(r, b, [r.entries[b] EXCEPT !.rev = at, !.active = chain, !.dirty = Clean])

-----------------------------------------------------------------------------
(* Which stored value serves a brick, and how it is brought forward.       *)

\* shaped_entry: a document with layers beneath wants a seed with a half.
IsShaped(b) ==
    /\ b \in DOMAIN resume.entries
    /\ HasBelow(doc) <=> resume.entries[b].below # NoBelow

\* seed_for: a fold can only continue an accumulator.
HasSeed(b) == IsShaped(b) /\ resume.entries[b].active # << >>

\* plan_resume
PlanResumeUsable(rev) ==
    /\ rev # revision
    /\ HasActive(doc)
    /\ JoinIsHardUnion(doc)
    /\ log.valid /\ log.layer = Active(doc).id
    /\ AppendsSince(rev) # << >>

\* compile_layer_suffix takes nothing but the tail of the active layer.
SuffixCompiles(nodes) == IsTailOf(nodes, Active(doc).roots)

\* The chain of the active layer's last n roots.
LastRoots(n, b) ==
    LET roots == Active(doc).roots
    IN  Chain(SubSeq(roots, Len(roots) - n + 1, Len(roots)), b)

\* frontier_seed_for and plan_frontier
FrontierServes(b) ==
    LET e == resume.entries[b]
    IN  /\ e.dirty # Clean
        /\ e.prefix.structure # 0 /\ e.prefix.structure = structure
        /\ e.prefix.boundary <= e.dirty
        /\ e.prefix.chain # << >>
        /\ HasActive(doc)
        /\ JoinIsHardUnion(doc)
        /\ e.prefix.boundary \in 1 .. Len(Active(doc).roots) - 1

\* prefix_source: the cache, told the structure, finds a prefix of the one
\* visible layer; a document of several has none.
Told == [prefixes EXCEPT !.witness = structure]
PrefixFound == HasActive(doc) /\ ~HasBelow(doc) /\ FindsUsable(Told, Active(doc))
AfterSource ==
    IF HasActive(doc) /\ ~HasBelow(doc) THEN AfterFindUsable(Told, Active(doc)) ELSE prefixes
SourceRoots == Told.entries[BestUsable(Told, Active(doc))].roots

\* sample_prefix_seed answers a brick with no seed where the volume has samples.
ColdServes(b) == ~IsShaped(b) /\ PrefixFound /\ Chain(SourceRoots, b) # << >>

\* Refolded over a prefix of n roots: plan_frontier's suffix.
Refolded(prefix, n, b) == prefix \o LastRoots(Len(Active(doc).roots) - n, b)

\* What a refill of b would do under the lock: hand the seed back, fold a
\* suffix onto the seed, fold the tail onto the prefix, or walk.
Serve(b) ==
    LET e == resume.entries[b]
        since == AppendsSince(e.rev)
    IN  CASE ColdServes(b) ->
               [how |-> "prefix", chain |-> Refolded(Chain(SourceRoots, b), Len(SourceRoots), b)]
          [] ~HasSeed(b) /\ ~ColdServes(b) -> [how |-> "walk"]
          [] HasSeed(b) /\ e.rev = revision -> [how |-> "stored", chain |-> e.active]
          [] HasSeed(b) /\ PlanResumeUsable(e.rev) ->
               IF SuffixCompiles(since)
               THEN [how |-> "suffix", chain |-> e.active \o LastRoots(Len(since), b)]
               ELSE [how |-> "walk"]
          [] OTHER ->
               IF e.rev # revision /\ FrontierServes(b)
               THEN [how |-> "frontier",
                     chain |-> Refolded(e.prefix.chain, e.prefix.boundary, b)]
               ELSE [how |-> "walk"]

BelowOf(b) == IF ~IsShaped(b) \/ resume.entries[b].below = NoBelow THEN << >> ELSE resume.entries[b].below

-----------------------------------------------------------------------------
(* Refills.                                                                *)

\* A brick keeps the half of layers no longer seen, and is served from a cached
\* prefix of the one left: store_active moves the value beside that half.
ColdOverHalf(batch) == \E b \in ToSet(batch) \cap DOMAIN resume.entries : ColdServes(b)

MayOverlap == revision <= MaxOverlap \/ \A r \in Readers : refills[r] = Idle

\* seed_for answers in request order, and each answer is a use.
LruAfter(batch) ==
    LET Use(order, b) == IF HasSeed(b) THEN Touched(order, b) ELSE order
    IN  [resume EXCEPT !.order = FoldLeft(Use, resume.order, batch)]

\* After the resumed bricks, a refill has the rest to walk, or is done.
Missing(batch, missed) ==
    IF missed = {} THEN Idle ELSE [phase |-> "missing", batch |-> Only(batch, missed)]

\* resume_bricks up to the end of the walks.  The walks read the live
\* document, so no edit can come between the two.
BeginRefill(r, batch) ==
    /\ refills[r] = Idle
    /\ MayOverlap
    /\ ColdOverHalf(batch) => "coldOverHalf" \in Calls
    /\ resume' = LruAfter(batch)
    /\ LET HowServed(how) == {b \in ToSet(batch) : Serve(b).how \in how}
           tasks == HowServed({"suffix", "frontier", "prefix"})
           missed == HowServed({"walk"})
       IN  refills' = [refills EXCEPT ![r] =
                        IF tasks = {} THEN Missing(batch, missed)
                        ELSE [phase  |-> "walked",
                              now    |-> revision,
                              tasks  |-> [b \in tasks |-> Serve(b).chain],
                              batch  |-> batch,
                              missed |-> missed]]
    /\ prefixes' = AfterSource
    /\ UNCHANGED <<doc, revision, structure, log, drag>>

\* Mutant: a plan is stored whatever came between.
AfterTasksAnyway(f) ==
    LET StoreTask(s, b) == StoreActive(s, b, f.now, f.tasks[b])
    IN  FoldLeft(StoreTask, resume, Only(f.batch, DOMAIN f.tasks))

\* What the resumed tasks of a refill leave in the store: nothing, unless the
\* plan was made at the current revision.
AfterTasks(f) ==
    LET StoreTask(s, b) == StoreActive(s, b, f.now, f.tasks[b])
    IN  IF f.now = revision
        THEN FoldLeft(StoreTask, resume, Only(f.batch, DOMAIN f.tasks))
        ELSE resume

StoreResumed(r) ==
    /\ refills[r].phase = "walked"
    /\ resume' = AfterTasks(refills[r])
    /\ refills' = [refills EXCEPT ![r] = Missing(refills[r].batch, refills[r].missed)]
    /\ UNCHANGED <<doc, revision, structure, log, drag, prefixes>>

\* What eval_requests_impl walks for a brick, in two halves when a layer lies
\* beneath.
Halves(b) ==
    [active |-> IF HasActive(doc) THEN Chain(Active(doc).roots, b) ELSE << >>,
     below  |-> IF HasBelow(doc) THEN HalfBelow(doc, b) ELSE NoBelow]

\* eval_requests_impl walks what is left and store_seeds keeps it at the
\* current revision (at = 0).  A composed seam is walked whole and nothing is
\* kept.  No edit can come between the walk and the store.
WalkMissing(r) ==
    /\ refills[r].phase = "missing"
    /\ LET StoreWalked(s, b) == StoreSeed(s, b, Halves(b))
       IN  resume' = IF JoinIsHardUnion(doc)
                     THEN FoldLeft(StoreWalked, resume, refills[r].batch)
                     ELSE resume
    /\ refills' = [refills EXCEPT ![r] = Idle]
    /\ UNCHANGED <<doc, revision, structure, log, drag, prefixes>>

-----------------------------------------------------------------------------
(* Invalidation.                                                           *)

\* Mutant: a prefix is kept wherever the edit fell.
KeepablePrefix(e, frontier, newStructure) ==
    /\ frontier # NoFrontier
    /\ e.prefix.structure # 0 /\ e.prefix.structure = newStructure

\* A reached entry a drag may keep: its prefix still ends before the edit.
Keepable(e, frontier, newStructure) ==
    /\ frontier # NoFrontier
    /\ e.prefix.structure # 0 /\ e.prefix.structure = newStructure
    /\ e.prefix.boundary <= e.dirty /\ e.prefix.boundary <= frontier

\* touch_region_locked: what a change over `reach` leaves of the store.
TouchRegion(reach, frontier, newStructure) ==
    LET kept == {b \in DOMAIN resume.entries :
                    b \in reach => Keepable(resume.entries[b], frontier, newStructure)}
        After(b) ==
            LET e == resume.entries[b]
            IN  IF b \in reach
                THEN [e EXCEPT !.dirty = IF frontier < @ THEN frontier ELSE @]
                ELSE IF e.dirty = Clean /\ CarriedAcrossAppends(e.rev, b)
                THEN [e EXCEPT !.rev = revision + 1]
                ELSE e
    IN  IF Space \in reach THEN NoSeeds
        ELSE [entries |-> [b \in kept |-> After(b)],
              order   |-> Only(resume.order, kept)]

\* Edits are the host's, one at a time, and a refill only leaves the seam of
\* a resumed batch open to one.
MayEdit ==
    /\ revision < MaxRevision
    /\ \A r \in Readers : refills[r].phase \in {"idle", "walked"}

\* touch_appended
TouchAppended(layer, node, reach) ==
    /\ log' = LogAppend(log, layer, node, reach)
    /\ structure' = structure + 1
    /\ revision' = revision + 1
    /\ UNCHANGED <<resume, refills, drag, prefixes>>

\* touch_region_structural
TouchRegionStructural(reach) ==
    /\ structure' = structure + 1
    /\ revision' = revision + 1
    /\ resume' = TouchRegion(reach, NoFrontier, structure + 1)
    /\ log' = Forgotten(log)
    /\ UNCHANGED <<refills, drag, prefixes>>

\* touch_region and touch_region_from
TouchRegionFrom(reach, frontier) ==
    /\ revision' = revision + 1
    /\ resume' = TouchRegion(reach, frontier, structure)
    /\ log' = Forgotten(log)
    /\ UNCHANGED <<structure, refills, drag, prefixes>>

-----------------------------------------------------------------------------
(* Edits, each with the invalidation apply_edit chooses for its command.   *)

\* What an edit writes is unlike anything written before.
Fresh == revision + 1

NewItem(l, at) == [node |-> doc[l].next, shape |-> Fresh, at |-> at]

WithRoots(l, roots, next) == [doc EXCEPT ![l].roots = roots, ![l].next = next]

\* AddNodeCmd at index -1: tail_append.
AppendItem(l, at) ==
    /\ Len(doc[l].roots) < MaxRoots
    /\ doc' = WithRoots(l, Append(doc[l].roots, NewItem(l, at)), doc[l].next + 1)
    /\ TouchAppended(doc[l].id, doc[l].next, at)

\* AddNodeCmd at an index.
InsertItem(l, k, at) ==
    /\ Len(doc[l].roots) < MaxRoots
    /\ doc' = WithRoots(l, InsertAt(doc[l].roots, k, NewItem(l, at)), doc[l].next + 1)
    /\ TouchRegionStructural(at)

\* RemoveNodeCmd
RemoveItem(l, k) ==
    /\ doc' = WithRoots(l, RemoveAt(doc[l].roots, k), doc[l].next)
    /\ TouchRegionStructural(doc[l].roots[k].at)

\* A parameter edit at a root a cached prefix was baked from.
LeavesPrefixes(l, k) ==
    \/ "editPrefix" \in Calls
    \/ \A j \in DOMAIN prefixes.entries :
          prefixes.entries[j].layer = doc[l].id => k > Len(prefixes.entries[j].roots)

\* The parameter commands.  One that lands on the active layer dirties from
\* its root's ordinal, which counts from 0.
SetItem(l, k, at) ==
    /\ LeavesPrefixes(l, k)
    /\ doc' = [doc EXCEPT ![l].roots[k].shape = Fresh, ![l].roots[k].at = at]
    /\ LET onActive == HasActive(doc) /\ Active(doc).id = doc[l].id
       IN  TouchRegionFrom(doc[l].roots[k].at \cup at,
                           IF onActive THEN k - 1 ELSE NoFrontier)

\* A layer comes on top while a seed holds the half of another.
RaisesTop(newDoc) ==
    /\ \E b \in DOMAIN resume.entries : resume.entries[b].below # NoBelow
    /\ Len(VisibleLayers(newDoc)) > Len(VisibleLayers(doc))
    /\ HasActive(doc) => Active(newDoc).id # Active(doc).id
KeepsTop(newDoc) == RaisesTop(newDoc) => "newTopLayer" \in Calls

\* SetLayerVisibleCmd
SetVisible(l) ==
    /\ doc' = [doc EXCEPT ![l].visible = ~@]
    /\ KeepsTop(doc')
    /\ TouchRegionStructural(Influence(doc[l].roots))

\* AddLayerCmd: a new layer is empty, so nothing is reached.
AddLayer(hard) ==
    /\ Len(doc) < MaxLayers
    /\ doc' = Append(doc, [id |-> Len(doc) + 1, visible |-> TRUE, hard |-> hard,
                           roots |-> << >>, next |-> 1])
    /\ KeepsTop(doc')
    /\ TouchRegionStructural({})

\* SetLayerCompositionCmd is a layer parameter: the region drop, no more.
SetComposition(l) ==
    /\ doc' = [doc EXCEPT ![l].hard = ~@]
    /\ TouchRegionFrom(Influence(doc[l].roots), NoFrontier)

\* touch(): a change that did not come through a command.
Touch(l, k) ==
    /\ doc' = [doc EXCEPT ![l].roots[k].shape = Fresh]
    /\ log' = Forgotten(log)
    /\ resume' = NoSeeds
    /\ structure' = structure + 1
    /\ revision' = revision + 1
    /\ UNCHANGED <<refills, drag, prefixes>>

Edit ==
    /\ MayEdit
    /\ \/ \E l \in DOMAIN doc, at \in Reaches :
             \/ AppendItem(l, at)
             \/ \E k \in DOMAIN doc[l].roots : InsertItem(l, k, at) \/ SetItem(l, k, at)
       \/ \E l \in DOMAIN doc : \E k \in DOMAIN doc[l].roots : RemoveItem(l, k) \/ Touch(l, k)
       \/ \E l \in DOMAIN doc : SetVisible(l) \/ SetComposition(l)
       \/ \E hard \in BOOLEAN : AddLayer(hard)

-----------------------------------------------------------------------------
(* The pass in front of a drag, which keeps a prefix beside each seed the  *)
(* drag is about to dirty.                                                 *)

\* frontier_prepare: the ordinal before everything of `warps` that reaches b.
Boundary(warps, b) ==
    LET reaching == {o \in warps : b \in Active(doc).roots[o + 1].at}
    IN  IF reaching = {} THEN Clean ELSE Min(reaching)

NeedsPrefix(b, boundary) ==
    LET e == resume.entries[b]
    IN  /\ e.dirty = Clean /\ e.rev = revision
        /\ boundary \notin {Clean, 0}
        /\ ~(e.prefix.structure = structure /\ e.prefix.boundary <= boundary)

\* Phases A and B: choose the entries, evaluate compile_layer_prefix.
PrepareDrag(warps) ==
    /\ "drag" \in Calls
    /\ drag = Idle
    /\ \A r \in Readers : refills[r].phase \in {"idle", "walked"}
    /\ HasActive(doc) /\ warps # {}
    /\ LET jobs == {b \in DOMAIN resume.entries : NeedsPrefix(b, Boundary(warps, b))}
       IN  /\ jobs # {}
           /\ drag' = [phase |-> "prepared", now |-> revision, structure |-> structure,
                       prefixes |-> [b \in jobs |->
                          [boundary |-> Boundary(warps, b), structure |-> structure,
                           chain |-> Chain(SubSeq(Active(doc).roots, 1, Boundary(warps, b)), b)]]]
    /\ UNCHANGED <<doc, revision, structure, log, resume, refills, prefixes>>

\* frontier_store: abandoned when the document moved, entry by entry else.
StorePrefixes ==
    /\ drag # Idle
    /\ LET Current(b) == /\ b \in DOMAIN drag.prefixes
                         /\ resume.entries[b].dirty = Clean
                         /\ resume.entries[b].rev = drag.now
           stored == [resume EXCEPT !.entries =
                        [b \in DOMAIN resume.entries |->
                           IF Current(b)
                           THEN [resume.entries[b] EXCEPT !.prefix = drag.prefixes[b],
                                                          !.room = @ \cup {"prefix"}]
                           ELSE resume.entries[b]]]
       IN  resume' = IF revision = drag.now /\ structure = drag.structure
                     THEN Evict(stored)
                     ELSE resume
    /\ drag' = Idle
    /\ UNCHANGED <<doc, revision, structure, log, refills, prefixes>>

-----------------------------------------------------------------------------
(* The host's calls on its prefix cache, from the thread that edits.       *)

HostCalls(cache) ==
    /\ revision <= MaxHostCall
    /\ prefixes' = cache
    /\ prefixes' # prefixes
    /\ \A r \in Readers : refills[r] = Idle
    /\ UNCHANGED <<doc, revision, structure, log, resume, refills, drag>>

BuildPrefix(l) ==
    LET boundary == PrefixBoundary(doc[l], KeepLive)
    IN  /\ boundary > 0
        /\ HostCalls(AfterBuild(prefixes, doc[l], boundary))

InvalidatePrefixes(l) == HostCalls(AfterInvalidate(prefixes, doc[l].id))
ClearPrefixes == HostCalls([prefixes EXCEPT !.entries = << >>])
SetPrefixBudget(budget) ==
    /\ prefixes.entries # << >>      \* bound: where there is something to drop
    /\ HostCalls(PrefixEvict([prefixes EXCEPT !.budget = budget]))

-----------------------------------------------------------------------------
Init ==
    /\ doc \in Documents
    /\ revision = 1
    /\ structure = 1
    /\ log = EmptyLog
    /\ resume = NoSeeds
    /\ refills = [r \in Readers |-> Idle]
    /\ drag = Idle
    /\ prefixes = EmptyCache(Max(PrefixBudgets))

Refill ==
    \E r \in Readers :
        \/ \E batch \in Batches : BeginRefill(r, batch)
        \/ StoreResumed(r)
        \/ WalkMissing(r)

Next ==
    \/ Edit
    \/ Refill
    \/ HasActive(doc) /\ \E warps \in SUBSET (0 .. Len(Active(doc).roots) - 1) :
          PrepareDrag(warps)
    \/ StorePrefixes
    \/ \E l \in DOMAIN doc : BuildPrefix(l) \/ InvalidatePrefixes(l)
    \/ ClearPrefixes
    \/ \E budget \in PrefixBudgets : SetPrefixBudget(budget)

Spec == Init /\ [][Next]_vars

-----------------------------------------------------------------------------
(* Properties.                                                             *)

\* The shape of the store: the order lists the entries once each
\* (resume_order_ against resume_), and a log that stands has one reach per
\* append.
TypeOK ==
    /\ revision \in 1..MaxRevision /\ structure \in 1..revision
    /\ ToSet(resume.order) = DOMAIN resume.entries
    /\ IsInjective(resume.order)
    /\ \A b \in DOMAIN resume.entries :
          /\ resume.entries[b].rev \in 1..revision
          /\ resume.entries[b].dirty \in 0..Clean
    /\ Len(log.nodes) = Len(log.reaches)

\* A brick answered from the store has the value a full walk of the document
\* gives it: whatever edits came since the seed, whatever re-stamped it, and
\* whichever of the three ways brought it forward (resume_bricks).
EveryAnswerIsTheField ==
    \A b \in Bricks :
        Serve(b).how # "walk" =>
            FoldLayersBelow(BelowOf(b), Serve(b).chain) = Field(doc, b)

\* A prefix of the present structure is the value of the active layer's first
\* roots as they are now, through any run of parameter edits at or above its
\* end (what lets frontier_seed_for fold onto it and prepare skip it).
PrefixIsOfTheRoots ==
    \A b \in DOMAIN resume.entries :
        LET p == resume.entries[b].prefix
        IN  p.structure = structure =>
                p.chain = Chain(SubSeq(Active(doc).roots, 1, p.boundary), b)

\* A log that stands reaches the present, has one entry per revision since its
\* base, and names the tail of its layer's roots in order (touch_appended).
LogReachesNow ==
    log.valid =>
        /\ log.at = revision
        /\ log.base + Len(log.nodes) = revision
        /\ \E l \in DOMAIN doc : doc[l].id = log.layer /\ IsTailOf(log.nodes, doc[l].roots)

\* The store never holds more than its budget, save for one last entry
\* (evict_locked); only the resumed path stores without evicting, and what it
\* stores is no larger than what it replaces.
WithinBudget ==
    TotalSize(resume.entries) <= Budget \/ Len(resume.order) <= 1

\* A seed's stamp never goes back, and a frontier an edit has set is cleared
\* only by an answer at the current revision: what was walked before an edit
\* and comes to be stored after it leaves the store alone (resume_bricks).
SeedsOnlyAdvance ==
    [][\A b \in DOMAIN resume.entries \cap DOMAIN resume'.entries :
          LET e == resume.entries[b]
              f == resume'.entries[b]
          IN  /\ f.rev >= e.rev
              /\ e.dirty # Clean /\ f.dirty = Clean => f.rev = revision]_vars
=============================================================================
