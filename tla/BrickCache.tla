----------------------------- MODULE BrickCache -----------------------------
(***************************************************************************)
(* brick::BrickCache, the sparse cache of evaluated bricks                 *)
(* (src/include/clay/brick/cache.h, src/src/brick/cache.cpp).              *)
(*                                                                         *)
(* An edit of the document marks the bricks of its bound dirty.  The host  *)
(* drains the dirty keys into requests, evaluates them on threads and in   *)
(* an order of its own, and submits the results.  Generations tell a late  *)
(* result from a current one.  The host may evict, trim and forget at any  *)
(* time, and build mips from clean bricks.                                 *)
(*                                                                         *)
(* A lattice is one of a few values: uniform inside, uniform outside, or   *)
(* a surface.  Keys have two axes; the third behaves as these two do.      *)
(* The document is outside the cache: `content` is what evaluating a brick *)
(* now would give.  The cache is a distance cache (BrickConfig::colors is  *)
(* false) and memory is counted in bricks.                                 *)
(***************************************************************************)
EXTENDS Integers, FiniteSets

CONSTANTS
    Keys,           \* the bricks looked at
    Coordinates,    \* the values a coordinate of a key takes
    Surfaces,       \* the lattices a narrow band crosses
    Edits,          \* bounded edits: what each makes of the bricks it reaches
    Floods,         \* edits with an infinite bound: what each makes of all
    MaxBricks,      \* memory_budget, in bricks
    MaxGeneration,  \* no brick is marked dirty past this generation
    MaxRequests,    \* requests the host holds at a time, evaluated or not
    Calls           \* "forgetUnsettled": the host may forget keys that have
                    \* a request in flight or lie under a mip

Contents == Surfaces \cup {"inside", "outside"}
Unread == "unread"      \* the value of a request nobody has evaluated

ASSUME BrickCacheAssumption ==
    /\ Coordinates \subseteq Int
    /\ Keys \subseteq Coordinates \X Coordinates
    /\ IsFiniteSet(Keys)
    /\ Surfaces \cap {"inside", "outside", Unread} = {}
    /\ Edits \subseteq UNION {[region -> Contents] : region \in SUBSET Keys}
    /\ Floods \subseteq [Keys -> Contents]
    /\ MaxBricks \in Nat
    /\ MaxGeneration \in Nat
    /\ MaxRequests \in Nat

VARIABLES
    content,    \* what the document evaluates to at each brick
    tracked,    \* the keys of bricks_
    held,       \* Brick::state and values of each tracked key
    gen,        \* Brick::generation
    target,     \* Tracked::target_generation
    evaluated,  \* the keys whose Tracked::evaluated is set
    queued,     \* the keys whose Tracked::queued is set
    dirty,      \* dirty_
    usage,      \* surface_bytes_, in bricks
    box,        \* surface_bounds_: the coordinates it spans on each axis
    mips,       \* mips_: the bricks each coarse key's mip was sampled from
    requests    \* the requests the host holds, evaluated or not

surfaceVars == <<usage, box>>
vars == <<content, tracked, held, gen, target, evaluated, queued, dirty,
          surfaceVars, mips, requests>>

Axes == {1, 2}
NoMip == [k \in {} |-> "outside"]

Request == [key : Keys, gen : 0 .. MaxGeneration, value : Contents \cup {Unread}]

(* The coarse key above a key, and the keys below a coarse one. *)
Coarse(k) == <<k[1] \div 2, k[2] \div 2>>
Blocks == {Coarse(k) : k \in Keys}
Children(b) == {2 * b[1], 2 * b[1] + 1} \X {2 * b[2], 2 * b[2] + 1}

-----------------------------------------------------------------------------
(* Surface bricks, and the box around a set of them. *)

SurfaceBricks(values) == {k \in Keys : values[k] \in Surfaces}

Between(S) == {n \in Coordinates : \E low, high \in S : low <= n /\ n <= high}

BoxAround(S) == [i \in Axes |-> Between({k[i] : k \in S})]

Expanded(k) == [i \in Axes |-> Between(box[i] \cup {k[i]})]

(* Mutant: one axis is enough. *)
InteriorOnAnAxis(k) ==
    \E i \in Axes : /\ \E n \in box[i] : n < k[i]
                    /\ \E n \in box[i] : n > k[i]

(* A brick strictly inside the box on every axis decides no face of it. *)
Interior(k) ==
    \A i \in Axes : /\ \E n \in box[i] : n < k[i]
                    /\ \E n \in box[i] : n > k[i]

(* The box once the bricks of `gone` have left the surface: refolded when one
   of them touched a face. *)
BoxWithout(gone, values) ==
    IF \A k \in gone : Interior(k) THEN box ELSE BoxAround(SurfaceBricks(values))

-----------------------------------------------------------------------------
Init ==
    /\ content = [k \in Keys |-> "outside"]
    /\ tracked = {}
    /\ held = [k \in Keys |-> "outside"]
    /\ gen = [k \in Keys |-> 0]
    /\ target = [k \in Keys |-> 0]
    /\ evaluated = {}
    /\ queued = {}
    /\ dirty = {}
    /\ usage = 0
    /\ box = [i \in Axes |-> {}]
    /\ mips = [b \in Blocks |-> NoMip]
    /\ requests = {}

(* invalidate_mip_of, for each of a set of keys. *)
WithoutMipsOf(region) ==
    [b \in Blocks |-> IF \E k \in region : Coarse(k) = b THEN NoMip ELSE mips[b]]

(* Mutant: only a key met for the first time moves to its next generation. *)
BumpedWhenNew(region) ==
    [k \in Keys |-> IF k \in region \ tracked THEN target[k] + 1 ELSE target[k]]

Bumped(region) == [k \in Keys |-> IF k \in region THEN target[k] + 1 ELSE target[k]]

(* dirty_one over a region, when the flags of `waiting` are up. *)
Enqueue(region, waiting, queue) ==
    /\ \A k \in region : target[k] < MaxGeneration
    /\ target' = Bumped(region)
    /\ queued' = waiting \cup region
    /\ dirty' = queue \cup (region \ waiting)
    /\ mips' = WithoutMipsOf(region)

(* Mutant: the queue is dropped and its flags stay up. *)
AllFlagsKept == queued

(* The flags that stay up when an infinite bound drops the queue. *)
FlagsKept == {}

(* An edit of the document and mark_dirty with its bound, which tracks the
   keys it meets first. *)
MarkDirty ==
    \E edit \in Edits :
        LET region == DOMAIN edit
        IN  /\ content' = [k \in Keys |-> IF k \in region THEN edit[k] ELSE content[k]]
            /\ tracked' = tracked \cup region
            /\ Enqueue(region, queued, dirty)
            /\ UNCHANGED <<held, gen, evaluated, surfaceVars, requests>>

(* The same with an infinite bound: every key the cache knows, and no other. *)
MarkAllDirty ==
    \E edit \in Floods :
        /\ content' = edit
        /\ Enqueue(tracked, FlagsKept, {})
        /\ UNCHANGED <<tracked, held, gen, evaluated, surfaceVars, requests>>

TakeDirty ==
    /\ dirty # {}
    /\ Cardinality(requests) + Cardinality(dirty) <= MaxRequests
    /\ requests' = requests \cup
           {[key |-> k, gen |-> target[k], value |-> Unread] : k \in dirty}
    /\ queued' = queued \ dirty
    /\ dirty' = {}
    /\ UNCHANGED <<content, tracked, held, gen, target, evaluated, surfaceVars, mips>>

(* The host evaluates a request against the document as it is then. *)
Evaluate(r) ==
    /\ r.value = Unread
    /\ requests' = (requests \ {r}) \cup {[r EXCEPT !.value = content[r.key]]}
    /\ UNCHANGED <<content, tracked, held, gen, target, evaluated, queued, dirty,
                   surfaceVars, mips>>

-----------------------------------------------------------------------------
(* submit.  What it refuses as over the budget the host keeps, to submit it
   again when it has made room. *)

Current(r) == r.key \in tracked /\ r.gen = target[r.key]

SubmitStale(r) ==
    /\ r.value # Unread
    /\ ~ Current(r)
    /\ requests' = requests \ {r}
    /\ UNCHANGED <<content, tracked, held, gen, target, evaluated, queued, dirty,
                   surfaceVars, mips>>

Accept(r) ==
    /\ held' = [held EXCEPT ![r.key] = r.value]
    /\ gen' = [gen EXCEPT ![r.key] = r.gen]
    /\ evaluated' = evaluated \cup {r.key}
    /\ requests' = requests \ {r}
    /\ UNCHANGED <<content, tracked, target, queued, dirty, mips>>

SubmitUniform(r) ==
    /\ r.value \in {"inside", "outside"}
    /\ Current(r)
    /\ Accept(r)
    /\ IF held[r.key] \in Surfaces
       THEN /\ usage' = usage - 1
            /\ box' = BoxWithout({r.key}, held')
       ELSE UNCHANGED surfaceVars

(* Mutant: a lattice replaced is charged again. *)
AlwaysCharged(k) == usage + 1

UsageWith(k) == IF held[k] \in Surfaces THEN usage ELSE usage + 1

SubmitSurface(r) ==
    /\ r.value \in Surfaces
    /\ Current(r)
    /\ UsageWith(r.key) <= MaxBricks
    /\ Accept(r)
    /\ usage' = UsageWith(r.key)
    /\ box' = Expanded(r.key)

Submit(r) == SubmitStale(r) \/ SubmitUniform(r) \/ SubmitSurface(r)

-----------------------------------------------------------------------------
(* evict, trim_to, forget_empty *)

Evictable == evaluated \ queued

(* Bricks return to never evaluated; generations and mips stay. *)
Drop(gone) ==
    LET lost == gone \cap SurfaceBricks(held)
    IN  /\ held' = [k \in Keys |-> IF k \in gone THEN "outside" ELSE held[k]]
        /\ evaluated' = evaluated \ gone
        /\ usage' = usage - Cardinality(lost)
        /\ box' = BoxWithout(lost, held')
        /\ UNCHANGED <<content, tracked, gen, target, queued, dirty, mips, requests>>

Evict == \E k \in Evictable : Drop({k})

(* As many surface bricks as the target asks for, or all there are; the order
   is the host's focus, so any of them may go. *)
TrimTo ==
    \E bricks \in 0 .. MaxBricks :
        LET ranked == Evictable \cap SurfaceBricks(held)
        IN  /\ usage > bricks
            /\ \E gone \in SUBSET ranked :
                   /\ \/ Cardinality(gone) = usage - bricks
                      \/ gone = ranked /\ Cardinality(gone) < usage - bricks
                   /\ Drop(gone)

(* The keys that read as if they were not there. *)
Forgettable == {k \in tracked \ queued : k \notin evaluated \/ held[k] = "outside"}

(* No late result can come for these keys, and no mip stands for them. *)
Settled(keys) ==
    /\ \A r \in requests : r.key \notin keys
    /\ \A k \in keys : mips[Coarse(k)] = NoMip

(* Erased keys fall back to what a key tracked anew starts from. *)
ForgetEmpty ==
    LET gone == Forgettable
    IN  /\ gone # {}
        /\ "forgetUnsettled" \notin Calls => Settled(gone)
        /\ tracked' = tracked \ gone
        /\ evaluated' = evaluated \ gone
        /\ gen' = [k \in Keys |-> IF k \in gone THEN 0 ELSE gen[k]]
        /\ target' = [k \in Keys |-> IF k \in gone THEN 0 ELSE target[k]]
        /\ UNCHANGED <<content, held, queued, dirty, surfaceVars, mips, requests>>

(* Mutant: children that wait to be rewritten will do. *)
BuildableWhenEvaluated(b) == \A k \in Children(b) : k \in tracked /\ k \in evaluated

(* build_mip *)
Buildable(b) ==
    \A k \in Children(b) : k \in tracked /\ k \in evaluated /\ gen[k] = target[k]

BuildMip ==
    \E b \in Blocks :
        /\ Buildable(b)
        /\ mips' = [mips EXCEPT ![b] = [k \in Children(b) |-> held[k]]]
        /\ UNCHANGED <<content, tracked, held, gen, target, evaluated, queued, dirty,
                       surfaceVars, requests>>

Next ==
    \/ MarkDirty
    \/ MarkAllDirty
    \/ TakeDirty
    \/ \E r \in requests : Evaluate(r)
    \/ \E r \in requests : Submit(r)
    \/ Evict
    \/ TrimTo
    \/ ForgetEmpty
    \/ BuildMip

Spec == Init /\ [][Next]_vars

-----------------------------------------------------------------------------
(* Every variable keeps to its values; in particular no generation outgrows
   the generation its key is to reach. *)
TypeOK ==
    /\ content \in [Keys -> Contents]
    /\ held \in [Keys -> Contents]
    /\ gen \in [Keys -> 0 .. MaxGeneration]
    /\ target \in [Keys -> 0 .. MaxGeneration]
    /\ tracked \subseteq Keys
    /\ evaluated \subseteq tracked
    /\ queued \subseteq tracked
    /\ dirty \subseteq Keys
    /\ usage \in 0 .. MaxBricks
    /\ box \in [Axes -> SUBSET Coordinates]
    /\ mips \in [Blocks -> {NoMip} \cup UNION {[Children(b) -> Contents] : b \in Blocks}]
    /\ requests \subseteq Request

(* The bricks the document has left behind. *)
Behind == {k \in tracked : gen[k] # target[k]} \cup {k \in evaluated : held[k] # content[k]}

(* A brick left behind is on its way: queued, or requested with the generation
   submit will accept.  mark_dirty, the flag of the queue and the generations
   must all work for this; a brick stranded otherwise serves its stale samples
   for good (cache.cpp:33-40). *)
NothingStranded ==
    \A k \in Behind : k \in dirty \/ \E r \in requests : r.key = k /\ Current(r)

(* A brick whose generation is the one it is to reach holds what the document
   says: no late result was accepted as current, whatever the order results
   come back in and whatever was evicted or forgotten meanwhile
   (cache.cpp:107, brick-cache spec "Stale result discarded"). *)
CleanMeansCurrent ==
    \A k \in evaluated : gen[k] = target[k] => held[k] = content[k]

(* The bytes counted are those of the bricks that hold a lattice, evictions,
   trims and reclassifying results included (surface_bytes_); TypeOK keeps
   them under the budget. *)
BytesAreCounted == usage = Cardinality(SurfaceBricks(held))

(* The box kept incrementally is the fold over the surface bricks, exactly,
   whichever of them leave and in whichever number (cache.h:182-206). *)
BoundsAreTight == box = BoxAround(SurfaceBricks(held) \cap evaluated)

(* A mip answers for the bricks below it as the document has them, evicted or
   not (brick-cache spec, "not from stale data"). *)
MipIsCurrent ==
    \A b \in Blocks : \A k \in DOMAIN mips[b] : mips[b][k] = content[k]

-----------------------------------------------------------------------------
(* The inductive invariant, for a host that forgets settled keys only. *)

Disciplined == "forgetUnsettled" \notin Calls

(* No generation outgrows the one its key is to reach. *)
GenerationsOrdered == \A k \in Keys : gen[k] <= target[k]

(* A key waits in the queue once its flag is up, and then every result that
   could come for it is late. *)
QueueAgrees ==
    /\ dirty = queued
    /\ \A k \in queued :
           /\ gen[k] < target[k]
           /\ \A r \in requests : r.key = k => r.gen < target[k]

(* Requests are for keys still tracked, and a result that will be accepted is
   what the document says. *)
RequestsFollow ==
    \A r \in requests :
        /\ r.key \in tracked
        /\ r.gen <= target[r.key]
        /\ r.gen = target[r.key] /\ r.value # Unread => r.value = content[r.key]

(* A brick below its target generation is on its way there. *)
Coming ==
    \A k \in tracked :
        gen[k] # target[k] =>
            k \in dirty \/ \E r \in requests : r.key = k /\ r.gen = target[k]

(* A mip was sampled from the children of its own block, all still tracked. *)
MipsRooted ==
    \A b \in Blocks :
        DOMAIN mips[b] # {} => DOMAIN mips[b] = Children(b) /\ Children(b) \subseteq tracked

IInv ==
    /\ TypeOK
    /\ GenerationsOrdered
    /\ QueueAgrees
    /\ RequestsFollow
    /\ CleanMeansCurrent
    /\ Coming
    /\ MipsRooted
    /\ MipIsCurrent
    /\ BytesAreCounted

=============================================================================
