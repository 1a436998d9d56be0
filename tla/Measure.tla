------------------------------ MODULE Measure -------------------------------
(***************************************************************************)
(* A cancellable operation spread over the pool: brush::measure_points     *)
(* (src/src/brush/surface_measure.cpp) with its parallel::CancelToken      *)
(* (src/include/clay/parallel/cancel.h).                                   *)
(*                                                                         *)
(* The points are measured in chunks, the chunks handed to threads in      *)
(* ranges by parallel_for, and each chunk begins by asking whether to go   *)
(* on.  Another thread of the host may cancel at any time and polls the    *)
(* progress; both sides touch plain atomics, one load or store a step.     *)
(* What parallel_for promises is taken from ThreadPool: ranges in order,   *)
(* each to one thread, and no return before the last one was run.          *)
(*                                                                         *)
(* `writer`, `late` and `calls` belong to no program variable: they say    *)
(* which call wrote the fraction and what was done after a cancel.         *)
(***************************************************************************)
EXTENDS Chunking, FiniteSets

CONSTANTS
    Walkers,    \* the caller and the workers it is shared with
    CallSizes,  \* how many chunks a call has
    MaxCalls    \* bound on the calls made with one token

ASSUME MeasureAssumption ==
    /\ Walkers # {} /\ IsFiniteSet(Walkers)
    /\ CallSizes \subseteq Nat \ {0}
    /\ MaxCalls \in Nat

VARIABLES
    cancelled, running, fraction,   \* the token's atomics; the fraction is in
                                    \* chunks, as `done` is
    stage,      \* where the call is: "idle", "begun", "walking", "returned"
    count,      \* its number of chunks
    stop,       \* its stop flag
    handed,     \* the chunks handed out in ranges so far
    place, at, last, \* each thread's place, chunk, and the end of its range
    measured,   \* the chunks whose values were written
    verdict,    \* what the last call answered: "none", "complete", "cancelled"
    calls,      \* how many calls were begun
    writer,     \* the call whose store the fraction holds
    late        \* the chunks each thread measured after the cancel

tokenVars == <<cancelled, running, fraction, writer>>
callVars == <<stage, count, verdict, calls>>
threadVars == <<place, at, last>>
measureVars == <<tokenVars, callVars, stop, handed, threadVars, measured, late>>

Zero == [t \in Walkers |-> 0]

MeasureInit ==
    /\ cancelled = FALSE /\ running = FALSE /\ fraction = 0
    /\ stage = "idle" /\ count = 0 /\ verdict = "none"
    /\ calls = 0 /\ writer = 0
    /\ stop = FALSE
    /\ handed = 0
    /\ place = [t \in Walkers |-> "free"] /\ at = Zero /\ last = Zero
    /\ measured = {} /\ late = Zero

-----------------------------------------------------------------------------
(* The caller: begin, the join of the walk, end. *)

\* Mutant: what the token showed last stays.
KeepProgress == UNCHANGED <<fraction, writer>>

ClearProgress == fraction' = 0 /\ writer' = calls + 1

\* ProgressScope: the progress is cleared before the token says it is running.
Begin(n) ==
    /\ stage = "idle"
    /\ calls < MaxCalls
    /\ stage' = "begun"
    /\ count' = n
    /\ verdict' = "none"
    /\ calls' = calls + 1
    /\ ClearProgress
    /\ stop' = FALSE
    /\ handed' = 0
    /\ measured' = {}
    /\ late' = Zero
    /\ UNCHANGED <<cancelled, running, threadVars>>

Walk ==
    /\ stage = "begun"
    /\ stage' = "walking"
    /\ running' = TRUE
    /\ UNCHANGED <<cancelled, fraction, writer, count, verdict, calls, stop, handed,
                   threadVars, measured, late>>

\* parallel_for returned: the verdict is whether any chunk stopped.
Return ==
    /\ stage = "walking"
    /\ handed = count
    /\ \A t \in Walkers : place[t] = "free"
    /\ stage' = "returned"
    /\ verdict' = IF stop THEN "cancelled" ELSE "complete"
    /\ UNCHANGED <<tokenVars, count, calls, stop, handed, threadVars, measured, late>>

End ==
    /\ stage = "returned"
    /\ stage' = "idle"
    /\ running' = FALSE
    /\ UNCHANGED <<cancelled, fraction, writer, count, verdict, calls, stop, handed,
                   threadVars, measured, late>>

-----------------------------------------------------------------------------
(* A thread of the walk. *)

\* A lone thread has the whole call as one range.
RangeSize == IF Cardinality(Walkers) = 1 THEN count
             ELSE ChunkSize(count, 1, Cardinality(Walkers))

RangeEnd(first) ==
    IF first + RangeSize < count THEN first + RangeSize ELSE count

TakeRange(t) ==
    /\ stage = "walking"
    /\ place[t] = "free"
    /\ handed < count
    /\ place' = [place EXCEPT ![t] = "check"]
    /\ at' = [at EXCEPT ![t] = handed]
    /\ last' = [last EXCEPT ![t] = RangeEnd(handed)]
    /\ handed' = RangeEnd(handed)
    /\ UNCHANGED <<tokenVars, callVars, stop, measured, late>>

\* The end of the range, or the load of the stop flag.
Check(t) ==
    /\ place[t] = "check"
    /\ place' = [place EXCEPT ![t] = IF at[t] = last[t] \/ stop THEN "free" ELSE "ask"]
    /\ UNCHANGED <<tokenVars, callVars, stop, handed, at, last, measured, late>>

\* Mutant: a chunk that finds the token cancelled does not say so.
AskQuietly(t) ==
    /\ place[t] = "ask"
    /\ place' = [place EXCEPT ![t] = IF cancelled THEN "free" ELSE "measure"]
    /\ UNCHANGED <<tokenVars, callVars, stop, handed, at, last, measured, late>>

\* The load of the token, and the store of the stop flag that follows it.
Ask(t) ==
    /\ place[t] = "ask"
    /\ place' = [place EXCEPT ![t] = IF cancelled THEN "free" ELSE "measure"]
    /\ stop' = (stop \/ cancelled)
    /\ UNCHANGED <<tokenVars, callVars, handed, at, last, measured, late>>

MeasureChunk(t) ==
    /\ place[t] = "measure"
    /\ place' = [place EXCEPT ![t] = "advance"]
    /\ measured' = measured \cup {at[t]}
    /\ late' = IF cancelled THEN [late EXCEPT ![t] = @ + 1] ELSE late
    /\ UNCHANGED <<tokenVars, callVars, stop, handed, at, last>>

\* Mutant: the token asked once a range.
OncePerRange(t) == IF at[t] + 1 = last[t] THEN "check" ELSE "measure"

FractionAt(t) == at[t] + 1

\* Where a thread goes from one chunk to the next.
NextChunk(t) == "check"

Advance(t) ==
    /\ place[t] = "advance"
    /\ place' = [place EXCEPT ![t] = NextChunk(t)]
    /\ at' = [at EXCEPT ![t] = @ + 1]
    /\ fraction' = FractionAt(t)
    /\ writer' = calls
    /\ UNCHANGED <<cancelled, running, callVars, stop, handed, last, measured, late>>

-----------------------------------------------------------------------------
(* The host. *)

\* The one call that is safe from any thread, at any time.
Cancel ==
    /\ ~cancelled
    /\ cancelled' = TRUE
    /\ UNCHANGED <<running, fraction, writer, callVars, stop, handed, threadVars,
                   measured, late>>

\* reset, serialized with the calls as everything but cancel has to be.
Reset ==
    /\ stage = "idle"
    /\ cancelled
    /\ cancelled' = FALSE
    /\ running' = FALSE
    /\ fraction' = 0
    /\ UNCHANGED <<writer, callVars, stop, handed, threadVars, measured, late>>

ThreadStep(t) == TakeRange(t) \/ Check(t) \/ Ask(t) \/ MeasureChunk(t) \/ Advance(t)

MeasureNext ==
    \/ \E n \in CallSizes : Begin(n)
    \/ Walk \/ Return \/ End
    \/ \E t \in Walkers : ThreadStep(t)
    \/ Cancel \/ Reset

MeasureSpec == MeasureInit /\ [][MeasureNext]_measureVars

-----------------------------------------------------------------------------
(* Properties. *)

\* The values every variable takes; the ranges stay inside the call.
MeasureTypeOK ==
    /\ cancelled \in BOOLEAN /\ running \in BOOLEAN /\ fraction \in Nat
    /\ stage \in {"idle", "begun", "walking", "returned"}
    /\ count \in Nat
    /\ verdict \in {"none", "complete", "cancelled"}
    /\ calls \in Nat /\ writer \in Nat
    /\ stop \in BOOLEAN
    /\ handed \in Nat /\ handed <= count
    /\ place \in [Walkers -> {"free", "check", "ask", "measure", "advance"}]
    /\ at \in [Walkers -> Nat] /\ last \in [Walkers -> Nat]
    /\ measured \in SUBSET Nat
    /\ late \in [Walkers -> Nat]

(***************************************************************************)
(* A call that does not say it was cancelled wrote every value, wherever   *)
(* the cancel fell (clay_measure_points: "a half-written buffer read as    *)
(* complete is a texture with a band of garbage in it").                   *)
(***************************************************************************)
UncancelledIsComplete ==
    verdict = "complete" => measured = 0..(count - 1)

(***************************************************************************)
(* After a cancel each thread measures at most the chunk it had already    *)
(* asked about ("one relaxed load per chunk").                             *)
(***************************************************************************)
CancelIsPrompt == \A t \in Walkers : late[t] <= 1

(***************************************************************************)
(* While the token says an operation is running, the fraction it shows is  *)
(* that operation's and no earlier one's (begin clears it first, and       *)
(* progress() reports nothing of an idle token).                           *)
(***************************************************************************)
ProgressIsCurrent == running => writer = calls
=============================================================================
