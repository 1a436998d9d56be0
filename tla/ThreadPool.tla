----------------------------- MODULE ThreadPool -----------------------------
(***************************************************************************)
(* parallel::ThreadPool, the one data-parallel primitive of the library    *)
(* (src/include/clay/parallel/thread_pool.h).                              *)
(*                                                                         *)
(* A caller publishes a job in the only slot of the pool, works on it like *)
(* a worker, waits until every chunk was counted, and clears the slot.     *)
(* Workers sleep until the slot holds a generation they have not seen.     *)
(* Every block under the pool's mutex is one action, as is every atomic    *)
(* read-modify-write; the mutex of a job is kept, because `done` moves     *)
(* without it and the last thread notifies under it.  Condition variables  *)
(* may wake a thread for no reason.                                        *)
(*                                                                         *)
(* A call made by a thread inside a job runs on that thread and touches    *)
(* nothing here, so it is part of the chunk's body.                        *)
(***************************************************************************)
EXTENDS Chunking, FiniteSets

CONSTANTS
    Workers,    \* threads_
    Callers,    \* the threads that call parallel_for from outside a job
    Jobs,       \* the calls of a behaviour, each made once
    NoJob,      \* an empty slot
    Free,       \* a mutex nobody holds
    Sizes,      \* the n a caller passes
    Floors,     \* the min_chunk a caller passes
    Classes,    \* the work classes a caller declares
    Standard    \* the class a thread has outside any job

ASSUME ThreadPoolAssumption ==
    /\ Workers \cap Callers = {}
    /\ NoJob \notin Jobs
    /\ Free \notin Callers
    /\ Sizes \subseteq Nat
    /\ Floors \subseteq Nat
    /\ Standard \in Classes
    /\ IsFiniteSet(Workers)

Threads == Workers \cup Callers

VARIABLES
    pc,         \* where each thread is
    job,        \* the job each thread holds
    chunk,      \* the chunk each thread claimed last
    cls,        \* the work class each thread runs as
    seen,       \* the generation each worker took last
    plan,       \* what each job was created with: n, chunk, tasks, cls
    next,       \* the claim counter of each job
    done,       \* the completion counter of each job
    mutex,      \* who holds the mutex of each job
    fate,       \* each job's call: "unused", "live", "returned", or "inline"
                \* when it never reached the pool
    counted,    \* the chunks each job's `done` has counted
    current,    \* current_
    generation, \* generation_
    closing     \* how far the destructor is: "no", "stopped", "notified", "joined"

jobVars == <<plan, next, done, mutex, fate, counted>>
slotVars == <<current, generation>>
vars == <<pc, job, chunk, cls, seen, jobVars, slotVars, closing>>

Plan == [n: Nat, chunk: Nat, tasks: Nat, cls: Classes]
Empty == [n |-> 0, chunk |-> 1, tasks |-> 0, cls |-> Standard]

Stop == closing # "no"

Init ==
    /\ pc = [t \in Threads |-> IF t \in Workers THEN "idle" ELSE "out"]
    /\ job = [t \in Threads |-> NoJob]
    /\ chunk = [t \in Threads |-> 0]
    /\ cls = [t \in Threads |-> Standard]
    /\ seen = [w \in Workers |-> 0]
    /\ plan = [j \in Jobs |-> Empty]
    /\ next = [j \in Jobs |-> 0]
    /\ done = [j \in Jobs |-> 0]
    /\ mutex = [j \in Jobs |-> Free]
    /\ fate = [j \in Jobs |-> "unused"]
    /\ counted = [j \in Jobs |-> {}]
    /\ current = NoJob
    /\ generation = 0
    /\ closing = "no"

Goto(t, from, to) == pc[t] = from /\ pc' = [pc EXCEPT ![t] = to]

-----------------------------------------------------------------------------
(* The caller. *)

PlanFor(n, floor, class) ==
    LET size == ChunkSize(n, floor, Cardinality(Workers) + 1)
    IN  [n |-> n, chunk |-> size, tasks |-> NumTasks(n, size), cls |-> class]

Issued(c, j, p) ==
    /\ ~Stop
    /\ pc[c] = "out"
    /\ fate[j] = "unused"
    /\ plan' = [plan EXCEPT ![j] = p]

\* Nothing to do, nobody to share it with, or a single chunk: on this thread, at once.
CallInline(c, j, n, floor, class) ==
    LET p == PlanFor(n, floor, class) IN
    /\ Issued(c, j, p)
    /\ Workers = {} \/ p.tasks <= 1
    /\ fate' = [fate EXCEPT ![j] = "inline"]
    /\ counted' = [counted EXCEPT ![j] = 0..(p.tasks - 1)]
    /\ UNCHANGED <<pc, job, chunk, cls, seen, next, done, mutex, slotVars, closing>>

\* The job goes into the slot, whatever the slot held, under the pool's mutex.
Publish(c, j, n, floor, class) ==
    LET p == PlanFor(n, floor, class) IN
    /\ Issued(c, j, p)
    /\ Workers # {} /\ p.tasks > 1
    /\ Goto(c, "out", "announce")
    /\ job' = [job EXCEPT ![c] = j]
    /\ fate' = [fate EXCEPT ![j] = "live"]
    /\ current' = j
    /\ generation' = generation + 1
    /\ UNCHANGED <<chunk, cls, seen, next, done, mutex, counted, closing>>

\* Mutant: the notification is forgotten.
NobodyWoken(then) == then

\* Every sleeping worker looks at the slot again.
Woken(then) ==
    [t \in Threads |-> IF then[t] = "asleep" THEN "idle" ELSE then[t]]

\* cv_.notify_all, and into run() with the job's class.
Announce(c) ==
    /\ pc[c] = "announce"
    /\ pc' = Woken([pc EXCEPT ![c] = "claim"])
    /\ cls' = [cls EXCEPT ![c] = plan[job[c]].cls]
    /\ UNCHANGED <<job, chunk, seen, jobVars, slotVars, closing>>

\* Mutant: the call waits for the last claim.
AllClaimed(j) == next[j] >= plan[j].tasks

AllFinished(j) == done[j] >= plan[j].tasks

\* The wait on `finished`: the predicate is read with the job's mutex held.
Join(c) ==
    LET j == job[c] IN
    /\ pc[c] = "join"
    /\ mutex[j] = Free
    /\ IF AllFinished(j)
       THEN Goto(c, "join", "withdraw") /\ UNCHANGED mutex
       ELSE Goto(c, "join", "parking") /\ mutex' = [mutex EXCEPT ![j] = c]
    /\ UNCHANGED <<job, chunk, cls, seen, plan, next, done, fate, counted,
                   slotVars, closing>>

\* wait() releases the mutex and sleeps in one step.
Park(c) ==
    /\ Goto(c, "parking", "waiting")
    /\ mutex' = [mutex EXCEPT ![job[c]] = Free]
    /\ UNCHANGED <<job, chunk, cls, seen, plan, next, done, fate, counted,
                   slotVars, closing>>

\* The slot is cleared, whosever job it holds by now, and the call returns.
Withdraw(c) ==
    /\ Goto(c, "withdraw", "out")
    /\ current' = NoJob
    /\ fate' = [fate EXCEPT ![job[c]] = "returned"]
    /\ job' = [job EXCEPT ![c] = NoJob]
    /\ UNCHANGED <<chunk, cls, seen, plan, next, done, mutex, counted,
                   generation, closing>>

-----------------------------------------------------------------------------
(* run(), on a worker or on the caller. *)

\* Mutant: the claim counter is read and not moved.
Reread(j) == next

Incremented(j) == [next EXCEPT ![j] = @ + 1]

\* A worker returns to its loop, a caller waits for the others.
AfterRun(t) == IF t \in Workers THEN "idle" ELSE "join"

\* The counter hands every index out once, the ones past the end included.
Claim(t) ==
    LET j == job[t] IN
    /\ pc[t] = "claim"
    /\ next' = Incremented(j)
    /\ IF next[j] < plan[j].tasks
       THEN /\ Goto(t, "claim", "body")
            /\ chunk' = [chunk EXCEPT ![t] = next[j]]
            /\ UNCHANGED <<job, cls>>
       ELSE /\ Goto(t, "claim", AfterRun(t))
            /\ cls' = [cls EXCEPT ![t] = Standard]
            /\ job' = [job EXCEPT ![t] = IF t \in Workers THEN NoJob ELSE @]
            /\ UNCHANGED chunk
    /\ UNCHANGED <<seen, plan, done, mutex, fate, counted, slotVars, closing>>

\* fn returned: the chunk is counted, and the last one has the caller to wake.
Finish(t) ==
    LET j == job[t] IN
    /\ Goto(t, "body", IF done[j] + 1 = plan[j].tasks THEN "signal" ELSE "claim")
    /\ done' = [done EXCEPT ![j] = @ + 1]
    /\ counted' = [counted EXCEPT ![j] = @ \cup {chunk[t]}]
    /\ UNCHANGED <<job, chunk, cls, seen, plan, next, mutex, fate, slotVars, closing>>

\* Back to the counter, and the call that sleeps on job j looks again.
Notified(t, j) ==
    LET onwards == [pc EXCEPT ![t] = "claim"]
    IN  [u \in Threads |-> IF onwards[u] = "waiting" /\ job[u] = j
                           THEN "join" ELSE onwards[u]]

\* Mutants: notifying without the job's mutex; the last thread clears the slot.
SignalUnlocked(t) ==
    /\ pc[t] = "signal"
    /\ pc' = Notified(t, job[t])
    /\ UNCHANGED <<job, chunk, cls, seen, jobVars, slotVars, closing>>

SignalAndClear(t) ==
    /\ pc[t] = "signal"
    /\ mutex[job[t]] = Free
    /\ pc' = Notified(t, job[t])
    /\ current' = NoJob
    /\ UNCHANGED <<job, chunk, cls, seen, jobVars, generation, closing>>

\* finished.notify_all under the job's mutex.
Signal(t) ==
    /\ pc[t] = "signal"
    /\ mutex[job[t]] = Free
    /\ pc' = Notified(t, job[t])
    /\ UNCHANGED <<job, chunk, cls, seen, jobVars, slotVars, closing>>

-----------------------------------------------------------------------------
(* The worker. *)

NewJob(w) == current # NoJob /\ generation # seen[w]

Sleep(w) ==
    /\ ~Stop /\ ~NewJob(w)
    /\ Goto(w, "idle", "asleep")
    /\ UNCHANGED <<job, chunk, cls, seen, jobVars, slotVars, closing>>

\* Mutant: the worker keeps its own class.
TakeWithoutClass(w) ==
    /\ ~Stop /\ NewJob(w)
    /\ Goto(w, "idle", "claim")
    /\ seen' = [seen EXCEPT ![w] = generation]
    /\ job' = [job EXCEPT ![w] = current]
    /\ UNCHANGED <<chunk, cls, jobVars, slotVars, closing>>

Take(w) ==
    /\ ~Stop /\ NewJob(w)
    /\ Goto(w, "idle", "claim")
    /\ seen' = [seen EXCEPT ![w] = generation]
    /\ job' = [job EXCEPT ![w] = current]
    /\ cls' = [cls EXCEPT ![w] = plan[current].cls]
    /\ UNCHANGED <<chunk, jobVars, slotVars, closing>>

Exit(w) ==
    /\ Stop
    /\ Goto(w, "idle", "exited")
    /\ UNCHANGED <<job, chunk, cls, seen, jobVars, slotVars, closing>>

\* A condition variable may return without a notification.
WakeSpuriously(t) ==
    /\ Goto(t, "asleep", "idle") \/ Goto(t, "waiting", "join")
    /\ UNCHANGED <<job, chunk, cls, seen, jobVars, slotVars, closing>>

-----------------------------------------------------------------------------
(* The destructor: no call is in progress, but a worker may still be inside *)
(* the run() of a job that returned.                                       *)

StopWorkers ==
    /\ closing = "no"
    /\ \A c \in Callers : pc[c] = "out"
    /\ closing' = "stopped"
    /\ UNCHANGED <<pc, job, chunk, cls, seen, jobVars, slotVars>>

NotifyWorkers ==
    /\ closing = "stopped"
    /\ closing' = "notified"
    /\ pc' = Woken(pc)
    /\ UNCHANGED <<job, chunk, cls, seen, jobVars, slotVars>>

JoinWorkers ==
    /\ closing = "notified"
    /\ \A w \in Workers : pc[w] = "exited"
    /\ closing' = "joined"
    /\ UNCHANGED <<pc, job, chunk, cls, seen, jobVars, slotVars>>

-----------------------------------------------------------------------------
Call(c) ==
    \E j \in Jobs, n \in Sizes, floor \in Floors, class \in Classes :
        CallInline(c, j, n, floor, class) \/ Publish(c, j, n, floor, class)

CallerStep(c) == Announce(c) \/ Join(c) \/ Park(c) \/ Withdraw(c)
RunStep(t) == Claim(t) \/ Finish(t) \/ Signal(t)
WorkerStep(w) == Sleep(w) \/ Take(w) \/ Exit(w)
Destroy == StopWorkers \/ NotifyWorkers \/ JoinWorkers

Next ==
    \/ \E c \in Callers : Call(c) \/ CallerStep(c)
    \/ \E t \in Threads : RunStep(t) \/ WakeSpuriously(t)
    \/ \E w \in Workers : WorkerStep(w)
    \/ Destroy

(***************************************************************************)
(* Every thread that can move does: the threads are the system's, and the  *)
(* body of a chunk returns (cancel.h, "a cancelled chunk must return       *)
(* normally").  Nobody has to call, and no wakeup has to be spurious.      *)
(***************************************************************************)
Fairness ==
    /\ \A c \in Callers : WF_vars(CallerStep(c))
    /\ \A t \in Threads : WF_vars(RunStep(t))
    /\ \A w \in Workers : WF_vars(WorkerStep(w))
    /\ WF_vars(NotifyWorkers \/ JoinWorkers)

Spec == Init /\ [][Next]_vars
FairSpec == Spec /\ Fairness

-----------------------------------------------------------------------------
(* Properties. *)

WorkerPc == {"idle", "asleep", "exited"}
CallerPc == {"out", "announce", "join", "parking", "waiting", "withdraw"}
RunPc == {"claim", "body", "signal"}

\* Workers and callers each keep to their own program.
Placed ==
    /\ \A w \in Workers : pc[w] \in WorkerPc \cup RunPc
    /\ \A c \in Callers : pc[c] \in CallerPc \cup RunPc

Typed ==
    /\ pc \in [Threads -> WorkerPc \cup CallerPc \cup RunPc]
    /\ job \in [Threads -> Jobs \cup {NoJob}]
    /\ chunk \in [Threads -> Nat]
    /\ cls \in [Threads -> Classes]
    /\ seen \in [Workers -> Nat]
    /\ plan \in [Jobs -> Plan]
    /\ next \in [Jobs -> Nat]
    /\ done \in [Jobs -> Nat]
    /\ mutex \in [Jobs -> Callers \cup {Free}]
    /\ fate \in [Jobs -> {"unused", "live", "returned", "inline"}]
    /\ counted \in [Jobs -> SUBSET Nat]
    /\ current \in Jobs \cup {NoJob}
    /\ generation \in Nat
    /\ closing \in {"no", "stopped", "notified", "joined"}

\* The values every variable takes, and the places of each kind of thread.
TypeOK == Typed /\ Placed

(***************************************************************************)
(* Once parallel_for has returned, no thread is inside the function it was *)
(* given, however late a worker woke for it ("once done reaches num_tasks, *)
(* ... no worker is inside fn").                                           *)
(***************************************************************************)
NobodyInsideAfterReturn ==
    \A t \in Threads : pc[t] = "body" => fate[job[t]] = "live"

(***************************************************************************)
(* No two threads are ever inside the same chunk, and a chunk that was     *)
(* counted is never entered again: disjoint output slices stay disjoint.   *)
(***************************************************************************)
ChunksAreExclusive ==
    \A t \in Threads : pc[t] = "body" =>
        /\ chunk[t] \notin counted[job[t]]
        /\ \A u \in Threads \ {t} :
              pc[u] = "body" /\ job[u] = job[t] => chunk[u] # chunk[t]

(***************************************************************************)
(* When a call returns, the chunks that ran cover its range, each element  *)
(* in exactly one of them.                                                 *)
(***************************************************************************)
EveryElementOnce ==
    \A j \in Jobs : fate[j] \in {"returned", "inline"} =>
        \A i \in 0..(plan[j].n - 1) :
            Cardinality({k \in counted[j] : i \in Slice(plan[j].n, plan[j].chunk, k)}) = 1

(***************************************************************************)
(* With one caller, a job stays in the slot until its call clears it, so   *)
(* every worker that looks finds it; and the slot never advertises a job   *)
(* whose call returned, so no worker takes one that is over.               *)
(***************************************************************************)
JobStaysAdvertised ==
    /\ \A j \in Jobs : fate[j] = "live" => current = j
    /\ current # NoJob => fate[current] = "live"

(***************************************************************************)
(* A thread runs a body as the class its job declared, and a class does    *)
(* not outlive the job that asked for it (WorkClassScope in run).          *)
(***************************************************************************)
ClassFollowsJob ==
    \A t \in Threads :
        cls[t] = IF pc[t] \in RunPc THEN plan[job[t]].cls ELSE Standard

\* Every call returns, whichever thread lands the last chunk and however it is woken.
EveryCallReturns == \A c \in Callers : (pc[c] = "announce") ~> (pc[c] = "out")

\* The destructor returns: every worker leaves, asleep or still busy when it began.
DestructorReturns == (closing = "stopped") ~> (closing = "joined")
=============================================================================
