---------------------------- MODULE ParallelProofs ---------------------------
(***************************************************************************)
(* The safety of the parallel library: of ThreadPool, for any number of    *)
(* workers, callers and calls, and of Measure, a walk spread over it, for  *)
(* any number of threads, chunks and calls.                                *)
(*                                                                         *)
(* Of the pool, every step keeps each part of the inductive invariant (the *)
(* lemmas), and what follows from it (the theorems).  First the arithmetic *)
(* of Chunking: the chunks of a range partition it, for every size and     *)
(* every chunk.                                                            *)
(*                                                                         *)
(* Of the walk: while a call walks, every chunk is measured, or not yet    *)
(* handed out, or ahead of a thread in the range it holds, unless the stop *)
(* flag is set.  When all threads are free and nothing is left to hand     *)
(* out, only the first and the last remain.                                *)
(***************************************************************************)
EXTENDS ThreadPoolInvariant, Measure, FiniteSetTheorems, TLAPS

\* Division by a positive number, as the two facts the proofs use.
LEMMA Quotient ==
    ASSUME NEW i \in Nat, NEW c \in Nat, c > 0
    PROVE  /\ i \div c \in Nat
           /\ (i \div c) * c <= i
           /\ i < (i \div c) * c + c
  BY SMTT(30)

\* The quotient is the only number with that property.
LEMMA QuotientIsUnique ==
    ASSUME NEW c \in Nat, c > 0, NEW i \in Nat, NEW k \in Int, NEW m \in Int,
           k * c <= i, i < k * c + c, m * c <= i, i < m * c + c
    PROVE  k = m
  BY SMTT(30)

\* A chunk size is positive whatever the caller's floor: the loop of run() ends.
THEOREM ChunkSizePositive ==
    ASSUME NEW n \in Nat, NEW floor \in Nat, NEW threads \in Nat, threads > 0
    PROVE  ChunkSize(n, floor, threads) \in Nat /\ ChunkSize(n, floor, threads) > 0
  <1>1. n + threads * ChunksPerWorker - 1 \in Nat /\ threads * ChunksPerWorker \in Nat
        /\ threads * ChunksPerWorker > 0
    BY DEF ChunksPerWorker
  <1>2. RoundedUp(n, threads * ChunksPerWorker) \in Nat
    BY <1>1, Quotient DEF RoundedUp
  <1> QED
    BY <1>2 DEF ChunkSize

\* Every element lies in the chunk its quotient names, and in no other.
LEMMA InRange ==
    ASSUME NEW n \in Nat, NEW c \in Nat, c > 0, NEW i \in 0..(n - 1), NEW k \in Nat
    PROVE  i \in Slice(n, c, k) <=> k = i \div c
  <1>1. i \in Slice(n, c, k) <=> k * c <= i /\ i < k * c + c
    BY DEF Slice
  <1>2. i \div c \in Nat /\ (i \div c) * c <= i /\ i < (i \div c) * c + c
    BY Quotient
  <1> QED
    BY <1>1, <1>2, QuotientIsUnique

\* The last element still lies in one of the NumTasks chunks.
LEMMA QuotientBelowTasks ==
    ASSUME NEW n \in Nat, NEW c \in Nat, c > 0, NEW i \in 0..(n - 1)
    PROVE  NumTasks(n, c) \in Nat /\ i \div c < NumTasks(n, c)
  <1> DEFINE q == i \div c
             r == (n + c - 1) \div c
  <1>1. q \in Nat /\ q * c <= i
    BY Quotient
  <1>2. r \in Nat /\ n + c - 1 < r * c + c
    <2>1. n + c - 1 \in Nat
      OBVIOUS
    <2> QED
      BY <2>1, Quotient
  <1>3. q < r
    <2> SUFFICES ASSUME r <= q PROVE FALSE
      BY <1>1, <1>2
    <2>1. r * c <= q * c
      <3> HIDE DEF q, r
      <3> QED BY <1>1, <1>2, SMTT(30)
    <2>2. r * c \in Nat /\ q * c \in Nat
      <3> HIDE DEF q, r
      <3> QED BY <1>1, <1>2
    <2> HIDE DEF q, r
    <2> QED
      BY <1>1, <1>2, <2>1, <2>2
  <1> QED
    BY <1>2, <1>3 DEF NumTasks, RoundedUp

(***************************************************************************)
(* The chunks parallel_for hands out partition the range: every element is *)
(* in exactly one of them, the ragged last chunk included.                 *)
(***************************************************************************)
THEOREM ChunksPartition ==
    ASSUME NEW n \in Nat, NEW c \in Nat, c > 0, NEW i \in 0..(n - 1)
    PROVE  {k \in 0..(NumTasks(n, c) - 1) : i \in Slice(n, c, k)} = {i \div c}
  <1>1. i \div c \in 0..(NumTasks(n, c) - 1)
    BY QuotientBelowTasks, Quotient
  <1>2. \A k \in 0..(NumTasks(n, c) - 1) : i \in Slice(n, c, k) <=> k = i \div c
    BY InRange, QuotientBelowTasks
  <1> QED
    BY <1>1, <1>2

-----------------------------------------------------------------------------
(* The pool.                                                               *)

\* A call's plan has the values the job's fields take.
LEMMA PlanForType ==
    ASSUME NEW n \in Sizes, NEW floor \in Floors, NEW class \in Classes
    PROVE  /\ PlanFor(n, floor, class) \in Plan
           /\ PlanFor(n, floor, class).chunk > 0
           /\ PlanFor(n, floor, class).tasks =
                NumTasks(PlanFor(n, floor, class).n, PlanFor(n, floor, class).chunk)
  <1> DEFINE size == ChunkSize(n, floor, Cardinality(Workers) + 1)
  <1> USE ThreadPoolAssumption DEF ThreadPoolAssumption
  <1>1. Cardinality(Workers) + 1 \in Nat /\ Cardinality(Workers) + 1 > 0
    BY FS_CardinalityType
  <1>2. size \in Nat /\ size > 0
    BY <1>1, ChunkSizePositive
  <1>3. NumTasks(n, size) \in Nat
    <2>1. n + size - 1 \in Nat
      BY <1>2
    <2> QED
      BY <1>2, <2>1, Quotient DEF NumTasks, RoundedUp
  <1> QED
    BY <1>2, <1>3 DEF PlanFor, Plan

\* As many chunks counted as there are: every one of them is.
LEMMA AllCounted ==
    ASSUME NEW tasks \in Nat, NEW S \in SUBSET (0..(tasks - 1)), Cardinality(S) >= tasks
    PROVE  S = 0..(tasks - 1)
  <1>1. IsFiniteSet(0..(tasks - 1)) /\ Cardinality(0..(tasks - 1)) = tasks
    <2>1. 0 \in Int /\ tasks - 1 \in Int
      OBVIOUS
    <2>2. /\ IsFiniteSet(0..(tasks - 1))
          /\ Cardinality(0..(tasks - 1)) = IF 0 > tasks - 1 THEN 0 ELSE tasks - 1 - 0 + 1
      BY <2>1, FS_Interval
    <2> QED
      BY <2>2
  <1>2. Cardinality(S) <= tasks /\ (Cardinality(S) = tasks => S = 0..(tasks - 1))
    BY <1>1, FS_Subset
  <1>3. IsFiniteSet(S)
    BY <1>1, FS_Subset
  <1>4. Cardinality(S) \in Nat
    BY <1>3, FS_CardinalityType
  <1>5. Cardinality(S) = tasks
    BY <1>2, <1>4
  <1> QED
    BY <1>2, <1>5

\* One chunk more, counted for the first time.
LEMMA OneMore ==
    ASSUME NEW tasks \in Nat, NEW S \in SUBSET (0..(tasks - 1)), NEW k, k \notin S
    PROVE  Cardinality(S \cup {k}) = Cardinality(S) + 1
  <1>1. IsFiniteSet(0..(tasks - 1))
    <2>1. 0 \in Int /\ tasks - 1 \in Int
      OBVIOUS
    <2> QED
      BY <2>1, FS_Interval
  <1>2. IsFiniteSet(S)
    BY <1>1, FS_Subset
  <1> QED
    BY <1>2, FS_AddElement

-----------------------------------------------------------------------------
\* Every variable keeps to its values: the two loops, the slot and the destructor.
LEMMA TypeStep == Typed /\ Placed /\ Held /\ [Next]_vars => Typed'
  <1> SUFFICES ASSUME Typed, Placed, Held, [Next]_vars PROVE Typed'
    OBVIOUS
  <1> USE ThreadPoolAssumption DEF ThreadPoolAssumption, Typed, Threads
  <1>1. ASSUME NEW c \in Callers, Call(c) PROVE Typed'
    <2>1. PICK j \in Jobs, n \in Sizes, floor \in Floors, class \in Classes :
              CallInline(c, j, n, floor, class) \/ Publish(c, j, n, floor, class)
      BY <1>1 DEF Call
    <2>2. PlanFor(n, floor, class) \in Plan
      BY PlanForType
    <2>3. CASE CallInline(c, j, n, floor, class)
      <3>1. 0..(PlanFor(n, floor, class).tasks - 1) \in SUBSET Nat
        BY <2>2 DEF Plan
      <3> HIDE DEF ThreadPoolAssumption
      <3> QED
        BY <3>1, <2>2, <2>3 DEF CallInline, Issued, slotVars, Plan
    <2>4. CASE Publish(c, j, n, floor, class)
      BY <2>2, <2>4 DEF Publish, Issued, Goto, CallerPc
    <2> QED
      BY <2>1, <2>3, <2>4
  <1>2. ASSUME NEW c \in Callers, CallerStep(c) PROVE Typed'
    <2>1. CASE Announce(c)
      BY <1>2, <2>1 DEF Announce, Woken, jobVars, slotVars, Held, Away, Plan, RunPc, WorkerPc
    <2>2. CASE Join(c)
      BY <1>2, <2>2 DEF Join, AllFinished, Goto, slotVars, CallerPc
    <2>3. CASE Park(c)
      BY <1>2, <2>3 DEF Park, Goto, slotVars, CallerPc
    <2>4. CASE Withdraw(c)
      BY <1>2, <2>4 DEF Withdraw, Goto, CallerPc
    <2> QED
      BY <1>2, <2>1, <2>2, <2>3, <2>4 DEF CallerStep
  <1>3. ASSUME NEW t \in Threads, RunStep(t) PROVE Typed'
    <2>1. CASE Claim(t)
      BY <1>3, <2>1 DEF Claim, Incremented, AfterRun, Goto, slotVars, RunPc, CallerPc, WorkerPc, Held, Away
    <2>2. CASE Finish(t)
      BY <1>3, <2>2 DEF Finish, Goto, slotVars, RunPc, Held, Away
    <2>3. CASE Signal(t)
      BY <1>3, <2>3 DEF Signal, Notified, jobVars, slotVars, RunPc, CallerPc
    <2> QED
      BY <1>3, <2>1, <2>2, <2>3 DEF RunStep
  <1>4. ASSUME NEW t \in Threads, WakeSpuriously(t) PROVE Typed'
    BY <1>4 DEF WakeSpuriously, Goto, jobVars, slotVars, CallerPc, WorkerPc
  <1>5. ASSUME NEW w \in Workers, WorkerStep(w) PROVE Typed'
    <2>1. CASE Sleep(w)
      BY <1>5, <2>1 DEF Sleep, Goto, jobVars, slotVars, WorkerPc
    <2>2. CASE Take(w)
      BY <1>5, <2>2 DEF Take, NewJob, Goto, jobVars, slotVars, RunPc, Plan
    <2>3. CASE Exit(w)
      BY <1>5, <2>3 DEF Exit, Goto, jobVars, slotVars, WorkerPc
    <2> QED
      BY <1>5, <2>1, <2>2, <2>3 DEF WorkerStep
  <1>6. CASE Destroy
    BY <1>6 DEF Destroy, StopWorkers, NotifyWorkers, JoinWorkers, Woken, jobVars, slotVars,
                WorkerPc
  <1>7. CASE UNCHANGED vars
    BY <1>7 DEF vars, jobVars, slotVars
  <1> QED
    BY <1>1, <1>2, <1>3, <1>4, <1>5, <1>6, <1>7 DEF Next

\* Workers stay in the worker's loop, callers in the caller's.
LEMMA PlacedStep ==
    Typed /\ Placed /\ [Next]_vars => Placed'
  <1> SUFFICES ASSUME Typed, Placed, [Next]_vars
               PROVE  Placed'
    OBVIOUS
  <1> USE ThreadPoolAssumption DEF ThreadPoolAssumption, Typed, Threads, Placed, WorkerPc, CallerPc, RunPc
  <1>1. ASSUME NEW c \in Callers, NEW j \in Jobs, 
             NEW n \in Sizes, NEW floor \in Floors, NEW class \in Classes,
             CallInline(c, j, n, floor, class)
      PROVE  Placed'
    BY <1>1 DEF CallInline, Issued, slotVars
  <1>2. ASSUME NEW c \in Callers, NEW j \in Jobs, 
             NEW n \in Sizes, NEW floor \in Floors, NEW class \in Classes,
             Publish(c, j, n, floor, class)
      PROVE  Placed'
    BY <1>2 DEF Publish, Issued, Goto
  <1>3. ASSUME NEW c \in Callers, Announce(c) PROVE Placed'
    BY <1>3 DEF Announce, Woken, jobVars, slotVars
  <1>4. ASSUME NEW c \in Callers, Join(c) PROVE Placed'
    BY <1>4 DEF Join, AllFinished, Goto, slotVars
  <1>5. ASSUME NEW c \in Callers, Park(c) PROVE Placed'
    BY <1>5 DEF Park, Goto, slotVars
  <1>6. ASSUME NEW c \in Callers, Withdraw(c) PROVE Placed'
    BY <1>6 DEF Withdraw, Goto
  <1>7. ASSUME NEW t \in Threads, Claim(t) PROVE Placed'
    BY <1>7 DEF Claim, Incremented, AfterRun, Goto, slotVars
  <1>8. ASSUME NEW t \in Threads, Finish(t) PROVE Placed'
    BY <1>8 DEF Finish, Goto, slotVars
  <1>9. ASSUME NEW t \in Threads, Signal(t) PROVE Placed'
    BY <1>9 DEF Signal, Notified, jobVars, slotVars
  <1>10. ASSUME NEW t \in Threads, WakeSpuriously(t) PROVE Placed'
    BY <1>10 DEF WakeSpuriously, Goto, jobVars, slotVars
  <1>11. ASSUME NEW w \in Workers, Sleep(w) PROVE Placed'
    BY <1>11 DEF Sleep, Goto, jobVars, slotVars
  <1>12. ASSUME NEW w \in Workers, Take(w) PROVE Placed'
    BY <1>12 DEF Take, NewJob, Goto, jobVars, slotVars
  <1>13. ASSUME NEW w \in Workers, Exit(w) PROVE Placed'
    BY <1>13 DEF Exit, Goto, jobVars, slotVars
  <1>14. CASE Destroy
    BY <1>14 DEF Destroy, StopWorkers, NotifyWorkers, JoinWorkers, Woken, jobVars, slotVars
  <1>15. CASE UNCHANGED vars
    BY <1>15 DEF vars, jobVars, slotVars
  <1> QED
    BY <1>1, <1>2, <1>3, <1>4, <1>5, <1>6, <1>7, <1>8, <1>9, <1>10, <1>11, <1>12, <1>13, <1>14, <1>15
       DEF Next, Call, CallerStep, RunStep, WorkerStep

\* Whoever is at work holds a job that was published.
LEMMA HeldStep ==
    Typed /\ Placed /\ Held /\ [Next]_vars => Held'
  <1> SUFFICES ASSUME Typed, Placed, Held, [Next]_vars
               PROVE  Held'
    OBVIOUS
  <1> USE ThreadPoolAssumption DEF ThreadPoolAssumption, Typed, Threads, Placed, Held, Away, Shared, WorkerPc, CallerPc, RunPc
  <1>1. ASSUME NEW c \in Callers, NEW j \in Jobs, 
             NEW n \in Sizes, NEW floor \in Floors, NEW class \in Classes,
             CallInline(c, j, n, floor, class)
      PROVE  Held'
    BY <1>1 DEF CallInline, Issued, slotVars
  <1>2. ASSUME NEW c \in Callers, NEW j \in Jobs, 
             NEW n \in Sizes, NEW floor \in Floors, NEW class \in Classes,
             Publish(c, j, n, floor, class)
      PROVE  Held'
    BY <1>2 DEF Publish, Issued, Goto
  <1>3. ASSUME NEW c \in Callers, Announce(c) PROVE Held'
    BY <1>3 DEF Announce, Woken, jobVars, slotVars
  <1>4. ASSUME NEW c \in Callers, Join(c) PROVE Held'
    BY <1>4 DEF Join, AllFinished, Goto, slotVars
  <1>5. ASSUME NEW c \in Callers, Park(c) PROVE Held'
    BY <1>5 DEF Park, Goto, slotVars
  <1>6. ASSUME NEW c \in Callers, Withdraw(c) PROVE Held'
    BY <1>6 DEF Withdraw, Goto
  <1>7. ASSUME NEW t \in Threads, Claim(t) PROVE Held'
    BY <1>7 DEF Claim, Incremented, AfterRun, Goto, slotVars
  <1>8. ASSUME NEW t \in Threads, Finish(t) PROVE Held'
    BY <1>8 DEF Finish, Goto, slotVars
  <1>9. ASSUME NEW t \in Threads, Signal(t) PROVE Held'
    BY <1>9 DEF Signal, Notified, jobVars, slotVars
  <1>10. ASSUME NEW t \in Threads, WakeSpuriously(t) PROVE Held'
    BY <1>10 DEF WakeSpuriously, Goto, jobVars, slotVars
  <1>11. ASSUME NEW w \in Workers, Sleep(w) PROVE Held'
    BY <1>11 DEF Sleep, Goto, jobVars, slotVars
  <1>12. ASSUME NEW w \in Workers, Take(w) PROVE Held'
    BY <1>12 DEF Take, NewJob, Goto, jobVars, slotVars
  <1>13. ASSUME NEW w \in Workers, Exit(w) PROVE Held'
    BY <1>13 DEF Exit, Goto, jobVars, slotVars
  <1>14. CASE Destroy
    BY <1>14 DEF Destroy, StopWorkers, NotifyWorkers, JoinWorkers, Woken, jobVars, slotVars
  <1>15. CASE UNCHANGED vars
    BY <1>15 DEF vars, jobVars, slotVars
  <1> QED
    BY <1>1, <1>2, <1>3, <1>4, <1>5, <1>6, <1>7, <1>8, <1>9, <1>10, <1>11, <1>12, <1>13, <1>14, <1>15
       DEF Next, Call, CallerStep, RunStep, WorkerStep

\* No two callers share a job, and nobody else ends it.
LEMMA OwnedStep ==
    Typed /\ Placed /\ Held /\ Owned /\ [Next]_vars => Owned'
  <1> SUFFICES ASSUME Typed, Placed, Held, Owned, [Next]_vars
               PROVE  Owned'
    OBVIOUS
  <1> USE ThreadPoolAssumption DEF ThreadPoolAssumption, Typed, Threads, Placed, Held, Owned, Away, Shared, WorkerPc, CallerPc, RunPc
  <1>1. ASSUME NEW c \in Callers, NEW j \in Jobs, 
             NEW n \in Sizes, NEW floor \in Floors, NEW class \in Classes,
             CallInline(c, j, n, floor, class)
      PROVE  Owned'
    BY <1>1 DEF CallInline, Issued, slotVars
  <1>2. ASSUME NEW c \in Callers, NEW j \in Jobs, 
             NEW n \in Sizes, NEW floor \in Floors, NEW class \in Classes,
             Publish(c, j, n, floor, class)
      PROVE  Owned'
    BY <1>2 DEF Publish, Issued, Goto
  <1>3. ASSUME NEW c \in Callers, Announce(c) PROVE Owned'
    BY <1>3 DEF Announce, Woken, jobVars, slotVars
  <1>4. ASSUME NEW c \in Callers, Join(c) PROVE Owned'
    BY <1>4 DEF Join, AllFinished, Goto, slotVars
  <1>5. ASSUME NEW c \in Callers, Park(c) PROVE Owned'
    BY <1>5 DEF Park, Goto, slotVars
  <1>6. ASSUME NEW c \in Callers, Withdraw(c) PROVE Owned'
    BY <1>6 DEF Withdraw, Goto
  <1>7. ASSUME NEW t \in Threads, Claim(t) PROVE Owned'
    BY <1>7 DEF Claim, Incremented, AfterRun, Goto, slotVars
  <1>8. ASSUME NEW t \in Threads, Finish(t) PROVE Owned'
    BY <1>8 DEF Finish, Goto, slotVars
  <1>9. ASSUME NEW t \in Threads, Signal(t) PROVE Owned'
    BY <1>9 DEF Signal, Notified, jobVars, slotVars
  <1>10. ASSUME NEW t \in Threads, WakeSpuriously(t) PROVE Owned'
    BY <1>10 DEF WakeSpuriously, Goto, jobVars, slotVars
  <1>11. ASSUME NEW w \in Workers, Sleep(w) PROVE Owned'
    BY <1>11 DEF Sleep, Goto, jobVars, slotVars
  <1>12. ASSUME NEW w \in Workers, Take(w) PROVE Owned'
    BY <1>12 DEF Take, NewJob, Goto, jobVars, slotVars
  <1>13. ASSUME NEW w \in Workers, Exit(w) PROVE Owned'
    BY <1>13 DEF Exit, Goto, jobVars, slotVars
  <1>14. CASE Destroy
    BY <1>14 DEF Destroy, StopWorkers, NotifyWorkers, JoinWorkers, Woken, jobVars, slotVars
  <1>15. CASE UNCHANGED vars
    BY <1>15 DEF vars, jobVars, slotVars
  <1> QED
    BY <1>1, <1>2, <1>3, <1>4, <1>5, <1>6, <1>7, <1>8, <1>9, <1>10, <1>11, <1>12, <1>13, <1>14, <1>15
       DEF Next, Call, CallerStep, RunStep, WorkerStep

\* A job stays as it was cut.
LEMMA CutStep ==
    Typed /\ Placed /\ Held /\ Owned /\ Cut /\ [Next]_vars => Cut'
  <1> SUFFICES ASSUME Typed, Placed, Held, Owned, Cut, [Next]_vars
               PROVE  Cut'
    OBVIOUS
  <1> USE ThreadPoolAssumption DEF ThreadPoolAssumption, Typed, Threads, Placed, Held, Owned, Cut, Away, Shared, WorkerPc, CallerPc, RunPc
  <1>1. ASSUME NEW c \in Callers, NEW j \in Jobs, 
             NEW n \in Sizes, NEW floor \in Floors, NEW class \in Classes,
             CallInline(c, j, n, floor, class)
      PROVE  Cut'
    BY <1>1, PlanForType DEF CallInline, Issued, slotVars
  <1>2. ASSUME NEW c \in Callers, NEW j \in Jobs, 
             NEW n \in Sizes, NEW floor \in Floors, NEW class \in Classes,
             Publish(c, j, n, floor, class)
      PROVE  Cut'
    BY <1>2, PlanForType DEF Publish, Issued, Goto
  <1>3. ASSUME NEW c \in Callers, Announce(c) PROVE Cut'
    BY <1>3 DEF Announce, Woken, jobVars, slotVars
  <1>4. ASSUME NEW c \in Callers, Join(c) PROVE Cut'
    BY <1>4 DEF Join, AllFinished, Goto, slotVars
  <1>5. ASSUME NEW c \in Callers, Park(c) PROVE Cut'
    BY <1>5 DEF Park, Goto, slotVars
  <1>6. ASSUME NEW c \in Callers, Withdraw(c) PROVE Cut'
    BY <1>6 DEF Withdraw, Goto
  <1>7. ASSUME NEW t \in Threads, Claim(t) PROVE Cut'
    BY <1>7 DEF Claim, Incremented, AfterRun, Goto, slotVars
  <1>8. ASSUME NEW t \in Threads, Finish(t) PROVE Cut'
    BY <1>8 DEF Finish, Goto, slotVars
  <1>9. ASSUME NEW t \in Threads, Signal(t) PROVE Cut'
    BY <1>9 DEF Signal, Notified, jobVars, slotVars
  <1>10. ASSUME NEW t \in Threads, WakeSpuriously(t) PROVE Cut'
    BY <1>10 DEF WakeSpuriously, Goto, jobVars, slotVars
  <1>11. ASSUME NEW w \in Workers, Sleep(w) PROVE Cut'
    BY <1>11 DEF Sleep, Goto, jobVars, slotVars
  <1>12. ASSUME NEW w \in Workers, Take(w) PROVE Cut'
    BY <1>12 DEF Take, NewJob, Goto, jobVars, slotVars
  <1>13. ASSUME NEW w \in Workers, Exit(w) PROVE Cut'
    BY <1>13 DEF Exit, Goto, jobVars, slotVars
  <1>14. CASE Destroy
    BY <1>14 DEF Destroy, StopWorkers, NotifyWorkers, JoinWorkers, Woken, jobVars, slotVars
  <1>15. CASE UNCHANGED vars
    BY <1>15 DEF vars, jobVars, slotVars
  <1> QED
    BY <1>1, <1>2, <1>3, <1>4, <1>5, <1>6, <1>7, <1>8, <1>9, <1>10, <1>11, <1>12, <1>13, <1>14, <1>15
       DEF Next, Call, CallerStep, RunStep, WorkerStep

\* A completion counter never moves back.
LEMMA JoinedStep ==
    Typed /\ Placed /\ Held /\ Owned /\ Joined /\ [Next]_vars => Joined'
  <1> SUFFICES ASSUME Typed, Placed, Held, Owned, Joined, [Next]_vars
               PROVE  Joined'
    OBVIOUS
  <1> USE ThreadPoolAssumption DEF ThreadPoolAssumption, Typed, Threads, Placed, Held, Owned, Joined, Plan, Away, Shared, WorkerPc, CallerPc, RunPc
  <1>1. ASSUME NEW c \in Callers, NEW j \in Jobs, 
             NEW n \in Sizes, NEW floor \in Floors, NEW class \in Classes,
             CallInline(c, j, n, floor, class)
      PROVE  Joined'
    BY <1>1 DEF CallInline, Issued, slotVars
  <1>2. ASSUME NEW c \in Callers, NEW j \in Jobs, 
             NEW n \in Sizes, NEW floor \in Floors, NEW class \in Classes,
             Publish(c, j, n, floor, class)
      PROVE  Joined'
    BY <1>2 DEF Publish, Issued, Goto
  <1>3. ASSUME NEW c \in Callers, Announce(c) PROVE Joined'
    BY <1>3 DEF Announce, Woken, jobVars, slotVars
  <1>4. ASSUME NEW c \in Callers, Join(c) PROVE Joined'
    BY <1>4 DEF Join, AllFinished, Goto, slotVars
  <1>5. ASSUME NEW c \in Callers, Park(c) PROVE Joined'
    BY <1>5 DEF Park, Goto, slotVars
  <1>6. ASSUME NEW c \in Callers, Withdraw(c) PROVE Joined'
    BY <1>6 DEF Withdraw, Goto
  <1>7. ASSUME NEW t \in Threads, Claim(t) PROVE Joined'
    BY <1>7 DEF Claim, Incremented, AfterRun, Goto, slotVars
  <1>8. ASSUME NEW t \in Threads, Finish(t) PROVE Joined'
    BY <1>8 DEF Finish, Goto, slotVars
  <1>9. ASSUME NEW t \in Threads, Signal(t) PROVE Joined'
    BY <1>9 DEF Signal, Notified, jobVars, slotVars
  <1>10. ASSUME NEW t \in Threads, WakeSpuriously(t) PROVE Joined'
    BY <1>10 DEF WakeSpuriously, Goto, jobVars, slotVars
  <1>11. ASSUME NEW w \in Workers, Sleep(w) PROVE Joined'
    BY <1>11 DEF Sleep, Goto, jobVars, slotVars
  <1>12. ASSUME NEW w \in Workers, Take(w) PROVE Joined'
    BY <1>12 DEF Take, NewJob, Goto, jobVars, slotVars
  <1>13. ASSUME NEW w \in Workers, Exit(w) PROVE Joined'
    BY <1>13 DEF Exit, Goto, jobVars, slotVars
  <1>14. CASE Destroy
    BY <1>14 DEF Destroy, StopWorkers, NotifyWorkers, JoinWorkers, Woken, jobVars, slotVars
  <1>15. CASE UNCHANGED vars
    BY <1>15 DEF vars, jobVars, slotVars
  <1> QED
    BY <1>1, <1>2, <1>3, <1>4, <1>5, <1>6, <1>7, <1>8, <1>9, <1>10, <1>11, <1>12, <1>13, <1>14, <1>15
       DEF Next, Call, CallerStep, RunStep, WorkerStep

\* An index is claimed once, and counted by the thread that claimed it.
LEMMA ClaimedStep ==
    Typed /\ Placed /\ Held /\ Owned /\ Counting /\ Claimed /\ [Next]_vars => Claimed'
  <1> SUFFICES ASSUME Typed, Placed, Held, Owned, Counting, Claimed, [Next]_vars
               PROVE  Claimed'
    OBVIOUS
  <1> USE ThreadPoolAssumption DEF ThreadPoolAssumption, Typed, Threads, Placed, Held, Counting, Claimed, Plan, Away, Shared, WorkerPc, CallerPc, RunPc
  <1>1. ASSUME NEW c \in Callers, NEW j \in Jobs, 
             NEW n \in Sizes, NEW floor \in Floors, NEW class \in Classes,
             CallInline(c, j, n, floor, class)
      PROVE  Claimed'
    BY <1>1 DEF CallInline, Issued, slotVars
  <1>2. ASSUME NEW c \in Callers, NEW j \in Jobs, 
             NEW n \in Sizes, NEW floor \in Floors, NEW class \in Classes,
             Publish(c, j, n, floor, class)
      PROVE  Claimed'
    BY <1>2 DEF Publish, Issued, Goto
  <1>3. ASSUME NEW c \in Callers, Announce(c) PROVE Claimed'
    BY <1>3 DEF Announce, Woken, jobVars, slotVars
  <1>4. ASSUME NEW c \in Callers, Join(c) PROVE Claimed'
    <2>1. counted' = counted /\ next' = next /\ plan' = plan /\ job' = job /\ chunk' = chunk
      BY <1>4 DEF Join, AllFinished, Goto, slotVars
    <2>2. \A u \in Threads : pc'[u] = "body" => pc[u] = "body"
      BY <1>4 DEF Join, AllFinished, Goto, slotVars
    <2> QED
      BY <2>1, <2>2
  <1>5. ASSUME NEW c \in Callers, Park(c) PROVE Claimed'
    BY <1>5 DEF Park, Goto, slotVars
  <1>6. ASSUME NEW c \in Callers, Withdraw(c) PROVE Claimed'
    BY <1>6 DEF Withdraw, Goto
  <1>7. ASSUME NEW t \in Threads, Claim(t) PROVE Claimed'
    <2> DEFINE j == job[t]
    <2>1. /\ j \in Jobs /\ fate[j] \in Shared /\ plan[j].tasks \in Nat
          /\ next[j] \in Nat /\ next' = [next EXCEPT ![j] = next[j] + 1]
          /\ plan' = plan /\ counted' = counted
      BY <1>7 DEF Claim, Incremented
    <2>2. \A u \in Threads \ {t} :
             pc'[u] = pc[u] /\ job'[u] = job[u] /\ chunk'[u] = chunk[u]
      BY <1>7 DEF Claim, Incremented, AfterRun, Goto
    <2>3. \A i \in Jobs : next[i] <= next'[i]
      BY <2>1
    <2>4. ASSUME NEW u \in Threads \ {t}, pc'[u] = "body"
          PROVE  /\ job[u] \in Jobs
                 /\ chunk'[u] < plan'[job'[u]].tasks
                 /\ chunk'[u] < next'[job'[u]]
                 /\ chunk'[u] \notin counted'[job'[u]]
                 /\ job[u] = j => chunk[u] < next[j]
      <3>1. /\ u \in Threads /\ pc[u] = "body" /\ job'[u] = job[u] /\ chunk'[u] = chunk[u]
            /\ chunk[u] \in Nat
        BY <2>2, <2>4
      <3>2. job[u] \in Jobs
        BY <3>1
      <3>3. /\ chunk[u] < plan[job[u]].tasks /\ chunk[u] < next[job[u]]
            /\ chunk[u] \notin counted[job[u]]
        BY <3>1
      <3>4. next[job[u]] \in Nat /\ next'[job[u]] \in Nat /\ next[job[u]] <= next'[job[u]]
        BY <2>1, <2>3, <3>2, SMTT(30)
      <3> QED
        BY <2>1, <3>1, <3>2, <3>3, <3>4
    <2>5. ASSUME pc'[t] = "body"
          PROVE  /\ job'[t] = j /\ chunk'[t] = next[j]
                 /\ next[j] < plan[j].tasks /\ next[j] < next'[j]
                 /\ next[j] \notin counted[j]
      BY <1>7, <2>1, <2>5 DEF Claim, Incremented, AfterRun, Goto
    <2>6. ASSUME NEW u \in Threads, pc'[u] = "body", NEW v \in Threads \ {u},
                 pc'[v] = "body", job'[v] = job'[u]
          PROVE  chunk'[u] # chunk'[v]
      <3>1. CASE u # t /\ v # t
        BY <3>1, <2>2, <2>6
      <3>2. CASE u = t
        BY <3>2, <2>1, <2>2, <2>4, <2>5, <2>6
      <3>3. CASE v = t
        BY <3>3, <2>1, <2>2, <2>4, <2>5, <2>6
      <3> QED
        BY <3>1, <3>2, <3>3
    <2> QED
      BY <2>1, <2>4, <2>5, <2>6, ZenonT(60)
  <1>8. ASSUME NEW t \in Threads, Finish(t) PROVE Claimed'
    BY <1>8 DEF Finish, Goto, slotVars
  <1>9. ASSUME NEW t \in Threads, Signal(t) PROVE Claimed'
    BY <1>9 DEF Signal, Notified, jobVars, slotVars
  <1>10. ASSUME NEW t \in Threads, WakeSpuriously(t) PROVE Claimed'
    <2>1. counted' = counted /\ next' = next /\ plan' = plan /\ job' = job /\ chunk' = chunk
      BY <1>10 DEF WakeSpuriously, Goto, jobVars, slotVars
    <2>2. \A u \in Threads : pc'[u] = "body" => pc[u] = "body"
      BY <1>10 DEF WakeSpuriously, Goto, jobVars, slotVars
    <2> QED
      BY <2>1, <2>2
  <1>11. ASSUME NEW w \in Workers, Sleep(w) PROVE Claimed'
    BY <1>11 DEF Sleep, Goto, jobVars, slotVars
  <1>12. ASSUME NEW w \in Workers, Take(w) PROVE Claimed'
    BY <1>12 DEF Take, NewJob, Goto, jobVars, slotVars
  <1>13. ASSUME NEW w \in Workers, Exit(w) PROVE Claimed'
    BY <1>13 DEF Exit, Goto, jobVars, slotVars
  <1>14. CASE Destroy
    BY <1>14 DEF Destroy, StopWorkers, NotifyWorkers, JoinWorkers, Woken, jobVars, slotVars
  <1>15. CASE UNCHANGED vars
    BY <1>15 DEF vars, jobVars, slotVars
  <1> QED
    BY <1>1, <1>2, <1>3, <1>4, <1>5, <1>6, <1>7, <1>8, <1>9, <1>10, <1>11, <1>12, <1>13, <1>14, <1>15
       DEF Next, Call, CallerStep, RunStep, WorkerStep

\* A chunk is counted once, after it was claimed.
LEMMA CountingStep ==
    Typed /\ Placed /\ Held /\ Owned /\ Counting /\ Claimed /\ Joined /\ [Next]_vars => Counting'
  <1> SUFFICES ASSUME Typed, Placed, Held, Owned, Counting, Claimed, Joined, [Next]_vars
               PROVE  Counting'
    OBVIOUS
  <1> USE ThreadPoolAssumption DEF ThreadPoolAssumption, Typed, Threads, Placed, Held, Owned, Counting, Claimed, Joined, Plan, Away, Shared, WorkerPc, CallerPc, RunPc
  <1>1. ASSUME NEW c \in Callers, NEW j \in Jobs, 
             NEW n \in Sizes, NEW floor \in Floors, NEW class \in Classes,
             CallInline(c, j, n, floor, class)
      PROVE  Counting'
    BY <1>1 DEF CallInline, Issued, slotVars
  <1>2. ASSUME NEW c \in Callers, NEW j \in Jobs, 
             NEW n \in Sizes, NEW floor \in Floors, NEW class \in Classes,
             Publish(c, j, n, floor, class)
      PROVE  Counting'
    <2>1. Cardinality({}) = 0
      BY FS_EmptySet
    <2>2. PlanFor(n, floor, class) \in Plan
      BY PlanForType
    <2>3. /\ fate' = [fate EXCEPT ![j] = "live"] /\ fate[j] = "unused"
          /\ plan' = [plan EXCEPT ![j] = PlanFor(n, floor, class)]
          /\ counted' = counted /\ next' = next /\ done' = done
      BY <1>2 DEF Publish, Issued
    <2>4. \A i \in Jobs \ {j} : fate'[i] = fate[i] /\ plan'[i] = plan[i]
      BY <2>3
    <2>5. next[j] = 0 /\ done[j] = 0 /\ counted[j] = {} /\ fate'[j] = "live"
      BY <2>3
    <2>6. ASSUME NEW i \in Jobs
          PROVE  /\ counted'[i] \subseteq 0..(plan'[i].tasks - 1)
                 /\ fate'[i] \in Shared =>
                       /\ done'[i] = Cardinality(counted'[i])
                       /\ \A k \in counted'[i] : k < next'[i]
                 /\ fate'[i] = "unused" =>
                       next'[i] = 0 /\ done'[i] = 0 /\ counted'[i] = {}
                 /\ fate'[i] = "returned" => done'[i] >= plan'[i].tasks
                 /\ fate'[i] = "inline" => counted'[i] = 0..(plan'[i].tasks - 1)
      <3>1. CASE i = j
        BY <3>1, <2>1, <2>3, <2>5
      <3>2. CASE i # j
        BY <3>2, <2>3, <2>4
      <3> QED
        BY <3>1, <3>2
    <2> QED
      BY <2>6
  <1>3. ASSUME NEW c \in Callers, Announce(c) PROVE Counting'
    BY <1>3 DEF Announce, Woken, jobVars, slotVars
  <1>4. ASSUME NEW c \in Callers, Join(c) PROVE Counting'
    BY <1>4 DEF Join, AllFinished, Goto, slotVars
  <1>5. ASSUME NEW c \in Callers, Park(c) PROVE Counting'
    BY <1>5 DEF Park, Goto, slotVars
  <1>6. ASSUME NEW c \in Callers, Withdraw(c) PROVE Counting'
    BY <1>6 DEF Withdraw, Goto
  <1>7. ASSUME NEW t \in Threads, Claim(t) PROVE Counting'
    <2> DEFINE j == job[t]
    <2>1. /\ j \in Jobs /\ fate[j] \in Shared
          /\ next[j] \in Nat /\ next' = [next EXCEPT ![j] = next[j] + 1]
      BY <1>7 DEF Claim, Incremented
    <2>2. plan' = plan /\ counted' = counted /\ done' = done /\ fate' = fate
      BY <1>7 DEF Claim, Incremented
    <2>3. \A i \in Jobs \ {j} : next'[i] = next[i]
      BY <2>1
    <2>4. \A k \in counted[j] : k \in Nat /\ k < next[j]
      BY <2>1
    <2>5. next'[j] = next[j] + 1
      BY <2>1
    <2>6. \A k \in counted'[j] : k < next'[j]
      BY <2>1, <2>2, <2>4, <2>5
    <2> QED
      BY <2>1, <2>2, <2>3, <2>6
  <1>8. ASSUME NEW t \in Threads, Finish(t) PROVE Counting'
    <2> DEFINE j == job[t]
    <2>1. /\ j \in Jobs /\ fate[j] \in Shared /\ plan[j].tasks \in Nat /\ chunk[t] \in Nat
          /\ chunk[t] < plan[j].tasks /\ chunk[t] < next[j] /\ chunk[t] \notin counted[j]
      BY <1>8 DEF Finish, Goto
    <2>2. /\ done' = [done EXCEPT ![j] = done[j] + 1]
          /\ counted' = [counted EXCEPT ![j] = counted[j] \cup {chunk[t]}]
          /\ plan' = plan /\ next' = next /\ fate' = fate
      BY <1>8 DEF Finish
    <2>3. counted[j] \in SUBSET (0..(plan[j].tasks - 1))
      BY <2>1
    <2>4. Cardinality(counted[j] \cup {chunk[t]}) = Cardinality(counted[j]) + 1
      BY <2>1, <2>3, OneMore
    <2>5. chunk[t] \in 0..(plan[j].tasks - 1)
      BY <2>1
    <2>6. counted'[j] = counted[j] \cup {chunk[t]} /\ done'[j] = done[j] + 1
      BY <2>1, <2>2
    <2>7. done'[j] = Cardinality(counted'[j])
      BY <2>1, <2>4, <2>6
    <2>8. counted'[j] \subseteq 0..(plan[j].tasks - 1)
      BY <2>3, <2>5, <2>6
    <2>9. \A k \in counted'[j] : k < next'[j]
      BY <2>1, <2>2, <2>6
    <2>10. done[j] \in Nat /\ (done[j] >= plan[j].tasks => done'[j] >= plan[j].tasks)
      BY <2>1, <2>6
    <2>11. \A i \in Jobs \ {j} : counted'[i] = counted[i] /\ done'[i] = done[i]
      BY <2>2
    <2>12. ASSUME NEW i \in Jobs
          PROVE  /\ counted'[i] \subseteq 0..(plan'[i].tasks - 1)
                 /\ fate'[i] \in Shared =>
                       /\ done'[i] = Cardinality(counted'[i])
                       /\ \A k \in counted'[i] : k < next'[i]
                 /\ fate'[i] = "unused" =>
                       next'[i] = 0 /\ done'[i] = 0 /\ counted'[i] = {}
                 /\ fate'[i] = "returned" => done'[i] >= plan'[i].tasks
                 /\ fate'[i] = "inline" => counted'[i] = 0..(plan'[i].tasks - 1)
      <3>1. CASE i = j
        BY <3>1, <2>1, <2>2, <2>7, <2>8, <2>9, <2>10
      <3>2. CASE i # j
        BY <3>2, <2>2, <2>11
      <3> QED
        BY <3>1, <3>2
    <2> QED
      BY <2>12
  <1>9. ASSUME NEW t \in Threads, Signal(t) PROVE Counting'
    BY <1>9 DEF Signal, Notified, jobVars, slotVars
  <1>10. ASSUME NEW t \in Threads, WakeSpuriously(t) PROVE Counting'
    BY <1>10 DEF WakeSpuriously, Goto, jobVars, slotVars
  <1>11. ASSUME NEW w \in Workers, Sleep(w) PROVE Counting'
    BY <1>11 DEF Sleep, Goto, jobVars, slotVars
  <1>12. ASSUME NEW w \in Workers, Take(w) PROVE Counting'
    BY <1>12 DEF Take, NewJob, Goto, jobVars, slotVars
  <1>13. ASSUME NEW w \in Workers, Exit(w) PROVE Counting'
    BY <1>13 DEF Exit, Goto, jobVars, slotVars
  <1>14. CASE Destroy
    BY <1>14 DEF Destroy, StopWorkers, NotifyWorkers, JoinWorkers, Woken, jobVars, slotVars
  <1>15. CASE UNCHANGED vars
    BY <1>15 DEF vars, jobVars, slotVars
  <1> QED
    BY <1>1, <1>2, <1>3, <1>4, <1>5, <1>6, <1>7, <1>8, <1>9, <1>10, <1>11, <1>12, <1>13, <1>14, <1>15
       DEF Next, Call, CallerStep, RunStep, WorkerStep

\* A class is entered with the job and left with it.
LEMMA ClassStep ==
    Typed /\ Placed /\ Held /\ Owned /\ ClassFollowsJob /\ [Next]_vars => ClassFollowsJob'
  <1> SUFFICES ASSUME Typed, Placed, Held, Owned, ClassFollowsJob, [Next]_vars
               PROVE  ClassFollowsJob'
    OBVIOUS
  <1> USE ThreadPoolAssumption DEF ThreadPoolAssumption, Typed, Threads, Placed, Held, Owned, ClassFollowsJob, Away, Shared, WorkerPc, CallerPc, RunPc
  <1>1. ASSUME NEW c \in Callers, NEW j \in Jobs, 
             NEW n \in Sizes, NEW floor \in Floors, NEW class \in Classes,
             CallInline(c, j, n, floor, class)
      PROVE  ClassFollowsJob'
    BY <1>1 DEF CallInline, Issued, slotVars
  <1>2. ASSUME NEW c \in Callers, NEW j \in Jobs, 
             NEW n \in Sizes, NEW floor \in Floors, NEW class \in Classes,
             Publish(c, j, n, floor, class)
      PROVE  ClassFollowsJob'
    BY <1>2 DEF Publish, Issued, Goto
  <1>3. ASSUME NEW c \in Callers, Announce(c) PROVE ClassFollowsJob'
    BY <1>3 DEF Announce, Woken, jobVars, slotVars
  <1>4. ASSUME NEW c \in Callers, Join(c) PROVE ClassFollowsJob'
    BY <1>4 DEF Join, AllFinished, Goto, slotVars
  <1>5. ASSUME NEW c \in Callers, Park(c) PROVE ClassFollowsJob'
    BY <1>5 DEF Park, Goto, slotVars
  <1>6. ASSUME NEW c \in Callers, Withdraw(c) PROVE ClassFollowsJob'
    BY <1>6 DEF Withdraw, Goto
  <1>7. ASSUME NEW t \in Threads, Claim(t) PROVE ClassFollowsJob'
    BY <1>7 DEF Claim, Incremented, AfterRun, Goto, slotVars
  <1>8. ASSUME NEW t \in Threads, Finish(t) PROVE ClassFollowsJob'
    BY <1>8 DEF Finish, Goto, slotVars
  <1>9. ASSUME NEW t \in Threads, Signal(t) PROVE ClassFollowsJob'
    BY <1>9 DEF Signal, Notified, jobVars, slotVars
  <1>10. ASSUME NEW t \in Threads, WakeSpuriously(t) PROVE ClassFollowsJob'
    BY <1>10 DEF WakeSpuriously, Goto, jobVars, slotVars
  <1>11. ASSUME NEW w \in Workers, Sleep(w) PROVE ClassFollowsJob'
    BY <1>11 DEF Sleep, Goto, jobVars, slotVars
  <1>12. ASSUME NEW w \in Workers, Take(w) PROVE ClassFollowsJob'
    BY <1>12 DEF Take, NewJob, Goto, jobVars, slotVars
  <1>13. ASSUME NEW w \in Workers, Exit(w) PROVE ClassFollowsJob'
    BY <1>13 DEF Exit, Goto, jobVars, slotVars
  <1>14. CASE Destroy
    BY <1>14 DEF Destroy, StopWorkers, NotifyWorkers, JoinWorkers, Woken, jobVars, slotVars
  <1>15. CASE UNCHANGED vars
    BY <1>15 DEF vars, jobVars, slotVars
  <1> QED
    BY <1>1, <1>2, <1>3, <1>4, <1>5, <1>6, <1>7, <1>8, <1>9, <1>10, <1>11, <1>12, <1>13, <1>14, <1>15
       DEF Next, Call, CallerStep, RunStep, WorkerStep

\* The slot is set by the only call there is, and cleared when it returns.
LEMMA AdvertisedStep ==
    SoleCaller /\ Typed /\ Placed /\ Owned /\ LiveIsCalled /\ [Next]_vars => LiveIsCalled'
  <1> SUFFICES ASSUME SoleCaller, Typed, Placed, Owned, LiveIsCalled, [Next]_vars
               PROVE  LiveIsCalled'
    OBVIOUS
  <1> USE ThreadPoolAssumption DEF ThreadPoolAssumption, Typed, Threads, Placed, LiveIsCalled, WorkerPc, CallerPc, RunPc
  <1>1. ASSUME NEW c \in Callers, NEW j \in Jobs, 
             NEW n \in Sizes, NEW floor \in Floors, NEW class \in Classes,
             CallInline(c, j, n, floor, class)
      PROVE  LiveIsCalled'
    BY <1>1 DEF CallInline, Issued, slotVars
  <1>2. ASSUME NEW c \in Callers, NEW j \in Jobs, 
             NEW n \in Sizes, NEW floor \in Floors, NEW class \in Classes,
             Publish(c, j, n, floor, class)
      PROVE  LiveIsCalled'
    <2>1. \A k \in Jobs : fate[k] # "live"
      BY <1>2 DEF Publish, Issued, SoleCaller
    <2>2. pc'[c] # "out" /\ job'[c] = j /\ current' = j
      BY <1>2 DEF Publish, Issued, Goto
    <2>3. \A k \in Jobs \ {j} : fate'[k] # "live"
      BY <1>2, <2>1 DEF Publish
    <2> QED
      BY <2>2, <2>3
  <1>3. ASSUME NEW c \in Callers, Announce(c) PROVE LiveIsCalled'
    BY <1>3 DEF Announce, Woken, jobVars, slotVars
  <1>4. ASSUME NEW c \in Callers, Join(c) PROVE LiveIsCalled'
    BY <1>4 DEF Join, AllFinished, Goto, slotVars
  <1>5. ASSUME NEW c \in Callers, Park(c) PROVE LiveIsCalled'
    BY <1>5 DEF Park, Goto, slotVars
  <1>6. ASSUME NEW c \in Callers, Withdraw(c) PROVE LiveIsCalled'
    <2>1. \A k \in Jobs : fate[k] = "live" => k = job[c]
      BY SoleCaller DEF SoleCaller
    <2>2. \A k \in Jobs : fate'[k] # "live"
      BY <1>6, <2>1 DEF Withdraw
    <2> QED
      BY <2>2
  <1>7. ASSUME NEW t \in Threads, Claim(t) PROVE LiveIsCalled'
    BY <1>7 DEF Claim, Incremented, AfterRun, Goto, slotVars
  <1>8. ASSUME NEW t \in Threads, Finish(t) PROVE LiveIsCalled'
    BY <1>8 DEF Finish, Goto, slotVars
  <1>9. ASSUME NEW t \in Threads, Signal(t) PROVE LiveIsCalled'
    BY <1>9 DEF Signal, Notified, jobVars, slotVars
  <1>10. ASSUME NEW t \in Threads, WakeSpuriously(t) PROVE LiveIsCalled'
    BY <1>10 DEF WakeSpuriously, Goto, jobVars, slotVars
  <1>11. ASSUME NEW w \in Workers, Sleep(w) PROVE LiveIsCalled'
    BY <1>11 DEF Sleep, Goto, jobVars, slotVars
  <1>12. ASSUME NEW w \in Workers, Take(w) PROVE LiveIsCalled'
    BY <1>12 DEF Take, NewJob, Goto, jobVars, slotVars
  <1>13. ASSUME NEW w \in Workers, Exit(w) PROVE LiveIsCalled'
    BY <1>13 DEF Exit, Goto, jobVars, slotVars
  <1>14. CASE Destroy
    BY <1>14 DEF Destroy, StopWorkers, NotifyWorkers, JoinWorkers, Woken, jobVars, slotVars
  <1>15. CASE UNCHANGED vars
    BY <1>15 DEF vars, jobVars, slotVars
  <1> QED
    BY <1>1, <1>2, <1>3, <1>4, <1>5, <1>6, <1>7, <1>8, <1>9, <1>10, <1>11, <1>12, <1>13, <1>14, <1>15
       DEF Next, Call, CallerStep, RunStep, WorkerStep

-----------------------------------------------------------------------------
\* The invariant holds at the start, with an empty pool.
LEMMA Starts == Init => IInv /\ ClassFollowsJob
  BY ThreadPoolAssumption DEF ThreadPoolAssumption, Init, IInv, TypeOK, Typed, Placed, Held, Owned, Counting, Claimed, Joined, Cut, Threads,
         ClassFollowsJob, Plan, Empty, Away, Shared, WorkerPc, CallerPc, RunPc

\* Every step keeps the invariant, each part by the lemma of its own.
LEMMA Continues == IInv /\ [Next]_vars => IInv'
  BY TypeStep, PlacedStep, HeldStep, OwnedStep, CutStep, JoinedStep, ClaimedStep, CountingStep
     DEF IInv, TypeOK

-----------------------------------------------------------------------------

\* The inductive invariant holds in every state of every pool.
THEOREM Invariant == Spec => []IInv
  BY Starts, Continues, PTL DEF Spec

\* Type correctness: every variable of the pool keeps to its values.
THEOREM TypeCorrect == Spec => []TypeOK
  <1>1. IInv => TypeOK
    BY DEF IInv
  <1> QED
    BY <1>1, Invariant, PTL

(***************************************************************************)
(* parallel_for does not return while a worker is inside its function: a   *)
(* worker inside a chunk holds an uncounted one, and a call returns with   *)
(* all of them counted.                                                    *)
(***************************************************************************)
THEOREM ReturnedMeansOutside == Spec => []NobodyInsideAfterReturn
  <1>1. IInv => NobodyInsideAfterReturn
    <2> SUFFICES ASSUME IInv, NEW t \in Threads, pc[t] = "body", fate[job[t]] # "live"
                 PROVE  FALSE
      BY DEF NobodyInsideAfterReturn
    <2> DEFINE j == job[t]
    <2>1. j \in Jobs /\ fate[j] = "returned"
      BY DEF IInv, Held, Away, Shared
    <2>2. /\ plan[j].tasks \in Nat /\ chunk[t] \in Nat
          /\ chunk[t] < plan[j].tasks /\ chunk[t] \notin counted[j]
      BY <2>1 DEF IInv, TypeOK, Typed, Plan, Claimed
    <2>3. /\ counted[j] \in SUBSET (0..(plan[j].tasks - 1))
          /\ Cardinality(counted[j]) >= plan[j].tasks
      BY <2>1 DEF IInv, Counting, Shared
    <2>4. counted[j] = 0..(plan[j].tasks - 1)
      BY <2>2, <2>3, AllCounted
    <2> QED
      BY <2>2, <2>4
  <1> QED
    BY <1>1, Invariant, PTL

\* No two threads are inside one chunk, and no chunk is entered after it was counted.
THEOREM Exclusive == Spec => []ChunksAreExclusive
  <1>1. IInv => ChunksAreExclusive
    BY DEF IInv, Claimed, ChunksAreExclusive
  <1> QED
    BY <1>1, Invariant, PTL

(***************************************************************************)
(* A call that returned ran its function over every element of its range   *)
(* exactly once, whatever the range, the floor and the number of threads.  *)
(***************************************************************************)
THEOREM RangeCovered == Spec => []EveryElementOnce
  <1>1. IInv => EveryElementOnce
    <2> SUFFICES ASSUME IInv, NEW j \in Jobs, fate[j] \in {"returned", "inline"},
                        NEW i \in 0..(plan[j].n - 1)
                 PROVE  Cardinality({k \in counted[j] :
                            i \in Slice(plan[j].n, plan[j].chunk, k)}) = 1
      BY DEF EveryElementOnce
    <2> DEFINE n == plan[j].n
               size == plan[j].chunk
               tasks == plan[j].tasks
    <2>1. /\ n \in Nat /\ size \in Nat /\ tasks \in Nat /\ size > 0
          /\ tasks = NumTasks(n, size)
      BY DEF IInv, TypeOK, Typed, Plan, Cut
    <2>2. counted[j] = 0..(tasks - 1)
      <3>1. CASE fate[j] = "inline"
        BY <3>1 DEF IInv, Counting
      <3>2. CASE fate[j] = "returned"
        <4>1. /\ counted[j] \in SUBSET (0..(tasks - 1))
              /\ Cardinality(counted[j]) >= tasks
          BY <3>2 DEF IInv, Counting, Shared
        <4> QED
          BY <4>1, <2>1, AllCounted
      <3> QED
        BY <3>1, <3>2
    <2>3. i \in 0..(n - 1)
      OBVIOUS
    <2> HIDE DEF n, size, tasks
    <2>4. {k \in 0..(NumTasks(n, size) - 1) : i \in Slice(n, size, k)} = {i \div size}
      BY <2>1, <2>3, ChunksPartition
    <2>5. {k \in counted[j] : i \in Slice(n, size, k)} = {i \div size}
      BY <2>1, <2>2, <2>4
    <2> QED
      BY <2>5, FS_Singleton DEF n, size
  <1> QED
    BY <1>1, Invariant, PTL

\* A thread runs a body as the class of its job, and is back to its own outside.
THEOREM ClassScoped == Spec => []ClassFollowsJob
  <1>1. IInv /\ ClassFollowsJob /\ [Next]_vars => ClassFollowsJob'
    BY ClassStep DEF IInv, TypeOK
  <1>2. Init => ClassFollowsJob
    BY Starts
  <1> QED
    BY <1>1, <1>2, Invariant, PTL DEF Spec

(***************************************************************************)
(* With one caller the slot holds a job from its publication to its        *)
(* withdrawal, so a worker that looks during a call finds its job, and     *)
(* none of a call that returned.  A call that another overwrites or clears *)
(* goes on alone: hence the assumption, which only the first part needs.   *)
(***************************************************************************)
THEOREM Advertised == ASSUME SoleCaller PROVE Spec => []JobStaysAdvertised
  <1>1. Init => LiveIsCalled
    BY DEF Init, LiveIsCalled
  <1>2. IInv /\ LiveIsCalled /\ [Next]_vars => LiveIsCalled'
    BY AdvertisedStep DEF IInv, TypeOK
  <1>3. IInv /\ LiveIsCalled => JobStaysAdvertised
    BY DEF IInv, Held, LiveIsCalled, JobStaysAdvertised
  <1> QED
    BY <1>1, <1>2, <1>3, Invariant, PTL DEF Spec

-----------------------------------------------------------------------------
(* The walk of Measure. *)

\* The chunks a thread at work has ahead of it.
Ahead(t, k) ==
    /\ place[t] # "free"
    /\ k < last[t]
    /\ IF place[t] = "advance" THEN at[t] < k ELSE at[t] <= k

\* Walkers work only while a call walks, each inside a range handed out.
WalkersPlaced ==
    /\ stage # "walking" => \A t \in Walkers : place[t] = "free"
    /\ \A t \in Walkers :
        /\ place[t] # "free" => at[t] <= last[t] /\ last[t] <= handed
        /\ place[t] \in {"ask", "measure", "advance"} => at[t] < last[t]

\* Nothing is lost on the way unless the call is to be reported cancelled.
Covered ==
    stage = "walking" =>
        \A k \in 0..(count - 1) :
            \/ k \in measured
            \/ stop
            \/ k >= handed
            \/ \E t \in Walkers : Ahead(t, k)

\* What was measured belongs to the call, and a verdict is given at its end.
Judged ==
    /\ measured \subseteq 0..(count - 1)
    /\ stage = "begun" => handed = 0
    /\ stage \in {"begun", "walking"} => verdict = "none"
    /\ verdict = "complete" => 0..(count - 1) \subseteq measured

\* A thread that measured after the cancel is on its way to be told.
Prompt ==
    \A t \in Walkers :
        /\ late[t] <= 1
        /\ ~cancelled /\ stage # "idle" => late[t] = 0
        /\ cancelled /\ place[t] = "measure" => late[t] = 0

\* The fraction was written by the call that runs.
Current == stage # "idle" \/ running => writer = calls

MeasureIInv == MeasureTypeOK /\ WalkersPlaced /\ Covered /\ Judged /\ Prompt /\ Current

\* A chunk with a floor of one has something in it.
LEMMA ChunkOfOne ==
    ASSUME NEW n \in Nat, NEW threads \in Nat, threads > 0
    PROVE  ChunkSize(n, 1, threads) \in Nat /\ ChunkSize(n, 1, threads) > 0
  <1> DEFINE c == threads * ChunksPerWorker
             i == n + c - 1
  <1>1. c \in Nat /\ c > 0 /\ i \in Nat
    BY DEF ChunksPerWorker
  <1> HIDE DEF c, i
  <1>2. i \div c \in Nat
    BY <1>1, SMTT(30)
  <1>3. RoundedUp(n, c) = i \div c
    BY DEF RoundedUp, i
  <1> QED
    BY <1>2, <1>3 DEF ChunkSize, c

-----------------------------------------------------------------------------
\* A range is never empty and never runs past the call.
LEMMA RangeEndBounds ==
    ASSUME MeasureAssumption, MeasureTypeOK, NEW first \in Nat, first < count
    PROVE  RangeEnd(first) \in Nat /\ first < RangeEnd(first) /\ RangeEnd(first) <= count
  <1>1. Cardinality(Walkers) \in Nat /\ Cardinality(Walkers) > 0
    BY FS_CardinalityType, FS_EmptySet DEF MeasureAssumption
  <1>2. count \in Nat /\ count > 0
    BY DEF MeasureTypeOK
  <1>3. ChunkSize(count, 1, Cardinality(Walkers)) \in Nat
        /\ ChunkSize(count, 1, Cardinality(Walkers)) > 0
    BY <1>1, <1>2, ChunkOfOne
  <1>4. RangeSize \in Nat /\ RangeSize > 0
    BY <1>2, <1>3 DEF RangeSize
  <1> QED
    BY <1>2, <1>4 DEF RangeEnd

\* No call has begun: the invariant holds.
LEMMA MeasureStarts == ASSUME MeasureInit PROVE MeasureIInv
  <1>1. MeasureTypeOK
    <2>1. cancelled \in BOOLEAN /\ running \in BOOLEAN /\ stop \in BOOLEAN
      BY Zenon DEF MeasureInit
    <2> QED
      BY <2>1 DEF MeasureInit, Zero, MeasureTypeOK
  <1>2. WalkersPlaced /\ Covered /\ Prompt /\ Current
    BY DEF MeasureInit, Zero, WalkersPlaced, Covered, Prompt, Current
  <1>3. Judged
    BY DEF MeasureInit, Judged
  <1> QED
    BY <1>1, <1>2, <1>3 DEF MeasureIInv

\* The caller's own steps: begin, the walk, its return and end.
LEMMA CallerKeeps ==
    ASSUME MeasureAssumption, MeasureIInv, (\E n \in CallSizes : Begin(n)) \/ Walk \/ Return \/ End
    PROVE  MeasureIInv'
  <1>1. ASSUME NEW n \in CallSizes, Begin(n) PROVE MeasureIInv'
    <2>1. n \in Nat
      BY DEF MeasureAssumption
    <2>2. MeasureTypeOK'
      <3>1. stop' \in BOOLEAN
        BY <1>1, Zenon DEF Begin
      <3> QED
        BY <1>1, <2>1, <3>1 DEF Begin, ClearProgress, Zero, threadVars, MeasureIInv, MeasureTypeOK
    <2>6. WalkersPlaced'
      BY <1>1 DEF Begin, threadVars, MeasureIInv, WalkersPlaced
    <2>3. Covered' /\ Prompt'
      BY <1>1 DEF Begin, Zero, threadVars, MeasureIInv, WalkersPlaced, Covered, Prompt
    <2>4. Judged'
      BY <1>1 DEF Begin, Judged
    <2>5. Current'
      BY <1>1 DEF Begin, ClearProgress, Current
    <2> QED
      BY <2>2, <2>3, <2>4, <2>5, <2>6 DEF MeasureIInv
  <1>2. CASE Walk
    BY <1>2 DEF Walk, threadVars, MeasureIInv, MeasureTypeOK, WalkersPlaced, Covered, Judged, Prompt, Current
  <1>3. CASE Return
    <2>1. ~stop => 0..(count - 1) \subseteq measured
      BY <1>3 DEF Return, MeasureIInv, MeasureTypeOK, Covered, Ahead
    <2>2. Judged'
      BY <1>3, <2>1 DEF Return, MeasureIInv, Judged
    <2>3. MeasureTypeOK' /\ WalkersPlaced' /\ Covered'
      BY <1>3 DEF Return, tokenVars, threadVars, MeasureIInv, MeasureTypeOK, WalkersPlaced, Covered
    <2>4. Prompt' /\ Current'
      BY <1>3 DEF Return, tokenVars, threadVars, MeasureIInv, MeasureTypeOK, Prompt, Current
    <2> QED
      BY <2>2, <2>3, <2>4 DEF MeasureIInv
  <1>4. CASE End
    BY <1>4 DEF End, threadVars, MeasureIInv, MeasureTypeOK, WalkersPlaced, Covered, Judged, Prompt, Current
  <1> QED
    BY <1>1, <1>2, <1>3, <1>4

\* cancel and reset, at any moment.
LEMMA HostKeeps ==
    ASSUME MeasureIInv, Cancel \/ Reset
    PROVE  MeasureIInv'
  <1>1. CASE Cancel
    <2>1. Covered'
      BY <1>1 DEF Cancel, callVars, threadVars, MeasureIInv, Covered, Ahead
    <2>2. Prompt'
      BY <1>1 DEF Cancel, callVars, threadVars, MeasureIInv, MeasureTypeOK, WalkersPlaced, Prompt
    <2> QED
      BY <1>1, <2>1, <2>2 DEF Cancel, callVars, threadVars, MeasureIInv, MeasureTypeOK, WalkersPlaced, Judged,
                              Current
  <1>2. CASE Reset
    BY <1>2 DEF Reset, callVars, threadVars, MeasureIInv, MeasureTypeOK, WalkersPlaced, Covered, Judged,
                Prompt, Current
  <1> QED
    BY <1>1, <1>2

\* A thread that takes, checks, measures or reports a chunk.
LEMMA ThreadKeeps ==
    ASSUME MeasureAssumption, MeasureIInv, NEW t \in Walkers, ThreadStep(t)
    PROVE  MeasureIInv'
  <1>1. CASE TakeRange(t)
    <2>1. /\ RangeEnd(handed) \in Nat /\ handed < RangeEnd(handed)
          /\ RangeEnd(handed) <= count
      BY <1>1, RangeEndBounds DEF TakeRange, MeasureIInv, MeasureTypeOK
    <2>2. MeasureTypeOK' /\ WalkersPlaced' /\ Judged' /\ Prompt' /\ Current'
      BY <1>1, <2>1 DEF TakeRange, tokenVars, callVars, MeasureIInv, MeasureTypeOK, WalkersPlaced, Judged,
                        Prompt, Current
    <2>3. Covered'
      <3> SUFFICES ASSUME NEW k \in 0..(count - 1), k \notin measured, ~stop,
                          k < RangeEnd(handed)
                   PROVE  \E u \in Walkers : Ahead(u, k)'
        BY <1>1, <2>1 DEF TakeRange, callVars, MeasureIInv, MeasureTypeOK, Covered
      <3>1. CASE k >= handed
        BY <1>1, <2>1, <3>1 DEF TakeRange, MeasureIInv, MeasureTypeOK, Ahead
      <3>2. CASE k < handed
        <4>1. PICK u \in Walkers : Ahead(u, k)
          BY <1>1, <3>2 DEF TakeRange, MeasureIInv, MeasureTypeOK, Covered
        <4>2. u # t
          BY <1>1, <4>1 DEF TakeRange, Ahead
        <4> QED
          BY <1>1, <4>1, <4>2 DEF TakeRange, MeasureIInv, MeasureTypeOK, Ahead
      <3> QED
        BY <3>1, <3>2 DEF MeasureIInv, MeasureTypeOK
    <2> QED
      BY <2>2, <2>3 DEF MeasureIInv
  <1>2. CASE Check(t)
    <2>1. MeasureTypeOK' /\ WalkersPlaced' /\ Judged' /\ Prompt' /\ Current'
      BY <1>2 DEF Check, tokenVars, callVars, MeasureIInv, MeasureTypeOK, WalkersPlaced, Judged, Prompt,
                  Current
    <2>2. ASSUME NEW k \in 0..(count - 1), NEW u \in Walkers, Ahead(u, k), ~stop
          PROVE  Ahead(u, k)'
      BY <1>2, <2>2 DEF Check, MeasureIInv, MeasureTypeOK, Ahead
    <2>3. Covered'
      BY <1>2, <2>2 DEF Check, tokenVars, callVars, MeasureIInv, Covered
    <2> QED
      BY <2>1, <2>3 DEF MeasureIInv
  <1>3. CASE Ask(t)
    <2>1. MeasureTypeOK' /\ WalkersPlaced' /\ Judged' /\ Prompt' /\ Current'
      BY <1>3 DEF Ask, tokenVars, callVars, MeasureIInv, MeasureTypeOK, WalkersPlaced, Judged, Prompt,
                  Current
    <2>2. ASSUME NEW k \in 0..(count - 1), NEW u \in Walkers, Ahead(u, k), ~stop'
          PROVE  Ahead(u, k)'
      BY <1>3, <2>2 DEF Ask, MeasureIInv, MeasureTypeOK, Ahead
    <2>3. Covered'
      BY <1>3, <2>2 DEF Ask, tokenVars, callVars, MeasureIInv, MeasureTypeOK, Covered
    <2> QED
      BY <2>1, <2>3 DEF MeasureIInv
  <1>4. CASE MeasureChunk(t)
    <2>1. MeasureTypeOK'
      <3>1. late' \in [Walkers -> Nat]
        BY <1>4 DEF MeasureChunk, MeasureIInv, MeasureTypeOK
      <3>2. measured' \in SUBSET Nat
        BY <1>4 DEF MeasureChunk, MeasureIInv, MeasureTypeOK
      <3> QED
        BY <1>4, <3>1, <3>2 DEF MeasureChunk, tokenVars, callVars, MeasureIInv, MeasureTypeOK
    <2>7. WalkersPlaced' /\ Current'
      BY <1>4 DEF MeasureChunk, tokenVars, callVars, MeasureIInv, MeasureTypeOK, WalkersPlaced, Current
    <2>5. at[t] \in 0..(count - 1)
      BY <1>4 DEF MeasureChunk, MeasureIInv, MeasureTypeOK, WalkersPlaced
    <2>6. Judged'
      BY <1>4, <2>5 DEF MeasureChunk, callVars, MeasureIInv, Judged
    <2>2. Prompt'
      BY <1>4 DEF MeasureChunk, tokenVars, callVars, MeasureIInv, MeasureTypeOK, WalkersPlaced, Prompt
    <2>3. ASSUME NEW k \in 0..(count - 1), NEW u \in Walkers, Ahead(u, k)
          PROVE  k \in measured' \/ Ahead(u, k)'
      BY <1>4, <2>3 DEF MeasureChunk, MeasureIInv, MeasureTypeOK, Ahead
    <2>4. Covered'
      BY <1>4, <2>3 DEF MeasureChunk, tokenVars, callVars, MeasureIInv, Covered
    <2> QED
      BY <2>1, <2>2, <2>4, <2>6, <2>7 DEF MeasureIInv
  <1>5. CASE Advance(t)
    <2>1. MeasureTypeOK' /\ WalkersPlaced' /\ Judged' /\ Prompt' /\ Current'
      BY <1>5 DEF Advance, NextChunk, FractionAt, callVars, MeasureIInv, MeasureTypeOK, WalkersPlaced, Judged,
                  Prompt, Current
    <2>2. ASSUME NEW k \in 0..(count - 1), NEW u \in Walkers, Ahead(u, k)
          PROVE  Ahead(u, k)'
      BY <1>5, <2>2 DEF Advance, NextChunk, MeasureIInv, MeasureTypeOK, Ahead
    <2>3. Covered'
      BY <1>5, <2>2 DEF Advance, callVars, MeasureIInv, Covered
    <2> QED
      BY <2>1, <2>3 DEF MeasureIInv
  <1> QED
    BY <1>1, <1>2, <1>3, <1>4, <1>5 DEF ThreadStep

\* Every step keeps it.
LEMMA MeasureContinues == ASSUME MeasureIInv, [MeasureNext]_measureVars PROVE MeasureIInv'
  <1>1. CASE MeasureNext
    BY <1>1, MeasureAssumption, CallerKeeps, HostKeeps, ThreadKeeps DEF MeasureNext
  <1>2. CASE UNCHANGED measureVars
    BY <1>2 DEF measureVars, tokenVars, callVars, threadVars, MeasureIInv, MeasureTypeOK, WalkersPlaced, Covered,
                Ahead, Judged, Prompt, Current
  <1> QED
    BY <1>1, <1>2

\* The inductive invariant of the walk.
LEMMA MeasureInvariant == MeasureSpec => []MeasureIInv
  BY MeasureStarts, MeasureContinues, PTL DEF MeasureSpec

-----------------------------------------------------------------------------
\* Type correctness, the ranges' bounds included.
THEOREM MeasureTypeCorrect == MeasureSpec => []MeasureTypeOK
  <1>1. MeasureIInv => MeasureTypeOK
    BY DEF MeasureIInv
  <1> QED
    BY <1>1, MeasureInvariant, PTL

(***************************************************************************)
(* measure_points never calls a partly written buffer complete, however    *)
(* many threads share it and wherever the cancel falls.                    *)
(***************************************************************************)
THEOREM CompleteMeansAll == MeasureSpec => []UncancelledIsComplete
  <1>1. MeasureIInv => UncancelledIsComplete
    BY DEF MeasureIInv, Judged, UncancelledIsComplete
  <1> QED
    BY <1>1, MeasureInvariant, PTL

\* A cancel costs at most one more chunk per thread, whatever the ranges hold.
THEOREM PromptlyCancelled == MeasureSpec => []CancelIsPrompt
  <1>1. MeasureIInv => CancelIsPrompt
    BY DEF MeasureIInv, Prompt, CancelIsPrompt
  <1> QED
    BY <1>1, MeasureInvariant, PTL

\* A token that says it is running shows the progress of the call that runs.
THEOREM CurrentProgress == MeasureSpec => []ProgressIsCurrent
  <1>1. MeasureIInv => ProgressIsCurrent
    BY DEF MeasureIInv, Current, ProgressIsCurrent
  <1> QED
    BY <1>1, MeasureInvariant, PTL
=============================================================================
