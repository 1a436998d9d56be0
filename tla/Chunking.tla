------------------------------ MODULE Chunking ------------------------------
(***************************************************************************)
(* How ThreadPool::parallel_for cuts a range of n elements into chunks     *)
(* (src/include/clay/parallel/thread_pool.h).                              *)
(***************************************************************************)
EXTENDS Integers

\* kChunksPerWorker: more chunks than threads, so that fast threads take more.
ChunksPerWorker == 8

RoundedUp(a, b) == (a + b - 1) \div b

(***************************************************************************)
(* The elements of a chunk, for `threads` threads, the caller included:    *)
(* never less than the caller's floor, and never nothing.                  *)
(***************************************************************************)
ChunkSize(n, floor, threads) ==
    LET even == RoundedUp(n, threads * ChunksPerWorker)
        held == IF even < floor THEN floor ELSE even
    IN  IF held = 0 THEN 1 ELSE held

\* Mutant: the ragged last chunk is lost.
FullChunks(n, chunk) == n \div chunk

NumTasks(n, chunk) == RoundedUp(n, chunk)

\* The elements [b, e) that run() hands to fn for chunk idx.
Slice(n, chunk, idx) ==
    LET b == idx * chunk
        e == IF b + chunk < n THEN b + chunk ELSE n
    IN  {i \in 0..(n - 1) : b <= i /\ i < e}
=============================================================================
