----------------------------- MODULE MCMeasure ------------------------------
(***************************************************************************)
(* Small instances of Measure: two threads, and the caller alone.          *)
(***************************************************************************)
EXTENDS Measure, TLC

Interchangeable == Permutations(Walkers)
=============================================================================
