---------------------------- MODULE MCThreadPool ----------------------------
(***************************************************************************)
(* Small instances of ThreadPool: ranges whose last chunk is ragged, with  *)
(* a floor that leaves fewer chunks than threads and one that leaves more. *)
(***************************************************************************)
EXTENDS ThreadPoolInvariant
=============================================================================
