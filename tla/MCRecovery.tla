----------------------------- MODULE MCRecovery -----------------------------
(***************************************************************************)
(* Small instances of Recovery: the values of MCHistory, a host that saves *)
(* and journals.                                                           *)
(***************************************************************************)
EXTENDS Recovery, MCHistory

RecoverableCalls == {"barrier", "barrierInBracket", "snapshot", "trimJournal"}
=============================================================================
