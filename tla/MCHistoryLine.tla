--------------------------- MODULE MCHistoryLine ----------------------------
(***************************************************************************)
(* The instances of MCHistory, for the runs that also follow the line of   *)
(* states History implements.                                              *)
(***************************************************************************)
EXTENDS HistoryRefinement, MCHistory

LineButJournalContent == <<ButJournalContent, line>>
=============================================================================
