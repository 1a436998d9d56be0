--------------------------- MODULE SceneRefinement --------------------------
(***************************************************************************)
(* The scene session implements LinearHistory.  The stacks hold only       *)
(* inverses, so the states of the line are those that taking the steps     *)
(* back, or bringing them again, one after the other leads to.  The line   *)
(* is recomputed at every step, in a variable no action reads.             *)
(***************************************************************************)
EXTENDS SceneSession

VARIABLE line

\* The sessions that taking n steps back, or bringing n again, leads to.
TakenBackBy(s, n) ==
    LET back[k \in 0..n] == IF k = 0 THEN s ELSE Undone(back[k - 1]) IN back[n]

BroughtAgainBy(s, n) ==
    LET ahead[k \in 0..n] == IF k = 0 THEN s ELSE Redone(ahead[k - 1]) IN ahead[n]

\* The documents beyond the session's own, the nearest last.
LineOf(s) ==
    LET undos == Len(s.undo)
        redos == Len(s.redo)
    IN  [past   |-> [i \in 1..undos |-> Image(TakenBackBy(s, undos - i + 1).scene)],
         future |-> [i \in 1..redos |-> Image(BroughtAgainBy(s, redos - i + 1).scene)]]

LineInit == Init /\ line = LineOf(session)

LineNext == Next /\ line' = LineOf(session')

LineSpec == LineInit /\ [][LineNext]_<<vars, line>>

Linear == INSTANCE LinearHistory WITH
    past    <- line.past,
    current <- Image(session.scene),
    future  <- line.future,
    anchor  <- <<>>

(***************************************************************************)
(* Every call can be taken back and brought again: undo and redo walk one  *)
(* line of documents, sharing, order and nesting included (commands.h,     *)
(* "every mutation is a serializable command with a computable inverse").  *)
(***************************************************************************)
EveryEditIsReversible == Linear!LinearSpec
=============================================================================
