-------------------------- MODULE HistoryRefinement -------------------------
(***************************************************************************)
(* session::History implements LinearHistory.  The steps hold only         *)
(* differences, so the states of the line are computed: the past by taking *)
(* the steps back one after the other, the future by applying redo_.       *)
(* The line is recomputed at every step and kept in a variable of its own, *)
(* which no action of History reads.                                       *)
(***************************************************************************)
EXTENDS History

VARIABLE line

\* The worlds passed through from w by applying a list newest first, w included.
Trajectory(w, list, forward) ==
    LET onwards(worlds, step) ==
            Append(worlds, ApplyStep(Layers, Last(worlds), step, forward).world)
    IN  FoldLeft(onwards, <<w>>, Reverse(list))

\* The states beyond w on the way through a list, the nearest last.
Beyond(w, list, forward) ==
    LET worlds == Reverse(Tail(Trajectory(w, list, forward)))
    IN  [i \in 1..Len(worlds) |-> Image(worlds[i])]

\* What is above the nearest barrier.
AboveBarrier(list) == Without(list, Len(list) - ReversibleDepth(list))

(***************************************************************************)
(* Outside a bracket, the states the steps above the nearest barrier and   *)
(* the redo steps lead to.                                                 *)
(***************************************************************************)
LineOf(w, done, undone) ==
    [past   |-> Beyond(w, AboveBarrier(done), FALSE),
     future |-> Beyond(w, undone, TRUE),
     anchor |-> <<>>]

LineInit == Init /\ line = LineOf(world, steps, redo)

\* While a bracket is open the line waits, with the state it was opened in.
LineNext ==
    /\ Next
    /\ line' = IF depth' = 0 THEN LineOf(world', steps', redo')
               ELSE IF depth = 0 THEN [line EXCEPT !.anchor = <<Image(world)>>]
               ELSE line

LineSpec == LineInit /\ [][LineNext]_<<vars, line>>

Linear == INSTANCE LinearHistory WITH
    past    <- line.past,
    current <- Image(world),
    future  <- line.future,
    anchor  <- line.anchor

(***************************************************************************)
(* Undo and redo walk one line of states, whichever mechanism each step    *)
(* went through: history.h, "one undo, across three representations".      *)
(***************************************************************************)
OneLine == Linear!LinearSpec
=============================================================================
