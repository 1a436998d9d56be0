---------------------------- MODULE LinearHistory ---------------------------
(***************************************************************************)
(* What an undo history promises, whatever it is made of: a line of        *)
(* states.  `past` holds the states undo goes back through, oldest first,  *)
(* `future` those redo goes forward through, nearest last.  An edit        *)
(* extends the past and abandons the future; a bracket of edits extends it *)
(* once, when it closes; the oldest states may be forgotten, the newest    *)
(* never; and an operation nothing can reverse is a horizon.               *)
(***************************************************************************)
EXTENDS Integers, Sequences, SequencesExt

VARIABLES
    past,     \* the states undo restores, the next one last
    current,  \* the state the document is in
    future,   \* the states redo restores, the next one last
    anchor    \* <<>>, or <<s>> while a bracket that started from s is open

linearVars == <<past, current, future, anchor>>

Closed == <<>>

\* list, or what is left of it when the oldest are forgotten, keeping `least`.
Forgotten(list, least) ==
    {SubSeq(list, k + 1, Len(list)) : k \in 0..(Len(list) - least)}

LinearInit ==
    /\ past = <<>>
    /\ future = <<>>
    /\ anchor = Closed

Edit ==
    /\ anchor = Closed
    /\ past' \in Forgotten(Append(past, current), 1)
    /\ future' = <<>>
    /\ UNCHANGED anchor

\* An edit that belongs to the step on top rather than being one of its own.
Extend ==
    /\ anchor = Closed
    /\ past # <<>>
    /\ future' = <<>>
    /\ UNCHANGED <<past, anchor>>

Horizon ==
    /\ anchor = Closed
    /\ past' = <<>>
    /\ future' = <<>>
    /\ UNCHANGED anchor

StepBack ==
    /\ anchor = Closed
    /\ past # <<>>
    /\ current' = Last(past)
    /\ past' = Front(past)
    /\ future' = Append(future, current)
    /\ UNCHANGED anchor

StepForward ==
    /\ anchor = Closed
    /\ future # <<>>
    /\ current' = Last(future)
    /\ future' = Front(future)
    /\ past' = Append(past, current)
    /\ UNCHANGED anchor

Forget ==
    /\ past' \in Forgotten(past, IF past = <<>> THEN 0 ELSE 1)
    /\ future' \in Forgotten(future, 0)
    /\ UNCHANGED <<current, anchor>>

Open ==
    /\ anchor = Closed
    /\ anchor' = <<current>>
    /\ UNCHANGED <<past, current, future>>

EditInBracket ==
    /\ anchor # Closed
    /\ UNCHANGED <<past, future, anchor>>

\* A bracket that changed nothing leaves the line, its future included, as it was.
Close ==
    /\ anchor # Closed
    /\ anchor' = Closed
    /\ UNCHANGED current
    /\ \/ /\ past' \in Forgotten(past \o anchor, 1)
          /\ future' = <<>>
       \/ /\ anchor = <<current>>
          /\ UNCHANGED <<past, future>>

LinearNext ==
    \/ Edit \/ Extend \/ Horizon
    \/ StepBack \/ StepForward \/ Forget
    \/ Open \/ EditInBracket \/ Close

LinearSpec == LinearInit /\ [][LinearNext]_linearVars
=============================================================================
