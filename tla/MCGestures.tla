------------------------------ MODULE MCGestures -----------------------------
(* Two records over a surface of two faces, for Gestures.                   *)
EXTENDS Gestures

NoCalls == {}
KeepsHandles == {"keepHandles"}
=============================================================================
