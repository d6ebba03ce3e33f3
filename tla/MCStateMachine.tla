--------------------------- MODULE MCStateMachine ---------------------------
(***************************************************************************)
(* The instance of StateMachine that the firmware is, for TLC.             *)
(***************************************************************************)
EXTENDS StateMachine

(* The firmware never calls testSetState. *)
NoState == {}
=============================================================================
