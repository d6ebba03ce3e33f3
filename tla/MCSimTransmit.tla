--------------------------- MODULE MCSimTransmit ---------------------------
(***************************************************************************)
(* Instances of SimTransmit for TLC: two ids, so that one ring could block *)
(* the other, and rings of two packets, so that a few writes take the      *)
(* indices and the lower limit through all of their cycle and past it.     *)
(***************************************************************************)
EXTENDS SimTransmit

CONSTANTS R, C

MCId == {R, C}
MCIdOrder == <<C, R>>
=============================================================================
