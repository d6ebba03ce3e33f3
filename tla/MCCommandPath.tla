--------------------------- MODULE MCCommandPath ---------------------------
(***************************************************************************)
(* Instances of CommandPath for TLC.  Two bytes per packet and two in the  *)
(* buffer are the least with which a byte follows another before it is     *)
(* acted on, a packet finds the buffer partly full, and a put drops one.   *)
(***************************************************************************)
EXTENDS CommandPath

NoState == {}
=============================================================================
