-------------------------- MODULE MCTelemetryPath --------------------------
(***************************************************************************)
(* Instances of TelemetryPath for TLC, with the packet lengths of the code *)
(* and a frame of less than 50 bytes instead of 243: a config packet fits  *)
(* (47) but not with another packet, four pings fit (40) and five do not.  *)
(***************************************************************************)
EXTENDS TelemetryPath

Orientation == {"orientation"}
=============================================================================
