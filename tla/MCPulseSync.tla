----------------------------- MODULE MCPulseSync -----------------------------
(***************************************************************************)
(* Instances of PulseSync for TLC.                                         *)
(***************************************************************************)
EXTENDS PulseSync
=============================================================================
