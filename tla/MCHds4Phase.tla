---------------------------- MODULE MCHds4Phase ----------------------------
(***************************************************************************)
(* Instances of Hds4Phase for TLC.  The protocol never looks at a word, so *)
(* three words (one of them the reset value) tell apart a stale word, a    *)
(* reset word and the right one.                                           *)
(***************************************************************************)
EXTENDS Hds4PhaseProps
=============================================================================
