-------------------------- MODULE MCSpillRegister --------------------------
(***************************************************************************)
(* Instances of SpillRegister for TLC.  The registers only move words, so  *)
(* three words tell apart the two held ones and a stale one.               *)
(***************************************************************************)
EXTENDS SpillRegister
=============================================================================
