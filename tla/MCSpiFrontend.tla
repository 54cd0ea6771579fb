---------------------------- MODULE MCSpiFrontend ----------------------------
(***************************************************************************)
(* The SPI front end for TLC, with the least distance between two moves of *)
(* the master that the front end needs.                                    *)
(***************************************************************************)
EXTENDS SpiFrontend

MCMinHalf == 2
=============================================================================
