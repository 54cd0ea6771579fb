------------------------------ MODULE MCSarAdc ------------------------------
(***************************************************************************)
(* Instances of SarAdc for TLC: a 4-bit converter.  The voltages include   *)
(* both ends, VREF itself (16), and neighbours of the codes at which the   *)
(* first, second and last comparison turn, so that every sequence of       *)
(* comparator outputs occurs with tight brackets.                          *)
(***************************************************************************)
EXTENDS SarAdc

MCWeight == [i \in 0..N |-> 2^i]
MCInputs == {0, 1, 4, 7, 8, 9, 14, 15, 16}
=============================================================================
