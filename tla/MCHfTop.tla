------------------------------ MODULE MCHfTop ------------------------------
(***************************************************************************)
(* Instances of HfTop for TLC.  Four addresses, two of them even, so that  *)
(* a burst of two words wraps; as packets the words are a read of 0, a     *)
(* read of 2 and a write from the odd last address.                        *)
(***************************************************************************)
EXTENDS HfTopProps

MCWords == {ZeroWord, [op |-> FALSE, addr |-> 2], [op |-> TRUE, addr |-> 3]}
=============================================================================
