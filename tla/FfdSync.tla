------------------------------ MODULE FfdSync ------------------------------
(***************************************************************************)
(* ffd_sync.sv: the two flip-flops that bring one bit into a clock domain. *)
(* A value is the pair <<sync[0], sync[1]>>.  Used by both handshake sides *)
(* and by the pulse synchronizer.                                          *)
(***************************************************************************)
EXTENDS Naturals

Bit == {0, 1}

FfdType == Bit \X Bit

\* i_rst_n low clears both flip-flops.
FfdReset == <<0, 0>>

\* A clock edge that captures `captured` in the first flip-flop.
FfdEdge(sync, captured) == <<captured, sync[1]>>

\* o_data.
FfdOut(sync) == sync[2]

(***************************************************************************)
(* What a register of another domain may capture from a source that holds  *)
(* `old` before the edge and `new` after it, when the source's own clock   *)
(* edge falls in the capture window: an unchanged source is captured as it *)
(* is; a changing bit resolves to either value, and the bits of a changing *)
(* word resolve one by one, hence to any word.                             *)
(***************************************************************************)
Captured(old, new, Values) == IF old = new THEN {old} ELSE Values
=============================================================================
