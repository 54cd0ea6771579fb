------------------------------ MODULE HfTypes ------------------------------
(***************************************************************************)
(* Words and addresses of the high-frequency side.  i_data carries either  *)
(* an operation packet or a data word, so a word is a record with both     *)
(* readings: its op field i_data[15:12] (zero or not) and i_data[11:0].    *)
(***************************************************************************)
EXTENDS Naturals

CONSTANTS
    AddrCount,  \* 2^ADDR_WIDTH
    Words       \* the words of DATA_WIDTH bits: [op : BOOLEAN, addr : Addrs]

Addrs == 0 .. AddrCount - 1

ZeroWord == [op |-> FALSE, addr |-> 0]

ASSUME HfAssumption ==
    /\ AddrCount \in Nat /\ AddrCount % 2 = 0 /\ AddrCount > 0
    /\ Words \subseteq [op : BOOLEAN, addr : Addrs]
    /\ ZeroWord \in Words

\* An operation packet: write or read, and the address with bit 0 cleared.
OpOf(word) == word.op
AddrOf(word) == word.addr - (word.addr % 2)
=============================================================================
