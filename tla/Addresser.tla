----------------------------- MODULE Addresser -----------------------------
(***************************************************************************)
(* addresser.sv: turns the words of an SPI frame (an operation packet,     *)
(* then data words if it is a write) into APB transfers at consecutive     *)
(* even addresses.  state is a flip-flop; everything else the module       *)
(* remembers is a latch of an always_comb block, given here by the value   *)
(* it settles to in the cycle.                                             *)
(***************************************************************************)
EXTENDS HfTypes, Sequences

VARIABLES
    aState,     \* state
    aNext,      \* next_state
    opType,     \* op_type # 0: a write
    addrReg,    \* addr_reg
    dataReg,    \* data_reg
    preadyFlag, \* pready_flag
    oRw,        \* o_rw (1 = write)
    oAddr,      \* o_addr
    oData       \* o_data

addresserVars ==
    <<aState, aNext, opType, addrReg, dataReg, preadyFlag, oRw, oAddr, oData>>

AddresserStates == {"IDLE", "WAITING_OP_PACKET", "ACK", "READ_SETUP",
                    "WRITE_WAITING_DATA", "WRITE_SETUP", "WAITING_PREADY"}

AddresserType ==
    /\ aState \in AddresserStates /\ aNext \in AddresserStates
    /\ opType \in BOOLEAN /\ preadyFlag \in BOOLEAN /\ oRw \in BOOLEAN
    /\ addrReg \in Addrs /\ oAddr \in Addrs
    /\ dataReg \in Words /\ oData \in Words

\* Variant: the increment of a 12-bit register that stops at the last address.
NextAddr_Saturates(addr) == IF addr + 2 < AddrCount THEN addr + 2 ELSE addr

\* Variant: a register one bit wider than the address.
NextAddr_NoWrap(addr) == addr + 2

\* addr_reg + 2, in ADDR_WIDTH bits.
NextAddr(addr) == (addr + 2) % AddrCount

\* o_Transfer and o_ack, as functions of the state.
Transfer(state) == state \in {"READ_SETUP", "WRITE_SETUP"}
Acks(state) == state \in {"ACK", "WRITE_SETUP"}

\* The block that latches the packet and the data word.  Result: the latches.
Latched(state, ready, word) ==
    [op   |-> IF state = "WAITING_OP_PACKET" /\ ready THEN OpOf(word) ELSE opType,
     addr |-> IF state = "WAITING_OP_PACKET" /\ ready THEN AddrOf(word) ELSE addrReg,
     data |-> IF state = "WRITE_WAITING_DATA" /\ ready THEN word ELSE dataReg]

\* Variant: the read burst goes on while the last word is still on offer.
WaitingPready_IgnoresHds(l, v) ==
    LET writeOn == v.pready /\ v.ss /\ l.op
        readOn == (v.pready \/ l.flag) /\ v.ss /\ ~l.op
    IN  [l EXCEPT
           !.next = IF v.pready /\ ~v.ss THEN "IDLE"
                    ELSE IF writeOn THEN "WRITE_WAITING_DATA"
                    ELSE IF readOn THEN "READ_SETUP"
                    ELSE "WAITING_PREADY",
           !.flag = v.pready \/ (l.flag /\ ~readOn),
           !.addr = IF writeOn \/ readOn THEN NextAddr(l.addr) ELSE l.addr]

\* Variant: the end of the frame is not looked at when PREADY comes.
WaitingPready_NoStop(l, v) ==
    LET writeOn == v.pready /\ l.op
        readOn == (v.pready \/ l.flag) /\ v.ss /\ ~l.op /\ ~v.hds
    IN  [l EXCEPT
           !.next = IF writeOn THEN "WRITE_WAITING_DATA"
                    ELSE IF readOn THEN "READ_SETUP"
                    ELSE "WAITING_PREADY",
           !.flag = v.pready \/ (l.flag /\ ~readOn),
           !.addr = IF writeOn \/ readOn THEN NextAddr(l.addr) ELSE l.addr]

\* Variant: every data word needs a packet of its own.
WaitingPready_NoBurst(l, v) ==
    LET readOn == (v.pready \/ l.flag) /\ v.ss /\ ~l.op /\ ~v.hds
    IN  [l EXCEPT
           !.next = IF v.pready /\ ~v.ss THEN "IDLE"
                    ELSE IF v.pready /\ l.op THEN "WAITING_OP_PACKET"
                    ELSE IF readOn THEN "READ_SETUP"
                    ELSE "WAITING_PREADY",
           !.flag = v.pready \/ (l.flag /\ ~readOn)]

\* Variant: no pready_flag, PREADY is looked at in its own cycle only.
WaitingPready_NoFlag(l, v) ==
    LET writeOn == v.pready /\ v.ss /\ l.op
        readOn == v.pready /\ v.ss /\ ~l.op /\ ~v.hds
    IN  [l EXCEPT
           !.next = IF v.pready /\ ~v.ss THEN "IDLE"
                    ELSE IF writeOn THEN "WRITE_WAITING_DATA"
                    ELSE IF readOn THEN "READ_SETUP"
                    ELSE "WAITING_PREADY",
           !.flag = FALSE,
           !.addr = IF writeOn \/ readOn THEN NextAddr(l.addr) ELSE l.addr]

(***************************************************************************)
(* One evaluation of the next_state block in WAITING_PREADY, on the        *)
(* latches l and the view v of the inputs.  PREADY lasts a cycle, so a     *)
(* read that must wait for its word to be taken remembers it in the flag.  *)
(* The address is incremented by the evaluation itself.                    *)
(***************************************************************************)
WaitingPready(l, v) ==
    LET writeOn == v.pready /\ v.ss /\ l.op
        readOn == (v.pready \/ l.flag) /\ v.ss /\ ~l.op /\ ~v.hds
    IN  [l EXCEPT
           !.next = IF v.pready /\ ~v.ss THEN "IDLE"
                    ELSE IF writeOn THEN "WRITE_WAITING_DATA"
                    ELSE IF readOn THEN "READ_SETUP"
                    ELSE "WAITING_PREADY",
           !.flag = v.pready \/ (l.flag /\ ~readOn),
           !.addr = IF writeOn \/ readOn THEN NextAddr(l.addr) ELSE l.addr]

\* The other states.  IDLE and WAITING_OP_PACKET keep next_state when the
\* input they wait for is not there.
NextState(state, l, ss, ready) ==
    CASE state = "IDLE" -> IF ss THEN "WAITING_OP_PACKET" ELSE l.next
      [] state = "WAITING_OP_PACKET" -> IF ready THEN "ACK" ELSE l.next
      [] state = "ACK" -> IF l.op THEN "WRITE_WAITING_DATA" ELSE "READ_SETUP"
      [] state = "READ_SETUP" -> "WAITING_PREADY"
      [] state = "WRITE_WAITING_DATA" -> IF ready THEN "WRITE_SETUP" ELSE state
      [] state = "WRITE_SETUP" -> "WAITING_PREADY"

\* The packet and data latches, and the outputs latched in the setup states.
AddresserLatches(ready, word) ==
    LET latched == Latched(aState', ready, word)
    IN  /\ opType' = latched.op
        /\ dataReg' = latched.data
        /\ oAddr' = IF Transfer(aState') THEN latched.addr ELSE oAddr
        /\ oRw' = IF Transfer(aState') THEN aState' = "WRITE_SETUP" ELSE oRw
        /\ oData' = IF aState' = "WRITE_SETUP" THEN latched.data ELSE oData

(***************************************************************************)
(* The next_state block, which also moves pready_flag and addr_reg.  views *)
(* is the sequence of input views it is evaluated on within the cycle, the *)
(* settled one last.                                                       *)
(***************************************************************************)
AddresserNext(views, ready, word) ==
    LET l0 == [next |-> aNext, flag |-> preadyFlag, op |-> opType',
               addr |-> Latched(aState', ready, word).addr]
        last == views[Len(views)]
        early == IF Len(views) > 1 THEN WaitingPready(l0, views[1]) ELSE l0
        l1 == IF aState' = "WAITING_PREADY"
              THEN WaitingPready(early, last)
              ELSE [l0 EXCEPT !.next = NextState(aState', l0, last.ss, ready), !.flag = FALSE]
    IN  aNext' = l1.next /\ preadyFlag' = l1.flag /\ addrReg' = l1.addr

\* reset low: the state register and all latches but pready_flag.
AddresserReset ==
    /\ aState' = "IDLE" /\ aNext' = "IDLE"
    /\ opType' = FALSE /\ addrReg' = 0 /\ dataReg' = ZeroWord
    /\ oRw' = FALSE /\ oAddr' = 0 /\ oData' = ZeroWord
    /\ UNCHANGED preadyFlag
=============================================================================
