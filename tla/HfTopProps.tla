----------------------------- MODULE HfTopProps -----------------------------
(***************************************************************************)
(* What the high-frequency side must do.  `model' and `cursor' are kept    *)
(* from the acknowledged words alone, with an increment of their own.      *)
(***************************************************************************)
EXTENDS HfTop

TypeOK ==
    /\ AddresserType /\ ApbType
    /\ clk \in {0, 1} /\ resetN \in {0, 1}
    /\ ss \in BOOLEAN /\ inReady \in BOOLEAN /\ inData \in Words /\ hdsAck \in BOOLEAN
    /\ hdsReady \in BOOLEAN /\ readData \in Words
    /\ frameOpen \in BOOLEAN /\ hostWrite \in BOOLEAN /\ paced \in BOOLEAN
    /\ cursor \in Addrs /\ model \in [Addrs -> Words]

\* Every data word acknowledged to the SPI side is in the register bank, at
\* the address of its place in the burst, as soon as the bus is idle again:
\* nothing is written twice elsewhere, skipped, or written at a stale address.
MemoryMatches == mState = "IDLE" => bank = model

\* Every word offered for reading is the content of the next address of the
\* burst, across the end of the address space too.
ReadsInOrder ==
    [][ReadOffered /\ resetN = 1 => readData' = model[cursor]]_vars

\* APB: ACCESS follows SETUP with address, direction and write data held, and
\* finds the slave ready, which is what lets the master leave ACCESS unasked.
ApbTransfer ==
    [][mState' = "ACCESS" /\ resetN' = 1 =>
         /\ mState = "SETUP"
         /\ oAddr' = oAddr /\ oRw' = oRw /\ (oRw => oData' = oData)
         /\ PReady']_vars

\* A read word on offer is replaced only after it was taken.
ReadNotLost ==
    [][paced' /\ resetN' = 1 /\ ReadOffered => ~hdsReady]_vars

\* The Addresser and the host agree on which word is the operation packet: no
\* data word is executed as a packet, no packet is stored as data.
CommandFraming ==
    paced => /\ PacketTaken => frameOpen
             /\ DataTaken => ~frameOpen /\ hostWrite

\* A closed frame ends in IDLE, ready for the next packet.
FrameEnds == paced /\ ~ss ~> aState = "IDLE" \/ ss \/ ~paced

\* The Addresser never waits for a PREADY that will not come: it leaves
\* WAITING_PREADY, or it is the SPI side that has a word to take.
NoHang ==
    paced /\ aState = "WAITING_PREADY" ~> aState # "WAITING_PREADY" \/ hdsReady \/ ~paced
-----------------------------------------------------------------------------
(***************************************************************************)
(* The inductive invariant behind the safety properties above.  Addresser, *)
(* master and slave run in lock-step through a transfer, so a transfer is  *)
(* in one of four phases, and each phase says how far the register bank is *)
(* behind `model' and the Addresser's address behind the host's cursor.    *)
(***************************************************************************)
Even(addr) == addr % 2 = 0

\* The bus at rest, or in the cycle after a transfer (sState DONE).
BusFree ==
    /\ mState = "IDLE" /\ sState \in {"IDLE", "DONE"}
    /\ mNext = IF Transfer(aState) THEN "SETUP" ELSE "IDLE"

BusSetup ==
    /\ mState = "SETUP" /\ mNext = "ACCESS" /\ sState = "IDLE"
    /\ aState = "WAITING_PREADY" /\ aNext = "WAITING_PREADY" /\ ~preadyFlag

BusAccess ==
    /\ mState = "ACCESS" /\ mNext = "IDLE" /\ sState = "ACCESS"
    /\ aState = "WAITING_PREADY"
    /\ sAddr = oAddr /\ sWen = oRw /\ sRen = ~oRw /\ sData = oData

PhaseInv ==
    /\ BusFree \/ BusSetup \/ BusAccess
    /\ sState = "IDLE" => ~sWen
    /\ resetN = 0 => aState = "IDLE" /\ aNext = "IDLE" /\ mState = "IDLE"

\* What has been accepted from the host and is not yet in the bank is the
\* word on the bus; in DONE the bank writes its last word again.
BankInv ==
    /\ model = IF mState # "IDLE" /\ oRw THEN [bank EXCEPT ![oAddr] = oData] ELSE bank
    /\ sState = "DONE" /\ sWen => bank[sAddr] = sData

\* Where next_state may lead, and what is latched on the way there.
NextInv ==
    /\ aState = "IDLE" => aNext \in {"IDLE", "WAITING_OP_PACKET"}
    /\ aState = "WAITING_OP_PACKET" => aNext \in {"WAITING_OP_PACKET", "ACK"}
    /\ aState = "ACK" => aNext = IF opType THEN "WRITE_WAITING_DATA" ELSE "READ_SETUP"
    /\ aState = "WRITE_WAITING_DATA" => aNext \in {"WRITE_WAITING_DATA", "WRITE_SETUP"}
    /\ Transfer(aState) => aNext = "WAITING_PREADY"
    /\ aState = "WAITING_PREADY" =>
         /\ aNext \in {"WAITING_PREADY", "IDLE", "WRITE_WAITING_DATA", "READ_SETUP"}
         /\ aNext = "WRITE_WAITING_DATA" => opType
         /\ aNext = "READ_SETUP" => ~opType
         /\ aNext = "IDLE" => ~ss
         /\ mState = "IDLE" => ~opType
         /\ mState = "ACCESS" /\ aNext = "WAITING_PREADY" => ~opType
    /\ aState \in {"WRITE_WAITING_DATA", "WRITE_SETUP"} => opType
    /\ aState = "READ_SETUP" => ~opType
    /\ resetN = 1 /\ aState # "WAITING_PREADY" => ~preadyFlag

\* A word on offer is the one latched until the cycle that acknowledges it.
WordInv ==
    /\ aNext = "ACK" \/ aState = "ACK" =>
         inReady /\ opType = OpOf(inData) /\ addrReg = AddrOf(inData)
    /\ aNext = "WRITE_SETUP" \/ aState = "WRITE_SETUP" => inReady /\ dataReg = inData
    /\ aState = "WRITE_SETUP" => oData = inData
    /\ Transfer(aState) => oAddr = addrReg
    /\ Transfer(aState) \/ aState = "WAITING_PREADY" => oRw = opType

\* The host's cursor is the Addresser's address, or the one after it while
\* the word just served has not moved the Addresser on.
InBurst == {"WRITE_WAITING_DATA", "WRITE_SETUP", "READ_SETUP", "WAITING_PREADY"}

CursorInv ==
    /\ Even(addrReg) /\ Even(cursor)
    /\ aState \in InBurst \ {"WAITING_PREADY"} => cursor = addrReg
    /\ aState = "WAITING_PREADY" =>
         IF mState = "SETUP" THEN
             /\ oAddr = addrReg
             /\ cursor = IF oRw THEN NextAddr(addrReg) ELSE addrReg
         ELSE IF aNext \in {"WRITE_WAITING_DATA", "READ_SETUP"} THEN cursor = addrReg
         ELSE aNext = "IDLE" \/ cursor = NextAddr(addrReg)

\* The host's frame against the Addresser's state.
FrameInv ==
    /\ aState \in InBurst => hostWrite = opType
    /\ paced =>
         /\ aState \in {"WAITING_OP_PACKET", "ACK"} => frameOpen /\ ~hdsReady
         /\ aState = "IDLE" /\ (ss \/ aNext = "WAITING_OP_PACKET") => frameOpen /\ ~hdsReady
         /\ aState \in InBurst => ~frameOpen
         /\ aState = "READ_SETUP" \/ aNext = "READ_SETUP" => ~hdsReady
         /\ mState = "SETUP" /\ ~oRw => ~hdsReady

\* The Addresser, the bus, the bank and the host agree on the phase of every
\* transfer, on the word and the address it is about and on the frame it
\* belongs to (addresser.sv, apbmaster.sv, apb_slave_memory.sv together).
BurstInv ==
    /\ PhaseInv /\ BankInv /\ NextInv /\ WordInv /\ CursorInv /\ FrameInv
-----------------------------------------------------------------------------
\* addresser_tb.sv interruption_property, "(!i_ss) |=> (dut.state == dut.IDLE)",
\* weakened from the next cycle to some later one.
InterruptionProperty == ~ss ~> aState = "IDLE" \/ ss

\* 3_clock_reset.tex, Reset strategy: all components start from a known state.
\* So the slave serves a transfer only when the Addresser is waiting for one.
NoUnsolicitedTransfer == PReady => aState = "WAITING_PREADY"
=============================================================================
