------------------------------- MODULE HfTop -------------------------------
(***************************************************************************)
(* hf_top.sv: the Addresser, the APB master and memory, and the latch that *)
(* offers a read word to the SPI side.  One clock (100 MHz), one reset.    *)
(*                                                                         *)
(* A state is what every flip-flop and latch holds once a clock cycle has  *)
(* settled; Tick is the next clock edge, the inputs of the new cycle and   *)
(* the settling of all combinational blocks.                               *)
(*                                                                         *)
(* Environment: i_ready/i_data come from the receiving end of a            *)
(* hds_4_phase (a word stays until o_ack, then i_ready falls); i_ss and    *)
(* i_hds_ack are free in every cycle.                                      *)
(***************************************************************************)
EXTENDS Addresser, Apb

CONSTANTS
    Settled,      \* TRUE: each block runs once a cycle, after its inputs
    ResetAnytime  \* TRUE: reset may also fall during an APB transfer

VARIABLES
    clk,        \* counts clock edges modulo 2: no edge is a stuttering step
    resetN,     \* reset
    ss,         \* i_ss, high for active
    inReady,    \* i_ready
    inData,     \* i_data
    hdsAck,     \* i_hds_ack
    hdsReady,   \* o_hds_ready, a latch
    readData,   \* read_data_reg, a latch
    frameOpen,  \* history: an operation packet is due in this frame
    hostWrite,  \* history: the frame's operation, as the host meant it
    cursor,     \* history: the address the host's next word belongs to
    model,      \* history: the memory as the accepted words imply it
    paced       \* history: the host has kept to Paced so far

inputVars == <<ss, inReady, inData, hdsAck>>
hostVars == <<frameOpen, hostWrite, cursor, model, paced>>
vars == <<clk, addresserVars, apbVars, resetN, inputVars, hdsReady, readData, hostVars>>

OAck == resetN = 1 /\ Acks(aState)

Init ==
    /\ aState = "IDLE" /\ aNext = "IDLE" /\ opType = FALSE /\ preadyFlag = FALSE
    /\ addrReg = 0 /\ dataReg = ZeroWord
    /\ oRw = FALSE /\ oAddr = 0 /\ oData = ZeroWord
    /\ mState = "IDLE" /\ mNext = "IDLE"
    /\ sState = "IDLE" /\ sAddr = 0 /\ sData = ZeroWord /\ sWen = FALSE /\ sRen = FALSE
    /\ bank = [a \in Addrs |-> ZeroWord]
    /\ clk = 0 /\ resetN = 0
    /\ ss = FALSE /\ inReady = FALSE /\ inData = ZeroWord /\ hdsAck = FALSE
    /\ hdsReady = FALSE /\ readData = ZeroWord
    /\ frameOpen = FALSE /\ hostWrite = FALSE /\ cursor = 0
    /\ model = bank /\ paced = TRUE
-----------------------------------------------------------------------------
\* The receiving end of the handshake, by the contract WordSource that
\* Hds4Phase implements: a word on offer stays until it is acknowledged; after
\* that i_ready is low for at least one cycle.
NewInputs ==
    /\ ss' \in BOOLEAN
    /\ hdsAck' \in BOOLEAN
    /\ \/ inReady /\ ~OAck /\ UNCHANGED <<inReady, inData>>
       \/ inReady /\ OAck /\ inReady' = FALSE /\ UNCHANGED inData
       \/ ~inReady /\ inReady' = FALSE /\ UNCHANGED inData
       \/ ~inReady /\ inReady' = TRUE /\ inData' \in Words

\* hf_top's own block: a read word is latched and offered in the PREADY
\* cycle, and stays on offer until a cycle with i_hds_ack.
OfferRead ==
    IF PReady' /\ ~oRw'
    THEN hdsReady' = TRUE /\ readData' = MasterPrData'
    ELSE hdsReady' = (hdsReady /\ ~hdsAck') /\ UNCHANGED readData

(***************************************************************************)
(* The Addresser's next_state block runs whenever one of its inputs        *)
(* changes.  PREADY and hds_ready come through other blocks, so before it  *)
(* sees their settled values it may run on a view in which either still    *)
(* has its old value, and on the settled view twice if i_ready moves last. *)
(* Bound: at most one such early run per cycle.                            *)
(***************************************************************************)
SettledView == [pready |-> PReady', hds |-> hdsReady', ss |-> ss']

EarlyViews ==
    {v \in [pready : {PReady, PReady'}, hds : {hdsReady, hdsReady'}, ss : {ss'}] :
        v # SettledView \/ inReady' # inReady}

ViewSequences ==
    {<<SettledView>>}
    \cup IF Settled THEN {} ELSE {<<v, SettledView>> : v \in EarlyViews}
-----------------------------------------------------------------------------
(* The host's intent, from the words it hands over.                        *)

\* A frame begins when i_ss rises; its first word is the operation packet.
FrameBegins == ~ss /\ ss'

\* The word acknowledged in this cycle.
PacketTaken == OAck /\ inReady /\ aState = "ACK"
DataTaken == OAck /\ inReady /\ aState = "WRITE_SETUP"

\* Address of the host's word after the one at `addr`.
HostNext(addr) == IF addr + 2 = AddrCount THEN 0 ELSE addr + 2

\* A read word appears on the outputs in the cycle that begins with this step.
ReadOffered == PReady' /\ ~oRw'

HostStep ==
    /\ frameOpen' = (FrameBegins \/ (frameOpen /\ ~(PacketTaken \/ DataTaken)))
    /\ hostWrite' = IF PacketTaken THEN OpOf(inData) ELSE hostWrite
    /\ model' = IF DataTaken THEN [model EXCEPT ![cursor] = inData] ELSE model
    /\ cursor' = IF PacketTaken THEN AddrOf(inData)
                 ELSE IF DataTaken \/ ReadOffered THEN HostNext(cursor)
                 ELSE cursor

(***************************************************************************)
(* A well-paced host: it ends a frame while the transfer of the frame's    *)
(* last word is still to come (the word is on offer or on the bus), begins *)
(* the next frame when that has ended and its read word was taken, and     *)
(* sends words only in a frame: the packet, then data if it is a write.    *)
(***************************************************************************)
LastWordPending ==
    \/ aState = "WRITE_WAITING_DATA" /\ inReady /\ ss
    \/ aState \in {"WRITE_SETUP", "READ_SETUP"}
    \/ aState = "WAITING_PREADY" /\ ~PReady /\ ~preadyFlag

Paced ==
    /\ ss /\ ~ss' => LastWordPending
    /\ ~ss /\ ss' => aState = "IDLE" /\ ~hdsReady
    /\ ~inReady /\ inReady' => ss /\ ss' /\ (frameOpen \/ hostWrite)
-----------------------------------------------------------------------------
Tick ==
    /\ resetN = 1
    /\ clk' = 1 - clk
    /\ aState' = aNext
    /\ ApbEdge(oAddr, oRw, oData)
    /\ NewInputs
    /\ AddresserLatches(inReady', inData')
    /\ OfferRead
    /\ \E views \in ViewSequences : AddresserNext(views, inReady', inData')
    /\ MasterSettle(Transfer(aState'))
    /\ HostStep
    /\ paced' = (paced /\ Paced)
    /\ UNCHANGED resetN

\* The system reset, asynchronous.  It also resets the two handshakes.
Reset ==
    /\ ResetAnytime \/ mNext = "IDLE"
    /\ resetN' = 0 /\ UNCHANGED clk
    /\ AddresserReset
    /\ ApbReset
    /\ ss' = FALSE /\ inReady' = FALSE /\ hdsAck' = FALSE /\ UNCHANGED inData
    /\ hdsReady' = FALSE /\ readData' = ZeroWord
    /\ frameOpen' = FALSE /\ hostWrite' = FALSE /\ cursor' = 0
    /\ model' = [a \in Addrs |-> ZeroWord] /\ paced' = TRUE

\* Release between two edges, with the select still inactive.
Release ==
    /\ resetN = 0
    /\ resetN' = 1
    /\ preadyFlag' = FALSE
    /\ UNCHANGED <<clk, aState, aNext, opType, addrReg, dataReg, oRw, oAddr, oData,
                   apbVars, inputVars, hdsReady, readData, hostVars>>

Next == Tick \/ Reset \/ Release

Spec == Init /\ [][Next]_vars

\* The clock runs and resets end; nothing is assumed of the host, which may
\* leave its inputs as they are for ever.
FairSpec == Spec /\ WF_vars(Tick) /\ WF_vars(Release)
=============================================================================
