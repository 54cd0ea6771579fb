-------------------------------- MODULE Apb --------------------------------
(***************************************************************************)
(* apb.sv: apbmaster, apb_slave_memory and its register_bank on one clock. *)
(* Flip-flops and latches are variables, combinational nets are operators. *)
(* ApbEdge is a clock edge seen by the flip-flops; MasterSettle is what    *)
(* the master's next_state block settles to after it.                      *)
(***************************************************************************)
EXTENDS HfTypes

VARIABLES
    mState,     \* apbmaster.state
    mNext,      \* apbmaster.next_state: a latch while IDLE without transfer
    sState,     \* apb_slave_memory.state
    sAddr,      \* addr_reg
    sData,      \* write_data_reg
    sWen,       \* write_en
    sRen,       \* read_en
    bank        \* register_bank.reg_bank

apbVars == <<mState, mNext, sState, sAddr, sData, sWen, sRen, bank>>

MasterStates == {"IDLE", "SETUP", "ACCESS"}
SlaveStates == {"IDLE", "ACCESS", "DONE"}

ApbType ==
    /\ mState \in MasterStates /\ mNext \in MasterStates
    /\ sState \in SlaveStates
    /\ sAddr \in Addrs /\ sData \in Words
    /\ sWen \in BOOLEAN /\ sRen \in BOOLEAN
    /\ bank \in [Addrs -> Words]

PSel == mState \in {"SETUP", "ACCESS"}
PEnable == mState = "ACCESS"
PReady == sState = "ACCESS"

\* register_bank's o_read_data behind the slave's o_PRDATA.
SlavePrData == IF PReady /\ sRen THEN bank[sAddr] ELSE ZeroWord

\* The master's o_PRDATA at PREADY: transparent in ACCESS, 0 elsewhere.
MasterPrData == IF mState = "ACCESS" THEN SlavePrData ELSE ZeroWord
-----------------------------------------------------------------------------
SlaveIdle(addr, write, data) ==
    /\ sState = "IDLE"
    /\ IF PSel /\ ~PEnable
       THEN /\ sState' = "ACCESS"
            /\ sAddr' = addr /\ sData' = data
            /\ sWen' = write /\ sRen' = ~write
       ELSE UNCHANGED <<sState, sAddr, sData, sWen, sRen>>

SlaveAccess(addr, write, data) ==
    /\ sState = "ACCESS"
    /\ sState' = IF PEnable THEN "DONE" ELSE "ACCESS"
    /\ UNCHANGED <<sAddr, sData, sWen, sRen>>

SlaveDone ==
    /\ sState = "DONE"
    /\ sState' = "IDLE"
    /\ sWen' = FALSE /\ sRen' = FALSE
    /\ UNCHANGED <<sAddr, sData>>

\* Every address of ADDR_WIDTH bits is valid, so the bank writes whenever
\* write_en is up: at the edges that end ACCESS and DONE.
BankEdge == bank' = IF sWen THEN [bank EXCEPT ![sAddr] = sData] ELSE bank

\* In SETUP and ACCESS the master passes address, direction and data through.
ApbEdge(addr, write, data) ==
    /\ mState' = mNext
    /\ \/ SlaveIdle(addr, write, data)
       \/ SlaveAccess(addr, write, data)
       \/ SlaveDone
    /\ BankEdge

\* Variant: a transfer goes to ACCESS at once.
MasterSettle_SkipsSetup(transfer) ==
    mNext' = CASE mState' = "IDLE" -> IF transfer THEN "ACCESS" ELSE mNext
               [] mState' = "SETUP" -> "ACCESS"
               [] mState' = "ACCESS" -> "IDLE"

\* The next_state block has no default in IDLE: without a transfer the old
\* value is kept.  ACCESS lasts one cycle, whatever PREADY says.
MasterSettle(transfer) ==
    mNext' = CASE mState' = "IDLE" -> IF transfer THEN "SETUP" ELSE mNext
               [] mState' = "SETUP" -> "ACCESS"
               [] mState' = "ACCESS" -> "IDLE"

\* PRESETN clears every flip-flop; the next_state block is not reset.
ApbReset ==
    /\ mState' = "IDLE"
    /\ UNCHANGED mNext
    /\ sState' = "IDLE"
    /\ sAddr' = 0 /\ sData' = ZeroWord
    /\ sWen' = FALSE /\ sRen' = FALSE
    /\ bank' = [a \in Addrs |-> ZeroWord]
=============================================================================
