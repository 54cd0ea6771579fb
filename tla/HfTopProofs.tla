----------------------------- MODULE HfTopProofs -----------------------------
(***************************************************************************)
(* Proofs about the high-frequency side, for every address width and every *)
(* set of words: with each combinational block evaluated once a cycle      *)
(* (Settled) and no reset during a transfer (~ResetAnytime).               *)
(***************************************************************************)
EXTENDS HfTopProps, TLAPS

\* The increment stays even and in range, and is the host's own increment.
LEMMA NextAddrFacts ==
    ASSUME NEW a \in Addrs, Even(a)
    PROVE  /\ NextAddr(a) \in Addrs
           /\ Even(NextAddr(a))
           /\ NextAddr(a) = HostNext(a)
<1>1. AddrCount \in Nat /\ AddrCount % 2 = 0 /\ AddrCount > 0 /\ a \in Nat /\ a % 2 = 0 /\ a < AddrCount
  BY HfAssumption DEF Addrs, Even
<1>2. a + 2 <= AddrCount
  BY <1>1
<1>3. CASE a + 2 = AddrCount
  <2>1. NextAddr(a) = 0
    BY <1>1, <1>3 DEF NextAddr
  <2> QED
    BY <1>1, <1>3, <2>1 DEF Addrs, Even, HostNext
<1>4. CASE a + 2 < AddrCount
  <2>1. NextAddr(a) = a + 2
    BY <1>1, <1>4 DEF NextAddr
  <2> QED
    BY <1>1, <1>4, <2>1 DEF Addrs, Even, HostNext
<1> QED
  BY <1>1, <1>2, <1>3, <1>4

\* A packet's fields.
LEMMA PacketFacts ==
    ASSUME NEW word \in Words
    PROVE  /\ OpOf(word) \in BOOLEAN
           /\ AddrOf(word) \in Addrs /\ Even(AddrOf(word))
<1>1. word.op \in BOOLEAN /\ word.addr \in Addrs
  BY HfAssumption
<1> QED
  BY <1>1, HfAssumption DEF OpOf, AddrOf, Addrs, Even
-----------------------------------------------------------------------------
(***************************************************************************)
(* A clock edge, block by block: what each of the combinational blocks     *)
(* settles to, without the views.                                          *)
(***************************************************************************)
WriteOn == PReady' /\ ss' /\ opType'
ReadOn == (PReady' \/ preadyFlag) /\ ss' /\ ~opType' /\ ~hdsReady'

LEMMA NextBlock ==
    ASSUME Settled, Tick
    PROVE  AddresserNext(<<SettledView>>, inReady', inData')
BY DEF Tick, ViewSequences

\* The block outside WAITING_PREADY.
LEMMA OtherStates ==
    ASSUME Settled, Tick, aNext # "WAITING_PREADY", aNext \in AddresserStates
    PROVE  /\ ~preadyFlag'
           /\ addrReg' = IF aNext = "WAITING_OP_PACKET" /\ inReady'
                         THEN AddrOf(inData') ELSE addrReg
           /\ aNext = "IDLE" => aNext' = IF ss' THEN "WAITING_OP_PACKET" ELSE "IDLE"
           /\ aNext = "WAITING_OP_PACKET" => aNext' = IF inReady' THEN "ACK" ELSE aNext
           /\ aNext = "ACK" => aNext' = IF opType' THEN "WRITE_WAITING_DATA" ELSE "READ_SETUP"
           /\ aNext = "WRITE_WAITING_DATA" => aNext' = IF inReady' THEN "WRITE_SETUP" ELSE aNext
           /\ Transfer(aNext) => aNext' = "WAITING_PREADY"
<1>1. aState' = aNext
  BY DEF Tick
<1>2. Len(<<SettledView>>) = 1 /\ <<SettledView>>[1] = SettledView
  OBVIOUS
<1> DEFINE l0 == [next |-> aNext, flag |-> preadyFlag, op |-> opType',
                  addr |-> Latched(aState', inReady', inData').addr]
<1>3. /\ aNext' = NextState(aState', l0, ss', inReady')
      /\ preadyFlag' = FALSE
      /\ addrReg' = l0.addr
  BY <1>1, <1>2, NextBlock DEF AddresserNext, SettledView
<1>4. l0.next = aNext /\ l0.op = opType'
  OBVIOUS
<1>5. l0.addr = IF aNext = "WAITING_OP_PACKET" /\ inReady' THEN AddrOf(inData') ELSE addrReg
  BY <1>1 DEF Latched
<1> HIDE DEF l0
<1> QED
  BY <1>1, <1>3, <1>4, <1>5 DEF NextState, AddresserStates, Transfer

\* The block in WAITING_PREADY.
LEMMA WaitState ==
    ASSUME Settled, Tick, aNext = "WAITING_PREADY"
    PROVE  /\ aNext' = IF PReady' /\ ~ss' THEN "IDLE"
                       ELSE IF WriteOn THEN "WRITE_WAITING_DATA"
                       ELSE IF ReadOn THEN "READ_SETUP"
                       ELSE "WAITING_PREADY"
           /\ preadyFlag' = (PReady' \/ (preadyFlag /\ ~ReadOn))
           /\ addrReg' = IF WriteOn \/ ReadOn THEN NextAddr(addrReg) ELSE addrReg
<1>1. aState' = "WAITING_PREADY"
  BY DEF Tick
<1>2. Len(<<SettledView>>) = 1 /\ <<SettledView>>[1] = SettledView
  OBVIOUS
<1> DEFINE l0 == [next |-> aNext, flag |-> preadyFlag, op |-> opType',
                  addr |-> Latched(aState', inReady', inData').addr]
<1>3. /\ aNext' = WaitingPready(l0, SettledView).next
      /\ preadyFlag' = WaitingPready(l0, SettledView).flag
      /\ addrReg' = WaitingPready(l0, SettledView).addr
  BY <1>1, <1>2, NextBlock DEF AddresserNext
<1>4. l0 = [next |-> aNext, flag |-> preadyFlag, op |-> opType', addr |-> addrReg]
  BY <1>1 DEF Latched
<1>5. /\ SettledView.pready = PReady' /\ SettledView.hds = hdsReady' /\ SettledView.ss = ss'
  BY DEF SettledView
<1> HIDE DEF l0
<1> QED
  BY <1>3, <1>4, <1>5 DEF WaitingPready, WriteOn, ReadOn

\* The latches of the other block, and what the edge itself does.
LEMMA Latches ==
    ASSUME Tick
    PROVE  /\ aState' = aNext /\ mState' = mNext
           /\ opType' = IF aNext = "WAITING_OP_PACKET" /\ inReady' THEN OpOf(inData') ELSE opType
           /\ dataReg' = IF aNext = "WRITE_WAITING_DATA" /\ inReady' THEN inData' ELSE dataReg
           /\ Transfer(aNext) => oAddr' = addrReg /\ oRw' = (aNext = "WRITE_SETUP")
           /\ ~Transfer(aNext) => oAddr' = oAddr /\ oRw' = oRw
           /\ oData' = IF aNext = "WRITE_SETUP" THEN dataReg ELSE oData
BY DEF Tick, ApbEdge, AddresserLatches, Latched, Transfer
-----------------------------------------------------------------------------
(***************************************************************************)
(* Type correctness, with any order of the evaluations and any reset.      *)
(***************************************************************************)
Latch == [next : AddresserStates, flag : BOOLEAN, op : BOOLEAN, addr : Addrs]

LEMMA NextAddrType ==
    ASSUME NEW a \in Addrs
    PROVE  NextAddr(a) \in Addrs
BY HfAssumption DEF NextAddr, Addrs

LEMMA WaitingPreadyType ==
    ASSUME NEW l \in Latch, NEW v
    PROVE  WaitingPready(l, v) \in Latch
<1> DEFINE writeOn == v.pready /\ v.ss /\ l.op
           readOn == (v.pready \/ l.flag) /\ v.ss /\ ~l.op /\ ~v.hds
           next == IF v.pready /\ ~v.ss THEN "IDLE"
                   ELSE IF writeOn THEN "WRITE_WAITING_DATA"
                   ELSE IF readOn THEN "READ_SETUP"
                   ELSE "WAITING_PREADY"
           flag == v.pready \/ (l.flag /\ ~readOn)
           addr == IF writeOn \/ readOn THEN NextAddr(l.addr) ELSE l.addr
<1>1. next \in AddresserStates /\ flag \in BOOLEAN
  BY DEF AddresserStates
<1>2. addr \in Addrs
  BY NextAddrType DEF Latch
<1>3. WaitingPready(l, v) = [l EXCEPT !.next = next, !.flag = flag, !.addr = addr]
  BY DEF WaitingPready
<1> HIDE DEF next, flag, addr
<1> QED
  BY <1>1, <1>2, <1>3 DEF Latch

LEMMA NextStateType ==
    ASSUME NEW l \in Latch, NEW state \in AddresserStates, state # "WAITING_PREADY",
           NEW select, NEW ready
    PROVE  NextState(state, l, select, ready) \in AddresserStates
BY DEF NextState, AddresserStates, Latch

LEMMA AddresserNextType ==
    ASSUME TypeOK, NEW views, AddresserNext(views, inReady', inData'),
           aState' \in AddresserStates, opType' \in BOOLEAN, inData' \in Words
    PROVE  aNext' \in AddresserStates /\ preadyFlag' \in BOOLEAN /\ addrReg' \in Addrs
<1> DEFINE l0 == [next |-> aNext, flag |-> preadyFlag, op |-> opType',
                  addr |-> Latched(aState', inReady', inData').addr]
           last == views[Len(views)]
           early == IF Len(views) > 1 THEN WaitingPready(l0, views[1]) ELSE l0
           l1 == IF aState' = "WAITING_PREADY"
                 THEN WaitingPready(early, last)
                 ELSE [l0 EXCEPT !.next = NextState(aState', l0, last.ss, inReady'), !.flag = FALSE]
<1>1. l0 \in Latch
  <2>1. Latched(aState', inReady', inData').addr \in Addrs
    BY PacketFacts DEF Latched, TypeOK, AddresserType
  <2> QED
    BY <2>1 DEF Latch, TypeOK, AddresserType
<1>2. aNext' = l1.next /\ preadyFlag' = l1.flag /\ addrReg' = l1.addr
  BY DEF AddresserNext
<1>3. l1 \in Latch
  <2> HIDE DEF l0, last
  <2>1. early \in Latch
    BY <1>1, WaitingPreadyType
  <2> HIDE DEF early
  <2>2. CASE aState' = "WAITING_PREADY"
    BY <2>1, <2>2, WaitingPreadyType
  <2>3. CASE aState' # "WAITING_PREADY"
    <3>1. NextState(aState', l0, last.ss, inReady') \in AddresserStates
      BY <1>1, <2>3, NextStateType
    <3> QED
      BY <1>1, <2>3, <3>1 DEF Latch
  <2> QED
    BY <2>2, <2>3
<1> HIDE DEF l1
<1> QED
  BY <1>2, <1>3 DEF Latch

LEMMA ApbStepType ==
    ASSUME TypeOK, ApbEdge(oAddr, oRw, oData), NEW transfer, MasterSettle(transfer)
    PROVE  ApbType'
<1>1. mState' \in MasterStates
  BY DEF TypeOK, ApbType, ApbEdge
<1>2. mNext' \in MasterStates
  BY <1>1 DEF TypeOK, ApbType, MasterSettle, MasterStates
<1>3. sState' \in SlaveStates /\ sAddr' \in Addrs /\ sData' \in Words
      /\ sWen' \in BOOLEAN /\ sRen' \in BOOLEAN
  BY DEF TypeOK, ApbType, AddresserType, ApbEdge, SlaveIdle, SlaveAccess, SlaveDone, SlaveStates
<1>4. bank' \in [Addrs -> Words]
  BY DEF TypeOK, ApbType, ApbEdge, BankEdge
<1> QED
  BY <1>1, <1>2, <1>3, <1>4 DEF ApbType

TypeInv == TypeOK /\ Even(cursor)

LEMMA TickType ==
    ASSUME TypeInv, Tick
    PROVE  TypeInv'
<1> USE DEF TypeInv
<1>1. aState' \in AddresserStates
  BY DEF Tick, TypeOK, AddresserType
<1>2. ss' \in BOOLEAN /\ hdsAck' \in BOOLEAN /\ inReady' \in BOOLEAN /\ inData' \in Words
  BY DEF Tick, NewInputs, TypeOK
<1>3. opType' \in BOOLEAN /\ dataReg' \in Words
  <2>1. OpOf(inData') \in BOOLEAN
    BY <1>2, PacketFacts
  <2> QED
    BY <1>2, <2>1, Latches DEF TypeOK, AddresserType
<1>4. oAddr' \in Addrs /\ oRw' \in BOOLEAN /\ oData' \in Words
  BY Latches DEF TypeOK, AddresserType
<1>5. aNext' \in AddresserStates /\ preadyFlag' \in BOOLEAN /\ addrReg' \in Addrs
  BY <1>1, <1>2, <1>3, AddresserNextType DEF Tick
<1>6. ApbType'
  BY ApbStepType DEF Tick
<1>7. hdsReady' \in BOOLEAN /\ readData' \in Words
  <2>1. MasterPrData' \in Words
    BY <1>6, HfAssumption DEF MasterPrData, SlavePrData, ApbType
  <2> QED
    BY <2>1 DEF Tick, OfferRead, TypeOK
<1>8. frameOpen' \in BOOLEAN /\ hostWrite' \in BOOLEAN /\ model' \in [Addrs -> Words]
      /\ cursor' \in Addrs /\ Even(cursor)'
  <2>1. OpOf(inData) \in BOOLEAN /\ AddrOf(inData) \in Addrs /\ Even(AddrOf(inData))
    BY PacketFacts DEF TypeOK
  <2>2. HostNext(cursor) \in Addrs /\ Even(HostNext(cursor))
    BY NextAddrFacts DEF TypeOK
  <2>3. cursor' \in Addrs /\ Even(cursor')
    BY <2>1, <2>2 DEF Tick, HostStep, TypeOK
  <2>4. frameOpen' \in BOOLEAN /\ hostWrite' \in BOOLEAN /\ model' \in [Addrs -> Words]
    BY <2>1 DEF Tick, HostStep, TypeOK, FrameBegins
  <2> QED
    BY <2>3, <2>4 DEF Even
<1>9. clk' \in {0, 1} /\ resetN' \in {0, 1} /\ paced' \in BOOLEAN
  BY DEF Tick, TypeOK
<1> QED
  BY <1>1, <1>2, <1>3, <1>4, <1>5, <1>6, <1>7, <1>8, <1>9 DEF TypeOK, AddresserType

LEMMA ResetType ==
    ASSUME TypeInv, Reset
    PROVE  TypeInv'
<1>1. 0 \in Addrs /\ ZeroWord \in Words /\ 0 % 2 = 0
  BY HfAssumption DEF Addrs
<1> QED
  BY <1>1 DEF TypeInv, TypeOK, Reset, AddresserReset, ApbReset, AddresserType, ApbType,
     AddresserStates, MasterStates, SlaveStates, Even

LEMMA TypeInductive == TypeInv /\ [Next]_vars => TypeInv'
<1> SUFFICES ASSUME TypeInv, [Next]_vars PROVE TypeInv'
  OBVIOUS
<1>1. CASE Release
  BY <1>1 DEF Release, TypeInv, TypeOK, AddresserType, ApbType, apbVars, inputVars, hostVars, Even
<1>2. CASE UNCHANGED vars
  BY <1>2 DEF TypeInv, TypeOK, AddresserType, ApbType, vars, addresserVars, apbVars,
     inputVars, hostVars, Even
<1> QED
  BY <1>1, <1>2, TickType, ResetType DEF Next

LEMMA TypeInvariant == Spec => []TypeInv
<1>1. Init => TypeInv
  <2>1. 0 \in Addrs /\ ZeroWord \in Words /\ 0 % 2 = 0
    BY HfAssumption DEF Addrs
  <2> QED
    BY <2>1 DEF Init, TypeInv, TypeOK, AddresserType, ApbType, AddresserStates,
       MasterStates, SlaveStates, Even
<1> QED
  BY <1>1, TypeInductive, PTL DEF Spec

\* Every latch, register and address of the high-frequency side keeps its
\* type, in any order of evaluations and with resets at any time; addresses
\* stay in range because the host's cursor stays even.
THEOREM TypeCorrect == Spec => []TypeOK
BY TypeInvariant, PTL DEF TypeInv
-----------------------------------------------------------------------------
(***************************************************************************)
(* The invariant, part by part.  A clock edge takes the bus from BusFree   *)
(* to BusSetup if the Addresser asks for a transfer, from BusSetup to      *)
(* BusAccess, and from there back to BusFree.                              *)
(***************************************************************************)
LEMMA FreeStep ==
    ASSUME Settled, TypeInv, BurstInv, Tick, BusFree
    PROVE  /\ IF Transfer(aState) THEN BusSetup' ELSE BusFree'
           /\ sState' = "IDLE" /\ ~sWen'
<1>1. mState' = mNext /\ aState' = aNext
  BY Latches
<1>2. sState' = "IDLE" /\ ~sWen'
  BY DEF Tick, ApbEdge, SlaveIdle, SlaveAccess, SlaveDone, BusFree, PSel, BurstInv, PhaseInv
<1>3. CASE Transfer(aState)
  <2>1. mState' = "SETUP" /\ aNext = "WAITING_PREADY"
    BY <1>1, <1>3 DEF BusFree, BurstInv, NextInv
  <2>2. mNext' = "ACCESS"
    BY <2>1 DEF Tick, MasterSettle
  <2>3. ~preadyFlag /\ ~PReady'
    BY <1>2, <1>3 DEF PReady, BurstInv, NextInv, Transfer, Tick
  <2>4. aNext' = "WAITING_PREADY" /\ ~preadyFlag'
    BY <2>1, <2>3, WaitState DEF WriteOn, ReadOn
  <2> QED
    BY <1>1, <1>2, <1>3, <2>1, <2>2, <2>4 DEF BusSetup
<1>4. CASE ~Transfer(aState)
  <2>1. mState' = "IDLE" /\ mNext = "IDLE"
    BY <1>1, <1>4 DEF BusFree
  <2>2. mNext' = IF Transfer(aState') THEN "SETUP" ELSE "IDLE"
    BY <2>1 DEF Tick, MasterSettle
  <2> QED
    BY <1>2, <1>4, <2>1, <2>2 DEF BusFree
<1> QED
  BY <1>2, <1>3, <1>4

LEMMA SetupStep ==
    ASSUME Settled, TypeInv, BurstInv, Tick, BusSetup
    PROVE  BusAccess' /\ oAddr' = oAddr /\ oRw' = oRw /\ oData' = oData
<1>1. /\ aState' = "WAITING_PREADY" /\ mState' = "ACCESS"
      /\ oAddr' = oAddr /\ oRw' = oRw /\ oData' = oData
  BY Latches DEF BusSetup, Transfer
<1>2. /\ sState' = "ACCESS" /\ sAddr' = oAddr /\ sData' = oData
      /\ sWen' = oRw /\ sRen' = ~oRw
  BY DEF Tick, ApbEdge, SlaveIdle, SlaveAccess, SlaveDone, BusSetup, PSel, PEnable
<1>3. mNext' = "IDLE"
  BY <1>1 DEF Tick, MasterSettle
<1> QED
  BY <1>1, <1>2, <1>3 DEF BusAccess

LEMMA AccessStep ==
    ASSUME Settled, TypeInv, BurstInv, Tick, BusAccess
    PROVE  /\ BusFree' /\ sState' = "DONE"
           /\ bank' = (IF oRw THEN [bank EXCEPT ![oAddr] = oData] ELSE bank)
           /\ sWen' = oRw /\ sAddr' = oAddr /\ sData' = oData
<1>1. mState' = "IDLE" /\ mNext = "IDLE"
  BY Latches DEF BusAccess
<1>2. mNext' = IF Transfer(aState') THEN "SETUP" ELSE "IDLE"
  BY <1>1 DEF Tick, MasterSettle
<1>3. /\ sState' = "DONE" /\ sWen' = oRw /\ sAddr' = oAddr /\ sData' = oData
  BY DEF Tick, ApbEdge, SlaveIdle, SlaveAccess, SlaveDone, BusAccess, PEnable
<1>4. bank' = (IF oRw THEN [bank EXCEPT ![oAddr] = oData] ELSE bank)
  BY DEF Tick, ApbEdge, BankEdge, BusAccess
<1> QED
  BY <1>1, <1>2, <1>3, <1>4 DEF BusFree

LEMMA PhaseStep ==
    ASSUME Settled, TypeInv, BurstInv, Tick
    PROVE  PhaseInv'
<1>1. resetN' = 1
  BY DEF Tick
<1>2. CASE BusFree
  BY <1>1, <1>2, FreeStep DEF PhaseInv
<1>3. CASE BusSetup
  BY <1>1, <1>3, SetupStep DEF PhaseInv, BusAccess
<1>4. CASE BusAccess
  BY <1>1, <1>4, AccessStep DEF PhaseInv
<1> QED
  BY <1>2, <1>3, <1>4 DEF BurstInv, PhaseInv

\* The host's word leaves the inputs when it is acknowledged, not before.
LEMMA WordHeld ==
    ASSUME Tick, inReady, ~Acks(aState)
    PROVE  inReady' /\ inData' = inData
BY DEF Tick, NewInputs, OAck

LEMMA WordStep ==
    ASSUME Settled, TypeInv, BurstInv, Tick
    PROVE  WordInv'
<1> USE DEF BurstInv, NextInv, WordInv
<1>1. /\ aState \in AddresserStates /\ aNext \in AddresserStates /\ aNext' \in AddresserStates
      /\ opType \in BOOLEAN
  BY TickType DEF TypeInv, TypeOK, AddresserType
<1>2. aState' = aNext
  BY Latches
<1>3. aNext' = "ACK" => inReady' /\ opType' = OpOf(inData') /\ addrReg' = AddrOf(inData')
  BY <1>1, <1>2, Latches, OtherStates, WaitState DEF AddresserStates, Transfer
<1>4. aState' = "ACK" => inReady' /\ opType' = OpOf(inData') /\ addrReg' = AddrOf(inData')
  BY <1>1, <1>2, Latches, OtherStates, WordHeld DEF AddresserStates, Transfer, Acks
<1>5. aNext' = "WRITE_SETUP" => inReady' /\ dataReg' = inData'
  BY <1>1, <1>2, Latches, OtherStates, WaitState DEF AddresserStates, Transfer
<1>6. aState' = "WRITE_SETUP" => inReady' /\ dataReg' = inData' /\ oData' = inData'
  BY <1>1, <1>2, Latches, OtherStates, WordHeld DEF AddresserStates, Transfer, Acks
<1>7. Transfer(aState') => oAddr' = addrReg' /\ oRw' = opType'
  <2>1. Transfer(aNext) => (aNext = "WRITE_SETUP") = opType
    BY <1>1 DEF AddresserStates, Transfer
  <2> QED
    BY <1>1, <1>2, <2>1, Latches, OtherStates DEF Transfer
<1>8. aState' = "WAITING_PREADY" => oRw' = opType'
  BY <1>1, <1>2, Latches DEF AddresserStates, Transfer
<1> QED
  BY <1>3, <1>4, <1>5, <1>6, <1>7, <1>8

LEMMA NextStep ==
    ASSUME Settled, TypeInv, BurstInv, Tick
    PROVE  NextInv'
<1> USE DEF BurstInv, NextInv
<1>1. /\ aState \in AddresserStates /\ aNext \in AddresserStates
      /\ opType \in BOOLEAN /\ opType' \in BOOLEAN /\ ss' \in BOOLEAN
  BY TickType DEF TypeInv, TypeOK, AddresserType
<1>2. aState' = aNext
  BY Latches
<1>3. CASE aNext = "WAITING_PREADY"
  <2>1. opType' = opType
    BY <1>3, Latches
  <2>2. /\ aNext' \in {"WAITING_PREADY", "IDLE", "WRITE_WAITING_DATA", "READ_SETUP"}
        /\ aNext' = "WRITE_WAITING_DATA" => opType'
        /\ aNext' = "READ_SETUP" => ~opType'
        /\ aNext' = "IDLE" => ~ss'
    BY <1>3, WaitState DEF WriteOn, ReadOn
  <2>3. mState' = "IDLE" => ~opType'
    <3>1. CASE BusFree
      <4>1. mState' = "IDLE" => ~Transfer(aState)
        BY <3>1, Latches DEF BusFree
      <4> QED
        BY <1>1, <1>3, <2>1, <3>1, <4>1 DEF Transfer, AddresserStates, BusFree
    <3>2. CASE BusSetup
      BY <3>2, Latches DEF BusSetup
    <3>3. CASE BusAccess
      BY <1>3, <2>1, <3>3 DEF BusAccess
    <3> QED
      BY <3>1, <3>2, <3>3 DEF PhaseInv
  <2>4. mState' = "ACCESS" /\ aNext' = "WAITING_PREADY" => ~opType'
    <3>1. mState' = "ACCESS" => BusSetup
      BY FreeStep, AccessStep DEF PhaseInv, BusFree, BusSetup, Transfer
    <3>2. BusSetup => PReady'
      BY SetupStep DEF BusAccess, PReady
    <3> QED
      BY <1>1, <1>3, <3>1, <3>2, WaitState DEF WriteOn
  <2> QED
    BY <1>2, <1>3, <2>2, <2>3, <2>4 DEF Transfer
<1>4. CASE aNext # "WAITING_PREADY"
  <2>1. /\ aNext \in {"IDLE", "WAITING_OP_PACKET"} => opType' \in BOOLEAN
        /\ aNext \notin {"IDLE", "WAITING_OP_PACKET"} => opType' = opType
    BY <1>1, Latches
  <2>2. aNext \in {"WRITE_WAITING_DATA", "WRITE_SETUP"} => opType
    BY <1>1 DEF AddresserStates, Transfer
  <2>3. aNext = "READ_SETUP" => ~opType
    BY <1>1 DEF AddresserStates, Transfer
  <2> QED
    BY <1>1, <1>2, <1>4, <2>1, <2>2, <2>3, OtherStates DEF Transfer, AddresserStates
<1> QED
  BY <1>3, <1>4

\* The bank is rewritten in DONE with the word it already holds.
LEMMA FreeBank ==
    ASSUME TypeInv, BurstInv, Tick, BusFree \/ BusSetup
    PROVE  bank' = bank
<1>1. bank \in [Addrs -> Words] /\ sAddr \in Addrs
  BY DEF TypeInv, TypeOK, ApbType
<1>2. sWen => bank[sAddr] = sData
  BY DEF BurstInv, BankInv, PhaseInv, BusFree, BusSetup
<1>3. bank' = IF sWen THEN [bank EXCEPT ![sAddr] = sData] ELSE bank
  BY DEF Tick, ApbEdge, BankEdge
<1> QED
  BY <1>1, <1>2, <1>3

LEMMA BankStep ==
    ASSUME Settled, TypeInv, BurstInv, Tick
    PROVE  BankInv'
<1>1. model' = IF DataTaken THEN [model EXCEPT ![cursor] = inData] ELSE model
  BY DEF Tick, HostStep
<1>2. CASE BusFree /\ Transfer(aState)
  <2>1. bank' = bank /\ model = bank
    BY <1>2, FreeBank DEF BusFree, BurstInv, BankInv
  <2>2. mState' # "IDLE" /\ sState' = "IDLE"
    BY <1>2, FreeStep DEF BusSetup
  <2>3. oAddr' = oAddr /\ oRw' = oRw /\ oData' = oData
    BY <1>2, Latches DEF BurstInv, NextInv, Transfer
  <2>4. CASE aState = "WRITE_SETUP"
    <3>1. DataTaken /\ oRw /\ oData = inData /\ oAddr = cursor
      BY <2>4 DEF DataTaken, OAck, Acks, Tick, BurstInv, WordInv, NextInv, CursorInv, InBurst, Transfer
    <3> QED
      BY <1>1, <2>1, <2>2, <2>3, <3>1 DEF BankInv
  <2>5. CASE aState = "READ_SETUP"
    <3>1. ~DataTaken /\ ~oRw
      BY <2>5 DEF DataTaken, BurstInv, WordInv, NextInv, Transfer
    <3> QED
      BY <1>1, <2>1, <2>2, <2>3, <3>1 DEF BankInv
  <2> QED
    BY <1>2, <2>4, <2>5 DEF Transfer
<1>3. CASE BusFree /\ ~Transfer(aState)
  <2>1. bank' = bank /\ model = bank
    BY <1>3, FreeBank DEF BusFree, BurstInv, BankInv
  <2>2. mState' = "IDLE" /\ sState' = "IDLE" /\ ~DataTaken
    BY <1>3, FreeStep DEF BusFree, DataTaken, Transfer
  <2> QED
    BY <1>1, <2>1, <2>2 DEF BankInv
<1>4. CASE BusSetup
  <2>1. bank' = bank /\ ~DataTaken
    BY <1>4, FreeBank DEF BusSetup, DataTaken
  <2> QED
    BY <1>1, <1>4, <2>1, SetupStep DEF BusSetup, BusAccess, BurstInv, BankInv
<1>5. CASE BusAccess
  <2>1. ~DataTaken /\ bank \in [Addrs -> Words] /\ oAddr \in Addrs
    BY <1>5 DEF BusAccess, DataTaken, TypeInv, TypeOK, ApbType, AddresserType
  <2>2. model' = model /\ model = IF oRw THEN [bank EXCEPT ![oAddr] = oData] ELSE bank
    BY <1>1, <1>5, <2>1 DEF BusAccess, BurstInv, BankInv
  <2> QED
    BY <1>5, <2>1, <2>2, AccessStep DEF BusFree, BankInv
<1> QED
  BY <1>2, <1>3, <1>4, <1>5 DEF BurstInv, PhaseInv

LEMMA CursorStep ==
    ASSUME Settled, TypeInv, BurstInv, Tick
    PROVE  CursorInv'
<1> USE DEF BurstInv, NextInv
<1>1. /\ aState \in AddresserStates /\ aNext \in AddresserStates /\ aNext' \in AddresserStates
      /\ opType \in BOOLEAN /\ oRw \in BOOLEAN /\ addrReg \in Addrs /\ cursor \in Addrs
      /\ inData \in Words /\ inData' \in Words
  BY TickType DEF TypeInv, TypeOK, AddresserType
<1>2. /\ aState' = aNext
      /\ cursor' = IF PacketTaken THEN AddrOf(inData)
                   ELSE IF DataTaken \/ ReadOffered THEN HostNext(cursor) ELSE cursor
  BY Latches DEF Tick, HostStep
<1>3. Even(cursor') /\ Even(addrReg')
  <2>1. Even(cursor')
    BY TickType DEF TypeInv, Even
  <2>2. Even(addrReg) /\ Even(NextAddr(addrReg)) /\ Even(AddrOf(inData'))
    BY <1>1, NextAddrFacts, PacketFacts DEF CursorInv
  <2> QED
    BY <2>1, <2>2, WaitState, OtherStates, <1>1
<1>4. HostNext(addrReg) = NextAddr(addrReg)
  BY <1>1, NextAddrFacts DEF CursorInv
<1>5. ReadOffered => BusSetup
  BY FreeStep, AccessStep DEF PhaseInv, BusFree, BusSetup, ReadOffered, PReady
<1>6. ASSUME aNext \in InBurst \ {"WAITING_PREADY"} PROVE cursor' = addrReg'
  <2>1. addrReg' = addrReg /\ ~ReadOffered
    BY <1>5, <1>6, OtherStates, <1>1 DEF BusSetup, InBurst
  <2>2. CASE aState = "ACK"
    <3>1. PacketTaken /\ addrReg = AddrOf(inData)
      BY <2>2 DEF PacketTaken, OAck, Acks, Tick, WordInv
    <3> QED
      BY <1>2, <2>1, <3>1
  <2>3. CASE aState # "ACK"
    <3>1. ~PacketTaken /\ ~DataTaken
      BY <1>6, <2>3 DEF PacketTaken, DataTaken, InBurst, Transfer
    <3>2. cursor = addrReg
      <4>1. aState \in {"WRITE_WAITING_DATA", "WAITING_PREADY"}
        BY <1>1, <1>6, <2>3 DEF InBurst, AddresserStates, Transfer
      <4>2. aState = "WAITING_PREADY" => mState # "SETUP"
        BY <1>6 DEF InBurst, PhaseInv, BusFree, BusSetup, BusAccess
      <4> QED
        BY <1>6, <4>1, <4>2 DEF CursorInv, InBurst
    <3> QED
      BY <1>2, <2>1, <3>1, <3>2
  <2> QED
    BY <2>2, <2>3
<1>7. ASSUME aNext = "WAITING_PREADY"
      PROVE  IF mState' = "SETUP" THEN
                 /\ oAddr' = addrReg'
                 /\ cursor' = IF oRw' THEN NextAddr(addrReg') ELSE addrReg'
             ELSE IF aNext' \in {"WRITE_WAITING_DATA", "READ_SETUP"} THEN cursor' = addrReg'
             ELSE aNext' = "IDLE" \/ cursor' = NextAddr(addrReg')
  <2>1. ~PacketTaken
    BY <1>7 DEF PacketTaken
  <2>2. CASE BusFree /\ Transfer(aState)
    <3>1. mState' = "SETUP" /\ aNext' = "WAITING_PREADY" /\ ~ReadOffered
      BY <1>5, <2>2, FreeStep DEF BusSetup, BusFree
    <3>2. addrReg' = addrReg /\ oAddr' = oAddr /\ oRw' = oRw
      BY <1>7, <3>1, WaitState, Latches DEF Transfer
    <3>3. cursor = addrReg /\ oAddr = addrReg /\ (DataTaken <=> oRw)
      BY <2>2 DEF CursorInv, InBurst, Transfer, WordInv, DataTaken, OAck, Acks, Tick
    <3> QED
      BY <1>2, <1>4, <2>1, <3>1, <3>2, <3>3
  <2>3. CASE BusFree /\ ~Transfer(aState)
    <3>1. aState = "WAITING_PREADY" /\ ~DataTaken /\ ~ReadOffered /\ mState = "IDLE" /\ mState' = "IDLE"
      BY <1>1, <1>5, <1>7, <2>3, FreeStep DEF BusFree, BusSetup, AddresserStates, Transfer, DataTaken
    <3>2. cursor' = cursor /\ cursor = NextAddr(addrReg)
      BY <1>2, <1>7, <2>1, <3>1 DEF CursorInv
    <3>3. ~PReady' /\ ~WriteOn
      BY <2>3, FreeStep DEF PReady, WriteOn
    <3> QED
      BY <1>7, <3>1, <3>2, <3>3, WaitState
  <2>4. CASE BusSetup
    <3>1. /\ mState' = "ACCESS" /\ oAddr = addrReg /\ ~DataTaken /\ PReady' /\ oRw' = oRw
          /\ cursor = IF oRw THEN NextAddr(addrReg) ELSE addrReg
      BY <2>4, SetupStep DEF BusSetup, BusAccess, CursorInv, DataTaken, PReady
    <3>2. opType' = opType /\ oRw = opType
      BY <1>7, <2>4, Latches DEF BusSetup, WordInv
    <3>3. CASE oRw
      BY <1>2, <1>7, <2>1, <3>1, <3>2, <3>3, WaitState DEF WriteOn, ReadOn, ReadOffered
    <3>4. CASE ~oRw
      <4>1. ReadOffered /\ hdsReady' = TRUE
        BY <3>1, <3>4 DEF ReadOffered, Tick, OfferRead
      <4> QED
        BY <1>2, <1>4, <1>7, <2>1, <3>1, <3>2, <3>4, <4>1, WaitState DEF WriteOn, ReadOn
    <3> QED
      BY <1>1, <3>3, <3>4
  <2>5. CASE BusAccess
    <3>1. /\ mState' = "IDLE" /\ ~DataTaken /\ ~PReady' /\ ~ReadOffered /\ aState = "WAITING_PREADY"
          /\ mState = "ACCESS"
      BY <1>5, <2>5, AccessStep DEF BusFree, BusSetup, BusAccess, DataTaken, PReady
    <3>2. cursor' = cursor /\ cursor = NextAddr(addrReg)
      BY <1>2, <1>7, <2>1, <3>1 DEF CursorInv
    <3> QED
      BY <1>7, <3>1, <3>2, WaitState DEF WriteOn
  <2> QED
    BY <2>2, <2>3, <2>4, <2>5 DEF PhaseInv
<1> QED
  BY <1>2, <1>3, <1>6, <1>7 DEF CursorInv, Even, NextAddr

\* A read word is put on offer only by the edge that ends BusSetup; otherwise
\* the offer can only end.
LEMMA OfferStep ==
    ASSUME Settled, TypeInv, BurstInv, Tick
    PROVE  /\ ReadOffered <=> BusSetup /\ ~oRw
           /\ ~ReadOffered /\ ~hdsReady => ~hdsReady'
<1>1. ReadOffered <=> BusSetup /\ ~oRw
  BY FreeStep, SetupStep, AccessStep
     DEF BurstInv, PhaseInv, BusFree, BusSetup, BusAccess, ReadOffered, PReady
<1>2. ~ReadOffered /\ ~hdsReady => ~hdsReady'
  BY DEF Tick, OfferRead, ReadOffered
<1> QED
  BY <1>1, <1>2

LEMMA FrameStep ==
    ASSUME Settled, TypeInv, BurstInv, Tick
    PROVE  FrameInv'
<1> USE DEF BurstInv, NextInv
<1>1. /\ aState \in AddresserStates /\ aNext \in AddresserStates /\ aNext' \in AddresserStates
      /\ opType \in BOOLEAN /\ ss' \in BOOLEAN
  BY TickType DEF TypeInv, TypeOK, AddresserType
<1>2. /\ aState' = aNext
      /\ frameOpen' = (FrameBegins \/ (frameOpen /\ ~(PacketTaken \/ DataTaken)))
      /\ hostWrite' = IF PacketTaken THEN OpOf(inData) ELSE hostWrite
      /\ paced' = (paced /\ Paced)
  BY Latches DEF Tick, HostStep
<1>3. ASSUME aNext \in InBurst PROVE hostWrite' = opType'
  <2>1. opType' = opType
    BY <1>3, Latches DEF InBurst
  <2>2. CASE aState = "ACK"
    BY <1>2, <2>1, <2>2 DEF PacketTaken, OAck, Acks, Tick, WordInv
  <2>3. CASE aState # "ACK"
    <3>1. aState \in InBurst
      BY <1>1, <1>3, <2>3 DEF InBurst, AddresserStates, Transfer
    <3> QED
      BY <1>2, <2>1, <2>3, <3>1 DEF PacketTaken, FrameInv
  <2> QED
    BY <2>2, <2>3
<1> SUFFICES ASSUME paced'
             PROVE  /\ aNext \in {"WAITING_OP_PACKET", "ACK"} => frameOpen' /\ ~hdsReady'
                    /\ aNext = "IDLE" /\ (ss' \/ aNext' = "WAITING_OP_PACKET") =>
                         frameOpen' /\ ~hdsReady'
                    /\ aNext \in InBurst => ~frameOpen'
                    /\ aNext = "READ_SETUP" \/ aNext' = "READ_SETUP" => ~hdsReady'
                    /\ mState' = "SETUP" /\ ~oRw' => ~hdsReady'
  BY <1>2, <1>3 DEF FrameInv
<1>4. paced /\ Paced /\ FrameInv
  BY <1>2
<1>5. mState # "SETUP" => ~ReadOffered
  BY OfferStep DEF BusSetup
<1>6. ASSUME aNext \in {"WAITING_OP_PACKET", "ACK"} PROVE frameOpen' /\ ~hdsReady'
  <2>1. /\ aState \in {"IDLE", "WAITING_OP_PACKET"}
        /\ aState = "IDLE" => aNext = "WAITING_OP_PACKET"
    BY <1>1, <1>6 DEF AddresserStates, Transfer
  <2>2. frameOpen /\ ~hdsReady
    BY <1>4, <2>1 DEF FrameInv
  <2>3. ~PacketTaken /\ ~DataTaken /\ ~ReadOffered
    BY <2>1, OfferStep DEF PacketTaken, DataTaken, BusSetup
  <2> QED
    BY <1>2, <2>2, <2>3, OfferStep
<1>7. ASSUME aNext = "IDLE", ss' \/ aNext' = "WAITING_OP_PACKET" PROVE frameOpen' /\ ~hdsReady'
  <2>1. ss'
    BY <1>7, OtherStates DEF AddresserStates
  <2>2. aState = "IDLE"
    <3>1. aState \in {"IDLE", "WAITING_PREADY"} /\ (aState = "WAITING_PREADY" => ~ss)
      BY <1>1, <1>7 DEF AddresserStates, Transfer
    <3> QED
      BY <1>4, <2>1, <3>1 DEF Paced
  <2>3. ~PacketTaken /\ ~DataTaken /\ ~ReadOffered
    BY <2>2, OfferStep DEF PacketTaken, DataTaken, BusSetup
  <2>4. CASE ss
    BY <1>2, <1>4, <2>2, <2>3, <2>4, OfferStep DEF FrameInv
  <2>5. CASE ~ss
    BY <1>2, <1>4, <2>1, <2>3, <2>5, OfferStep DEF Paced, FrameBegins
  <2> QED
    BY <2>4, <2>5
<1>8. ASSUME aNext \in InBurst PROVE ~frameOpen'
  <2>1. aState # "IDLE" /\ aState # "WAITING_OP_PACKET"
    BY <1>8 DEF InBurst
  <2>2. ~FrameBegins
    BY <1>4, <2>1 DEF Paced, FrameBegins
  <2>3. aState = "ACK" => PacketTaken
    BY DEF PacketTaken, OAck, Acks, Tick, WordInv
  <2>4. aState # "ACK" => ~frameOpen
    BY <1>1, <1>4, <2>1 DEF FrameInv, InBurst, AddresserStates
  <2> QED
    BY <1>2, <2>2, <2>3, <2>4
<1>9. ASSUME aNext = "READ_SETUP" PROVE ~hdsReady'
  <2>1. mState # "SETUP"
    BY <1>9 DEF PhaseInv, BusFree, BusSetup, BusAccess
  <2> QED
    BY <1>4, <1>5, <1>9, <2>1, OfferStep DEF FrameInv
<1>10. ASSUME aNext' = "READ_SETUP" PROVE ~hdsReady'
  <2>1. CASE aNext = "WAITING_PREADY"
    BY <1>10, <2>1, WaitState DEF ReadOn
  <2>2. CASE aNext # "WAITING_PREADY"
    <3>1. aNext = "ACK"
      BY <1>1, <1>10, <2>2, OtherStates DEF AddresserStates, Transfer
    <3> QED
      BY <1>6, <3>1
  <2> QED
    BY <2>1, <2>2
<1>11. ASSUME mState' = "SETUP", ~oRw' PROVE ~hdsReady'
  <2>1. BusFree /\ Transfer(aState)
    BY <1>11, FreeStep, SetupStep, AccessStep DEF PhaseInv, BusFree, BusAccess
  <2>2. oRw' = oRw /\ oRw = opType
    BY <2>1, Latches DEF Transfer, WordInv
  <2>3. aState = "READ_SETUP"
    BY <1>11, <2>1, <2>2 DEF Transfer
  <2> QED
    BY <1>4, <2>1, <2>3, OfferStep DEF FrameInv, BusFree, BusSetup
<1> QED
  BY <1>6, <1>7, <1>8, <1>9, <1>10, <1>11

\* A reset that finds the bus at rest leaves it at rest; only pready_flag
\* keeps its value, and a release clears that.
LEMMA ResetStep ==
    ASSUME ~ResetAnytime, TypeInv, Reset
    PROVE  BurstInv'
<1>1. /\ aState' = "IDLE" /\ aNext' = "IDLE" /\ mState' = "IDLE" /\ mNext' = "IDLE"
      /\ sState' = "IDLE" /\ ~sWen' /\ resetN' = 0 /\ ~ss'
      /\ cursor' = 0 /\ addrReg' = 0 /\ model' = bank'
  BY DEF Reset, AddresserReset, ApbReset
<1>2. PhaseInv' /\ BankInv'
  BY <1>1 DEF PhaseInv, BankInv, BusFree, Transfer
<1>3. NextInv' /\ WordInv'
  BY <1>1 DEF NextInv, WordInv, Transfer
<1>4. CursorInv' /\ FrameInv'
  BY <1>1 DEF CursorInv, FrameInv, InBurst, Even
<1> QED
  BY <1>2, <1>3, <1>4 DEF BurstInv

LEMMA ReleaseStep ==
    ASSUME TypeInv, BurstInv, Release
    PROVE  BurstInv'
<1>1. /\ UNCHANGED <<clk, aState, aNext, opType, addrReg, dataReg, oRw, oAddr, oData,
                     apbVars, inputVars, hdsReady, readData, hostVars>>
      /\ preadyFlag' = FALSE /\ resetN = 0 /\ resetN' = 1
  BY DEF Release
<1>2. aState = "IDLE" /\ aNext = "IDLE" /\ mState = "IDLE"
  BY <1>1 DEF BurstInv, PhaseInv
<1> USE DEF apbVars, inputVars, hostVars
<1>3. PhaseInv' /\ BankInv'
  BY <1>1, <1>2 DEF BurstInv, PhaseInv, BankInv, BusFree, BusSetup, BusAccess
<1>4. NextInv' /\ WordInv'
  BY <1>1, <1>2 DEF BurstInv, NextInv, WordInv, Transfer
<1>5. CursorInv' /\ FrameInv'
  BY <1>1, <1>2 DEF BurstInv, CursorInv, FrameInv, InBurst, Even
<1> QED
  BY <1>3, <1>4, <1>5 DEF BurstInv

LEMMA BurstInductive ==
    ASSUME Settled, ~ResetAnytime, TypeInv, BurstInv, [Next]_vars
    PROVE  BurstInv'
<1>1. CASE Tick
  BY <1>1, PhaseStep, BankStep, NextStep, WordStep, CursorStep, FrameStep DEF BurstInv
<1>2. CASE UNCHANGED vars
  <2> USE <1>2 DEF vars, addresserVars, apbVars, inputVars, hostVars, BurstInv
  <2>1. PhaseInv' /\ BankInv'
    BY DEF PhaseInv, BankInv, BusFree, BusSetup, BusAccess
  <2>2. NextInv' /\ WordInv'
    BY DEF NextInv, WordInv
  <2>3. CursorInv' /\ FrameInv'
    BY DEF CursorInv, FrameInv, Even
  <2> QED
    BY <2>1, <2>2, <2>3
<1> QED
  BY <1>1, <1>2, ResetStep, ReleaseStep DEF Next

LEMMA InitBurst == Init => BurstInv
<1> SUFFICES ASSUME Init PROVE BurstInv
  OBVIOUS
<1>1. PhaseInv /\ BankInv
  BY DEF Init, PhaseInv, BankInv, BusFree, Transfer
<1>2. NextInv /\ WordInv
  BY DEF Init, NextInv, WordInv, Transfer
<1>3. CursorInv /\ FrameInv
  BY DEF Init, CursorInv, FrameInv, InBurst, Even
<1> QED
  BY <1>1, <1>2, <1>3 DEF BurstInv

\* Addresser, bus, bank and host agree on every transfer, for every address
\* width and any behaviour of the host, when each block runs once a cycle and
\* no reset falls within a transfer.
THEOREM BurstInvariant ==
    ASSUME Settled, ~ResetAnytime
    PROVE  Spec => []BurstInv
BY InitBurst, BurstInductive, TypeInvariant, PTL DEF Spec
-----------------------------------------------------------------------------
(***************************************************************************)
(* What follows from it.                                                   *)
(***************************************************************************)

\* Between transfers the register bank holds every acknowledged data word at
\* the address of its place in the burst (register_bank.sv, addresser.sv).
THEOREM MemoryFollowsHost ==
    ASSUME Settled, ~ResetAnytime
    PROVE  Spec => []MemoryMatches
<1>1. BurstInv => MemoryMatches
  BY DEF BurstInv, BankInv, MemoryMatches
<1> QED
  BY <1>1, BurstInvariant, PTL

\* A word taken as a packet is the first of its frame, a word taken as data is
\* a later word of a write frame, for a host that keeps to Paced.
THEOREM FramesAgree ==
    ASSUME Settled, ~ResetAnytime
    PROVE  Spec => []CommandFraming
<1>1. BurstInv => CommandFraming
  BY DEF BurstInv, FrameInv, NextInv, CommandFraming, PacketTaken, DataTaken, InBurst
<1> QED
  BY <1>1, BurstInvariant, PTL

\* Each word offered for reading is the bank's word at the host's next address.
THEOREM ReadsFollowHost ==
    ASSUME Settled, ~ResetAnytime
    PROVE  Spec => ReadsInOrder
<1>1. ASSUME TypeInv, BurstInv, [Next]_vars, ReadOffered, resetN = 1, ~UNCHANGED vars
      PROVE  readData' = model[cursor]
  <2>1. Tick
    BY <1>1 DEF Next, Reset, Release, ReadOffered, PReady, ApbReset
  <2>2. BusSetup /\ ~oRw
    BY <1>1, <2>1, OfferStep
  <2>3. model = bank /\ cursor = oAddr /\ bank' = bank
    BY <1>1, <2>1, <2>2, FreeBank DEF BusSetup, BurstInv, BankInv, CursorInv
  <2>4. mState' = "ACCESS" /\ PReady' /\ sRen' /\ sAddr' = oAddr
    <3>1. BusAccess' /\ oAddr' = oAddr /\ oRw' = oRw
      BY <1>1, <2>1, <2>2, SetupStep
    <3>2. mState' = "ACCESS" /\ sState' = "ACCESS" /\ sAddr' = oAddr' /\ sRen' = ~oRw'
      BY <3>1 DEF BusAccess
    <3> QED
      BY <2>2, <3>1, <3>2 DEF PReady
  <2>5. readData' = MasterPrData'
    BY <1>1, <2>1 DEF Tick, OfferRead, ReadOffered
  <2>6. MasterPrData' = bank'[sAddr']
    BY <2>4 DEF MasterPrData, SlavePrData
  <2> QED
    BY <2>3, <2>4, <2>5, <2>6
<1>2. TypeInv /\ BurstInv /\ [Next]_vars =>
        [ReadOffered /\ resetN = 1 => readData' = model[cursor]]_vars
  BY <1>1
<1> QED
  BY <1>2, BurstInvariant, TypeInvariant, PTL DEF Spec, ReadsInOrder

\* The master enters ACCESS from SETUP only, with address, direction and data
\* held, and the slave is ready in that cycle (apbmaster.sv never looks).
THEOREM TransfersAreApb ==
    ASSUME Settled, ~ResetAnytime
    PROVE  Spec => ApbTransfer
<1> DEFINE A == mState' = "ACCESS" /\ resetN' = 1 =>
                  /\ mState = "SETUP"
                  /\ oAddr' = oAddr /\ oRw' = oRw /\ (oRw => oData' = oData)
                  /\ PReady'
<1>1. ASSUME TypeInv, BurstInv, [Next]_vars PROVE A \/ UNCHANGED vars
  <2>1. CASE Tick
    <3>1. mState' = "ACCESS" => BusSetup
      BY <1>1, <2>1, FreeStep, AccessStep DEF BurstInv, PhaseInv, BusFree, BusSetup
    <3>2. BusSetup => A
      BY <1>1, <2>1, SetupStep DEF BusSetup, BusAccess, PReady
    <3> QED
      BY <3>1, <3>2
  <2>2. CASE Reset
    BY <2>2 DEF Reset
  <2>3. CASE Release
    BY <1>1, <2>3 DEF Release, BurstInv, PhaseInv, apbVars
  <2> QED
    BY <1>1, <2>1, <2>2, <2>3 DEF Next
<1>2. TypeInv /\ BurstInv /\ [Next]_vars => [A]_vars
  BY <1>1
<1> QED
  BY <1>2, BurstInvariant, TypeInvariant, PTL DEF Spec, ApbTransfer

\* A word put on offer never replaces one that was not taken, for a host that
\* keeps to Paced (hf_top.sv has a single register for it).
THEOREM ReadsAreTaken ==
    ASSUME Settled, ~ResetAnytime
    PROVE  Spec => ReadNotLost
<1> DEFINE A == paced' /\ resetN' = 1 /\ ReadOffered => ~hdsReady
<1>1. ASSUME TypeInv, BurstInv, [Next]_vars PROVE A \/ UNCHANGED vars
  <2>1. CASE Tick
    <3>1. ReadOffered => mState = "SETUP" /\ ~oRw
      BY <1>1, <2>1, OfferStep DEF BusSetup
    <3>2. paced' => paced
      BY <2>1 DEF Tick
    <3> QED
      BY <1>1, <3>1, <3>2 DEF BurstInv, FrameInv
  <2>2. CASE Reset
    BY <2>2 DEF Reset
  <2>3. CASE Release
    BY <1>1, <2>3 DEF Release, BurstInv, PhaseInv, BusFree, BusSetup, BusAccess,
       apbVars, ReadOffered, PReady
  <2> QED
    BY <1>1, <2>1, <2>2, <2>3 DEF Next
<1>2. TypeInv /\ BurstInv /\ [Next]_vars => [A]_vars
  BY <1>1
<1> QED
  BY <1>2, BurstInvariant, TypeInvariant, PTL DEF Spec, ReadNotLost
=============================================================================
