-------------------------- MODULE Hds4PhaseProofs --------------------------
(***************************************************************************)
(* Proofs about Hds4Phase, for every set of words, every number of items   *)
(* and, for type correctness, every producer and reset discipline.         *)
(***************************************************************************)
EXTENDS Hds4PhaseProps, TLAPS

\* The flip-flop pairs stay pairs of bits.
LEMMA FfdEdgeType ==
    ASSUME NEW sync \in FfdType, NEW b \in Bit
    PROVE  /\ FfdEdge(sync, b) \in FfdType
           /\ FfdOut(sync) \in Bit
BY DEF FfdEdge, FfdOut, FfdType, Bit

LEMMA FfdResetType == FfdReset \in FfdType
BY DEF FfdReset, FfdType, Bit

\* A captured value is the old one, or any one of its type.
LEMMA CapturedType ==
    ASSUME NEW Values, NEW old \in Values, NEW new, NEW v \in Captured(old, new, Values)
    PROVE  v \in Values
BY DEF Captured

\* A step of the sender's FSM keeps the sender's registers typed.
LEMMA SenderStepType ==
    ASSUME TypeOK, SenderStep
    PROVE  /\ senState' \in SenStates /\ reqQ' \in Bit
           /\ dataQ' \in Data /\ item' \in Data
           /\ accepted' \in Seq(Data)
<1>1. CASE SenderIdle
  BY <1>1 DEF SenderIdle, TypeOK, Bit
<1>2. ASSUME NEW d \in Data, SenderAccept(d)
      PROVE  /\ senState' \in SenStates /\ reqQ' \in Bit
             /\ dataQ' \in Data /\ item' \in Data
             /\ accepted' \in Seq(Data)
  BY <1>2 DEF SenderAccept, TypeOK, Bit, SenStates
<1>3. ASSUME NEW d \in Data, SenderRequest(d)
      PROVE  /\ senState' \in SenStates /\ reqQ' \in Bit
             /\ dataQ' \in Data /\ item' \in Data
             /\ accepted' \in Seq(Data)
  BY <1>3 DEF SenderRequest, TypeOK, Bit, SenStates
<1>4. CASE SenderRelease
  BY <1>4 DEF SenderRelease, TypeOK, Bit, SenStates
<1> QED
  BY <1>1, <1>2, <1>3, <1>4 DEF SenderStep

\* A step of the receiver's FSM keeps the receiver's registers typed.
LEMMA ReceiverStepType ==
    ASSUME TypeOK, NEW Words, Words \subseteq Data, ReceiverStep(Words)
    PROVE  rcvState' \in RcvStates /\ ackQ' \in Bit /\ delivered' \in Seq(Data)
<1>1. CASE ReceiverIdle
  BY <1>1 DEF ReceiverIdle, TypeOK, Bit
<1>2. ASSUME NEW word \in Words, ReceiverTake(word)
      PROVE  rcvState' \in RcvStates /\ ackQ' \in Bit /\ delivered' \in Seq(Data)
  BY <1>2 DEF ReceiverTake, TypeOK, Bit, RcvStates
<1>3. CASE ReceiverAck
  <2>1. ReqSynced \in Bit
    BY FfdEdgeType DEF ReqSynced, TypeOK, FfdType, Bit, FfdOut
  <2> QED
    BY <1>3, <2>1 DEF ReceiverAck, TypeOK, RcvStates
<1> QED
  BY <1>1, <1>2, <1>3 DEF ReceiverStep

LEMMA TypeInductive == TypeOK /\ [Next]_vars => TypeOK'
<1> SUFFICES ASSUME TypeOK, [Next]_vars PROVE TypeOK'
  OBVIOUS
<1> USE HdsAssumption
<1>1. CASE SenderTick
  <2>1. ackSync' \in FfdType
    BY <1>1, FfdEdgeType DEF SenderTick, TypeOK
  <2> QED
    BY <1>1, <2>1, SenderStepType DEF SenderTick, TypeOK, rcvVars, rstVars
<1>2. CASE ReceiverTick
  <2>1. reqSync' \in FfdType
    BY <1>2, FfdEdgeType DEF ReceiverTick, TypeOK
  <2>2. rcvState' \in RcvStates /\ ackQ' \in Bit /\ delivered' \in Seq(Data)
    <3>1. {dataQ} \subseteq Data
      BY DEF TypeOK
    <3> QED
      BY <1>2, <3>1, ReceiverStepType DEF ReceiverTick
  <2> QED
    BY <1>2, <2>1, <2>2 DEF ReceiverTick, TypeOK, senVars, rstVars
<1>3. CASE BothTick
  <2>1. ackSync' \in FfdType /\ reqSync' \in FfdType
    BY <1>3, FfdEdgeType, CapturedType DEF BothTick, TypeOK
  <2>2. rcvState' \in RcvStates /\ ackQ' \in Bit /\ delivered' \in Seq(Data)
    <3>1. Captured(dataQ, dataQ', Data) \subseteq Data
      BY DEF Captured, TypeOK
    <3> QED
      BY <1>3, <3>1, ReceiverStepType DEF BothTick
  <2> QED
    BY <1>3, <2>1, <2>2, SenderStepType DEF BothTick, TypeOK, rstVars
<1>4. CASE JointReset
  BY <1>4, FfdResetType DEF JointReset, ClearSender, ClearReceiver, TypeOK, Bit,
     SenStates, RcvStates
<1>5. CASE SenderOnlyReset
  BY <1>5, FfdResetType DEF SenderOnlyReset, ClearSender, TypeOK, Bit, SenStates, rcvVars
<1>6. CASE ReceiverOnlyReset
  BY <1>6, FfdResetType DEF ReceiverOnlyReset, ClearReceiver, TypeOK, Bit, RcvStates, senVars
<1>7. CASE ReleaseSender
  BY <1>7 DEF ReleaseSender, TypeOK, Bit, senVars, rcvVars
<1>8. CASE ReleaseReceiver
  BY <1>8 DEF ReleaseReceiver, TypeOK, Bit, senVars, rcvVars
<1>9. CASE UNCHANGED vars
  BY <1>9 DEF vars, senVars, rcvVars, rstVars, TypeOK
<1> QED
  BY <1>1, <1>2, <1>3, <1>4, <1>5, <1>6, <1>7, <1>8, <1>9 DEF Next

\* Both FSMs, both registers and both synchronizers hold values of their types
\* in every reachable state, for every producer and every pattern of resets.
THEOREM TypeCorrect == Spec => []TypeOK
<1>1. Init => TypeOK
  BY HdsAssumption, FfdResetType DEF Init, TypeOK, Bit, SenStates, RcvStates
<1> QED
  BY <1>1, TypeInductive, PTL DEF Spec
-----------------------------------------------------------------------------
(***************************************************************************)
(* The handshake invariant.  A step is looked at by the phase of the       *)
(* transfer it starts in: each phase leaves only a few registers free to   *)
(* move, and Idle, Rising and Falling say which.                           *)
(***************************************************************************)
LEMMA HandshakeInductive ==
    ASSUME HoldData, ~OneSided, TypeOK, HandshakeInv, [Next]_vars
    PROVE  HandshakeInv'
<1> USE DEF HandshakeInv, PhaseInv, DataInv, ResetInv, InFlight, Taken, Quiet,
            Rising, AllOnes, Falling, FfdReset
<1>1. CASE SenderTick
  <2> USE <1>1 DEF SenderTick, rcvVars, rstVars, FfdEdge
  <2>1. CASE SenderIdle
    BY <2>1 DEF SenderIdle
  <2>2. ASSUME NEW d \in Data, SenderAccept(d) PROVE HandshakeInv'
    BY <2>2 DEF SenderAccept
  <2>3. ASSUME NEW d \in Data, SenderRequest(d) PROVE HandshakeInv'
    BY <2>3 DEF SenderRequest, TypeOK, FfdType, Bit, AckSynced, FfdOut, SenStates
  <2>4. CASE SenderRelease
    BY <2>4 DEF SenderRelease, TypeOK, FfdType, Bit, AckSynced, FfdOut, SenStates
  <2> QED
    BY <2>1, <2>2, <2>3, <2>4 DEF SenderStep
<1>2. CASE ReceiverTick
  <2> USE <1>2 DEF ReceiverTick, senVars, rstVars, FfdEdge
  <2>1. CASE ReceiverIdle
    BY <2>1 DEF ReceiverIdle, TypeOK, FfdType, Bit, RcvStates
  <2>2. CASE ReceiverTake(dataQ)
    BY <2>2 DEF ReceiverTake, ORcvValid, ReqSynced, FfdOut, TypeOK, FfdType, Bit
  <2>3. CASE ReceiverAck
    BY <2>3 DEF ReceiverAck, ReqSynced, FfdOut, TypeOK, FfdType, Bit
  <2> QED
    BY <2>1, <2>2, <2>3 DEF ReceiverStep
<1>3. CASE BothTick
  <2>1. PICK a \in Captured(ackQ, ackQ', Bit) : ackSync' = FfdEdge(ackSync, a)
    BY <1>3 DEF BothTick
  <2>2. PICK r \in Captured(reqQ, reqQ', Bit) : reqSync' = FfdEdge(reqSync, r)
    BY <1>3 DEF BothTick
  <2>3. /\ a \in Bit /\ (ackQ' = ackQ => a = ackQ)
        /\ r \in Bit /\ (reqQ' = reqQ => r = reqQ)
    BY DEF Captured, TypeOK
  <2>4. PICK word \in Captured(dataQ, dataQ', Data) :
           ReceiverIdle \/ ReceiverTake(word) \/ ReceiverAck
    BY <1>3 DEF BothTick, ReceiverStep, Captured, TypeOK
  <2>5. dataQ' = dataQ => word = dataQ
    BY DEF Captured
  <2> HIDE DEF Captured
  <2> USE <2>1, <2>2, <2>3, <2>4, <2>5 DEF FfdEdge, ReceiverIdle, ReceiverTake, ReceiverAck,
          ORcvValid, ReqSynced, FfdOut, FfdType, Bit, RcvStates, TypeOK
  <2>6. senRstN' = senRstN /\ rcvRstN' = rcvRstN /\ senRstN = 1 /\ rcvRstN = 1
    BY <1>3 DEF BothTick, rstVars
  <2>7. CASE SenderIdle
    BY <2>6, <2>7 DEF SenderIdle
  <2>8. ASSUME NEW d \in Data, SenderAccept(d) PROVE HandshakeInv'
    BY <2>6, <2>8 DEF SenderAccept
  <2>9. ASSUME NEW d \in Data, SenderRequest(d) PROVE HandshakeInv'
    <3> USE <2>6, <2>9 DEF SenderRequest, AckSynced
    <3>1. CASE reqQ = 0 /\ Quiet
      BY <3>1
    <3>2. CASE Rising /\ ReceiverIdle
      BY <3>2
    <3>3. CASE Rising /\ ReceiverTake(word)
      BY <3>3
    <3>4. CASE Rising /\ ReceiverAck
      BY <3>4
    <3> QED
      BY <3>1, <3>2, <3>3, <3>4
  <2>10. CASE SenderRelease
    BY <2>6, <2>10 DEF SenderRelease, AckSynced
  <2> QED
    BY <1>3, <2>7, <2>8, <2>9, <2>10 DEF BothTick, SenderStep
<1>4. CASE JointReset
  BY <1>4 DEF JointReset, ClearSender, ClearReceiver
<1>5. CASE ReleaseSender
  BY <1>5 DEF ReleaseSender, senVars, rcvVars
<1>6. CASE ReleaseReceiver
  BY <1>6 DEF ReleaseReceiver, senVars, rcvVars
<1>7. CASE UNCHANGED vars
  BY <1>7 DEF vars, senVars, rcvVars, rstVars
<1> QED
  BY <1>1, <1>2, <1>3, <1>4, <1>5, <1>6, <1>7 DEF Next, SenderOnlyReset, ReceiverOnlyReset

\* With a producer that keeps its word and a system-wide reset, the registers
\* of both sides stay in the ring order the protocol relies on.
THEOREM HandshakeInvariant ==
    ASSUME HoldData, ~OneSided
    PROVE  Spec => []HandshakeInv
<1>1. Init => HandshakeInv
  BY DEF Init, HandshakeInv, PhaseInv, DataInv, ResetInv, InFlight, Taken, Quiet, FfdReset
<1>2. TypeOK /\ HandshakeInv /\ [Next]_vars => HandshakeInv'
  BY HandshakeInductive
<1> QED
  BY <1>1, <1>2, TypeCorrect, PTL DEF Spec
-----------------------------------------------------------------------------
(***************************************************************************)
(* The refinement.  Accepting is the channel's Accept, taking is Deliver,  *)
(* a system reset is Forget, and every other step stutters.                *)
(***************************************************************************)
LEMMA HistoryType ==
    ASSUME TypeOK, HandshakeInv, InFlight
    PROVE  /\ accepted = Append(delivered, item)
           /\ Len(accepted) = Len(delivered) + 1
           /\ accepted[Len(accepted)] = item
<1>1. delivered \in Seq(Data) /\ item \in Data
  BY DEF TypeOK
<1>2. accepted = Append(delivered, item)
  BY DEF HandshakeInv, DataInv
<1> QED
  BY <1>1, <1>2

LEMMA AcceptRefines ==
    ASSUME HandshakeInv, NEW d \in Data, SenderAccept(d), delivered' = delivered
    PROVE  Channel!Accept(d)
BY DEF HandshakeInv, DataInv, InFlight, SenderAccept, Channel!Accept

\* What the consumer reads at the edge that takes the word is the word in flight.
LEMMA TakeRefines ==
    ASSUME TypeOK, HandshakeInv, ReceiverTake(item), accepted' = accepted
    PROVE  Channel!Deliver
<1>1. InFlight
  BY DEF HandshakeInv, PhaseInv, InFlight, Quiet, Rising, AllOnes, Falling, Taken,
         ReceiverTake, ORcvValid, ReqSynced, FfdOut, FfdReset, TypeOK, FfdType, Bit
<1> QED
  BY <1>1, HistoryType DEF ReceiverTake, Channel!Deliver

LEMMA StepRefines ==
    ASSUME HoldData, ~OneSided, TypeOK, HandshakeInv, [Next]_vars
    PROVE  [Channel!ChannelNext]_(Channel!ChannelVars)
<1> USE DEF Channel!ChannelNext, Channel!ChannelVars
<1>1. CASE SenderTick
  <2>1. delivered' = delivered
    BY <1>1 DEF SenderTick, rcvVars
  <2>2. CASE \E d \in Data : SenderAccept(d)
    BY <2>1, <2>2, AcceptRefines
  <2>3. CASE ~ \E d \in Data : SenderAccept(d)
    BY <1>1, <2>1, <2>3 DEF SenderTick, SenderStep, SenderIdle, SenderRequest, SenderRelease
  <2> QED
    BY <2>2, <2>3
<1>2. CASE ReceiverTick
  <2>1. accepted' = accepted
    BY <1>2 DEF ReceiverTick, senVars
  <2>2. CASE ReceiverTake(dataQ)
    <3>1. dataQ = item
      BY <2>2 DEF HandshakeInv, DataInv, PhaseInv, Quiet, Rising, AllOnes, Falling, Taken,
             ReceiverTake, ORcvValid, ReqSynced, FfdOut, FfdReset
    <3> QED
      BY <2>1, <2>2, <3>1, TakeRefines
  <2>3. CASE ~ ReceiverTake(dataQ)
    BY <1>2, <2>1, <2>3 DEF ReceiverTick, ReceiverStep, ReceiverIdle, ReceiverAck
  <2> QED
    BY <2>2, <2>3
<1>3. CASE BothTick
  <2>1. PICK word \in Captured(dataQ, dataQ', Data) :
           ReceiverIdle \/ ReceiverTake(word) \/ ReceiverAck
    BY <1>3 DEF BothTick, ReceiverStep, Captured, TypeOK
  <2>2. CASE ReceiverTake(word)
    <3>1. Rising /\ senState = "WAIT_ACK_ASSERT" /\ dataQ = item
      BY <2>2 DEF HandshakeInv, DataInv, PhaseInv, Quiet, AllOnes, Falling, Rising, Taken,
             ReceiverTake, ORcvValid, ReqSynced, FfdOut, FfdReset
    <3>2. accepted' = accepted /\ dataQ' = item
      BY <1>3, <3>1 DEF BothTick, SenderStep, SenderIdle, SenderAccept, SenderRequest, SenderRelease
    <3>3. word = item
      BY <3>1, <3>2 DEF Captured
    <3> QED
      BY <2>2, <3>2, <3>3, TakeRefines
  <2>3. CASE ~ ReceiverTake(word)
    <3>1. delivered' = delivered
      BY <2>1, <2>3 DEF ReceiverIdle, ReceiverAck
    <3>2. CASE \E d \in Data : SenderAccept(d)
      BY <3>1, <3>2, AcceptRefines
    <3>3. CASE ~ \E d \in Data : SenderAccept(d)
      BY <1>3, <3>1, <3>3 DEF BothTick, SenderStep, SenderIdle, SenderRequest, SenderRelease
    <3> QED
      BY <3>2, <3>3
  <2> QED
    BY <2>2, <2>3
<1>4. CASE JointReset
  BY <1>4 DEF JointReset, Channel!Forget
<1>5. CASE ReleaseSender \/ ReleaseReceiver \/ UNCHANGED vars
  BY <1>5 DEF ReleaseSender, ReleaseReceiver, vars, senVars, rcvVars
<1> QED
  BY <1>1, <1>2, <1>3, <1>4, <1>5 DEF Next, SenderOnlyReset, ReceiverOnlyReset

\* The two-clock implementation implements the one-word channel: nothing
\* accepted is lost, repeated, altered or reordered.
THEOREM ChannelRefinement ==
    ASSUME HoldData, ~OneSided
    PROVE  Spec => ImplementsChannel
<1>1. Init => Channel!ChannelInit
  BY DEF Init, Channel!ChannelInit
<1>2. TypeOK /\ HandshakeInv /\ [Next]_vars => [Channel!ChannelNext]_(Channel!ChannelVars)
  BY StepRefines
<1> QED
  BY <1>1, <1>2, TypeCorrect, HandshakeInvariant, PTL
     DEF Spec, ImplementsChannel, Channel!ChannelSpec
-----------------------------------------------------------------------------
(***************************************************************************)
(* The action properties, each from the invariant and one step.            *)
(***************************************************************************)
LEMMA ValidHeldStep ==
    ASSUME HoldData, ~OneSided, TypeOK, HandshakeInv, [Next]_vars,
           ORcvValid, delivered' = delivered, rcvRstN' = 1
    PROVE  ORcvValid'
<1> USE DEF ORcvValid, ReqSynced, FfdOut, FfdEdge
<1>1. senState = "WAIT_ACK_ASSERT" /\ Rising
  BY DEF HandshakeInv, PhaseInv, Quiet, AllOnes, Falling, Rising, Taken, FfdReset
<1>2. reqSync[1] = 1 /\ reqQ = 1 /\ rcvRstN = 1
  BY <1>1 DEF Rising, HandshakeInv, ResetInv, TypeOK, FfdType, Bit, FfdReset
<1>3. CASE SenderTick
  BY <1>3 DEF SenderTick, rcvVars
<1>4. CASE ReceiverTick
  BY <1>2, <1>4 DEF ReceiverTick, ReceiverStep, ReceiverIdle, ReceiverTake, ReceiverAck, TypeOK
<1>5. CASE BothTick
  <2>1. reqQ' = 1
    BY <1>1, <1>5 DEF BothTick, SenderStep, SenderIdle, SenderAccept, SenderRequest, SenderRelease
  <2>2. reqSync' = FfdEdge(reqSync, 1)
    BY <1>2, <1>5, <2>1 DEF BothTick, Captured
  <2>3. rcvState' = "IDLE"
    BY <1>5 DEF BothTick, ReceiverStep, ReceiverIdle, ReceiverTake, ReceiverAck, TypeOK
  <2> QED
    BY <1>2, <2>2, <2>3
<1>6. CASE ReleaseSender \/ ReleaseReceiver \/ UNCHANGED vars
  BY <1>6 DEF ReleaseSender, ReleaseReceiver, vars, rcvVars
<1> QED
  BY <1>3, <1>4, <1>5, <1>6 DEF Next, SenderOnlyReset, ReceiverOnlyReset, JointReset, ClearReceiver

\* A word offered to the consumer is not withdrawn.
THEOREM ValidIsHeld ==
    ASSUME HoldData, ~OneSided
    PROVE  Spec => RcvValidHeld
<1>1. TypeOK /\ HandshakeInv /\ [Next]_vars =>
        [ORcvValid /\ delivered' = delivered /\ rcvRstN' = 1 => ORcvValid']_vars
  BY ValidHeldStep
<1> QED
  BY <1>1, TypeCorrect, HandshakeInvariant, PTL DEF Spec, RcvValidHeld

LEMMA BundledStep ==
    ASSUME HoldData, ~OneSided, TypeOK, HandshakeInv, [Next]_vars,
           dataQ' # dataQ, senRstN' = 1
    PROVE  reqQ = 0 /\ reqSync = FfdReset /\ rcvState = "IDLE"
<1>1. PICK d \in Data : SenderRequest(d)
  BY DEF Next, SenderTick, ReceiverTick, BothTick, JointReset, ClearSender, SenderOnlyReset,
         ReceiverOnlyReset, ReleaseSender, ReleaseReceiver, vars, senVars,
         SenderStep, SenderIdle, SenderAccept, SenderRelease
<1>2. dataQ # item /\ senState = "WAIT_ACK_ASSERT"
  BY <1>1 DEF SenderRequest
<1> QED
  BY <1>2 DEF HandshakeInv, PhaseInv, DataInv, Quiet, Rising, Taken, TypeOK, RcvStates, Bit

\* The unsynchronized data bus moves only while no request is in sight.
THEOREM DataIsBundled ==
    ASSUME HoldData, ~OneSided
    PROVE  Spec => BundledDataStable
<1>1. TypeOK /\ HandshakeInv /\ [Next]_vars =>
        [dataQ' # dataQ /\ senRstN' = 1 =>
           reqQ = 0 /\ reqSync = FfdReset /\ rcvState = "IDLE"]_vars
  BY BundledStep
<1> QED
  BY <1>1, TypeCorrect, HandshakeInvariant, PTL DEF Spec, BundledDataStable

LEMMA FourPhaseStep ==
    ASSUME HoldData, ~OneSided, TypeOK, HandshakeInv, [Next]_vars,
           senRstN' = 1, rcvRstN' = 1
    PROVE  /\ reqQ = 0 /\ reqQ' = 1 => ackQ = 0 /\ ackSync = FfdReset
           /\ ackQ = 0 /\ ackQ' = 1 => reqQ = 1 /\ accepted = delivered
           /\ reqQ = 1 /\ reqQ' = 0 => ackQ = 1 /\ ackSync = <<1, 1>>
           /\ ackQ = 1 /\ ackQ' = 0 => reqQ = 0
<1>1. reqQ' # reqQ => SenderStep
  BY DEF Next, SenderTick, ReceiverTick, BothTick, JointReset, ClearSender, SenderOnlyReset,
         ReceiverOnlyReset, ReleaseSender, ReleaseReceiver, vars, senVars
<1>2. ackQ' # ackQ => \E Words : ReceiverStep(Words)
  BY DEF Next, SenderTick, ReceiverTick, BothTick, JointReset, ClearReceiver, SenderOnlyReset,
         ReceiverOnlyReset, ReleaseSender, ReleaseReceiver, vars, rcvVars
<1>3. ASSUME reqQ = 0, reqQ' = 1 PROVE ackQ = 0 /\ ackSync = FfdReset
  BY <1>1, <1>3 DEF SenderStep, SenderIdle, SenderAccept, SenderRequest, SenderRelease,
         HandshakeInv, PhaseInv, Quiet, Rising
<1>4. ASSUME reqQ = 1, reqQ' = 0 PROVE ackQ = 1 /\ ackSync = <<1, 1>>
  BY <1>1, <1>4 DEF SenderStep, SenderIdle, SenderAccept, SenderRequest, SenderRelease,
         HandshakeInv, PhaseInv, AllOnes, Falling
<1>5. ASSUME ackQ = 0, ackQ' = 1 PROVE reqQ = 1 /\ accepted = delivered
  <2>1. Taken /\ ReqSynced = 1
    BY <1>2, <1>5 DEF ReceiverStep, ReceiverIdle, ReceiverTake, ReceiverAck, Taken
  <2> QED
    BY <1>5, <2>1 DEF HandshakeInv, PhaseInv, DataInv, InFlight, Quiet, Rising, AllOnes,
           Falling, ReqSynced, FfdOut, FfdReset, Taken
<1>6. ASSUME ackQ = 1, ackQ' = 0 PROVE reqQ = 0
  <2>1. ~Taken \/ ReqSynced = 0
    BY <1>2, <1>6 DEF ReceiverStep, ReceiverIdle, ReceiverTake, ReceiverAck, Taken, ORcvValid
  <2> QED
    BY <1>6, <2>1 DEF HandshakeInv, PhaseInv, Quiet, Rising, AllOnes,
           Falling, ReqSynced, FfdOut, FfdReset, Taken
<1> QED
  BY <1>3, <1>4, <1>5, <1>6

\* The two wires return to zero in the order of a four-phase handshake.
THEOREM FourPhases ==
    ASSUME HoldData, ~OneSided
    PROVE  Spec => FourPhaseOrder
<1>1. TypeOK /\ HandshakeInv /\ [Next]_vars =>
        [senRstN' = 1 /\ rcvRstN' = 1 =>
           /\ reqQ = 0 /\ reqQ' = 1 => ackQ = 0 /\ ackSync = FfdReset
           /\ ackQ = 0 /\ ackQ' = 1 => reqQ = 1 /\ accepted = delivered
           /\ reqQ = 1 /\ reqQ' = 0 => ackQ = 1 /\ ackSync = <<1, 1>>
           /\ ackQ = 1 /\ ackQ' = 0 => reqQ = 0]_vars
  BY FourPhaseStep
<1> QED
  BY <1>1, TypeCorrect, HandshakeInvariant, PTL DEF Spec, FourPhaseOrder
-----------------------------------------------------------------------------
(***************************************************************************)
(* The receiver as a source of words for the block behind it.              *)
(***************************************************************************)

\* While a word is on offer the sender waits for ack and drives that word.
LEMMA OfferIsItem ==
    ASSUME TypeOK, HandshakeInv, ORcvValid
    PROVE  /\ senState = "WAIT_ACK_ASSERT" /\ Rising
           /\ dataQ = item
           /\ rcvRstN = 1
BY DEF ORcvValid, ReqSynced, FfdOut, FfdReset, HandshakeInv, PhaseInv, DataInv, ResetInv,
       Quiet, AllOnes, Falling, Rising, Taken, TypeOK, Bit

\* It goes on driving it whatever its producer does.
LEMMA OfferStandsStill ==
    ASSUME HoldData, TypeOK, HandshakeInv, ORcvValid, SenderStep
    PROVE  dataQ' = dataQ
BY OfferIsItem DEF SenderStep, SenderIdle, SenderAccept, SenderRequest, SenderRelease

\* An edge of the receiver at which the consumer takes no word.
LEMMA NoTakeIsSource ==
    ASSUME HoldData, ~OneSided, TypeOK, TypeOK', HandshakeInv, [Next]_vars,
           delivered' = delivered, ORcvValid => dataQ' = dataQ /\ rcvRstN' = 1
    PROVE  [Source!SourceNext]_(Source!SourceVars)
<1> USE DEF Source!SourceNext, Source!SourceVars
<1>1. CASE ORcvValid
  BY <1>1, ValidHeldStep
<1>2. CASE ~ORcvValid /\ ORcvValid'
  BY <1>2 DEF Source!Offer, TypeOK
<1>3. CASE ~ORcvValid /\ ~ORcvValid'
  BY <1>3 DEF ORcvValid, ReqSynced, FfdOut
<1> QED
  BY <1>1, <1>2, <1>3

\* An edge at which it does: the word read is the word that was on offer.
LEMMA TakeIsSource ==
    ASSUME ReceiverTake(dataQ)
    PROVE  Source!SourceNext
BY DEF ReceiverTake, ORcvValid, Source!SourceNext, Source!Take

LEMMA StepIsSource ==
    ASSUME HoldData, ~OneSided, TypeOK, TypeOK', HandshakeInv, [Next]_vars
    PROVE  [Source!SourceNext]_(Source!SourceVars)
<1>1. CASE SenderTick
  BY <1>1, OfferIsItem, OfferStandsStill, NoTakeIsSource DEF SenderTick, rcvVars, rstVars
<1>2. CASE ReceiverTick
  <2>1. dataQ' = dataQ /\ rcvRstN' = rcvRstN
    BY <1>2 DEF ReceiverTick, senVars, rstVars
  <2>2. CASE ReceiverTake(dataQ)
    BY <2>2, TakeIsSource
  <2>3. CASE delivered' = delivered
    BY <2>1, <2>3, OfferIsItem, NoTakeIsSource
  <2> QED
    BY <1>2, <2>2, <2>3 DEF ReceiverTick, ReceiverStep, ReceiverIdle, ReceiverAck
<1>3. CASE BothTick
  <2>1. SenderStep /\ rcvRstN' = rcvRstN
    BY <1>3 DEF BothTick, rstVars
  <2>2. PICK word \in Captured(dataQ, dataQ', Data) :
           ReceiverIdle \/ ReceiverTake(word) \/ ReceiverAck
    BY <1>3 DEF BothTick, ReceiverStep, Captured, TypeOK
  <2>3. CASE ReceiverTake(word)
    <3>1. word = dataQ
      BY <2>1, <2>2, <2>3, OfferStandsStill DEF ReceiverTake, Captured
    <3> QED
      BY <2>3, <3>1, TakeIsSource
  <2>4. CASE delivered' = delivered
    BY <2>1, <2>4, OfferIsItem, OfferStandsStill, NoTakeIsSource
  <2> QED
    BY <2>2, <2>3, <2>4 DEF ReceiverIdle, ReceiverAck
<1>4. CASE JointReset
  BY <1>4 DEF JointReset, ClearReceiver, ORcvValid, ReqSynced, FfdOut, FfdReset,
              Source!SourceNext, Source!Forget
<1>5. CASE ReleaseSender \/ ReleaseReceiver \/ UNCHANGED vars
  BY <1>5 DEF ReleaseSender, ReleaseReceiver, vars, senVars, rcvVars,
              ORcvValid, ReqSynced, FfdOut, Source!SourceVars
<1> QED
  BY <1>1, <1>2, <1>3, <1>4, <1>5 DEF Next, SenderOnlyReset, ReceiverOnlyReset

\* The contract HfTop assumes of i_ready and i_data is kept by the handshake.
THEOREM ReceiverIsWordSource ==
    ASSUME HoldData, ~OneSided
    PROVE  Spec => ImplementsWordSource
<1>1. Init => Source!SourceInit
  BY DEF Init, Source!SourceInit, ORcvValid, ReqSynced, FfdOut, FfdReset
<1>2. TypeOK /\ TypeOK' /\ HandshakeInv /\ [Next]_vars => [Source!SourceNext]_(Source!SourceVars)
  BY StepIsSource
<1> QED
  BY <1>1, <1>2, TypeCorrect, HandshakeInvariant, PTL
     DEF Spec, ImplementsWordSource, Source!SourceSpec
-----------------------------------------------------------------------------
(***************************************************************************)
(* One-sided resets.  A step of one side may only move a rise along its    *)
(* half of the ring, lose it, or turn it into the word it stands for; the  *)
(* three lemmas say so for any value that enters the neighbouring flip-    *)
(* flop, so they compose however the captures of a joint edge resolve.     *)
(***************************************************************************)
LEMMA RiseIsBit ==
    ASSUME NEW near, NEW far
    PROVE  Rise(near, far) \in Bit
BY DEF Rise, Level, Bit

\* Equal levels next to each other are no rise: what a flip-flop has just
\* captured hides nothing.
LEMMA RiseFlat ==
    ASSUME NEW level
    PROVE  Rise(level, level) = 0
BY DEF Rise, Level

\* An edge of the sender, towards the receiver: a new request is paid for by
\* the word accepted with it.
LEMMA SenderRequests ==
    ASSUME TypeOK, SenderStep, NEW x \in Bit
    PROVE  Rise(x, reqQ') + Rise(reqQ', Level(senState' = "WAIT_ACK_ASSERT")) + Len(accepted)
             <= Rise(x, reqQ) + Rise(reqQ, Level(senState = "WAIT_ACK_ASSERT")) + Len(accepted')
<1> USE DEF TypeOK, Bit, SenStates, Rise, Level
<1>1. CASE SenderIdle
  BY <1>1 DEF SenderIdle
<1>2. ASSUME NEW d \in Data, SenderAccept(d)
      PROVE  Len(accepted') = Len(accepted) + 1 /\ senState = "IDLE" /\ reqQ' = 0
  BY <1>2 DEF SenderAccept
<1>3. ASSUME NEW d \in Data, SenderRequest(d)
      PROVE  accepted' = accepted /\ senState = "WAIT_ACK_ASSERT" /\ reqQ' = 1
  BY <1>3 DEF SenderRequest
<1>4. CASE SenderRelease
  BY <1>4 DEF SenderRelease
<1> QED
  BY <1>1, <1>2, <1>3, <1>4 DEF SenderStep

\* An edge of the sender, with `a` captured from ack: every word accepted uses
\* up one acknowledge seen to rise and fall.
LEMMA SenderAcknowledges ==
    ASSUME TypeOK, SenderStep, NEW a \in Bit
    PROVE  Level(senState' # "WAIT_ACK_ASSERT")
             + Rise(Level(senState' = "WAIT_ACK_DEASSERT"), ackSync[1])
             + Rise(ackSync[1], a) + Len(accepted')
           <= Level(senState # "WAIT_ACK_ASSERT")
                + Rise(Level(senState = "WAIT_ACK_DEASSERT"), ackSync[2])
                + Rise(ackSync[2], ackSync[1]) + Rise(ackSync[1], a) + Len(accepted)
<1> USE DEF TypeOK, Bit, FfdType, SenStates, Rise, Level, AckSynced, FfdOut
<1>1. CASE SenderIdle
  BY <1>1 DEF SenderIdle
<1>2. ASSUME NEW d \in Data, SenderAccept(d)
      PROVE  /\ Len(accepted') = Len(accepted) + 1
             /\ senState = "IDLE" /\ senState' = "WAIT_ACK_ASSERT"
  BY <1>2 DEF SenderAccept
<1>3. ASSUME NEW d \in Data, SenderRequest(d)
      PROVE  /\ accepted' = accepted
             /\ senState = "WAIT_ACK_ASSERT"
             /\ senState' = IF ackSync[2] = 1 THEN "WAIT_ACK_DEASSERT" ELSE senState
  BY <1>3 DEF SenderRequest
<1>4. CASE SenderRelease
  BY <1>4 DEF SenderRelease
<1> QED
  BY <1>1, <1>2, <1>3, <1>4 DEF SenderStep

\* An edge of the receiver, with `r` captured from req: every word taken uses
\* up one request seen to rise, and may raise one acknowledge.
LEMMA ReceiverMoves ==
    ASSUME TypeOK, NEW Words, ReceiverStep(Words), NEW r \in Bit, NEW x \in Bit
    PROVE  /\ Rise(Level(Taken'), reqSync[1]) + Rise(reqSync[1], r) + Len(delivered')
                <= Rise(Level(Taken), reqSync[2]) + Rise(reqSync[2], reqSync[1])
                     + Rise(reqSync[1], r) + Len(delivered)
           /\ Rise(x, ackQ') + Rise(ackQ', Level(Taken')) + Len(delivered)
                <= Rise(x, ackQ) + Rise(ackQ, Level(Taken)) + Len(delivered')
<1> USE DEF TypeOK, Bit, FfdType, RcvStates, Taken, Rise, Level, ReqSynced, FfdOut
<1>1. CASE ReceiverIdle
  BY <1>1 DEF ReceiverIdle
<1>2. ASSUME NEW word \in Words, ReceiverTake(word)
      PROVE  /\ Len(delivered') = Len(delivered) + 1
             /\ rcvState = "IDLE" /\ rcvState' = "WAIT_REQ_DEASSERT"
             /\ ackQ' = 0 /\ reqSync[2] = 1
  BY <1>2 DEF ReceiverTake, ORcvValid
<1>3. CASE ReceiverAck
  BY <1>3 DEF ReceiverAck
<1> QED
  BY <1>1, <1>2, <1>3 DEF ReceiverStep

\* The three together: edges of both clocks, whatever each side captures.
LEMMA BothTickSkew ==
    ASSUME TypeOK, TypeOK', SkewInv, BothTick
    PROVE  SkewInv'
<1>1. PICK a \in Captured(ackQ, ackQ', Bit) : ackSync' = FfdEdge(ackSync, a)
  BY DEF BothTick
<1>2. PICK r \in Captured(reqQ, reqQ', Bit) : reqSync' = FfdEdge(reqSync, r)
  BY DEF BothTick
<1>3. /\ a \in Bit /\ (a = ackQ \/ a = ackQ')
      /\ r \in Bit /\ (r = reqQ \/ r = reqQ')
  BY DEF Captured, TypeOK, Bit
<1>4. /\ ackSync'[1] = a /\ ackSync'[2] = ackSync[1]
      /\ reqSync'[1] = r /\ reqSync'[2] = reqSync[1]
  BY <1>1, <1>2 DEF FfdEdge
<1>5. /\ reqQ \in Bit /\ reqQ' \in Bit /\ ackQ \in Bit /\ ackQ' \in Bit
      /\ ackSync[1] \in Bit /\ reqSync[1] \in Bit
      /\ Len(accepted) \in Nat /\ Len(accepted') \in Nat
      /\ Len(delivered) \in Nat /\ Len(delivered') \in Nat /\ resets \in Nat
      /\ resets' = resets
  BY DEF TypeOK, FfdType, BothTick, rstVars
<1>6. SenderStep /\ ReceiverStep(Captured(dataQ, dataQ', Data))
  BY DEF BothTick
<1>7. /\ Level(senState' # "WAIT_ACK_ASSERT") \in Nat
      /\ Level(senState # "WAIT_ACK_ASSERT") \in Nat
      /\ \A u, v : Rise(u, v) \in Nat
  BY RiseIsBit DEF Level, Bit
<1>8. Len(delivered') + Deliverable' <= Len(accepted') + resets'
  <2> DEFINE ap == Len(accepted)
             an == Len(accepted')
             dp == Len(delivered)
             dn == Len(delivered')
             x1 == Rise(Level(Taken'), reqSync[1])
             x2 == Rise(reqSync[1], r)
             x3 == Rise(r, reqQ')
             x4 == Rise(reqQ', Level(senState' = "WAIT_ACK_ASSERT"))
             y1 == Rise(Level(Taken), reqSync[2])
             y2 == Rise(reqSync[2], reqSync[1])
             y3 == Rise(reqSync[1], reqQ)
             y4 == Rise(reqQ, Level(senState = "WAIT_ACK_ASSERT"))
  <2>1. Deliverable' = x1 + x2 + x3 + x4 /\ Deliverable = y1 + y2 + y3 + y4
    BY <1>4 DEF Deliverable
  <2>2. /\ x1 \in Nat /\ x2 \in Nat /\ x3 \in Nat /\ x4 \in Nat
        /\ y1 \in Nat /\ y2 \in Nat /\ y3 \in Nat /\ y4 \in Nat
    BY <1>7
  <2>3. x1 + x2 + dn <= y1 + y2 + x2 + dp
    BY <1>3, <1>5, <1>6, ReceiverMoves
  <2>4. ap \in Nat /\ an \in Nat /\ dp \in Nat /\ dn \in Nat
    BY <1>5
  <2>5. Deliverable \in Nat /\ Deliverable' \in Nat
    BY <2>1, <2>2
  <2>6. CASE r = reqQ
    <3>1. x3 + x4 + ap <= Rise(reqQ, reqQ) + y4 + an
      BY <1>5, <1>6, <2>6, SenderRequests
    <3>2. x2 = y3 /\ Rise(reqQ, reqQ) = 0
      BY <1>5, <2>6, RiseFlat
    <3> HIDE DEF ap, an, dp, dn, x1, x2, x3, x4, y1, y2, y3, y4
    <3>3. x1 + x2 + x3 + x4 + dn + ap <= y1 + y2 + y3 + y4 + dp + an
      BY <2>2, <2>3, <2>4, <3>1, <3>2, SMTT(30)
    <3>4. Deliverable' + dn + ap <= Deliverable + dp + an
      BY <2>1, <2>2, <3>3, SMTT(30)
    <3> QED
      BY <1>5, <2>4, <2>5, <3>4, SMTT(30) DEF SkewInv, ap, an, dp, dn
  <2>7. CASE r = reqQ'
    <3>1. x2 + x4 + ap <= y3 + y4 + an
      BY <1>5, <1>6, <2>7, SenderRequests
    <3>2. x3 = 0
      BY <1>5, <2>7, RiseFlat
    <3> HIDE DEF ap, an, dp, dn, x1, x2, x3, x4, y1, y2, y3, y4
    <3>3. x1 + x2 + x3 + x4 + dn + ap <= y1 + y2 + y3 + y4 + dp + an
      BY <2>2, <2>3, <2>4, <3>1, <3>2, SMTT(30)
    <3>4. Deliverable' + dn + ap <= Deliverable + dp + an
      BY <2>1, <2>2, <3>3, SMTT(30)
    <3> QED
      BY <1>5, <2>4, <2>5, <3>4, SMTT(30) DEF SkewInv, ap, an, dp, dn
  <2> QED
    BY <1>3, <2>6, <2>7
<1>9. Len(accepted') + Acceptable' <= Len(delivered') + 1 + resets'
  <2> DEFINE ap == Len(accepted)
             an == Len(accepted')
             dp == Len(delivered)
             dn == Len(delivered')
             x0 == Level(senState' # "WAIT_ACK_ASSERT")
             x1 == Rise(Level(senState' = "WAIT_ACK_DEASSERT"), ackSync[1])
             x2 == Rise(ackSync[1], a)
             x3 == Rise(a, ackQ')
             x4 == Rise(ackQ', Level(Taken'))
             y0 == Level(senState # "WAIT_ACK_ASSERT")
             y1 == Rise(Level(senState = "WAIT_ACK_DEASSERT"), ackSync[2])
             y2 == Rise(ackSync[2], ackSync[1])
             y3 == Rise(ackSync[1], ackQ)
             y4 == Rise(ackQ, Level(Taken))
  <2>1. Acceptable' = x0 + x1 + x2 + x3 + x4 /\ Acceptable = y0 + y1 + y2 + y3 + y4
    BY <1>4 DEF Acceptable
  <2>2. /\ x0 \in Nat /\ x1 \in Nat /\ x2 \in Nat /\ x3 \in Nat /\ x4 \in Nat
        /\ y0 \in Nat /\ y1 \in Nat /\ y2 \in Nat /\ y3 \in Nat /\ y4 \in Nat
    BY <1>7
  <2>3. x0 + x1 + x2 + an <= y0 + y1 + y2 + x2 + ap
    BY <1>3, <1>6, SenderAcknowledges
  <2>4. ap \in Nat /\ an \in Nat /\ dp \in Nat /\ dn \in Nat
    BY <1>5
  <2>5. Acceptable \in Nat /\ Acceptable' \in Nat
    BY <2>1, <2>2
  <2>6. CASE a = ackQ
    <3>1. x3 + x4 + dp <= Rise(ackQ, ackQ) + y4 + dn
      BY <1>3, <1>5, <1>6, <2>6, ReceiverMoves
    <3>2. x2 = y3 /\ Rise(ackQ, ackQ) = 0
      BY <1>5, <2>6, RiseFlat
    <3> HIDE DEF ap, an, dp, dn, x0, x1, x2, x3, x4, y0, y1, y2, y3, y4
    <3>3. x0 + x1 + x2 + x3 + x4 + an + dp <= y0 + y1 + y2 + y3 + y4 + ap + dn
      BY <2>2, <2>3, <2>4, <3>1, <3>2, SMTT(30)
    <3>4. Acceptable' + an + dp <= Acceptable + ap + dn
      BY <2>1, <2>2, <3>3, SMTT(30)
    <3> QED
      BY <1>5, <2>4, <2>5, <3>4, SMTT(30) DEF SkewInv, ap, an, dp, dn
  <2>7. CASE a = ackQ'
    <3>1. x2 + x4 + dp <= y3 + y4 + dn
      BY <1>3, <1>5, <1>6, <2>7, ReceiverMoves
    <3>2. x3 = 0
      BY <1>5, <2>7, RiseFlat
    <3> HIDE DEF ap, an, dp, dn, x0, x1, x2, x3, x4, y0, y1, y2, y3, y4
    <3>3. x0 + x1 + x2 + x3 + x4 + an + dp <= y0 + y1 + y2 + y3 + y4 + ap + dn
      BY <2>2, <2>3, <2>4, <3>1, <3>2, SMTT(30)
    <3>4. Acceptable' + an + dp <= Acceptable + ap + dn
      BY <2>1, <2>2, <3>3, SMTT(30)
    <3> QED
      BY <1>5, <2>4, <2>5, <3>4, SMTT(30) DEF SkewInv, ap, an, dp, dn
  <2> QED
    BY <1>3, <2>6, <2>7
<1> QED
  BY <1>8, <1>9 DEF SkewInv

\* Every other step: an edge of one clock, a reset of either side or of both.
\* A one-sided reset clears one end of each half of the ring, which can add
\* one rise to each half and no more.
LEMMA SkewInductive ==
    ASSUME TypeOK, TypeOK', SkewInv, [Next]_vars
    PROVE  SkewInv'
<1>1. /\ reqQ \in Bit /\ reqQ' \in Bit /\ ackQ \in Bit /\ ackQ' \in Bit
      /\ ackSync[1] \in Bit /\ ackSync[2] \in Bit
      /\ reqSync[1] \in Bit /\ reqSync[2] \in Bit
      /\ Len(accepted) \in Nat /\ Len(accepted') \in Nat
      /\ Len(delivered) \in Nat /\ Len(delivered') \in Nat /\ resets \in Nat
  BY DEF TypeOK, FfdType
<1>2. /\ Level(senState # "WAIT_ACK_ASSERT") \in Nat
      /\ Level(senState' # "WAIT_ACK_ASSERT") \in Nat
      /\ \A u, v : Rise(u, v) \in Nat
      /\ Deliverable \in Nat /\ Deliverable' \in Nat
      /\ Acceptable \in Nat /\ Acceptable' \in Nat
  BY DEF Level, Rise, Deliverable, Acceptable
<1>3. CASE SenderTick
  <2>1. /\ ackSync'[1] = ackQ /\ ackSync'[2] = ackSync[1]
        /\ reqSync' = reqSync /\ ackQ' = ackQ /\ Taken' = Taken
        /\ delivered' = delivered /\ resets' = resets
        /\ SenderStep
    BY <1>3 DEF SenderTick, rcvVars, rstVars, Taken, FfdEdge
  <2>2. Deliverable' + Len(accepted) <= Deliverable + Len(accepted')
    <3> DEFINE s == Rise(Level(Taken), reqSync[2]) + Rise(reqSync[2], reqSync[1])
               x3 == Rise(reqSync[1], reqQ')
               x4 == Rise(reqQ', Level(senState' = "WAIT_ACK_ASSERT"))
               y3 == Rise(reqSync[1], reqQ)
               y4 == Rise(reqQ, Level(senState = "WAIT_ACK_ASSERT"))
    <3>1. Deliverable' = s + x3 + x4 /\ Deliverable = s + y3 + y4
      BY <2>1 DEF Deliverable
    <3>2. s \in Nat /\ x3 \in Nat /\ x4 \in Nat /\ y3 \in Nat /\ y4 \in Nat
      BY <1>2
    <3>3. x3 + x4 + Len(accepted) <= y3 + y4 + Len(accepted')
      BY <1>1, <2>1, SenderRequests
    <3> HIDE DEF s, x3, x4, y3, y4
    <3> QED
      BY <1>1, <3>1, <3>2, <3>3
  <2>3. Acceptable' + Len(accepted') <= Acceptable + Len(accepted)
    <3> DEFINE x == Level(senState' # "WAIT_ACK_ASSERT")
                      + Rise(Level(senState' = "WAIT_ACK_DEASSERT"), ackSync[1])
                      + Rise(ackSync[1], ackQ)
               y == Level(senState # "WAIT_ACK_ASSERT")
                      + Rise(Level(senState = "WAIT_ACK_DEASSERT"), ackSync[2])
                      + Rise(ackSync[2], ackSync[1]) + Rise(ackSync[1], ackQ)
               s == Rise(ackQ, Level(Taken))
    <3>1. Acceptable' = x + Rise(ackQ, ackQ) + s /\ Acceptable = y + s
      BY <2>1 DEF Acceptable
    <3>2. x \in Nat /\ y \in Nat /\ s \in Nat /\ Rise(ackQ, ackQ) = 0
      BY <1>1, <1>2, RiseFlat
    <3>3. x + Len(accepted') <= y + Len(accepted)
      BY <1>1, <2>1, SenderAcknowledges
    <3> HIDE DEF x, y, s
    <3> QED
      BY <1>1, <3>1, <3>2, <3>3
  <2> QED
    BY <1>1, <1>2, <2>1, <2>2, <2>3 DEF SkewInv
<1>4. CASE ReceiverTick
  <2>1. /\ reqSync'[1] = reqQ /\ reqSync'[2] = reqSync[1]
        /\ ackSync' = ackSync /\ reqQ' = reqQ /\ senState' = senState
        /\ accepted' = accepted /\ resets' = resets
        /\ ReceiverStep({dataQ})
    BY <1>4 DEF ReceiverTick, senVars, rstVars, FfdEdge
  <2>2. Deliverable' + Len(delivered') <= Deliverable + Len(delivered)
    <3> DEFINE x == Rise(Level(Taken'), reqSync[1]) + Rise(reqSync[1], reqQ)
               y == Rise(Level(Taken), reqSync[2]) + Rise(reqSync[2], reqSync[1])
                      + Rise(reqSync[1], reqQ)
               s == Rise(reqQ, Level(senState = "WAIT_ACK_ASSERT"))
    <3>1. Deliverable' = x + Rise(reqQ, reqQ) + s /\ Deliverable = y + s
      BY <2>1 DEF Deliverable
    <3>2. x \in Nat /\ y \in Nat /\ s \in Nat /\ Rise(reqQ, reqQ) = 0
      BY <1>1, <1>2, RiseFlat
    <3>3. x + Len(delivered') <= y + Len(delivered)
      BY <1>1, <2>1, ReceiverMoves
    <3> HIDE DEF x, y, s
    <3> QED
      BY <1>1, <3>1, <3>2, <3>3
  <2>3. Acceptable' + Len(delivered) <= Acceptable + Len(delivered')
    <3> DEFINE s == Level(senState # "WAIT_ACK_ASSERT")
                      + Rise(Level(senState = "WAIT_ACK_DEASSERT"), ackSync[2])
                      + Rise(ackSync[2], ackSync[1])
               x3 == Rise(ackSync[1], ackQ')
               x4 == Rise(ackQ', Level(Taken'))
               y3 == Rise(ackSync[1], ackQ)
               y4 == Rise(ackQ, Level(Taken))
    <3>1. Acceptable' = s + x3 + x4 /\ Acceptable = s + y3 + y4
      BY <2>1 DEF Acceptable
    <3>2. s \in Nat /\ x3 \in Nat /\ x4 \in Nat /\ y3 \in Nat /\ y4 \in Nat
      BY <1>2
    <3>3. x3 + x4 + Len(delivered) <= y3 + y4 + Len(delivered')
      BY <1>1, <2>1, ReceiverMoves
    <3> HIDE DEF s, x3, x4, y3, y4
    <3> QED
      BY <1>1, <3>1, <3>2, <3>3
  <2> QED
    BY <1>1, <1>2, <2>1, <2>2, <2>3 DEF SkewInv
<1>5. CASE BothTick
  BY <1>5, BothTickSkew
<1>6. CASE JointReset
  BY <1>6 DEF JointReset, ClearSender, ClearReceiver, SkewInv, Deliverable, Acceptable,
              Level, Rise, Taken, FfdReset
<1>7. CASE SenderOnlyReset
  <2>1. /\ senState' = "IDLE" /\ reqQ' = 0 /\ ackSync' = <<0, 0>>
        /\ UNCHANGED <<accepted, delivered, rcvState, ackQ, reqSync>>
        /\ resets' = resets + 1
    BY <1>7 DEF SenderOnlyReset, ClearSender, rcvVars, FfdReset
  <2>2. Deliverable' <= Deliverable + 1
    BY <1>1, <2>1 DEF Deliverable, Level, Rise, Taken, Bit
  <2>3. Acceptable' <= Acceptable + 1
    BY <1>1, <2>1 DEF Acceptable, Level, Rise, Taken, Bit
  <2> QED
    BY <1>1, <1>2, <2>1, <2>2, <2>3 DEF SkewInv
<1>8. CASE ReceiverOnlyReset
  <2>1. /\ rcvState' = "IDLE" /\ ackQ' = 0 /\ reqSync' = <<0, 0>>
        /\ UNCHANGED <<accepted, delivered, senState, reqQ, ackSync>>
        /\ resets' = resets + 1
    BY <1>8 DEF ReceiverOnlyReset, ClearReceiver, senVars, FfdReset
  <2>2. Deliverable' <= Deliverable + 1
    BY <1>1, <2>1 DEF Deliverable, Level, Rise, Taken, Bit
  <2>3. Acceptable' <= Acceptable + 1
    BY <1>1, <2>1 DEF Acceptable, Level, Rise, Taken, Bit
  <2> QED
    BY <1>1, <1>2, <2>1, <2>2, <2>3 DEF SkewInv
<1>9. CASE ReleaseSender \/ ReleaseReceiver \/ UNCHANGED vars
  <2>1. UNCHANGED <<senState, reqQ, ackSync, rcvState, ackQ, reqSync,
                    accepted, delivered, resets>>
    BY <1>9 DEF ReleaseSender, ReleaseReceiver, vars, senVars, rcvVars, rstVars
  <2> QED
    BY <2>1 DEF SkewInv, Deliverable, Acceptable, Taken
<1> QED
  BY <1>3, <1>4, <1>5, <1>6, <1>7, <1>8, <1>9 DEF Next

\* However the two reset inputs fall, a reset of one side alone costs at most
\* one word or repeats at most one: the stale half of the handshake is absorbed
\* by the flip-flops and FSMs of the other side, never accumulated.
THEOREM ResetsSkewByOne == Spec => []ResetSkew
<1>1. Init => SkewInv
  BY DEF Init, SkewInv, Deliverable, Acceptable, Level, Rise, Taken, FfdReset
<1>2. TypeOK /\ TypeOK' /\ SkewInv /\ [Next]_vars => SkewInv'
  BY SkewInductive
<1>3. TypeOK /\ SkewInv => ResetSkew
  <2> SUFFICES ASSUME TypeOK, SkewInv PROVE ResetSkew
    OBVIOUS
  <2>1. /\ Len(accepted) \in Nat /\ Len(delivered) \in Nat /\ resets \in Nat
        /\ Deliverable \in Nat /\ Acceptable \in Nat
    BY DEF TypeOK, Deliverable, Acceptable, Level, Rise
  <2> QED
    BY <2>1 DEF SkewInv, ResetSkew
<1> QED
  BY <1>1, <1>2, <1>3, TypeCorrect, PTL DEF Spec
-----------------------------------------------------------------------------
(***************************************************************************)
(* A transfer advances.                                                    *)
(***************************************************************************)
\* The ring as seven bits and, while a transfer is under way, what the phases
\* say of them.
LEMMA RingBits ==
    ASSUME TypeOK
    PROVE  /\ reqQ \in Bit /\ ackQ \in Bit /\ Level(Taken) \in Bit
           /\ reqSync[1] \in Bit /\ reqSync[2] \in Bit /\ reqSync = <<reqSync[1], reqSync[2]>>
           /\ ackSync[1] \in Bit /\ ackSync[2] \in Bit /\ ackSync = <<ackSync[1], ackSync[2]>>
           /\ Ones \in 0 .. 7
<1>1. /\ reqQ \in Bit /\ ackQ \in Bit /\ Level(Taken) \in Bit
      /\ reqSync[1] \in Bit /\ reqSync[2] \in Bit /\ reqSync = <<reqSync[1], reqSync[2]>>
      /\ ackSync[1] \in Bit /\ ackSync[2] \in Bit /\ ackSync = <<ackSync[1], ackSync[2]>>
  BY DEF TypeOK, FfdType, Level, Bit
<1>2. Ones \in 0 .. 7
  BY <1>1 DEF Ones, Bit
<1> QED
  BY <1>1, <1>2

\* Each bit lies between its neighbours: at least its successor while the ones
\* advance, at most while the zeros do.
UpTo(a, b) == b = 1 => a = 1

Ascending ==
    /\ senState = "WAIT_ACK_ASSERT"
    /\ UpTo(reqQ, reqSync[1]) /\ UpTo(reqSync[1], reqSync[2])
    /\ UpTo(reqSync[2], Level(Taken)) /\ UpTo(Level(Taken), ackQ)
    /\ UpTo(ackQ, ackSync[1]) /\ UpTo(ackSync[1], ackSync[2])

Descending ==
    /\ senState = "WAIT_ACK_DEASSERT"
    /\ UpTo(reqSync[1], reqQ) /\ UpTo(reqSync[2], reqSync[1])
    /\ UpTo(Level(Taken), reqSync[2]) /\ ackQ = Level(Taken)
    /\ UpTo(ackSync[1], ackQ) /\ UpTo(ackSync[2], ackSync[1])

LEMMA RingOrder ==
    ASSUME TypeOK, HandshakeInv, senState # "IDLE"
    PROVE  Ascending \/ Descending
<1>1. /\ reqQ \in {0, 1} /\ ackQ \in {0, 1} /\ Level(Taken) \in {0, 1}
      /\ reqSync[1] \in {0, 1} /\ reqSync[2] \in {0, 1}
      /\ ackSync[1] \in {0, 1} /\ ackSync[2] \in {0, 1}
      /\ Level(Taken) = 1 <=> Taken
  BY RingBits DEF Bit, Level
<1>2. FfdReset[1] = 0 /\ FfdReset[2] = 0
  BY DEF FfdReset
<1>3. CASE senState = "WAIT_ACK_ASSERT" /\ reqQ = 0 /\ Quiet
  BY <1>1, <1>2, <1>3 DEF Quiet, Ascending, UpTo
<1>4. CASE senState = "WAIT_ACK_ASSERT" /\ Rising
  BY <1>1, <1>4 DEF Rising, Ascending, UpTo
<1>5. CASE senState = "WAIT_ACK_DEASSERT" /\ AllOnes
  BY <1>1, <1>5 DEF AllOnes, Descending, UpTo
<1>6. CASE senState = "WAIT_ACK_DEASSERT" /\ Falling
  BY <1>1, <1>2, <1>6 DEF Falling, Descending, UpTo
<1> QED
  BY <1>3, <1>4, <1>5, <1>6 DEF HandshakeInv, PhaseInv

\* One side or the other has something to change.
LEMMA NeverBothWait ==
    ASSUME TypeOK, senState # "IDLE"
    PROVE  SenderDue \/ ReceiverDue
<1>1. senState = "WAIT_ACK_ASSERT" \/ senState = "WAIT_ACK_DEASSERT"
  BY DEF TypeOK, SenStates
<1> QED
  BY <1>1, RingBits DEF SenderDue, ReceiverDue, Level, Bit

\* What an edge of the sender does during a transfer, given what it captures.
SenderMove(a) ==
    /\ reqQ' = Level(senState = "WAIT_ACK_ASSERT")
    /\ ackSync'[1] = a /\ ackSync'[2] = ackSync[1]
    /\ senState' = IF senState = "WAIT_ACK_ASSERT"
                   THEN IF ackSync[2] = 1 THEN "WAIT_ACK_DEASSERT" ELSE "WAIT_ACK_ASSERT"
                   ELSE IF ackSync[2] = 0 THEN "IDLE" ELSE "WAIT_ACK_DEASSERT"

LEMMA SenderMoves ==
    ASSUME TypeOK, senState # "IDLE", SenderStep, NEW a \in Bit, ackSync' = FfdEdge(ackSync, a)
    PROVE  SenderMove(a)
<1>1. senState = "WAIT_ACK_ASSERT" \/ senState = "WAIT_ACK_DEASSERT"
  BY DEF TypeOK, SenStates
<1>2. ackSync'[1] = a /\ ackSync'[2] = ackSync[1] /\ AckSynced = ackSync[2] /\ ackSync[2] \in {0, 1}
  BY RingBits DEF FfdEdge, AckSynced, FfdOut, Bit
<1>3. CASE \E d \in Data : SenderRequest(d)
  BY <1>2, <1>3 DEF SenderRequest, SenderMove, Level
<1>4. CASE SenderRelease
  BY <1>2, <1>4 DEF SenderRelease, SenderMove, Level
<1> QED
  BY <1>3, <1>4 DEF SenderStep, SenderIdle, SenderAccept

\* The same of the receiver; in IDLE the consumer decides.
ReceiverMove(r) ==
    /\ reqSync'[1] = r /\ reqSync'[2] = reqSync[1]
    /\ IF Taken
       THEN ackQ' = reqSync[2] /\ Level(Taken') = reqSync[2]
       ELSE ackQ' = 0 /\ (Level(Taken') = reqSync[2]
                          \/ (Level(Taken') = 0 /\ ORcvValid /\ delivered' = delivered))

LEMMA ReceiverMovesOn ==
    ASSUME TypeOK, NEW Words, ReceiverStep(Words), NEW r \in Bit, reqSync' = FfdEdge(reqSync, r)
    PROVE  ReceiverMove(r)
<1>1. /\ reqSync'[1] = r /\ reqSync'[2] = reqSync[1] /\ ReqSynced = reqSync[2]
      /\ reqSync[2] \in {0, 1}
  BY RingBits DEF FfdEdge, ReqSynced, FfdOut, Bit
<1>2. CASE ReceiverIdle
  <2>1. ~Taken /\ ~Taken' /\ rcvState = "IDLE" /\ ackQ' = 0 /\ delivered' = delivered
    BY <1>2 DEF ReceiverIdle, Taken
  <2>2. Level(Taken') = 0
    BY <2>1 DEF Level
  <2>3. reqSync[2] = 1 => ORcvValid
    BY <1>1, <2>1 DEF ORcvValid
  <2>4. reqSync[2] = 0 \/ reqSync[2] = 1
    BY <1>1
  <2> QED
    BY <1>1, <2>1, <2>2, <2>3, <2>4, Zenon DEF ReceiverMove
<1>3. CASE \E word \in Words : ReceiverTake(word)
  <2>1. ~Taken /\ Taken' /\ ackQ' = 0 /\ ReqSynced = 1
    BY <1>3 DEF ReceiverTake, ORcvValid, Taken
  <2>2. Level(Taken') = 1
    BY <2>1 DEF Level
  <2>3. reqSync[2] = 1
    BY <1>1, <2>1
  <2> QED
    BY <1>1, <2>1, <2>2, <2>3, Zenon DEF ReceiverMove
<1>4. CASE ReceiverAck
  BY <1>1, <1>4 DEF ReceiverAck, ReceiverMove, Level, Taken
<1> QED
  BY <1>2, <1>3, <1>4 DEF ReceiverStep

\* The measure by phases.
LEMMA Measure ==
    ASSUME TypeOK
    PROVE  /\ senState = "WAIT_ACK_ASSERT" => StepsLeft = 16 - Ones
           /\ senState = "WAIT_ACK_DEASSERT" => StepsLeft = 1 + Ones
           /\ senState = "IDLE" => StepsLeft = 0
BY DEF StepsLeft

LEMMA SenderTickAdvances ==
    ASSUME TypeOK, TypeOK', HandshakeInv, senState # "IDLE", SenderTick
    PROVE  StepsLeft' <= StepsLeft /\ (SenderDue => StepsLeft' < StepsLeft)
<1>1. SenderMove(ackQ)
  BY SenderMoves, RingBits DEF SenderTick
<1>2. reqSync' = reqSync /\ ackQ' = ackQ /\ (Taken' = Taken)
  BY DEF SenderTick, rcvVars, Taken
<1>3. Level(Taken)' = Level(Taken)
  BY <1>2 DEF Level
<1>4. Ones' = reqQ' + reqSync[1] + reqSync[2] + Level(Taken) + ackQ + ackQ + ackSync[1]
  BY <1>1, <1>2, <1>3 DEF Ones, SenderMove
<1>5. /\ senState' = "WAIT_ACK_ASSERT" => StepsLeft' = 16 - Ones'
      /\ senState' = "WAIT_ACK_DEASSERT" => StepsLeft' = 1 + Ones'
      /\ senState' = "IDLE" => StepsLeft' = 0
  BY DEF StepsLeft
<1>6. CASE Ascending
  <2>1. reqQ' = 1 /\ StepsLeft = 16 - Ones
    BY <1>1, <1>6, Measure DEF SenderMove, Ascending, Level
  <2>2. CASE ackSync[2] = 1
    <3>1. /\ StepsLeft' = 1 + Ones'
          /\ reqQ = 1 /\ reqSync[1] = 1 /\ reqSync[2] = 1 /\ Level(Taken) = 1
          /\ ackQ = 1 /\ ackSync[1] = 1
      BY <1>1, <1>5, <1>6, <2>2 DEF SenderMove, Ascending, UpTo
    <3> QED
      BY <1>4, <2>1, <2>2, <3>1 DEF Ones
  <2>3. CASE ackSync[2] = 0
    <3>1. StepsLeft' = 16 - Ones'
      BY <1>1, <1>5, <1>6, <2>3 DEF SenderMove, Ascending
    <3>2. SenderDue => reqQ # 1 \/ ackSync[1] # ackQ \/ ackQ # 0
      BY <1>6, <2>3, RingBits DEF SenderDue, Ascending, Level
    <3> QED
      BY <1>4, <1>6, <2>1, <2>3, <3>1, <3>2, RingBits DEF Ones, Ascending, UpTo, Bit
  <2> QED
    BY <2>2, <2>3, RingBits DEF Bit
<1>7. CASE Descending
  <2>1. reqQ' = 0 /\ StepsLeft = 1 + Ones /\ Ones \in 0 .. 7
    BY <1>1, <1>7, Measure, RingBits DEF SenderMove, Descending, Level
  <2>2. CASE ackSync[2] = 0
    <3>1. StepsLeft' = 0
      BY <1>1, <1>5, <1>7, <2>2 DEF SenderMove, Descending
    <3> QED
      BY <2>1, <3>1
  <2>3. CASE ackSync[2] = 1
    <3>1. StepsLeft' = 1 + Ones'
      BY <1>1, <1>5, <1>7, <2>3 DEF SenderMove, Descending
    <3>2. SenderDue => reqQ # 0 \/ ackSync[1] # ackQ \/ ackQ # 1
      BY <1>7, <2>3, RingBits DEF SenderDue, Descending, Level
    <3> QED
      BY <1>4, <1>7, <2>1, <2>3, <3>1, <3>2, RingBits DEF Ones, Descending, UpTo, Bit
  <2> QED
    BY <2>2, <2>3, RingBits DEF Bit
<1> QED
  BY <1>6, <1>7, RingOrder

LEMMA ReceiverTickAdvances ==
    ASSUME TypeOK, TypeOK', HandshakeInv, senState # "IDLE", ReceiverTick
    PROVE  /\ StepsLeft' <= StepsLeft
           /\ ReceiverDue => StepsLeft' < StepsLeft \/ (ORcvValid /\ delivered' = delivered)
<1>1. ReceiverMove(reqQ)
  BY ReceiverMovesOn, RingBits DEF ReceiverTick
<1>2. ackSync' = ackSync /\ reqQ' = reqQ /\ senState' = senState
  BY DEF ReceiverTick, senVars
<1> DEFINE t == Level(Taken)'
<1>3. t \in Bit /\ t = Level(Taken')
  BY RingBits DEF Level, Bit
<1>4. Ones' = reqQ + reqQ + reqSync[1] + t + ackQ' + ackSync[1] + ackSync[2]
  BY <1>1, <1>2 DEF Ones, ReceiverMove
<1>5. /\ senState = "WAIT_ACK_ASSERT" => StepsLeft' = 16 - Ones' /\ StepsLeft = 16 - Ones
      /\ senState = "WAIT_ACK_DEASSERT" => StepsLeft' = 1 + Ones' /\ StepsLeft = 1 + Ones
  BY <1>2 DEF StepsLeft
<1>6. Level(Taken) = 1 <=> Taken
  BY DEF Level
<1> HIDE DEF t
<1>7. CASE Ascending
  <2>1. ReceiverDue => \/ reqSync[1] # reqQ \/ reqSync[2] # reqQ
                       \/ ackQ # Level(Taken) \/ Level(Taken) # reqSync[2]
    BY RingBits DEF ReceiverDue
  <2>2. CASE Taken
    <3>1. ackQ' = reqSync[2] /\ t = reqSync[2] /\ Level(Taken) = 1
      BY <1>1, <1>3, <1>6, <2>2, Zenon DEF ReceiverMove
    <3>2. StepsLeft' <= StepsLeft /\ (StepsLeft' < StepsLeft \/ ~ReceiverDue)
      BY <1>4, <1>5, <1>7, <2>1, <3>1, RingBits DEF Ones, Ascending, UpTo, Bit
    <3> QED
      BY <3>2
  <2>3. CASE ~Taken /\ t = reqSync[2]
    BY <1>1, <1>3, <1>4, <1>5, <1>6, <1>7, <2>1, <2>3, RingBits
       DEF ReceiverMove, Ones, Ascending, UpTo, Bit
  <2>4. CASE ~Taken /\ t = 0 /\ ORcvValid /\ delivered' = delivered
    BY <1>1, <1>3, <1>4, <1>5, <1>6, <1>7, <2>4, RingBits
       DEF ReceiverMove, Ones, Ascending, UpTo, Bit
  <2> QED
    BY <1>1, <1>3, <2>2, <2>3, <2>4 DEF ReceiverMove
<1>8. CASE Descending
  <2>1. ReceiverDue => \/ reqSync[1] # reqQ \/ reqSync[2] # reqQ
                       \/ ackQ # Level(Taken) \/ Level(Taken) # reqSync[2]
    BY RingBits DEF ReceiverDue
  <2>2. CASE Taken
    <3>1. ackQ' = reqSync[2] /\ t = reqSync[2] /\ Level(Taken) = 1
      BY <1>1, <1>3, <1>6, <2>2, Zenon DEF ReceiverMove
    <3>2. StepsLeft' <= StepsLeft /\ (StepsLeft' < StepsLeft \/ ~ReceiverDue)
      BY <1>4, <1>5, <1>8, <2>1, <3>1, RingBits DEF Ones, Descending, UpTo, Bit
    <3> QED
      BY <3>2
  <2>3. CASE ~Taken /\ t = reqSync[2]
    BY <1>1, <1>3, <1>4, <1>5, <1>6, <1>8, <2>1, <2>3, RingBits
       DEF ReceiverMove, Ones, Descending, UpTo, Bit
  <2>4. CASE ~Taken /\ t = 0 /\ ORcvValid /\ delivered' = delivered
    BY <1>1, <1>3, <1>4, <1>5, <1>6, <1>8, <2>4, RingBits
       DEF ReceiverMove, Ones, Descending, UpTo, Bit
  <2> QED
    BY <1>1, <1>3, <2>2, <2>3, <2>4 DEF ReceiverMove
<1> QED
  BY <1>7, <1>8, RingOrder

LEMMA BothTickAdvances ==
    ASSUME TypeOK, TypeOK', HandshakeInv, senState # "IDLE", BothTick
    PROVE  /\ StepsLeft' <= StepsLeft
           /\ SenderDue => StepsLeft' < StepsLeft
           /\ ReceiverDue => StepsLeft' < StepsLeft \/ (ORcvValid /\ delivered' = delivered)
<1>a. PICK a \in Captured(ackQ, ackQ', Bit) : ackSync' = FfdEdge(ackSync, a)
  BY DEF BothTick
<1>b. PICK r \in Captured(reqQ, reqQ', Bit) : reqSync' = FfdEdge(reqSync, r)
  BY DEF BothTick
<1>3. /\ a \in Bit /\ (ackQ' = ackQ => a = ackQ)
      /\ r \in Bit /\ (reqQ' = reqQ => r = reqQ)
  BY RingBits DEF Captured
<1>1. SenderMove(a)
  BY <1>a, <1>3, SenderMoves DEF BothTick
<1>2. ReceiverMove(r)
  BY <1>b, <1>3, ReceiverMovesOn DEF BothTick
<1> DEFINE t == Level(Taken)'
<1>4. t \in Bit /\ t = Level(Taken')
  BY RingBits DEF Level, Bit
<1>5. Ones' = reqQ' + r + reqSync[1] + t + ackQ' + a + ackSync[1] /\ ackQ' \in Bit /\ reqQ' \in Bit
  BY <1>1, <1>2 DEF Ones, ReceiverMove, SenderMove, TypeOK
<1>6. /\ senState' = "WAIT_ACK_ASSERT" => StepsLeft' = 16 - Ones'
      /\ senState' = "WAIT_ACK_DEASSERT" => StepsLeft' = 1 + Ones'
      /\ senState' = "IDLE" => StepsLeft' = 0
  BY DEF StepsLeft
<1>7. Level(Taken) = 1 <=> Taken
  BY DEF Level
<1> HIDE DEF t
<1>8. CASE Ascending
  <2>1. StepsLeft = 16 - Ones /\ reqQ' = 1
    BY <1>1, <1>8, Measure DEF SenderMove, Ascending, Level
  <2>2. CASE ackSync[2] = 1
    <3>1. /\ reqQ = 1 /\ reqSync[1] = 1 /\ reqSync[2] = 1 /\ Level(Taken) = 1
          /\ ackQ = 1 /\ ackSync[1] = 1
      BY <1>8, <2>2 DEF Ascending, UpTo
    <3>2. ackQ' = 1 /\ t = 1 /\ r = 1
      BY <1>2, <1>3, <1>4, <1>7, <2>1, <3>1, Zenon DEF ReceiverMove
    <3>3. a = 1 /\ Ones' = 7 /\ Ones = 7
      BY <1>3, <1>5, <2>1, <2>2, <3>1, <3>2 DEF Ones
    <3>4. StepsLeft' = 1 + Ones'
      BY <1>1, <1>6, <1>8, <2>2 DEF SenderMove, Ascending
    <3> QED
      BY <2>1, <3>3, <3>4
  <2>3. CASE ackSync[2] = 0
    <3>1. StepsLeft' = 16 - Ones'
      BY <1>1, <1>6, <1>8, <2>3 DEF SenderMove, Ascending
    <3>2. SenderDue => reqQ # 1 \/ ackSync[1] # ackQ \/ ackQ # 0
      BY <1>8, <2>3, RingBits DEF SenderDue, Ascending, Level
    <3>3. ReceiverDue => \/ reqSync[1] # reqQ \/ reqSync[2] # reqQ
                         \/ ackQ # Level(Taken) \/ Level(Taken) # reqSync[2]
      BY RingBits DEF ReceiverDue
    <3>4. CASE Taken
      <4>1. ackQ' = reqSync[2] /\ t = reqSync[2] /\ Level(Taken) = 1
        BY <1>2, <1>4, <1>7, <3>4, Zenon DEF ReceiverMove
      <4> QED
        BY <1>3, <1>5, <1>8, <2>1, <2>3, <3>1, <3>2, <3>3, <4>1, RingBits DEF Ones, Ascending, UpTo, Bit
    <3>5. CASE ~Taken /\ t = reqSync[2]
      <4>1. ackQ' = 0 /\ Level(Taken) = 0
        BY <1>2, <3>5 DEF ReceiverMove, Level
      <4> QED
        BY <1>3, <1>5, <1>8, <2>1, <2>3, <3>1, <3>2, <3>3, <3>5, <4>1, RingBits DEF Ones, Ascending, UpTo, Bit
    <3>6. CASE ~Taken /\ t = 0 /\ ORcvValid /\ delivered' = delivered
      <4>1. ackQ' = 0 /\ Level(Taken) = 0
        BY <1>2, <3>6 DEF ReceiverMove, Level
      <4>2. StepsLeft' <= StepsLeft /\ (SenderDue => StepsLeft' < StepsLeft)
        BY <1>3, <1>5, <1>8, <2>1, <2>3, <3>1, <3>2, <3>6, <4>1, RingBits DEF Ones, Ascending, UpTo, Bit
      <4> QED
        BY <3>6, <4>2
    <3> QED
      BY <1>2, <1>4, <3>4, <3>5, <3>6 DEF ReceiverMove
  <2> QED
    BY <2>2, <2>3, RingBits DEF Bit
<1>9. CASE Descending
  <2>1. StepsLeft = 1 + Ones /\ reqQ' = 0
    BY <1>1, <1>9, Measure DEF SenderMove, Descending, Level
  <2>2. CASE ackSync[2] = 0
    <3>1. StepsLeft' = 0 /\ Ones \in 0 .. 7
      BY <1>1, <1>6, <1>9, <2>2, RingBits DEF SenderMove, Descending
    <3> QED
      BY <2>1, <3>1
  <2>3. CASE ackSync[2] = 1
    <3>1. StepsLeft' = 1 + Ones'
      BY <1>1, <1>6, <1>9, <2>3 DEF SenderMove, Descending
    <3>2. SenderDue => reqQ # 0 \/ ackSync[1] # ackQ \/ ackQ # 1
      BY <1>9, <2>3, RingBits DEF SenderDue, Descending, Level
    <3>3. ReceiverDue => \/ reqSync[1] # reqQ \/ reqSync[2] # reqQ
                         \/ ackQ # Level(Taken) \/ Level(Taken) # reqSync[2]
      BY RingBits DEF ReceiverDue
    <3>4. CASE Taken
      <4>1. ackQ' = reqSync[2] /\ t = reqSync[2] /\ Level(Taken) = 1
        BY <1>2, <1>4, <1>7, <3>4, Zenon DEF ReceiverMove
      <4> QED
        BY <1>3, <1>5, <1>9, <2>1, <2>3, <3>1, <3>2, <3>3, <4>1, RingBits DEF Ones, Descending, UpTo, Bit
    <3>5. CASE ~Taken /\ t = reqSync[2]
      <4>1. ackQ' = 0 /\ Level(Taken) = 0
        BY <1>2, <3>5 DEF ReceiverMove, Level
      <4> QED
        BY <1>3, <1>5, <1>9, <2>1, <2>3, <3>1, <3>2, <3>3, <3>5, <4>1, RingBits DEF Ones, Descending, UpTo, Bit
    <3>6. CASE ~Taken /\ t = 0 /\ ORcvValid /\ delivered' = delivered
      <4>1. ackQ' = 0 /\ Level(Taken) = 0
        BY <1>2, <3>6 DEF ReceiverMove, Level
      <4>2. StepsLeft' <= StepsLeft /\ (SenderDue => StepsLeft' < StepsLeft)
        BY <1>3, <1>5, <1>9, <2>1, <2>3, <3>1, <3>2, <3>6, <4>1, RingBits DEF Ones, Descending, UpTo, Bit
      <4> QED
        BY <3>6, <4>2
    <3> QED
      BY <1>2, <1>4, <3>4, <3>5, <3>6 DEF ReceiverMove
  <2> QED
    BY <2>2, <2>3, RingBits DEF Bit
<1> QED
  BY <1>8, <1>9, RingOrder

\* An edge of a side with something to change brings the transfer one step on,
\* and no step takes it back.  This is about every step, one that changes nothing
\* included: an edge that is due does change something.
THEOREM EdgesCount ==
    ASSUME HoldData, ~OneSided, TypeOK, HandshakeInv, [Next]_vars,
           senState # "IDLE", senRstN' = 1
    PROVE  /\ SenderDue \/ ReceiverDue
           /\ StepsLeft' <= StepsLeft
           /\ SenderDue /\ (SenderTick \/ BothTick) => StepsLeft' < StepsLeft
           /\ ReceiverDue /\ (ReceiverTick \/ BothTick)
                => StepsLeft' < StepsLeft \/ (ORcvValid /\ delivered' = delivered)
<1>1. senRstN = 1 /\ TypeOK'
  BY TypeInductive DEF HandshakeInv, ResetInv, TypeOK, Bit
<1>2. StepsLeft' <= StepsLeft
  <2>1. CASE SenderTick \/ ReceiverTick \/ BothTick
    BY <1>1, <2>1, SenderTickAdvances, ReceiverTickAdvances, BothTickAdvances
  <2>2. CASE ReleaseReceiver \/ UNCHANGED vars
    <3>1. StepsLeft' = StepsLeft
      BY <2>2 DEF ReleaseReceiver, vars, senVars, rcvVars, StepsLeft, Ones, Level, Taken
    <3>2. StepsLeft \in 0 .. 16
      <4>1. Ones \in 0 .. 7
        BY RingBits
      <4>2. StepsLeft = 16 - Ones \/ StepsLeft = 1 + Ones \/ StepsLeft = 0
        BY Measure DEF TypeOK, SenStates
      <4> QED
        BY <4>1, <4>2
    <3> QED
      BY <3>1, <3>2
  <2>3. CASE JointReset \/ ReleaseSender
    BY <1>1, <2>3 DEF JointReset, ClearSender, ReleaseSender
  <2> QED
    BY <2>1, <2>2, <2>3 DEF Next, SenderOnlyReset, ReceiverOnlyReset
<1> QED
  BY <1>1, <1>2, NeverBothWait, SenderTickAdvances, ReceiverTickAdvances, BothTickAdvances

\* Between the acceptance of a word and the next o_ready lie at most sixteen
\* changes of the ring, none is ever undone, and as long as any is left a side
\* has one to make, for every set of words and every pattern of edges.
THEOREM TransfersEnd ==
    ASSUME HoldData, ~OneSided
    PROVE  Spec => TransferAdvances
<1>1. TypeOK /\ HandshakeInv /\ [Next]_vars =>
        [senState # "IDLE" /\ senRstN' = 1 =>
           /\ SenderDue \/ ReceiverDue
           /\ StepsLeft' <= StepsLeft
           /\ SenderDue /\ (SenderTick \/ BothTick) => StepsLeft' < StepsLeft
           /\ ReceiverDue /\ (ReceiverTick \/ BothTick)
                => StepsLeft' < StepsLeft \/ (ORcvValid /\ delivered' = delivered)]_vars
  BY EdgesCount
<1> QED
  BY <1>1, TypeCorrect, HandshakeInvariant, PTL DEF Spec, TransferAdvances
=============================================================================
