----------------------------- MODULE Hds4Phase -----------------------------
(***************************************************************************)
(* hds_4_phase: a four-phase (return-to-zero) handshake that carries a     *)
(* word between two unrelated clocks.  hds_4_phase_sen drives req and      *)
(* data, hds_4_phase_rcv drives ack; each side sees the other's bit        *)
(* through an ffd_sync.  Names follow the RTL signals.                     *)
(*                                                                         *)
(* An action is a clock edge of one side, a pair of edges that fall in     *)
(* each other's capture window, or a reset event.  Inputs (i_valid,        *)
(* i_data, i_ready) are chosen afresh at every edge.                       *)
(***************************************************************************)
EXTENDS FfdSync, Sequences

CONSTANTS
    Data,       \* the words of DATA_WIDTH bits
    Zero,       \* the word '0 of the reset values
    HoldData,   \* TRUE: the producer keeps i_data after valid && ready
    OneSided,   \* TRUE: i_sen_rst_n and i_rcv_rst_n may fall one at a time
    MaxItems,   \* bound on the words a run accepts between two joint resets
    MaxResets   \* bound on one-sided resets between two joint resets

ASSUME HdsAssumption ==
    /\ Zero \in Data
    /\ HoldData \in BOOLEAN
    /\ OneSided \in BOOLEAN
    /\ MaxItems \in Nat
    /\ MaxResets \in Nat

VARIABLES
    senRstN,    \* i_sen_rst_n
    senState,   \* CS of the sender
    reqQ,       \* req_src_q
    dataQ,      \* data_src_q
    ackSync,    \* flip-flops of the sender's synchronizer (ack_synced)
    rcvRstN,    \* i_rcv_rst_n
    rcvState,   \* CS of the receiver
    ackQ,       \* ack_dst_q
    reqSync,    \* flip-flops of the receiver's synchronizer (req_synced)
    item,       \* history: the word last accepted
    accepted,   \* history: i_data at the edges with i_valid && o_ready
    delivered,  \* history: o_data at the edges with o_valid && i_ready
    resets      \* history: one-sided resets since the last joint reset

senVars == <<senState, reqQ, dataQ, item, accepted>>
rcvVars == <<rcvState, ackQ, delivered>>
rstVars == <<senRstN, rcvRstN, resets>>
vars == <<senVars, ackSync, rcvVars, reqSync, rstVars>>

SenStates == {"IDLE", "WAIT_ACK_ASSERT", "WAIT_ACK_DEASSERT"}
RcvStates == {"IDLE", "WAIT_REQ_DEASSERT"}

AckSynced == FfdOut(ackSync)
ReqSynced == FfdOut(reqSync)

\* The receiver's o_valid: combinational, from the FSM state and req_synced.
ORcvValid == rcvState = "IDLE" /\ ReqSynced = 1

Init ==
    /\ senRstN = 0 /\ rcvRstN = 0
    /\ senState = "IDLE" /\ reqQ = 0 /\ dataQ = Zero /\ ackSync = FfdReset
    /\ rcvState = "IDLE" /\ ackQ = 0 /\ reqSync = FfdReset
    /\ item = Zero /\ accepted = << >> /\ delivered = << >>
    /\ resets = 0
-----------------------------------------------------------------------------
(* The sender's FSM and registers at an edge of i_sen_clk.                 *)

\* IDLE without i_valid.
SenderIdle ==
    /\ senState = "IDLE"
    /\ reqQ' = 0
    /\ UNCHANGED <<senState, dataQ, item, accepted>>

\* IDLE with i_valid: the handshake with the producer.  data_src_d is still
\* data_src_q: the word is not sampled here.
SenderAccept(d) ==
    /\ senState = "IDLE"
    /\ Len(accepted) < MaxItems
    /\ senState' = "WAIT_ACK_ASSERT"
    /\ reqQ' = 0
    /\ item' = d
    /\ accepted' = Append(accepted, d)
    /\ UNCHANGED dataQ

\* Variant: the wait for ack_synced is dropped, so req is a short pulse.
SenderRequest_Pulse(d) ==
    /\ senState = "WAIT_ACK_ASSERT"
    /\ HoldData => d = item
    /\ reqQ' = 1
    /\ dataQ' = d
    /\ senState' = "WAIT_ACK_DEASSERT"
    /\ UNCHANGED <<item, accepted>>

\* WAIT_ACK_ASSERT: i_data is sampled again at every edge, and req raised.
SenderRequest(d) ==
    /\ senState = "WAIT_ACK_ASSERT"
    /\ HoldData => d = item
    /\ reqQ' = 1
    /\ dataQ' = d
    /\ senState' = IF AckSynced = 1 THEN "WAIT_ACK_DEASSERT" ELSE senState
    /\ UNCHANGED <<item, accepted>>

\* Variant: the sender is ready again without waiting for ack to fall.
SenderRelease_NoWait ==
    /\ senState = "WAIT_ACK_DEASSERT"
    /\ reqQ' = 0
    /\ senState' = "IDLE"
    /\ UNCHANGED <<dataQ, item, accepted>>

\* Variant: req_src_d defaults to req_src_q instead of 0.
SenderRelease_KeepsReq ==
    /\ senState = "WAIT_ACK_DEASSERT"
    /\ senState' = IF AckSynced = 0 THEN "IDLE" ELSE senState
    /\ UNCHANGED <<reqQ, dataQ, item, accepted>>

\* Variant: NS = STATE'(CS + 1), which behind the last state is the encoding
\* that no state has.
SenderRelease_CountsOn ==
    /\ senState = "WAIT_ACK_DEASSERT"
    /\ reqQ' = 0
    /\ senState' = IF AckSynced = 0 THEN "2'b11" ELSE senState
    /\ UNCHANGED <<dataQ, item, accepted>>

\* WAIT_ACK_DEASSERT: req is down; ready again only when ack is down too.
SenderRelease ==
    /\ senState = "WAIT_ACK_DEASSERT"
    /\ reqQ' = 0
    /\ senState' = IF AckSynced = 0 THEN "IDLE" ELSE senState
    /\ UNCHANGED <<dataQ, item, accepted>>

SenderStep ==
    \/ SenderIdle
    \/ \E d \in Data : SenderAccept(d)
    \/ \E d \in Data : SenderRequest(d)
    \/ SenderRelease
-----------------------------------------------------------------------------
(* The receiver's FSM and register at an edge of i_rcv_clk.                *)

\* Variant: ack answers the request before the consumer took the word.
ReceiverIdle_EagerAck ==
    /\ rcvState = "IDLE"
    /\ ackQ' = ReqSynced
    /\ UNCHANGED <<rcvState, delivered>>

\* IDLE with no synchronized request, or with one the consumer is not ready for.
ReceiverIdle ==
    /\ rcvState = "IDLE"
    /\ ackQ' = 0
    /\ UNCHANGED <<rcvState, delivered>>

\* IDLE, req_synced and i_ready: the consumer takes o_data.
ReceiverTake(word) ==
    /\ ORcvValid
    /\ rcvState' = "WAIT_REQ_DEASSERT"
    /\ ackQ' = 0
    /\ delivered' = Append(delivered, word)

\* Variant: ack is held for one edge only instead of until req falls.
ReceiverAck_OneShot ==
    /\ rcvState = "WAIT_REQ_DEASSERT"
    /\ ackQ' = ReqSynced
    /\ rcvState' = "IDLE"
    /\ UNCHANGED delivered

\* WAIT_REQ_DEASSERT: ack follows req_synced.
ReceiverAck ==
    /\ rcvState = "WAIT_REQ_DEASSERT"
    /\ ackQ' = ReqSynced
    /\ rcvState' = IF ReqSynced = 0 THEN "IDLE" ELSE rcvState
    /\ UNCHANGED delivered

\* o_data is the sender's data_src_q, unregistered: Words is what the
\* consumer may read there at this edge.
ReceiverStep(Words) ==
    \/ ReceiverIdle
    \/ \E word \in Words : ReceiverTake(word)
    \/ ReceiverAck
-----------------------------------------------------------------------------
SenderTick ==
    /\ senRstN = 1
    /\ SenderStep
    /\ ackSync' = FfdEdge(ackSync, ackQ)
    /\ UNCHANGED <<rcvVars, reqSync, rstVars>>

ReceiverTick ==
    /\ rcvRstN = 1
    /\ ReceiverStep({dataQ})
    /\ reqSync' = FfdEdge(reqSync, reqQ)
    /\ UNCHANGED <<senVars, ackSync, rstVars>>

\* Edges of both clocks within a capture window of each other: each side may
\* capture the other's registers before, after or in the middle of the change.
BothTick ==
    /\ senRstN = 1 /\ rcvRstN = 1
    /\ SenderStep
    /\ ReceiverStep(Captured(dataQ, dataQ', Data))
    /\ \E a \in Captured(ackQ, ackQ', Bit) : ackSync' = FfdEdge(ackSync, a)
    /\ \E r \in Captured(reqQ, reqQ', Bit) : reqSync' = FfdEdge(reqSync, r)
    /\ UNCHANGED rstVars
-----------------------------------------------------------------------------
(* Resets: asserted asynchronously, released at a time of each domain's    *)
(* own.                                                                    *)

ClearSender ==
    /\ senRstN' = 0
    /\ senState' = "IDLE" /\ reqQ' = 0 /\ dataQ' = Zero
    /\ ackSync' = FfdReset

ClearReceiver ==
    /\ rcvRstN' = 0
    /\ rcvState' = "IDLE" /\ ackQ' = 0
    /\ reqSync' = FfdReset

\* The system reset: both inputs fall together.
JointReset ==
    /\ ClearSender
    /\ ClearReceiver
    /\ item' = Zero /\ accepted' = << >> /\ delivered' = << >>
    /\ resets' = 0

SenderOnlyReset ==
    /\ OneSided /\ resets < MaxResets
    /\ ClearSender
    /\ resets' = resets + 1
    /\ UNCHANGED <<item, accepted, rcvVars, reqSync, rcvRstN>>

ReceiverOnlyReset ==
    /\ OneSided /\ resets < MaxResets
    /\ ClearReceiver
    /\ resets' = resets + 1
    /\ UNCHANGED <<senVars, ackSync, delivered, senRstN>>

ReleaseSender ==
    /\ senRstN = 0
    /\ senRstN' = 1
    /\ UNCHANGED <<senVars, ackSync, rcvVars, reqSync, rcvRstN, resets>>

ReleaseReceiver ==
    /\ rcvRstN = 0
    /\ rcvRstN' = 1
    /\ UNCHANGED <<senVars, ackSync, rcvVars, reqSync, senRstN, resets>>

Next ==
    \/ SenderTick
    \/ ReceiverTick
    \/ BothTick
    \/ JointReset
    \/ SenderOnlyReset
    \/ ReceiverOnlyReset
    \/ ReleaseSender
    \/ ReleaseReceiver

Spec == Init /\ [][Next]_vars

(***************************************************************************)
(* Both clocks run for ever, so a side whose own registers would change at *)
(* an edge reaches that edge; resets end; and a consumer offered a word    *)
(* becomes ready at some edge.  Nothing is assumed of the producer: an     *)
(* idle sender need not be given a word.                                   *)
(***************************************************************************)
SenderWorks == senState # "IDLE" /\ (SenderTick \/ BothTick)
ReceiverWorks == ReceiverTick \/ BothTick
ConsumerTakes == ReceiverWorks /\ delivered' # delivered

Fairness ==
    /\ WF_<<senVars, ackSync>>(SenderWorks)
    /\ WF_<<rcvVars, reqSync>>(ReceiverWorks)
    /\ WF_vars(ConsumerTakes)
    /\ WF_vars(ReleaseSender)
    /\ WF_vars(ReleaseReceiver)

FairSpec == Spec /\ Fairness
-----------------------------------------------------------------------------
TypeOK ==
    /\ senRstN \in Bit /\ rcvRstN \in Bit
    /\ senState \in SenStates /\ rcvState \in RcvStates
    /\ reqQ \in Bit /\ ackQ \in Bit
    /\ ackSync \in FfdType /\ reqSync \in FfdType
    /\ dataQ \in Data /\ item \in Data
    /\ accepted \in Seq(Data) /\ delivered \in Seq(Data)
    /\ resets \in Nat
=============================================================================
