--------------------------- MODULE Hds4PhaseProps ---------------------------
(***************************************************************************)
(* What the handshake must do, stated over the registers of both sides.    *)
(***************************************************************************)
EXTENDS Hds4Phase

Channel == INSTANCE HandshakeChannel

\* The link is a one-word channel: no word accepted from the producer is
\* lost, duplicated, altered or overtaken, whatever the two clocks do
\* (hds_4_phase.sv, both FSMs; needs HoldData and joint resets).
ImplementsChannel == Channel!ChannelSpec

\* o_rcv_valid, once up, stays up until the consumer takes the word: neither
\* the sender's progress nor an unlucky capture withdraws it
\* (tb_hds_4_phase.sv p_rcv_valid_ready).
RcvValidHeld ==
    [][ORcvValid /\ delivered' = delivered /\ rcvRstN' = 1 => ORcvValid']_vars

\* The receiver as its consumer sees it: from the first cycle of o_valid to the
\* one in which i_ready takes it the word stands still, and o_valid is low after
\* it, although o_data is the other domain's register and o_valid is
\* combinational (hds_4_phase_rcv.sv).  This is what HfTop assumes of its input.
Source == INSTANCE WordSource WITH
    offered <- ORcvValid,
    word <- IF ORcvValid THEN dataQ ELSE Zero,
    taken <- delivered

ImplementsWordSource == Source!SourceSpec

\* The data bus is not synchronized bit by bit: it may change only while no
\* request is visible, not even half way through the receiver's synchronizer,
\* so no edge of the receiver ever reads a word in transition.
BundledDataStable ==
    [][dataQ' # dataQ /\ senRstN' = 1 =>
         /\ reqQ = 0
         /\ reqSync = FfdReset
         /\ rcvState = "IDLE"]_vars

\* Return-to-zero order of the two wires: req rises over an idle link, ack
\* rises only for a request whose word was taken, req falls only after ack was
\* seen, and ack falls only after req did.
FourPhaseOrder ==
    [][senRstN' = 1 /\ rcvRstN' = 1 =>
         /\ reqQ = 0 /\ reqQ' = 1 => ackQ = 0 /\ ackSync = FfdReset
         /\ ackQ = 0 /\ ackQ' = 1 => reqQ = 1 /\ accepted = delivered
         /\ reqQ = 1 /\ reqQ' = 0 => ackQ = 1 /\ ackSync = <<1, 1>>
         /\ ackQ = 1 /\ ackQ' = 0 => reqQ = 0]_vars

\* A word the sender accepted reaches the consumer: no ratio of the clocks and
\* no sequence of captures starves the request.
EventuallyDelivered == accepted # delivered ~> accepted = delivered

\* The sender becomes ready again after every transfer (o_ready recurs).
SenderRecovers == senState # "IDLE" ~> senState = "IDLE"
-----------------------------------------------------------------------------
(***************************************************************************)
(* The inductive invariant.  A transfer is a wave that runs around the     *)
(* ring  req -> reqSync -> receiver -> ack -> ackSync -> sender:  while    *)
(* the sender waits for ack the wave of ones has advanced to some point    *)
(* (each bit is at least its successor), and while it waits for ack to     *)
(* fall the wave of zeros has.                                             *)
(***************************************************************************)
Taken == rcvState = "WAIT_REQ_DEASSERT"

Quiet ==
    /\ reqSync = FfdReset /\ ackSync = FfdReset
    /\ ackQ = 0 /\ ~Taken

\* The wave of ones: req = 1 has reached at most as far as each bit says.
Rising ==
    /\ reqQ = 1
    /\ reqSync[2] = 1 => reqSync[1] = 1
    /\ Taken => reqSync[2] = 1
    /\ ackQ = 1 => Taken
    /\ ackSync[1] = 1 => ackQ = 1
    /\ ackSync[2] = 1 => ackSync[1] = 1

AllOnes ==
    /\ reqQ = 1
    /\ reqSync = <<1, 1>> /\ ackSync = <<1, 1>>
    /\ ackQ = 1 /\ Taken

\* The wave of zeros behind req = 0.  The receiver drops its state and ack
\* at the same edge.
Falling ==
    /\ reqQ = 0
    /\ reqSync[2] = 0 => reqSync[1] = 0
    /\ ~Taken => reqSync = FfdReset
    /\ ackQ = 1 <=> Taken
    /\ ackQ = 1 => ackSync[1] = 1
    /\ ackSync[1] = 1 => ackSync[2] = 1

\* The phase of the transfer, by the sender's state.
PhaseInv ==
    \/ senState = "IDLE" /\ reqQ = 0 /\ Quiet
    \/ senState = "WAIT_ACK_ASSERT" /\ reqQ = 0 /\ Quiet
    \/ senState = "WAIT_ACK_ASSERT" /\ Rising
    \/ senState = "WAIT_ACK_DEASSERT" /\ AllOnes
    \/ senState = "WAIT_ACK_DEASSERT" /\ Falling

\* A word is under way from its acceptance until the receiver takes it.
InFlight == senState = "WAIT_ACK_ASSERT" /\ ~Taken

DataInv ==
    /\ reqQ = 1 => dataQ = item
    /\ accepted = IF InFlight THEN Append(delivered, item) ELSE delivered

\* A reset side holds its reset values.
ResetInv ==
    /\ senRstN = 0 => senState = "IDLE"
    /\ rcvRstN = 0 => reqSync = FfdReset /\ ~Taken /\ ackQ = 0

\* Where the bits of the two synchronizers, the two registers and the two FSM
\* states can be relative to each other, and where the word is meanwhile: the
\* inductive strengthening of all safety properties above.
HandshakeInv ==
    /\ PhaseInv
    /\ DataInv
    /\ ResetInv
-----------------------------------------------------------------------------
\* "Sample a new item when the valid signal is asserted"
\* (hds_4_phase_sen.sv, comment in IDLE): what is delivered is the word that
\* was on i_data when valid met ready, whatever i_data does afterwards.
DeliversSampledWord ==
    \A k \in 1..Len(delivered) : delivered[k] = accepted[k]
-----------------------------------------------------------------------------
(***************************************************************************)
(* With a reset input of its own per side (OneSided).                      *)
(***************************************************************************)

\* Every reset of one side alone costs at most one word or repeats at most
\* one: the stale half of the handshake is absorbed, not accumulated.
ResetSkew ==
    /\ Len(delivered) <= Len(accepted) + resets
    /\ Len(accepted) <= Len(delivered) + 1 + resets

\* The inductive strengthening of ResetSkew.  Either half of the ring is a row
\* of levels from the side that waits to the side it waits for; each rise in
\* the row is an event still on its way.  Deliverable counts the requests the
\* receiver has yet to see, Acceptable the words the sender can still accept
\* on the acknowledges it has yet to see: what is under way is owed already.
Level(b) == IF b THEN 1 ELSE 0
Rise(near, far) == Level(near = 0 /\ far = 1)

Deliverable ==
    Rise(Level(Taken), reqSync[2]) + Rise(reqSync[2], reqSync[1])
      + Rise(reqSync[1], reqQ) + Rise(reqQ, Level(senState = "WAIT_ACK_ASSERT"))

Acceptable ==
    Level(senState # "WAIT_ACK_ASSERT")
      + Rise(Level(senState = "WAIT_ACK_DEASSERT"), ackSync[2])
      + Rise(ackSync[2], ackSync[1]) + Rise(ackSync[1], ackQ)
      + Rise(ackQ, Level(Taken))

SkewInv ==
    /\ Len(delivered) + Deliverable <= Len(accepted) + resets
    /\ Len(accepted) + Acceptable <= Len(delivered) + 1 + resets

\* No combination of one-sided resets leaves a side waiting for ever.
BothRecover ==
    /\ senState # "IDLE" ~> senState = "IDLE"
    /\ rcvState # "IDLE" ~> rcvState = "IDLE"
-----------------------------------------------------------------------------
(***************************************************************************)
(* Why a transfer ends: the ones that the ring holds measure how far it    *)
(* is.                                                                     *)
(***************************************************************************)
Ones ==
    reqQ + reqSync[1] + reqSync[2] + Level(Taken) + ackQ + ackSync[1] + ackSync[2]

\* The register changes before the sender is ready again: up with the ones to
\* seven, a change of state, down again and back to IDLE.
StepsLeft ==
    CASE senState = "WAIT_ACK_ASSERT"   -> 16 - Ones
      [] senState = "WAIT_ACK_DEASSERT" -> 1 + Ones
      [] senState = "IDLE"              -> 0

\* An edge of this side has something to change; the receiver's may have to wait
\* for i_ready.
SenderDue ==
    LET wanted == Level(senState = "WAIT_ACK_ASSERT")
    IN  reqQ # wanted \/ ackSync # <<ackQ, ackQ>> \/ ackSync[2] = wanted

ReceiverDue == reqSync # <<reqQ, reqQ>> \/ ackQ # Level(Taken) \/ Level(Taken) # reqSync[2]

\* Once a word is accepted the two sides never both wait for the other, no edge
\* of either clock and no capture undoes a step of the transfer, and an edge of
\* a side with something to change takes one (hds_4_phase.sv, both FSMs).  That
\* such an edge is no stuttering step, which no formula of this form can say, is
\* EdgesCount in the proofs; EventuallyDelivered and SenderRecovers follow when
\* both clocks run.
TransferAdvances ==
    [][senState # "IDLE" /\ senRstN' = 1 =>
         /\ SenderDue \/ ReceiverDue
         /\ StepsLeft' <= StepsLeft
         /\ SenderDue /\ (SenderTick \/ BothTick) => StepsLeft' < StepsLeft
         /\ ReceiverDue /\ (ReceiverTick \/ BothTick)
              => StepsLeft' < StepsLeft \/ (ORcvValid /\ delivered' = delivered)]_vars
=============================================================================
