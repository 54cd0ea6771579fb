-------------------------- MODULE HandshakeChannel --------------------------
(***************************************************************************)
(* What hds_4_phase promises to its two users: a channel that holds at     *)
(* most one word.  A word is accepted only when the previous one has been  *)
(* delivered, and every accepted word is delivered once, unchanged and in  *)
(* order.  A reset of the whole link forgets everything.                   *)
(***************************************************************************)
EXTENDS Sequences, Naturals

CONSTANT Data

VARIABLES accepted,     \* words taken from the producer (valid and ready)
          delivered     \* words taken by the consumer (valid and ready)

ChannelVars == <<accepted, delivered>>

ChannelInit ==
    /\ accepted = << >>
    /\ delivered = << >>

Accept(d) ==
    /\ delivered = accepted
    /\ accepted' = Append(accepted, d)
    /\ UNCHANGED delivered

Deliver ==
    /\ Len(accepted) = Len(delivered) + 1
    /\ delivered' = Append(delivered, accepted[Len(accepted)])
    /\ UNCHANGED accepted

Forget ==
    /\ accepted' = << >>
    /\ delivered' = << >>

ChannelNext ==
    \/ \E d \in Data : Accept(d)
    \/ Deliver
    \/ Forget

ChannelSpec == ChannelInit /\ [][ChannelNext]_ChannelVars
=============================================================================
