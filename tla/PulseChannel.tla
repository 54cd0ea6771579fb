---------------------------- MODULE PulseChannel ----------------------------
(***************************************************************************)
(* What a pulse synchronizer promises: the pulses sent in one clock domain *)
(* and not yet seen in the other are counted, and every one is seen once.  *)
(* A reset of both domains forgets all of them; a reset of one domain may  *)
(* drop what is pending, and invents at most one pulse.                    *)
(***************************************************************************)
EXTENDS Naturals

VARIABLES
    pending,    \* number of pulses sent and not seen yet
    sent,       \* the last step sent a pulse
    seen,       \* the last step saw a pulse
    resets      \* number of one-sided resets since the last full one

ChannelVars == <<pending, sent, seen, resets>>

ChannelInit == pending = 0 /\ ~sent /\ ~seen /\ resets = 0

Move(sends, sees) ==
    /\ sees => pending > 0
    /\ sent' = sends /\ seen' = sees
    /\ pending' = (pending + (IF sends THEN 1 ELSE 0)) - (IF sees THEN 1 ELSE 0)
    /\ UNCHANGED resets

Upset ==
    /\ resets' = resets + 1
    /\ pending' \in 0 .. pending + 1
    /\ sent' = FALSE /\ seen' = FALSE

Forget == pending' = 0 /\ sent' = FALSE /\ seen' = FALSE /\ resets' = 0

ChannelNext ==
    \/ \E sends \in BOOLEAN, sees \in BOOLEAN : Move(sends, sees)
    \/ Upset
    \/ Forget

ChannelSpec == ChannelInit /\ [][ChannelNext]_ChannelVars
=============================================================================
