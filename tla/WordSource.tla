----------------------------- MODULE WordSource -----------------------------
(***************************************************************************)
(* What the receiving end of a handshake promises to the block it feeds: a *)
(* word on offer stays, unchanged, until it is taken, the word taken is    *)
(* the one that was on offer, and after it the offer is down for a cycle   *)
(* at least.  HfTop's NewInputs assumes no more than this of i_ready and   *)
(* i_data.                                                                 *)
(***************************************************************************)
EXTENDS Sequences

CONSTANT Data

VARIABLES offered,      \* o_valid of the receiver
          word,         \* o_data; means nothing while nothing is offered
          taken         \* the words the consumer took so far

SourceVars == <<offered, word, taken>>

SourceInit == ~offered /\ taken = << >>

Offer ==
    /\ ~offered /\ offered'
    /\ word' \in Data
    /\ UNCHANGED taken

Take ==
    /\ offered /\ ~offered'
    /\ taken' = Append(taken, word)

Forget ==
    /\ ~offered'
    /\ taken' = << >>

SourceNext == Offer \/ Take \/ Forget

SourceSpec == SourceInit /\ [][SourceNext]_SourceVars
=============================================================================
