----------------------------- MODULE BoundedFifo -----------------------------
(***************************************************************************)
(* What a valid/ready buffer promises: a first-in first-out queue of at    *)
(* most Capacity words that takes one word and gives one word per clock    *)
(* edge, refuses a word only when it is full, and is emptied by a reset.   *)
(***************************************************************************)
EXTENDS Sequences, Naturals

CONSTANTS Data, Capacity

VARIABLES
    queue,      \* the words held, oldest first
    got,        \* the words accepted at the last edge: none or one
    given       \* the words given at the last edge: none or one

FifoVars == <<queue, got, given>>

FifoInit == queue = << >> /\ got = << >> /\ given = << >>

OptionalWord == {<< >>} \cup {<<d>> : d \in Data}

Move(gives, words) ==
    /\ gives => queue # << >>
    /\ words # << >> => Len(queue) < Capacity
    /\ got' = words
    /\ given' = IF gives THEN <<Head(queue)>> ELSE << >>
    /\ queue' = (IF gives THEN Tail(queue) ELSE queue) \o words

Empty == queue' = << >> /\ got' = << >> /\ given' = << >>

FifoNext ==
    \/ \E gives \in BOOLEAN, words \in OptionalWord : Move(gives, words)
    \/ Empty

FifoSpec == FifoInit /\ [][FifoNext]_FifoVars
=============================================================================
