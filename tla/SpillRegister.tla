---------------------------- MODULE SpillRegister ----------------------------
(***************************************************************************)
(* spill_register.sv: two registers between a valid/ready producer and a   *)
(* valid/ready consumer that cut every combinational path between them.    *)
(* Words go through the A register; one that the consumer does not take in *)
(* time spills into the B register, which is emptied first.                *)
(*                                                                         *)
(* A state is a clock cycle: the flip-flops and the inputs of the cycle.   *)
(* Tick is the edge that ends it.  BYPASS is FALSE (with BYPASS the module *)
(* is three wires).                                                        *)
(***************************************************************************)
EXTENDS Sequences, Naturals

CONSTANTS
    Data,   \* the words of DATA_WIDTH bits
    Zero,   \* '0
    FLUSH   \* parameter FLUSH: drop everything

ASSUME SpillAssumption == Zero \in Data /\ FLUSH \in BOOLEAN

VARIABLES
    rstN,       \* rst_ni
    validI,     \* valid_i
    dataI,      \* data_i
    readyI,     \* ready_i
    aFull,      \* a_full_q
    aData,      \* a_data_q
    bFull,      \* b_full_q
    bData,      \* b_data_q
    got,        \* history: data_i at the last edge if valid_i met ready_o there
    given       \* history: data_o at the last edge if valid_o met ready_i there

inputVars == <<validI, dataI, readyI>>
regVars == <<aFull, aData, bFull, bData>>
historyVars == <<got, given>>
vars == <<rstN, inputVars, regVars, historyVars>>

\* Variant: ready also in the cycle in which the consumer takes a word.
ReadyO_AnyTime == ~aFull \/ ~bFull \/ readyI

ReadyO == ~aFull \/ ~bFull
ValidO == aFull \/ bFull

\* Variant: the younger word first.
DataO_YoungFirst == IF aFull THEN aData ELSE bData

DataO == IF bFull THEN bData ELSE aData

AFill == validI /\ ReadyO /\ ~FLUSH
ADrain == (aFull /\ ~bFull) \/ FLUSH

\* Variant: B is filled whether or not the consumer takes the word directly.
BFill_Always == ADrain /\ ~FLUSH

BFill == ADrain /\ ~readyI /\ ~FLUSH

BDrain == (bFull /\ readyI) \/ FLUSH

Init ==
    /\ rstN = 0
    /\ validI = FALSE /\ dataI = Zero /\ readyI = FALSE
    /\ aFull = FALSE /\ aData = Zero
    /\ bFull = FALSE /\ bData = Zero
    /\ got = << >> /\ given = << >>

\* The producer keeps an offer until it is accepted; the consumer may change
\* its mind about ready.
NewInputs ==
    /\ readyI' \in BOOLEAN
    /\ \/ validI /\ ~ReadyO /\ UNCHANGED <<validI, dataI>>
       \/ (~validI \/ ReadyO) /\ validI' \in BOOLEAN /\ dataI' \in Data

Tick ==
    /\ rstN = 1
    /\ aData' = IF AFill THEN dataI ELSE aData
    /\ aFull' = IF AFill \/ ADrain THEN AFill ELSE aFull
    /\ bData' = IF BFill THEN aData ELSE bData
    /\ bFull' = IF BFill \/ BDrain THEN BFill ELSE bFull
    /\ got' = IF validI /\ ReadyO THEN <<dataI>> ELSE << >>
    /\ given' = IF ValidO /\ readyI THEN <<DataO>> ELSE << >>
    /\ NewInputs
    /\ UNCHANGED rstN

\* The users of the register share its reset.
Reset ==
    /\ rstN' = 0
    /\ aFull' = FALSE /\ aData' = Zero
    /\ bFull' = FALSE /\ bData' = Zero
    /\ validI' = FALSE /\ readyI' = FALSE /\ UNCHANGED dataI
    /\ got' = << >> /\ given' = << >>

Release ==
    /\ rstN = 0
    /\ rstN' = 1
    /\ UNCHANGED <<inputVars, regVars, historyVars>>

Next == Tick \/ Reset \/ Release

Spec == Init /\ [][Next]_vars
-----------------------------------------------------------------------------
\* The words held, oldest first.
Held == (IF bFull THEN <<bData>> ELSE << >>) \o (IF aFull THEN <<aData>> ELSE << >>)

Fifo == INSTANCE BoundedFifo WITH queue <- Held, Capacity <- 2

TypeOK ==
    /\ rstN \in {0, 1}
    /\ validI \in BOOLEAN /\ dataI \in Data /\ readyI \in BOOLEAN
    /\ aFull \in BOOLEAN /\ aData \in Data
    /\ bFull \in BOOLEAN /\ bData \in Data
    /\ got \in Fifo!OptionalWord /\ given \in Fifo!OptionalWord

\* The two registers are a FIFO of two words: nothing is lost, duplicated or
\* overtaken when fills and drains of the two registers coincide (the
\* always_ff blocks of spill_register.sv).
ImplementsFifo == Fifo!FifoSpec

\* An offer to the consumer is not withdrawn or exchanged before it is taken,
\* though the word may move from A to B meanwhile.
OfferHeld ==
    [][ValidO /\ ~readyI /\ rstN' = 1 => ValidO' /\ DataO' = DataO]_vars

\* Full throughput: after the consumer has taken a word there is room for the
\* next one at once, so a producer and a consumer that are always willing
\* move a word at every edge.
NoBubble ==
    [][rstN = 1 /\ rstN' = 1 =>
         /\ ValidO /\ readyI => ReadyO'
         /\ validI /\ ReadyO => ValidO']_vars
=============================================================================
