----------------------------- MODULE SpiFrontend -----------------------------
(***************************************************************************)
(* spi_frontend.sv: an SPI master moves sck, ss and mosi at times of its   *)
(* own, the system clock captures them and finds the sampling and the      *)
(* changing edges of the four SPI modes.                                   *)
(*                                                                         *)
(* A step is an edge of the system clock, a move of the master, or both at *)
(* the same moment: then every flip-flop that reads a moving line captures *)
(* its old or its new value.  A captured value has settled one cycle       *)
(* later, although sck_r and ss_r are one flip-flop, not two.  o_ss and    *)
(* o_order are wires; o_order has nothing to do with the rest.  The source *)
(* declares o_data as a net and assigns it in a clocked block, which only  *)
(* a variable may be; it is modelled as the register that is meant.        *)
(***************************************************************************)
EXTENDS Naturals, Sequences

CONSTANT MinHalf  \* least number of clock edges between two moves of the master

ASSUME FrontendAssumption == MinHalf \in Nat

VARIABLES
    cpol, cpha,        \* the SPI mode
    sck, ss, mosi,     \* the master's lines; ss is active low
    sckR, ssR, mosiR,  \* sck_r, ss_r, mosi_r
    lastSck,           \* last_sck
    oData, oMiso, spiBusy,
    age,               \* history: clock edges since the last move, up to MinHalf
    warm,              \* history: clock edges since power-up, up to 2
    incoming,          \* history: bits the master sent and oData has not shown
    sent, shown,       \* history: bits that entered and left it in the last step
    outgoing,          \* history: bits put on oMiso and not sampled by the master
    put, sampled,      \* history: bits that entered and left it in the last step
    asked              \* history: a changing edge has called for the next bit

mode == <<cpol, cpha>>
lines == <<sck, ss, mosi>>
registers == <<sckR, ssR, mosiR, lastSck, oData, oMiso, spiBusy>>
history == <<age, warm, incoming, sent, shown, outgoing, put, sampled, asked>>
vars == <<mode, lines, registers, history>>

Bit == {0, 1}
OptionalBit == {<< >>} \cup {<<b>> : b \in Bit}
-----------------------------------------------------------------------------
\* Variant: a level instead of an edge.
SckRise_Level == sckR = 1

SckRise == sckR = 1 /\ lastSck = 0
SckFall == sckR = 0 /\ lastSck = 1

Leading == IF cpol = 0 THEN SckRise ELSE SckFall
Trailing == IF cpol = 0 THEN SckFall ELSE SckRise

\* Variant: cpol alone decides.
SampleStrobe_NoPhase == Leading

SampleStrobe == IF cpha = 0 THEN Leading ELSE Trailing

\* Variant: the bit changes with the edge that samples.
ChangeStrobe_Swapped == IF cpha = 0 THEN Leading ELSE Trailing

ChangeStrobe == IF cpha = 0 THEN Trailing ELSE Leading

\* Variant: the select does not matter.
Answers_AnySelect(busy) == ChangeStrobe /\ busy = 1

\* The condition under which o_miso and spi_busy are assigned.
Answers(busy) == ChangeStrobe /\ busy = 1 /\ ssR = 0

\* A clock edge; seenSck, seenSs and seenMosi are what the synchronizers
\* capture, line is what o_data captures of i_mosi, not of mosi_r.
ClockEdge(seenSck, seenSs, seenMosi, line, busy, data) ==
    /\ sckR' = seenSck /\ ssR' = seenSs /\ mosiR' = seenMosi
    /\ lastSck' = sckR
    /\ oData' = IF SampleStrobe THEN line ELSE oData
    /\ oMiso' = IF Answers(busy) THEN data ELSE oMiso
    /\ spiBusy' = IF Answers(busy) THEN busy ELSE spiBusy
-----------------------------------------------------------------------------
\* What the mode asks of the master: it samples on the leading edges (cpha 0)
\* or the trailing ones and changes mosi on the others.
SamplingEdge == sck' # sck /\ ((sck' # cpol) <=> (cpha = 0))
ChangingEdge == sck' # sck /\ ~SamplingEdge

\* A clock edge of the bus; while ss is high it is meant for another slave.
MoveSck ==
    /\ sck' = 1 - sck
    /\ mosi' \in IF (sck = cpol) <=> (cpha = 0) THEN {mosi} ELSE Bit
    /\ UNCHANGED ss

\* With cpha 0 the first bit comes with the select.
Select ==
    /\ ss = 1 /\ sck = cpol
    /\ ss' = 0
    /\ mosi' \in IF cpha = 0 THEN Bit ELSE {mosi}
    /\ UNCHANGED sck

Deselect ==
    /\ ss = 0 /\ sck = cpol
    /\ ss' = 1
    /\ UNCHANGED <<sck, mosi>>

MasterMove ==
    /\ age = MinHalf
    /\ MoveSck \/ Select \/ Deselect
-----------------------------------------------------------------------------
DropHead(bits, drop) == IF drop /\ bits # << >> THEN Tail(bits) ELSE bits

\* ticks, moves: the step has a clock edge, a move of the master.  Strobes of
\* the first two clock edges come from the registers' values at power-up.
Record(ticks, moves, busy, data) ==
    LET sends == moves /\ SamplingEdge
        shows == ticks /\ SampleStrobe /\ warm = 2
        puts == ticks /\ Answers(busy) /\ warm = 2
        samples == moves /\ SamplingEdge /\ ss = 0 /\ outgoing # << >>
    IN  /\ age' = IF moves THEN 0 ELSE IF age < MinHalf THEN age + 1 ELSE age
        /\ warm' = IF ticks /\ warm < 2 THEN warm + 1 ELSE warm
        /\ sent' = IF sends THEN <<mosi>> ELSE << >>
        /\ shown' = IF shows THEN <<oData'>> ELSE << >>
        /\ incoming' = DropHead(incoming, shows) \o sent'
        /\ put' = IF puts THEN <<data>> ELSE << >>
        /\ sampled' = IF samples THEN <<oMiso>> ELSE << >>
        /\ outgoing' = DropHead(outgoing, samples) \o put'
        /\ asked' = IF moves /\ ChangingEdge THEN ss = 0
                    ELSE IF moves /\ SamplingEdge /\ ss = 0 THEN FALSE
                    ELSE asked /\ ~(ticks /\ ChangeStrobe /\ busy = 0)

\* The master's lines are idle at power-up; the registers hold anything.
Init ==
    /\ cpol \in Bit /\ cpha \in Bit
    /\ sck = cpol /\ ss = 1 /\ mosi \in Bit
    /\ sckR \in Bit /\ ssR \in Bit /\ mosiR \in Bit /\ lastSck \in Bit
    /\ oData \in Bit /\ oMiso \in Bit /\ spiBusy \in Bit
    /\ age = 0 /\ warm = 0 /\ asked = FALSE
    /\ incoming = << >> /\ sent = << >> /\ shown = << >>
    /\ outgoing = << >> /\ put = << >> /\ sampled = << >>

Tick == \E busy \in Bit, data \in Bit :
    /\ ClockEdge(sck, ss, mosi, mosi, busy, data)
    /\ Record(TRUE, FALSE, busy, data)
    /\ UNCHANGED <<mode, lines>>

Move ==
    /\ MasterMove
    /\ Record(FALSE, TRUE, 0, 0)
    /\ UNCHANGED <<mode, registers>>

\* Both in the same moment.
TickAndMove == \E busy \in Bit, data \in Bit :
    /\ MasterMove
    /\ \E seenSck \in {sck, sck'}, seenSs \in {ss, ss'},
          seenMosi \in {mosi, mosi'}, line \in {mosi, mosi'} :
            ClockEdge(seenSck, seenSs, seenMosi, line, busy, data)
    /\ Record(TRUE, TRUE, busy, data)
    /\ UNCHANGED mode

Next == Tick \/ Move \/ TickAndMove

Spec == Init /\ [][Next]_vars
-----------------------------------------------------------------------------
FrontendType ==
    /\ cpol \in Bit /\ cpha \in Bit
    /\ sck \in Bit /\ ss \in Bit /\ mosi \in Bit
    /\ sckR \in Bit /\ ssR \in Bit /\ mosiR \in Bit /\ lastSck \in Bit
    /\ oData \in Bit /\ oMiso \in Bit /\ spiBusy \in Bit
    /\ age \in 0 .. MinHalf /\ warm \in 0 .. 2 /\ asked \in BOOLEAN
    /\ incoming \in OptionalBit /\ sent \in OptionalBit /\ shown \in OptionalBit
    /\ outgoing \in OptionalBit /\ put \in OptionalBit /\ sampled \in OptionalBit

Incoming == INSTANCE BoundedFifo
    WITH Data <- Bit, Capacity <- 1, queue <- incoming, got <- sent, given <- shown

Outgoing == INSTANCE BoundedFifo
    WITH Data <- Bit, Capacity <- 1, queue <- outgoing, got <- put, given <- sampled

\* Every bit the master sends, in each mode and wherever the clock's edges fall,
\* is strobed into o_data once, with its value, before the next one is sent.
EveryBitStrobedOnce == Incoming!FifoSpec

\* Every bit put on o_miso is what the master samples next, once: it is not
\* overwritten before and does not change while the master looks.
EveryAnswerSampledOnce == Outgoing!FifoSpec

\* A bit that a changing edge has called for from a slave with i_busy high is on
\* o_miso before the edge at which the selected master samples it.
AnsweredInTime == [][SamplingEdge /\ ss = 0 /\ asked => outgoing # << >>]_vars
=============================================================================
