----------------------------- MODULE SerialPath -----------------------------
(***************************************************************************)
(* serializer.sv, deserializer.sv and counter.sv on one clock: a           *)
(* serializer at one end of the wire, a deserializer at the other, and the *)
(* counter wired to it as in spi_top.sv (rst while not enabled, incr at    *)
(* done).                                                                  *)
(*                                                                         *)
(* A state is a clock cycle: the registers and the deserializer's enable,  *)
(* which follows the serializer's by the cycle its output register takes.  *)
(* The inputs of an edge are the serializer's en and i_data and whether    *)
(* the wire inverts the bit.  Words are functions from bit numbers.        *)
(***************************************************************************)
EXTENDS Integers

CONSTANTS
    Shapes,   \* instances: WIDTH, OP_LEN and dir (1: least significant bit first)
    Words(_), \* the words an instance is given
    Upto,     \* UPTO of the counter
    MaxFlips  \* bound: inverted bits in a burst

ASSUME SerialAssumption ==
    /\ Shapes \subseteq [width : {w \in Nat : w >= 8}, opLen : Nat, dir : {0, 1}]
    /\ \A s \in Shapes : s.opLen < s.width
    /\ \A s \in Shapes : Words(s) \subseteq [0 .. s.width - 1 -> {0, 1}]
    /\ Upto \in Nat /\ Upto > 1
    /\ MaxFlips \in Nat

VARIABLES
    shape,     \* the instance
    shiftReg,  \* serializer: shift_reg
    txCount,   \* serializer: count
    txOut,     \* serializer: o_data
    rxEn,      \* deserializer: en
    rxData,    \* deserializer: o_data
    rxCount,   \* deserializer: count
    counter,   \* counter
    txReady,   \* history: the serializer has been disabled at some edge
    txWord,    \* history: the word it is sending
    txFirst,   \* history: that is the first word of its burst
    rxReady,   \* history: edges without en the deserializer then had, up to 2
    rxWord,    \* history: the word being received, as sent
    rxFirst,   \* history: that is the first word of its burst
    words,     \* history: words received in this burst, modulo Upto
    flips      \* history: inverted bits in this burst

registers == <<shiftReg, txCount, txOut, rxEn, rxData, rxCount, counter>>
history == <<txReady, txWord, txFirst, rxReady, rxWord, rxFirst, words, flips>>
serialVars == <<shape, registers, history>>

Bit == {0, 1}
Width == shape.width
Bits == 0 .. Width - 1
Vector == [Bits -> Bit]

\* done of either end.
TxDone == txCount = 0
RxDone == rxCount = 0
-----------------------------------------------------------------------------
\* One shift towards the end that dir names, with `bit' coming in.
Shift(vector, bit) ==
    IF shape.dir = 0
    THEN [i \in Bits |-> IF i = 0 THEN bit ELSE vector[i - 1]]
    ELSE [i \in Bits |-> IF i = Width - 1 THEN bit ELSE vector[i + 1]]

\* The bit that leaves first.
Lead(vector) == vector[IF shape.dir = 0 THEN Width - 1 ELSE 0]

\* rst_val: the first bit of a later word.  {i_data, 7'b0} is bit 7 whatever
\* WIDTH is.
Restart(bit) ==
    [i \in Bits |-> IF i = (IF shape.dir = 0 THEN 0 ELSE 7) THEN bit ELSE 0]

\* Variant: the count runs on below 0 when i_data is loaded.
Serializer_NoReload(en, word) ==
    IF ~en THEN
        /\ shiftReg' = word /\ txCount' = Width - shape.opLen /\ txOut' = 0
    ELSE
        /\ txOut' = Lead(IF TxDone THEN word ELSE shiftReg)
        /\ shiftReg' = Shift(IF TxDone THEN word ELSE shiftReg, 0)
        /\ txCount' = txCount - 1

\* Variant: the later words are counted like the first.
Serializer_FullReload(en, word) ==
    IF ~en THEN
        /\ shiftReg' = word /\ txCount' = Width - shape.opLen /\ txOut' = 0
    ELSE IF TxDone THEN
        /\ txOut' = Lead(word)
        /\ shiftReg' = Shift(word, 0)
        /\ txCount' = Width
    ELSE
        /\ txOut' = Lead(shiftReg)
        /\ shiftReg' = Shift(shiftReg, 0)
        /\ txCount' = txCount - 1

Serializer(en, word) ==
    IF ~en THEN
        /\ shiftReg' = word /\ txCount' = Width - shape.opLen /\ txOut' = 0
    ELSE IF TxDone THEN
        /\ txOut' = Lead(word)
        /\ shiftReg' = Shift(word, 0)
        /\ txCount' = Width - 1
    ELSE
        /\ txOut' = Lead(shiftReg)
        /\ shiftReg' = Shift(shiftReg, 0)
        /\ txCount' = txCount - 1

\* Variant: a burst that ends leaves the bits of its last word.
Deserializer_KeepsData(bit) ==
    IF ~rxEn THEN
        /\ UNCHANGED rxData /\ rxCount' = Width - shape.opLen
    ELSE IF RxDone THEN
        /\ rxData' = Restart(bit) /\ rxCount' = Width - 1
    ELSE
        /\ rxData' = Shift(rxData, bit) /\ rxCount' = rxCount - 1

Deserializer(bit) ==
    IF ~rxEn THEN
        /\ rxData' = [i \in Bits |-> 0] /\ rxCount' = Width - shape.opLen
    ELSE IF RxDone THEN
        /\ rxData' = Restart(bit) /\ rxCount' = Width - 1
    ELSE
        /\ rxData' = Shift(rxData, bit) /\ rxCount' = rxCount - 1

\* Variant: nothing brings the count back from 0 but a reset or a word.
CounterEdge_NoReload(rst, incr) ==
    counter' = IF counter = 0 /\ incr THEN Upto - 1
               ELSE IF rst THEN Upto
               ELSE IF incr THEN counter - 1
               ELSE counter

CounterEdge(rst, incr) ==
    counter' = IF counter = 0 /\ incr THEN Upto - 1
               ELSE IF rst \/ counter = 0 THEN Upto
               ELSE IF incr THEN counter - 1
               ELSE counter
-----------------------------------------------------------------------------
\* None of the registers has a reset: they power up with anything, for which
\* all zeros and all ones stand; counter is $clog2(UPTO) + 1 bits wide.
Init ==
    /\ shape \in Shapes
    /\ \E b \in Bit : shiftReg = [i \in Bits |-> b] /\ rxData = shiftReg /\ txOut = b
    /\ txCount \in {0, Width} /\ rxCount \in {0, Width}
    /\ counter \in {c \in 0 .. 4 * Upto : \A k \in 0 .. Upto : 2 ^ k >= Upto => c < 2 ^ (k + 1)}
    /\ rxEn \in BOOLEAN
    /\ txReady = FALSE /\ txFirst = FALSE /\ txWord = [i \in Bits |-> 0]
    /\ rxReady = 0 /\ rxFirst = FALSE /\ rxWord = [i \in Bits |-> 0]
    /\ words = 0 /\ flips = 0

\* The inputs that an edge looks at: i_data when it is loaded, the wire when
\* the deserializer is enabled.
Inputs(en, word, flip) ==
    /\ word \in IF ~en \/ TxDone THEN Words(shape) ELSE {txWord}
    /\ flip \in IF rxEn THEN Bit ELSE {0}
    /\ flips + flip <= MaxFlips

\* A clock edge.
Edge(en, word, flip) ==
    /\ Serializer(en, word)
    /\ Deserializer((txOut + flip) % 2)
    /\ CounterEdge(~rxEn, RxDone)
    /\ rxEn' = en
    /\ UNCHANGED shape
    /\ txReady' = (txReady \/ ~en)
    /\ txWord' = word
    /\ txFirst' = (~en \/ (txFirst /\ ~TxDone))
    /\ rxReady' = IF rxEn \/ ~txReady \/ rxReady = 2 THEN rxReady ELSE rxReady + 1
    /\ rxWord' = txWord
    /\ rxFirst' = txFirst
    /\ words' = IF ~rxEn \/ (RxDone /\ words = Upto - 1) THEN 0
                ELSE IF RxDone THEN words + 1 ELSE words
    /\ flips' = IF ~rxEn THEN 0 ELSE flips + flip

Next == \E en \in BOOLEAN, word \in Words(shape) \cup {txWord}, flip \in Bit :
            Inputs(en, word, flip) /\ Edge(en, word, flip)

Spec == Init /\ [][Next]_serialVars
-----------------------------------------------------------------------------
SerialType ==
    /\ shape \in Shapes
    /\ shiftReg \in Vector /\ rxData \in Vector
    /\ txCount \in 0 .. Width /\ rxCount \in 0 .. Width
    /\ txOut \in Bit /\ rxEn \in BOOLEAN /\ counter \in Nat
    /\ txReady \in BOOLEAN /\ txFirst \in BOOLEAN /\ txWord \in Vector
    /\ rxReady \in 0 .. 2 /\ rxFirst \in BOOLEAN /\ rxWord \in Vector
    /\ words \in 0 .. Upto - 1 /\ flips \in 0 .. MaxFlips

\* Bits of a word that are sent: OP_LEN fewer in the first word of a burst.
Length(first) == Width - (IF first THEN shape.opLen ELSE 0)

\* What has reached the far end of a shift register of zeros when the first
\* n bits of `word' have been shifted in.
Received(word, n) ==
    IF shape.dir = 0
    THEN [i \in Bits |-> IF i < n THEN word[Width - n + i] ELSE 0]
    ELSE [i \in Bits |-> IF i >= Width - n THEN word[i - (Width - n)] ELSE 0]

\* The same for a later word when Restart puts its first bit in another place
\* than Shift does: the bit moves on ahead of the others and is gone after
\* eight shifts, and bit 0 of the word comes back as 0.
ReceivedLater(word, n) ==
    IF shape.dir = 0 \/ n = 0 THEN Received(word, n)
    ELSE [i \in Bits |-> IF i > Width - n THEN word[i - (Width - n)]
                         ELSE IF i = 8 - n THEN word[0] ELSE 0]

Expected(word, first) ==
    IF first THEN Received(word, Length(first)) ELSE ReceivedLater(word, Width)

\* done says that the deserializer shows the word the other end was given: the
\* first word of a burst without its last OP_LEN bits, later words whole. The
\* exception is in Expected: 16 bits, least significant first, later words.
WordsComeBack == rxReady > 0 /\ RxDone /\ flips = 0 => rxData = Expected(rxWord, rxFirst)

\* The counter shows 0 for the cycle after every UPTO-th word of a burst and at
\* no other time, once it had two edges without en.  After one it may be a
\* word ahead: powered up with 0 it takes a done of the deserializer's
\* unset count for a word, and that wins over rst.
DoneEveryUpto ==
    rxReady = 2 => \/ counter = Upto - words
                   \/ counter = 0 /\ words = 0 /\ rxCount = Width - 1
-----------------------------------------------------------------------------
(***************************************************************************)
(* The inductive invariant: both ends count the same bits, one cycle apart.*)
(***************************************************************************)
Sent == Length(txFirst) - txCount
Got == Length(rxFirst) - rxCount

\* shift_reg when n bits of `word' have left it, and the n-th of them from 0.
Remaining(word, n) ==
    IF shape.dir = 0
    THEN [i \in Bits |-> IF i >= n THEN word[i - n] ELSE 0]
    ELSE [i \in Bits |-> IF i + n < Width THEN word[i + n] ELSE 0]

BitOf(word, n) == word[IF shape.dir = 0 THEN Width - 1 - n ELSE n]

TxInv ==
    txReady => /\ txCount <= Length(txFirst)
               /\ shiftReg = Remaining(txWord, Sent)
               /\ Sent > 0 => txOut = BitOf(txWord, Sent - 1)

\* The bit on the wire is the deserializer's next one: of the same word, or
\* the first of a later word when its own is complete.
LinkInv ==
    /\ txReady =>
         IF rxEn
         THEN /\ rxReady > 0
              /\ \/ txWord = rxWord /\ txFirst = rxFirst /\ Sent = Got + 1
                 \/ RxDone /\ ~txFirst /\ Sent = 1
         ELSE txFirst /\ Sent = 0
    /\ rxReady > 0 => txReady

RxInv ==
    rxReady > 0 =>
        /\ rxCount <= Length(rxFirst)
        /\ ~rxFirst => Got > 0
        /\ flips = 0 => rxData = IF rxFirst THEN Received(rxWord, Got)
                                 ELSE ReceivedLater(rxWord, Got)

CounterInv == rxReady > 0 /\ counter = 0 => ~RxDone

\* Serializer, wire and deserializer agree at every bit on the word, on how much
\* of it has passed and on what both shift registers hold of it.
SerialInv == TxInv /\ LinkInv /\ RxInv /\ CounterInv /\ DoneEveryUpto
=============================================================================
