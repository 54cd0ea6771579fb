------------------------------ MODULE CrcCheck ------------------------------
(***************************************************************************)
(* crc.sv and comparator.sv behind the serial path: the crc runs over the  *)
(* bits of the first word of a burst, is held during the second, and the   *)
(* comparator sets it against the second word, as CONTEXT.md describes the *)
(* write flow.  No module of the sources drives en and rst of crc in this  *)
(* way yet (spi_top.sv resets it at each done); the testbench does.        *)
(***************************************************************************)
EXTENDS SerialPath, FiniteSets

CONSTANTS
    CrcWidth,  \* WIDTH of crc and comparator
    Poly       \* i_poly as the set of its ones: 8'h07 is {0, 1, 2}

ASSUME CrcAssumption == CrcWidth \in Nat /\ CrcWidth > 1 /\ Poly \subseteq 0 .. CrcWidth - 1

VARIABLES
    crc,     \* crc_internal
    oEq,     \* comparator: o_eq
    message, \* history: the first word of the burst, as sent
    second   \* history: the deserializer receives the second word

vars == <<serialVars, crc, oEq, message, second>>

CrcBits == 0 .. CrcWidth - 1
Xor(a, b) == (a + b) % 2

\* o_crc, reversed if the word arrives least significant bit first.
OCrc == [i \in CrcBits |-> crc[IF shape.dir = 1 THEN CrcWidth - 1 - i ELSE i]]

\* Variant: the feedback does not see the incoming bit.
CrcShift_NoInput(bit) ==
    LET feedback == crc[CrcWidth - 1]
    IN  [i \in CrcBits |-> Xor(IF i = 0 THEN 0 ELSE crc[i - 1],
                               IF i \in Poly THEN feedback ELSE 0)]

CrcShift(bit) ==
    LET feedback == Xor(crc[CrcWidth - 1], bit)
    IN  [i \in CrcBits |-> Xor(IF i = 0 THEN 0 ELSE crc[i - 1],
                               IF i \in Poly THEN feedback ELSE 0)]

CrcEdge(rst, en, bit) ==
    crc' = IF rst THEN [i \in CrcBits |-> 0]
           ELSE IF en THEN CrcShift(bit)
           ELSE crc

\* The bits that belong to the first word.
InMessage == rxEn /\ ~RxDone /\ rxFirst

CrcInit ==
    /\ Init
    /\ crc = [i \in CrcBits |-> txOut]
    /\ oEq \in BOOLEAN
    /\ message = txWord /\ second = FALSE

\* Bound: only the bits of the first two words of a burst are inverted.
Tick == \E en \in BOOLEAN, word \in Words(shape) \cup {txWord}, flip \in Bit :
    /\ Inputs(en, word, flip)
    /\ flip = 1 => InMessage \/ (RxDone /\ rxFirst) \/ (second /\ ~RxDone)
    /\ Edge(en, word, flip)
    /\ CrcEdge(~rxEn, InMessage, Xor(txOut, flip))
    /\ oEq' = (rxData = OCrc)
    /\ message' = IF RxDone /\ rxFirst THEN rxWord ELSE message
    /\ second' = (rxEn /\ IF RxDone THEN rxFirst ELSE second)

CrcSpec == CrcInit /\ [][Tick]_vars
-----------------------------------------------------------------------------
(* The check value by polynomial division.  A polynomial over GF(2) is the *)
(* set of its exponents.                                                   *)
Sum(p, q) == (p \ q) \cup (q \ p)
Product(p, q) ==
    {n \in 0 .. 3 * CrcWidth :
        Cardinality({ij \in p \X q : ij[1] + ij[2] = n}) % 2 = 1}

\* x^CrcWidth + i_poly, and its multiples up to the degree of a whole frame.
Divisor == {CrcWidth} \cup Poly
Multiples == {Product(q, Divisor) : q \in SUBSET CrcBits}

\* p * x^k.
Up(k, p) == {n + k : n \in p}

\* The remainder that makes message * x^CrcWidth + remainder divisible.
Remainder(p) == CHOOSE r \in SUBSET CrcBits : Sum(Up(CrcWidth, p), r) \in Multiples

\* A word as polynomial, its leading bit the highest power, and back.
Place(i) == IF shape.dir = 1 THEN CrcWidth - 1 - i ELSE i
CheckWord(word) ==
    LET r == Remainder({Place(i) : i \in {j \in CrcBits : word[j] = 1}})
    IN  [i \in CrcBits |-> IF Place(i) \in r THEN 1 ELSE 0]

\* The second word of a burst of whole words is complete at this edge.
SecondDone == rxReady > 0 /\ second /\ RxDone /\ Width = CrcWidth /\ shape.opLen = 0

\* The comparator accepts the second word if and only if it is the check value
\* of the first, and no frame with one to MaxFlips inverted bits is accepted,
\* wherever in message or check value they are and in either bit order.
CrcVerdict ==
    [][SecondDone =>
        /\ flips = 0 => (oEq' <=> rxWord = CheckWord(message))
        /\ flips > 0 /\ rxWord = CheckWord(message) => ~oEq']_vars
-----------------------------------------------------------------------------
(***************************************************************************)
(* The inductive invariant: after n bits of the first word the register    *)
(* holds the remainder of what was received, and what was received is what *)
(* was sent plus an error polynomial with as many terms as inverted bits.  *)
(***************************************************************************)
\* The first n bits of a word as polynomial: those that leave first are the
\* highest powers.
Leading(word, n) ==
    {k \in CrcWidth - n .. CrcWidth - 1 : BitOf(word, CrcWidth - 1 - k) = 1}

CrcPoly == {i \in CrcBits : crc[i] = 1}

\* r is what division leaves of the leading n powers p, with CrcWidth - n
\* places still to go.
LeavesAfter(p, n, r) == Sum(Up(CrcWidth, p), Up(CrcWidth - n, r)) \in Multiples

\* The register after n bits of word and the errors among them, and that the
\* bits of word themselves leave a remainder.
Divided(word, n, errors) ==
    /\ \E r \in SUBSET CrcBits : LeavesAfter(Leading(word, n), n, r)
    /\ LeavesAfter(Sum(Leading(word, n), errors), n, CrcPoly)

\* The deserializer's n bits of the second word: bit k went in n - k edges ago.
SecondReceived(n, errors) ==
    \A k \in 0 .. n - 1 :
        rxData[IF shape.dir = 0 THEN n - 1 - k ELSE Width - n + k]
          = Xor(BitOf(rxWord, k), IF CrcWidth - 1 - k \in errors THEN 1 ELSE 0)

WholeWords == Width = CrcWidth /\ shape.opLen = 0

FirstInv ==
    rxFirst => /\ ~second
               /\ \E errors \in SUBSET (CrcWidth - Got .. CrcWidth - 1) :
                      /\ Divided(rxWord, Got, errors)
                      /\ flips = Cardinality(errors)

SecondInv ==
    second => \E errors \in SUBSET CrcBits,
                 errors2 \in SUBSET (CrcWidth - Got .. CrcWidth - 1) :
                     /\ Divided(message, CrcWidth, errors)
                     /\ SecondReceived(Got, errors2)
                     /\ flips = Cardinality(errors) + Cardinality(errors2)

CrcInv ==
    /\ crc \in [CrcBits -> Bit] /\ second \in BOOLEAN
    /\ rxReady > 0 /\ WholeWords => FirstInv /\ SecondInv

(***************************************************************************)
(* What the theorem about CrcVerdict assumes of the parameters.            *)
(***************************************************************************)
\* The code generated by i_poly detects up to MaxFlips errors in a message and
\* its check value: a fact about the polynomial, not about the circuit.
DetectsFlips ==
    \A errors \in SUBSET (0 .. 2 * CrcWidth - 1) :
        Cardinality(errors) \in 1 .. MaxFlips => errors \notin Multiples

\* {i_data, 7'b0} puts the first bit of a later word where the word begins.
RestartFits == \A s \in Shapes : s.dir = 1 /\ s.width = CrcWidth => s.width = 8
=============================================================================
