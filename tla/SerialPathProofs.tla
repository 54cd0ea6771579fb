-------------------------- MODULE SerialPathProofs --------------------------
(***************************************************************************)
(* Proofs about the serial path, for instances of every width from 8 on,   *)
(* every OP_LEN below it, both bit orders, every UPTO and all words.       *)
(***************************************************************************)
EXTENDS SerialPath, TLAPS

LEMMA ShapeFacts ==
    ASSUME SerialType
    PROVE  /\ Width \in Nat /\ Width >= 8
           /\ shape.opLen \in Nat /\ shape.opLen < Width
           /\ shape.dir \in {0, 1}
           /\ Words(shape) \subseteq Vector
BY SerialAssumption DEF SerialType, Width, Vector, Bits, Bit

LEMMA LengthFacts ==
    ASSUME SerialType, NEW first \in BOOLEAN
    PROVE  /\ Length(first) \in Nat /\ Length(first) > 0 /\ Length(first) <= Width
           /\ Length(FALSE) = Width /\ Length(TRUE) = Width - shape.opLen
BY ShapeFacts DEF Length

LEMMA ShiftType ==
    ASSUME SerialType, NEW vector \in Vector, NEW bit \in Bit
    PROVE  Shift(vector, bit) \in Vector /\ Restart(bit) \in Vector /\ Lead(vector) \in Bit
<1>1. Width \in Nat /\ Width >= 8 /\ shape.dir \in {0, 1}
  BY ShapeFacts
<1>2. Restart(bit) \in Vector
  BY DEF Restart, Vector, Bit
<1>3. Lead(vector) \in Bit
  BY <1>1 DEF Lead, Vector, Bits
<1>4. Shift(vector, bit) \in Vector
  <2>2. CASE shape.dir = 0
    <3>1. Shift(vector, bit) = [i \in Bits |-> IF i = 0 THEN bit ELSE vector[i - 1]]
      BY <2>2 DEF Shift
    <3>2. ASSUME NEW i \in Bits PROVE (IF i = 0 THEN bit ELSE vector[i - 1]) \in Bit
      <4>1. CASE i = 0
        BY <4>1
      <4>2. CASE ~(i = 0)
        BY <1>1, <4>2 DEF Vector, Bits
      <4> QED
        BY <4>1, <4>2
    <3> QED
      BY <3>1, <3>2 DEF Vector
  <2>3. CASE shape.dir # 0
    <3>1. Shift(vector, bit) = [i \in Bits |-> IF i = Width - 1 THEN bit ELSE vector[i + 1]]
      BY <2>3 DEF Shift
    <3>2. ASSUME NEW i \in Bits PROVE (IF i = Width - 1 THEN bit ELSE vector[i + 1]) \in Bit
      <4>1. CASE i = Width - 1
        BY <4>1
      <4>2. CASE ~(i = Width - 1)
        BY <1>1, <4>2 DEF Vector, Bits
      <4> QED
        BY <4>1, <4>2
    <3> QED
      BY <3>1, <3>2 DEF Vector
  <2> QED
    BY <2>2, <2>3
<1> QED
  BY <1>2, <1>3, <1>4

LEMMA EdgeType ==
    ASSUME SerialType, NEW en \in BOOLEAN, NEW word, NEW flip \in Bit,
           Inputs(en, word, flip), Edge(en, word, flip)
    PROVE  SerialType'
<1>1. shape' = shape /\ Vector' = Vector /\ Width' = Width
  BY DEF Edge, Vector, Bits, Width
<1>2. word \in Vector
  BY ShapeFacts DEF Inputs, SerialType
<1>3. /\ Width \in Nat /\ Width >= 8 /\ 0 \in Bit /\ (txOut + flip) % 2 \in Bit
      /\ shape.opLen \in Nat /\ shape.opLen < Width
  BY ShapeFacts DEF SerialType, Bit
<1>4. shiftReg' \in Vector /\ txCount' \in 0 .. Width /\ txOut' \in Bit
  <2>1. /\ txCount' = IF ~en THEN Width - shape.opLen
                     ELSE IF txCount = 0 THEN Width - 1 ELSE txCount - 1
        /\ shiftReg' = IF ~en THEN word ELSE Shift(IF txCount = 0 THEN word ELSE shiftReg, 0)
        /\ txOut' = IF ~en THEN 0 ELSE Lead(IF txCount = 0 THEN word ELSE shiftReg)
    BY DEF Edge, Serializer, TxDone
  <2>2. txCount' \in 0 .. Width
    BY <1>3, <2>1 DEF SerialType
  <2>3. /\ Shift(word, 0) \in Vector /\ Shift(shiftReg, 0) \in Vector
        /\ Lead(word) \in Bit /\ Lead(shiftReg) \in Bit
    BY <1>2, <1>3, ShiftType DEF SerialType
  <2> QED
    BY <1>2, <1>3, <2>1, <2>2, <2>3
<1>5. rxData' \in Vector /\ rxCount' \in 0 .. Width
  <2> DEFINE bit == (txOut + flip) % 2
  <2>1. /\ rxCount' = IF ~rxEn THEN Width - shape.opLen
                     ELSE IF rxCount = 0 THEN Width - 1 ELSE rxCount - 1
        /\ rxData' = IF ~rxEn THEN [i \in Bits |-> 0]
                    ELSE IF rxCount = 0 THEN Restart(bit) ELSE Shift(rxData, bit)
    BY DEF Edge, Deserializer, RxDone
  <2>2. rxCount' \in 0 .. Width
    BY <1>3, <2>1 DEF SerialType
  <2> HIDE DEF bit
  <2>3. [i \in Bits |-> 0] \in Vector /\ Restart(bit) \in Vector /\ Shift(rxData, bit) \in Vector
    <3>1. bit \in Bit
      BY <1>3 DEF bit
    <3>2. [i \in Bits |-> 0] \in Vector
      BY <1>3 DEF Vector
    <3> QED
      BY <3>1, <3>2, ShiftType DEF SerialType
  <2> QED
    BY <2>1, <2>2, <2>3
<1>6. counter' \in Nat
  BY SerialAssumption DEF SerialType, Edge, CounterEdge
<1>7. /\ txReady' \in BOOLEAN /\ txFirst' \in BOOLEAN /\ txWord' \in Vector
      /\ rxReady' \in 0 .. 2 /\ rxFirst' \in BOOLEAN /\ rxWord' \in Vector /\ rxEn' \in BOOLEAN
  BY <1>2 DEF SerialType, Edge
<1>8. words' \in 0 .. Upto - 1 /\ flips' \in 0 .. MaxFlips
  BY SerialAssumption DEF SerialType, Edge, Inputs, Bit
<1> QED
  BY <1>1, <1>4, <1>5, <1>6, <1>7, <1>8 DEF SerialType, Bit

LEMMA StutterType ==
    ASSUME SerialType, UNCHANGED serialVars
    PROVE  SerialType'
BY DEF SerialType, serialVars, registers, history, Vector, Bits, Width

LEMMA InitType == Init => SerialType
<1> SUFFICES ASSUME Init PROVE SerialType
  OBVIOUS
<1>1. shape \in Shapes /\ Width \in Nat
  BY SerialAssumption DEF Init, Width
<1>2. ASSUME NEW b \in Bit PROVE [i \in Bits |-> b] \in Vector
  BY DEF Vector
<1>3. PICK b \in Bit : shiftReg = [i \in Bits |-> b] /\ rxData = shiftReg /\ txOut = b
  BY DEF Init
<1>4. shiftReg \in Vector /\ rxData \in Vector /\ txOut \in Bit
  BY <1>2, <1>3
<1>5. txWord \in Vector /\ rxWord \in Vector
  BY <1>2 DEF Init, Bit
<1>6. /\ txCount \in 0 .. Width /\ rxCount \in 0 .. Width /\ counter \in Nat
      /\ words \in 0 .. Upto - 1 /\ flips \in 0 .. MaxFlips /\ rxReady \in 0 .. 2
  BY <1>1, SerialAssumption DEF Init
<1> QED
  BY <1>1, <1>4, <1>5, <1>6 DEF Init, SerialType

\* Counts, registers and words keep their widths.
THEOREM TypeCorrect == Spec => []SerialType
<1>1. SerialType /\ [Next]_serialVars => SerialType'
  BY EdgeType, StutterType DEF Next
<1> QED
  BY <1>1, InitType, PTL DEF Spec
-----------------------------------------------------------------------------
(***************************************************************************)
(* What a shift does to a register that has sent or received n bits.       *)
(***************************************************************************)
LEMMA SendShift ==
    ASSUME SerialType, NEW word \in Vector, NEW n \in Nat, n < Width
    PROVE  /\ Shift(Remaining(word, n), 0) = Remaining(word, n + 1)
           /\ Lead(Remaining(word, n)) = BitOf(word, n)
<1>1. Width \in Nat /\ Width >= 8 /\ shape.dir \in {0, 1} /\ Bits = 0 .. Width - 1
  BY ShapeFacts DEF Bits
<1>2. CASE shape.dir = 0
  <2>1. Remaining(word, n) = [i \in Bits |-> IF i >= n THEN word[i - n] ELSE 0]
    BY <1>2 DEF Remaining
  <2>2. Lead(Remaining(word, n)) = BitOf(word, n)
    BY <1>1, <1>2, <2>1 DEF Lead, BitOf
  <2>3. /\ Shift(Remaining(word, n), 0) =
            [i \in Bits |-> IF i = 0 THEN 0 ELSE Remaining(word, n)[i - 1]]
        /\ Remaining(word, n + 1) = [i \in Bits |-> IF i >= n + 1 THEN word[i - (n + 1)] ELSE 0]
    BY <1>2 DEF Shift, Remaining
  <2>4. ASSUME NEW i \in Bits
        PROVE  (IF i = 0 THEN 0 ELSE Remaining(word, n)[i - 1])
                 = IF i >= n + 1 THEN word[i - (n + 1)] ELSE 0
    BY <1>1, <2>1
  <2> QED
    BY <2>2, <2>3, <2>4
<1>3. CASE shape.dir = 1
  <2>1. Remaining(word, n) = [i \in Bits |-> IF i + n < Width THEN word[i + n] ELSE 0]
    BY <1>3 DEF Remaining
  <2>2. Lead(Remaining(word, n)) = BitOf(word, n)
    BY <1>1, <1>3, <2>1 DEF Lead, BitOf
  <2>3. /\ Shift(Remaining(word, n), 0) =
            [i \in Bits |-> IF i = Width - 1 THEN 0 ELSE Remaining(word, n)[i + 1]]
        /\ Remaining(word, n + 1) = [i \in Bits |-> IF i + (n + 1) < Width THEN word[i + (n + 1)] ELSE 0]
    BY <1>3 DEF Shift, Remaining
  <2>4. ASSUME NEW i \in Bits
        PROVE  (IF i = Width - 1 THEN 0 ELSE Remaining(word, n)[i + 1])
                 = IF i + (n + 1) < Width THEN word[i + (n + 1)] ELSE 0
    BY <1>1, <2>1
  <2> QED
    BY <2>2, <2>3, <2>4
<1> QED
  BY <1>1, <1>2, <1>3

LEMMA SendStart ==
    ASSUME SerialType, NEW word \in Vector
    PROVE  Remaining(word, 0) = word
<1>1. Width \in Nat /\ shape.dir \in {0, 1} /\ Bits = 0 .. Width - 1
  BY ShapeFacts DEF Bits
<1>2. word = [i \in Bits |-> word[i]]
  BY DEF Vector
<1>3. ASSUME NEW i \in Bits
      PROVE  /\ (IF i >= 0 THEN word[i - 0] ELSE 0) = word[i]
             /\ (IF i + 0 < Width THEN word[i + 0] ELSE 0) = word[i]
  BY <1>1
<1> QED
  BY <1>1, <1>2, <1>3 DEF Remaining

LEMMA ReceiveShift ==
    ASSUME SerialType, NEW word \in Vector, NEW n \in Nat, n < Width
    PROVE  /\ Shift(Received(word, n), BitOf(word, n)) = Received(word, n + 1)
           /\ n > 0 => Shift(ReceivedLater(word, n), BitOf(word, n)) = ReceivedLater(word, n + 1)
<1>1. Width \in Nat /\ Width >= 8 /\ shape.dir \in {0, 1} /\ Bits = 0 .. Width - 1
  BY ShapeFacts DEF Bits
<1>2. CASE shape.dir = 0
  <2>1. Received(word, n) = [i \in Bits |-> IF i < n THEN word[Width - n + i] ELSE 0]
    BY <1>2 DEF Received
  <2>2. /\ Shift(Received(word, n), BitOf(word, n)) =
            [i \in Bits |-> IF i = 0 THEN word[Width - 1 - n] ELSE Received(word, n)[i - 1]]
        /\ Received(word, n + 1) = [i \in Bits |-> IF i < n + 1 THEN word[Width - (n + 1) + i] ELSE 0]
    BY <1>2 DEF Shift, Received, BitOf
  <2>3. ASSUME NEW i \in Bits
        PROVE  (IF i = 0 THEN word[Width - 1 - n] ELSE Received(word, n)[i - 1])
                 = IF i < n + 1 THEN word[Width - (n + 1) + i] ELSE 0
    <3>1. CASE i = 0
      BY <1>1, <3>1
    <3>2. CASE i # 0
      <4>1. Received(word, n)[i - 1] = IF i - 1 < n THEN word[Width - n + (i - 1)] ELSE 0
        BY <1>1, <2>1, <3>2
      <4>2. Width - n + (i - 1) = Width - (n + 1) + i
        BY <1>1
      <4> QED
        BY <1>1, <3>2, <4>1, <4>2
    <3> QED
      BY <3>1, <3>2
  <2>4. ReceivedLater(word, n) = Received(word, n) /\ ReceivedLater(word, n + 1) = Received(word, n + 1)
    BY <1>2 DEF ReceivedLater
  <2> QED
    BY <2>2, <2>3, <2>4
<1>3. CASE shape.dir = 1
  <2>1. /\ Received(word, n) = [i \in Bits |-> IF i >= Width - n THEN word[i - (Width - n)] ELSE 0]
        /\ Received(word, n + 1) =
             [i \in Bits |-> IF i >= Width - (n + 1) THEN word[i - (Width - (n + 1))] ELSE 0]
    BY <1>3 DEF Received
  <2>2. ASSUME NEW v PROVE
            Shift(v, BitOf(word, n)) = [i \in Bits |-> IF i = Width - 1 THEN word[n] ELSE v[i + 1]]
    BY <1>3 DEF Shift, BitOf
  <2>3. ASSUME NEW i \in Bits
        PROVE  (IF i = Width - 1 THEN word[n] ELSE Received(word, n)[i + 1])
                 = IF i >= Width - (n + 1) THEN word[i - (Width - (n + 1))] ELSE 0
    <3>1. CASE i = Width - 1
      BY <1>1, <3>1
    <3>2. CASE i # Width - 1
      <4>1. Received(word, n)[i + 1] =
              IF i + 1 >= Width - n THEN word[(i + 1) - (Width - n)] ELSE 0
        BY <1>1, <2>1, <3>2
      <4>2. (i + 1) - (Width - n) = i - (Width - (n + 1))
        BY <1>1
      <4> QED
        BY <1>1, <3>2, <4>1, <4>2
    <3> QED
      BY <3>1, <3>2
  <2>4. ASSUME n > 0
        PROVE  Shift(ReceivedLater(word, n), BitOf(word, n)) = ReceivedLater(word, n + 1)
    <3>1. /\ ReceivedLater(word, n) =
               [i \in Bits |-> IF i > Width - n THEN word[i - (Width - n)]
                              ELSE IF i = 8 - n THEN word[0] ELSE 0]
          /\ ReceivedLater(word, n + 1) =
               [i \in Bits |-> IF i > Width - (n + 1) THEN word[i - (Width - (n + 1))]
                              ELSE IF i = 8 - (n + 1) THEN word[0] ELSE 0]
      BY <1>3, <2>4 DEF ReceivedLater
    <3>2. ASSUME NEW i \in Bits
          PROVE  (IF i = Width - 1 THEN word[n] ELSE ReceivedLater(word, n)[i + 1])
                   = IF i > Width - (n + 1) THEN word[i - (Width - (n + 1))]
                     ELSE IF i = 8 - (n + 1) THEN word[0] ELSE 0
      <4>1. CASE i = Width - 1
        BY <1>1, <2>4, <4>1
      <4>2. CASE i # Width - 1
        <5>1. ReceivedLater(word, n)[i + 1] =
                IF i + 1 > Width - n THEN word[(i + 1) - (Width - n)]
                ELSE IF i + 1 = 8 - n THEN word[0] ELSE 0
          BY <1>1, <3>1, <4>2
        <5>2. (i + 1) - (Width - n) = i - (Width - (n + 1))
          BY <1>1
        <5> QED
          BY <1>1, <4>2, <5>1, <5>2
      <4> QED
        BY <4>1, <4>2
    <3>3. Shift(ReceivedLater(word, n), BitOf(word, n)) =
            [i \in Bits |-> IF i = Width - 1 THEN word[n] ELSE ReceivedLater(word, n)[i + 1]]
      BY <1>3 DEF Shift, BitOf
    <3>4. [i \in Bits |-> IF i = Width - 1 THEN word[n] ELSE ReceivedLater(word, n)[i + 1]] =
            [i \in Bits |-> IF i > Width - (n + 1) THEN word[i - (Width - (n + 1))]
                            ELSE IF i = 8 - (n + 1) THEN word[0] ELSE 0]
      BY <3>2
    <3> QED
      BY <3>1, <3>3, <3>4
  <2> QED
    BY <2>1, <2>2, <2>3, <2>4
<1> QED
  BY <1>1, <1>2, <1>3

LEMMA ReceiveStart ==
    ASSUME SerialType, NEW word \in Vector
    PROVE  /\ Received(word, 0) = [i \in Bits |-> 0]
           /\ ReceivedLater(word, 1) = Restart(BitOf(word, 0))
<1>1. Width \in Nat /\ Width >= 8 /\ shape.dir \in {0, 1} /\ Bits = 0 .. Width - 1
  BY ShapeFacts DEF Bits
<1>2. CASE shape.dir = 0
  <2>1. ASSUME NEW i \in Bits
        PROVE  /\ (IF i < 0 THEN word[Width - 0 + i] ELSE 0) = 0
               /\ (IF i < 1 THEN word[Width - 1 + i] ELSE 0) = IF i = 0 THEN word[Width - 1 - 0] ELSE 0
    BY <1>1
  <2> QED
    BY <1>2, <2>1 DEF Received, ReceivedLater, Restart, BitOf
<1>3. CASE shape.dir = 1
  <2>1. ASSUME NEW i \in Bits
        PROVE  /\ (IF i >= Width - 0 THEN word[i - (Width - 0)] ELSE 0) = 0
               /\ (IF i > Width - 1 THEN word[i - (Width - 1)] ELSE IF i = 8 - 1 THEN word[0] ELSE 0)
                    = IF i = 7 THEN word[0] ELSE 0
    BY <1>1
  <2> QED
    BY <1>3, <2>1 DEF Received, ReceivedLater, Restart, BitOf
<1> QED
  BY <1>1, <1>2, <1>3
-----------------------------------------------------------------------------
(***************************************************************************)
(* One clock edge keeps each part of SerialInv.                            *)
(***************************************************************************)
\* What an edge does to the counts.
Counts(en, word) ==
    /\ shape' = shape /\ Width' = Width /\ rxEn' = en
    /\ txWord' = word /\ rxWord' = txWord /\ rxFirst' = txFirst
    /\ en /\ ~TxDone => word = txWord
    /\ txFirst' = (~en \/ (txFirst /\ ~TxDone))
    /\ txCount' = IF ~en THEN Width - shape.opLen
                  ELSE IF TxDone THEN Width - 1 ELSE txCount - 1
    /\ rxCount' = IF ~rxEn THEN Width - shape.opLen
                  ELSE IF RxDone THEN Width - 1 ELSE rxCount - 1
    /\ word \in Vector /\ txWord \in Vector /\ rxWord \in Vector
    /\ txCount \in Nat /\ rxCount \in Nat
    /\ shape.opLen \in Nat /\ shape.opLen < Width /\ Width \in Nat /\ Width >= 8

LEMMA EdgeFacts ==
    ASSUME SerialType, NEW en \in BOOLEAN, NEW word, NEW flip \in Bit,
           Inputs(en, word, flip), Edge(en, word, flip)
    PROVE  Counts(en, word)
<1>1. shape' = shape /\ Width' = Width
  BY DEF Edge, Width
<1>4. /\ Width \in Nat /\ Width >= 8 /\ shape.opLen \in Nat /\ shape.opLen < Width
      /\ Words(shape) \subseteq Vector
  BY ShapeFacts
<1>5. word \in Vector /\ (en /\ ~TxDone => word = txWord)
  BY <1>4 DEF Inputs, SerialType
<1>6. /\ txCount' = IF ~en THEN Width - shape.opLen
                    ELSE IF TxDone THEN Width - 1 ELSE txCount - 1
      /\ rxCount' = IF ~rxEn THEN Width - shape.opLen
                    ELSE IF RxDone THEN Width - 1 ELSE rxCount - 1
  BY DEF Edge, Serializer, Deserializer
<1>7. txWord \in Vector /\ rxWord \in Vector /\ txCount \in Nat /\ rxCount \in Nat
  BY <1>4 DEF SerialType
<1> QED
  BY <1>1, <1>4, <1>5, <1>6, <1>7 DEF Edge, Counts

LEMMA TxStep ==
    ASSUME SerialType, SerialInv, NEW en \in BOOLEAN, NEW word, NEW flip \in Bit,
           Inputs(en, word, flip), Edge(en, word, flip)
    PROVE  TxInv'
<1>a. Counts(en, word)
  BY EdgeFacts
<1>1. txFirst \in BOOLEAN /\ (txReady' => ~en \/ txReady) /\ shape.dir \in {0, 1}
  BY ShapeFacts DEF Edge, SerialType
<1>2. CASE ~en
  <2>1. shiftReg' = word /\ txFirst' = TRUE /\ txWord' = word
    BY <1>2 DEF Edge, Serializer
  <2>2. Length(txFirst)' = Width - shape.opLen
    BY <2>1, <1>a DEF Length, Counts
  <2>3. txCount' = Length(txFirst)' /\ Sent' = 0
    BY <1>2, <2>2, <1>a DEF Sent, Counts
  <2>4. shiftReg' = Remaining(word, 0)
    BY <2>1, <1>a, SendStart DEF Counts
  <2>5. Remaining(txWord, Sent)' = Remaining(word, 0)
    BY <2>1, <2>3, <1>a DEF Remaining, Bits, Counts
  <2> QED
    BY <1>a, <2>2, <2>3, <2>4, <2>5 DEF TxInv, Counts
<1>3. CASE en /\ TxDone
  <2>1. /\ shiftReg' = Shift(word, 0) /\ txOut' = Lead(word)
        /\ txFirst' = FALSE /\ txWord' = word
    BY <1>3 DEF Edge, Serializer
  <2>2. Length(txFirst)' = Width
    BY <2>1, <1>a DEF Length, Counts
  <2>3. txCount' <= Length(txFirst)' /\ Sent' = 1
    BY <1>3, <2>2, <1>a DEF Sent, Counts
  <2>4. shiftReg' = Remaining(word, 1) /\ txOut' = BitOf(word, 0)
    <3>1. word \in Vector /\ 0 < Width /\ Remaining(word, 0) = word
      BY <1>a, SendStart DEF Counts
    <3>2. /\ Shift(Remaining(word, 0), 0) = Remaining(word, 0 + 1)
          /\ Lead(Remaining(word, 0)) = BitOf(word, 0)
      BY <3>1, SendShift
    <3> QED
      BY <2>1, <3>1, <3>2
  <2>5. Remaining(txWord, Sent)' = Remaining(word, 1)
    BY <2>1, <2>3, <1>a DEF Remaining, Bits, Counts
  <2>6. BitOf(txWord, Sent - 1)' = BitOf(word, 0)
    <3>1. Sent' - 1 = 0
      BY <2>3
    <3> QED
      BY <2>1, <3>1, <1>a DEF BitOf, Counts
  <2> QED
    BY <2>3, <2>4, <2>5, <2>6 DEF TxInv
<1>4. CASE en /\ ~TxDone /\ txReady
  <2>1. /\ shiftReg' = Shift(shiftReg, 0) /\ txOut' = Lead(shiftReg)
        /\ txFirst' = txFirst /\ txWord' = word /\ word = txWord
    <3>1. shiftReg' = Shift(shiftReg, 0) /\ txOut' = Lead(shiftReg)
      BY <1>4 DEF Edge, Serializer
    <3>2. txFirst' = txFirst
      BY <1>1, <1>4, <1>a DEF Counts
    <3> QED
      BY <1>4, <1>a, <3>1, <3>2 DEF Counts
  <2>2. Length(txFirst)' = Length(txFirst) /\ Length(txFirst) \in Nat /\ Length(txFirst) <= Width
    BY <1>1, <2>1, <1>a, LengthFacts DEF Length, Counts
  <2>3. /\ txCount <= Length(txFirst) /\ shiftReg = Remaining(txWord, Sent)
    BY <1>1, <1>4 DEF SerialInv, TxInv
  <2>4. txCount > 0 /\ txCount' = txCount - 1
    BY <1>4, <1>a DEF TxDone, Counts
  <2>5. Sent \in Nat /\ Sent < Width /\ Sent' = Sent + 1 /\ txCount' <= Length(txFirst)'
    BY <2>2, <2>3, <2>4, <1>a DEF Sent, Counts
  <2>6. shiftReg' = Remaining(word, Sent + 1) /\ txOut' = BitOf(word, Sent)
    <3>1. word \in Vector
      BY <1>a DEF Counts
    <3>2. /\ Shift(Remaining(word, Sent), 0) = Remaining(word, Sent + 1)
          /\ Lead(Remaining(word, Sent)) = BitOf(word, Sent)
      BY <2>5, <3>1, SendShift
    <3> QED
      BY <2>1, <2>3, <3>2
  <2>7. Remaining(txWord, Sent)' = Remaining(word, Sent + 1)
    <3>1. txWord' = word /\ Sent' = Sent + 1 /\ shape' = shape /\ Width' = Width
      BY <2>1, <2>5, <1>a DEF Counts
    <3> HIDE DEF Sent
    <3> QED
      BY <3>1 DEF Remaining, Bits
  <2>8. BitOf(txWord, Sent - 1)' = BitOf(word, Sent)
    <3>1. txWord' = word /\ Sent' - 1 = Sent /\ shape' = shape /\ Width' = Width
      BY <2>1, <2>5, <1>a DEF Counts
    <3> QED
      BY <3>1 DEF BitOf
  <2> QED
    BY <2>5, <2>6, <2>7, <2>8 DEF TxInv
<1> QED
  BY <1>1, <1>2, <1>3, <1>4 DEF TxInv

\* Which of the two disjuncts of LinkInv an enabled deserializer is in follows
\* from its count.
Linked ==
    /\ ~rxEn => txFirst /\ txCount = Width - shape.opLen
    /\ rxEn /\ ~RxDone => txWord = rxWord /\ txFirst = rxFirst /\ txCount = rxCount - 1
    /\ rxEn /\ RxDone => ~txFirst /\ txCount = Width - 1
    /\ rxEn => rxReady > 0

LEMMA LinkCases ==
    ASSUME SerialType, SerialInv, txReady
    PROVE  Linked
<1>1. txFirst \in BOOLEAN /\ rxFirst \in BOOLEAN /\ txCount \in Nat /\ rxCount \in Nat
  BY ShapeFacts DEF SerialType
<1>2. /\ Length(txFirst) = IF txFirst THEN Width - shape.opLen ELSE Width
      /\ Width \in Nat /\ shape.opLen \in Nat /\ shape.opLen < Width
  BY <1>1, ShapeFacts DEF Length
<1>3. IF rxEn
      THEN /\ rxReady > 0
           /\ \/ txWord = rxWord /\ txFirst = rxFirst /\ Sent = Got + 1
              \/ RxDone /\ ~txFirst /\ Sent = 1
      ELSE txFirst /\ Sent = 0
  BY DEF SerialInv, LinkInv
<1>4. CASE ~rxEn
  <2>1. Length(txFirst) = Width - shape.opLen
    BY <1>2, <1>3, <1>4
  <2>2. Length(txFirst) - txCount = 0
    BY <1>3, <1>4 DEF Sent
  <2>3. txCount = Width - shape.opLen
    BY <1>1, <1>2, <2>1, <2>2
  <2> QED
    BY <1>3, <1>4, <2>3 DEF Linked
<1>5. CASE rxEn /\ txWord = rxWord /\ txFirst = rxFirst /\ Sent = Got + 1
  <2>1. Length(txFirst) - txCount = Length(txFirst) - rxCount + 1
    BY <1>5 DEF Sent, Got
  <2>2. txCount = rxCount - 1
    BY <1>1, <1>2, <2>1
  <2>3. ~RxDone
    BY <1>1, <2>2 DEF RxDone
  <2> QED
    BY <1>3, <1>5, <2>2, <2>3 DEF Linked
<1>6. CASE rxEn /\ RxDone /\ ~txFirst /\ Sent = 1
  <2>1. Length(txFirst) = Width
    BY <1>2, <1>6
  <2>2. Length(txFirst) - txCount = 1
    BY <1>6 DEF Sent
  <2>3. txCount = Width - 1
    BY <1>1, <1>2, <2>1, <2>2
  <2> QED
    BY <1>3, <1>6, <2>3 DEF Linked
<1> QED
  BY <1>3, <1>4, <1>5, <1>6

LEMMA LinkStep ==
    ASSUME SerialType, SerialInv, NEW en \in BOOLEAN, NEW word, NEW flip \in Bit,
           Inputs(en, word, flip), Edge(en, word, flip)
    PROVE  LinkInv'
<1>a. Counts(en, word)
  BY EdgeFacts
<1>1. /\ txFirst \in BOOLEAN /\ rxFirst \in BOOLEAN /\ rxReady \in 0 .. 2
      /\ txReady \in BOOLEAN /\ rxEn \in BOOLEAN
      /\ rxReady' = (IF rxEn \/ ~txReady \/ rxReady = 2 THEN rxReady ELSE rxReady + 1)
      /\ txReady' = (txReady \/ ~en)
  BY DEF SerialType, Edge
<1>2. (rxReady > 0)' => txReady'
  BY <1>1 DEF SerialInv, LinkInv
<1>3. CASE ~en
  <2>1. txFirst' = TRUE /\ ~rxEn'
    BY <1>3, <1>a DEF Counts
  <2>2. Length(txFirst)' = Width - shape.opLen
    BY <2>1, <1>a DEF Length, Counts
  <2>3. Sent' = 0
    BY <1>3, <2>2, <1>a DEF Sent, Counts
  <2> QED
    BY <1>2, <2>1, <2>3 DEF LinkInv
<1>4. CASE en /\ ~txReady
  BY <1>1, <1>2, <1>4 DEF LinkInv
<1>5. CASE en /\ txReady
  <2>a. Linked
    BY <1>5, LinkCases
  <2>1. rxEn' /\ (rxReady > 0)' /\ rxWord' = txWord /\ rxFirst' = txFirst /\ txWord' = word
    BY <1>1, <1>5, <1>a, <2>a DEF Counts, Linked
  <2>2. /\ Sent' = Length(txFirst)' - txCount' /\ Got' = Length(rxFirst)' - rxCount'
        /\ Length(rxFirst)' = Length(txFirst)
    BY <1>1, <2>1, <1>a DEF Sent, Got, Length, Counts
  <2>3. /\ txFirst' => Length(txFirst)' = Width - shape.opLen
        /\ ~txFirst' => Length(txFirst)' = Width
        /\ txFirst => Length(txFirst) = Width - shape.opLen
        /\ ~txFirst => Length(txFirst) = Width
    BY <1>1, <1>a DEF Length, Counts
  <2>4. txFirst' = (txFirst /\ ~TxDone)
    BY <1>5, <1>a DEF Counts
  <2>5. CASE TxDone
    <3>1. Sent' = 1 /\ ~txFirst'
      <4>1. ~txFirst' /\ txCount' = Width - 1
        BY <1>5, <1>a, <2>4, <2>5 DEF Counts
      <4>2. Length(txFirst)' = Width
        BY <2>3, <4>1
      <4> QED
        BY <1>a, <2>2, <4>1, <4>2 DEF Counts
    <3>2. rxEn /\ ~RxDone /\ txCount = rxCount - 1
      BY <1>5, <2>5, <2>a, <1>a DEF TxDone, Counts, Linked
    <3>3. RxDone'
      BY <2>5, <3>2, <1>a DEF TxDone, RxDone, Counts
    <3> QED
      BY <1>2, <2>1, <3>1, <3>3 DEF LinkInv
  <2>6. CASE ~TxDone
    <3>1. txWord' = rxWord' /\ txFirst' = rxFirst' /\ Length(txFirst)' = Length(rxFirst)'
      BY <1>1, <1>5, <2>1, <2>2, <2>3, <2>4, <2>6, <1>a DEF Counts
    <3>2. txCount' = txCount - 1 /\ rxCount' = txCount
      BY <1>5, <2>6, <2>a, <1>a DEF Counts, Linked
    <3>3. Length(rxFirst)' \in Nat
      BY <1>1, <2>2, LengthFacts
    <3>4. Sent' = Got' + 1
      BY <2>2, <3>1, <3>2, <3>3, <1>a DEF Counts
    <3> QED
      BY <1>2, <2>1, <3>1, <3>4 DEF LinkInv
  <2> QED
    BY <2>5, <2>6
<1> QED
  BY <1>1, <1>3, <1>4, <1>5

LEMMA RxStep ==
    ASSUME SerialType, SerialInv, NEW en \in BOOLEAN, NEW word, NEW flip \in Bit,
           Inputs(en, word, flip), Edge(en, word, flip)
    PROVE  RxInv'
<1>a. Counts(en, word)
  BY EdgeFacts
<1>1. /\ txFirst \in BOOLEAN /\ rxFirst \in BOOLEAN /\ rxEn \in BOOLEAN
      /\ rxReady' = (IF rxEn \/ ~txReady \/ rxReady = 2 THEN rxReady ELSE rxReady + 1)
      /\ rxReady \in 0 .. 2 /\ txReady \in BOOLEAN
      /\ flips' = IF ~rxEn THEN 0 ELSE flips + flip
      /\ flips \in Nat /\ flip \in {0, 1} /\ txOut \in {0, 1}
  BY SerialAssumption DEF SerialType, Edge, Bit
<1>2. CASE ~(rxReady > 0)'
  BY <1>2 DEF RxInv
<1>3. CASE (rxReady > 0)' /\ ~rxEn
  <2>1. txReady
    BY <1>1, <1>3 DEF SerialInv, LinkInv
  <2>2. Linked
    BY <2>1, LinkCases
  <2>3. txFirst = TRUE /\ rxFirst' = TRUE /\ rxCount' = Width - shape.opLen
    BY <1>1, <1>3, <1>a, <2>2 DEF Counts, Linked
  <2>4. Length(rxFirst)' = Width - shape.opLen
    BY <1>a, <2>3 DEF Length, Counts
  <2>5. Got' = 0 /\ rxCount' <= Length(rxFirst)'
    BY <1>a, <2>3, <2>4 DEF Got, Counts
  <2>6. rxData' = Received(rxWord', 0)
    <3>1. rxData' = [i \in Bits |-> 0]
      BY <1>3 DEF Edge, Deserializer
    <3>2. rxWord' \in Vector
      BY <1>a DEF Counts
    <3> QED
      BY <3>1, <3>2, ReceiveStart
  <2>7. Received(rxWord, Got)' = Received(rxWord', 0)
    BY <1>a, <2>5 DEF Received, Bits, Counts
  <2> QED
    BY <2>3, <2>5, <2>6, <2>7 DEF RxInv
<1>4. CASE (rxReady > 0)' /\ rxEn /\ RxDone
  <2>1. rxReady > 0 /\ txReady
    BY <1>1, <1>4 DEF SerialInv, LinkInv
  <2>2. Linked
    BY <2>1, LinkCases
  <2>3. ~txFirst /\ ~rxFirst' /\ rxCount' = Width - 1 /\ txCount = Width - 1
    BY <1>1, <1>4, <1>a, <2>2 DEF Counts, Linked
  <2>4. Length(rxFirst)' = Width /\ Length(txFirst) = Width
    BY <1>a, <2>3 DEF Length, Counts
  <2>5. Got' = 1 /\ rxCount' <= Length(rxFirst)' /\ Sent = 1
    BY <1>a, <2>3, <2>4 DEF Got, Sent, Counts
  <2>6. ASSUME flips' = 0 PROVE rxData' = ReceivedLater(rxWord, Got)'
    <3>1. txOut = BitOf(txWord, 0)
      <4>1. Sent > 0 => txOut = BitOf(txWord, Sent - 1)
        BY <2>1 DEF SerialInv, TxInv
      <4>2. Sent > 0 /\ Sent - 1 = 0
        BY <2>5
      <4> QED
        BY <4>1, <4>2
    <3>2. (txOut + flip) % 2 = txOut
      BY <1>1, <1>4, <2>6
    <3>3. rxData' = Restart(BitOf(txWord, 0))
      BY <1>4, <3>1, <3>2 DEF Edge, Deserializer
    <3>4. rxData' = ReceivedLater(txWord, 1)
      BY <1>a, <3>3, ReceiveStart DEF Counts
    <3>5. ReceivedLater(rxWord, Got)' = ReceivedLater(txWord, 1)
      <4>1. rxWord' = txWord /\ Got' = 1 /\ shape' = shape /\ Width' = Width
        BY <1>a, <2>5 DEF Counts
      <4> QED
        BY <4>1 DEF ReceivedLater, Received, Bits
    <3> QED
      BY <3>4, <3>5
  <2> QED
    BY <2>3, <2>5, <2>6 DEF RxInv
<1>5. CASE (rxReady > 0)' /\ rxEn /\ ~RxDone
  <2>1. rxReady > 0 /\ txReady
    BY <1>1, <1>5 DEF SerialInv, LinkInv
  <2>2. Linked
    BY <2>1, LinkCases
  <2>3. /\ txWord = rxWord /\ txFirst = rxFirst /\ txCount = rxCount - 1
        /\ rxWord' = rxWord /\ rxFirst' = rxFirst /\ rxCount' = rxCount - 1
    <3>1. txWord = rxWord /\ txFirst = rxFirst /\ txCount = rxCount - 1
      BY <1>5, <2>2 DEF Linked
    <3>2. rxWord' = txWord /\ rxFirst' = txFirst
      BY <1>a DEF Counts
    <3>3. rxCount' = rxCount - 1
      BY <1>5, <1>a DEF Counts
    <3> QED
      BY <3>1, <3>2, <3>3
  <2>4. /\ Length(rxFirst)' = Length(rxFirst) /\ Length(txFirst) = Length(rxFirst)
        /\ Length(rxFirst) \in Nat /\ Length(rxFirst) <= Width
    <3>1. Length(rxFirst) \in Nat /\ Length(rxFirst) <= Width
      BY <1>1, LengthFacts
    <3>2. Length(rxFirst)' = Length(rxFirst)
      BY <1>a, <2>3 DEF Length, Counts
    <3> QED
      BY <2>3, <3>1, <3>2
  <2>5. rxCount <= Length(rxFirst) /\ (~rxFirst => Got > 0)
    BY <2>1 DEF SerialInv, RxInv
  <2>6. Got \in Nat /\ Got < Width /\ Got' = Got + 1 /\ Sent = Got + 1
    <3>1. rxCount \in Nat /\ rxCount > 0
      BY <1>5, <1>a DEF Counts, RxDone
    <3>2. /\ Got = Length(rxFirst) - rxCount /\ Got' = Length(rxFirst)' - rxCount'
          /\ Sent = Length(txFirst) - txCount
      BY DEF Got, Sent
    <3> QED
      BY <1>a, <2>3, <2>4, <2>5, <3>1, <3>2 DEF Counts
  <2>7. rxCount' <= Length(rxFirst)' /\ (~rxFirst' => Got' > 0)
    BY <1>a, <2>3, <2>4, <2>5, <2>6 DEF Counts
  <2>8. ASSUME flips' = 0
        PROVE  rxData' = IF rxFirst THEN Received(rxWord, Got + 1)
                         ELSE ReceivedLater(rxWord, Got + 1)
    <3>1. flips = 0 /\ (txOut + flip) % 2 = txOut
      BY <1>1, <1>5, <2>8
    <3>2. txOut = BitOf(rxWord, Got)
      <4>1. Sent > 0 => txOut = BitOf(txWord, Sent - 1)
        BY <2>1 DEF SerialInv, TxInv
      <4>2. Sent > 0 /\ Sent - 1 = Got
        BY <2>6
      <4> QED
        BY <2>3, <4>1, <4>2
    <3>3. rxData' = Shift(rxData, BitOf(rxWord, Got))
      BY <1>5, <3>1, <3>2 DEF Edge, Deserializer
    <3>4. rxData = IF rxFirst THEN Received(rxWord, Got) ELSE ReceivedLater(rxWord, Got)
      BY <2>1, <3>1 DEF SerialInv, RxInv
    <3>5. rxWord \in Vector
      BY <1>a DEF Counts
    <3>6. /\ Shift(Received(rxWord, Got), BitOf(rxWord, Got)) = Received(rxWord, Got + 1)
          /\ Got > 0 => Shift(ReceivedLater(rxWord, Got), BitOf(rxWord, Got))
                          = ReceivedLater(rxWord, Got + 1)
      BY <2>6, <3>5, ReceiveShift
    <3> QED
      BY <1>1, <2>5, <3>3, <3>4, <3>6
  <2>9. /\ Received(rxWord, Got)' = Received(rxWord, Got + 1)
        /\ ReceivedLater(rxWord, Got)' = ReceivedLater(rxWord, Got + 1)
    <3>1. rxWord' = rxWord /\ Got' = Got + 1 /\ shape' = shape /\ Width' = Width
      BY <1>a, <2>3, <2>6 DEF Counts
    <3> QED
      BY <3>1 DEF ReceivedLater, Received, Bits
  <2> QED
    BY <2>3, <2>7, <2>8, <2>9 DEF RxInv
<1> QED
  BY <1>1, <1>2, <1>3, <1>4, <1>5

LEMMA CounterStep ==
    ASSUME SerialType, SerialInv, NEW en \in BOOLEAN, NEW word, NEW flip \in Bit,
           Inputs(en, word, flip), Edge(en, word, flip)
    PROVE  CounterInv' /\ DoneEveryUpto'
<1>a. Counts(en, word)
  BY EdgeFacts
<1>1. /\ rxReady' = (IF rxEn \/ ~txReady \/ rxReady = 2 THEN rxReady ELSE rxReady + 1)
      /\ words' = IF ~rxEn \/ (RxDone /\ words = Upto - 1) THEN 0
                  ELSE IF RxDone THEN words + 1 ELSE words
      /\ counter' = IF counter = 0 /\ RxDone THEN Upto - 1
                    ELSE IF ~rxEn \/ counter = 0 THEN Upto
                    ELSE IF RxDone THEN counter - 1
                    ELSE counter
  BY DEF Edge, CounterEdge
<1>2. /\ rxReady \in 0 .. 2 /\ words \in 0 .. Upto - 1 /\ counter \in Nat
      /\ Upto \in Nat /\ Upto > 1 /\ rxEn \in BOOLEAN
  BY SerialAssumption DEF SerialType
<1>3. rxReady > 0 /\ counter = 0 => ~RxDone
  BY DEF SerialInv, CounterInv
<1>4. rxReady = 2 => \/ counter = Upto - words
                     \/ counter = 0 /\ words = 0 /\ rxCount = Width - 1
  BY DEF SerialInv, DoneEveryUpto
<1>5. CounterInv'
  <2> SUFFICES ASSUME counter' = 0 PROVE ~RxDone'
    BY DEF CounterInv
  <2>1. rxEn /\ RxDone
    BY <1>1, <1>2
  <2>2. rxCount' = Width - 1
    BY <1>a, <2>1 DEF Counts
  <2> QED
    BY <1>a, <2>2 DEF RxDone, Counts
<1>6. DoneEveryUpto'
  <2>1. CASE ~(rxReady = 2)'
    BY <2>1 DEF DoneEveryUpto
  <2>2. CASE (rxReady = 2)' /\ ~rxEn
    <3>1. rxReady > 0
      BY <1>1, <1>2, <2>2
    <3>2. counter' = Upto /\ words' = 0
      BY <1>1, <1>2, <1>3, <2>2, <3>1
    <3> QED
      BY <1>2, <3>2 DEF DoneEveryUpto
  <2>3. CASE (rxReady = 2)' /\ rxEn /\ ~RxDone
    <3>1. rxReady = 2
      BY <1>1, <2>3
    <3>2. counter' = Upto - words'
      BY <1>1, <1>2, <1>4, <2>3, <3>1
    <3> QED
      BY <3>2 DEF DoneEveryUpto
  <2>4. CASE (rxReady = 2)' /\ rxEn /\ RxDone
    <3>1. rxReady = 2 /\ counter # 0
      BY <1>1, <1>2, <1>3, <2>4
    <3>2. counter = Upto - words /\ rxCount' = Width - 1
      BY <1>4, <1>a, <2>4, <3>1 DEF Counts
    <3>3. counter' = counter - 1 /\ words' = IF words = Upto - 1 THEN 0 ELSE words + 1
      BY <1>1, <2>4, <3>1
    <3>4. Width' = Width
      BY <1>a DEF Counts
    <3>5. counter' = Upto - words' \/ (counter' = 0 /\ words' = 0 /\ rxCount' = Width - 1)
      BY <1>2, <3>2, <3>3
    <3> QED
      BY <3>4, <3>5 DEF DoneEveryUpto
  <2> QED
    BY <2>1, <2>2, <2>3, <2>4
<1> QED
  BY <1>5, <1>6
-----------------------------------------------------------------------------
LEMMA StutterInv ==
    ASSUME SerialInv, UNCHANGED serialVars
    PROVE  SerialInv'
BY DEF SerialInv, TxInv, LinkInv, RxInv, CounterInv, DoneEveryUpto, Sent, Got, Length,
       Remaining, BitOf, Received, ReceivedLater, RxDone, Bits, Width,
       serialVars, registers, history

LEMMA InitInv == Init => SerialInv
<1> SUFFICES ASSUME Init PROVE SerialInv
  OBVIOUS
<1>1. txReady = FALSE /\ rxReady = 0
  BY DEF Init
<1> QED
  BY <1>1 DEF SerialInv, TxInv, LinkInv, RxInv, CounterInv, DoneEveryUpto

\* Both ends agree at every bit, in every instance: on the word, the number of
\* bits that have passed, the bit on the wire and what the shift registers hold.
THEOREM EndsAgree == Spec => []SerialInv
<1>1. SerialType /\ SerialInv /\ [Next]_serialVars => SerialInv'
  BY TxStep, LinkStep, RxStep, CounterStep, StutterInv DEF Next, SerialInv
<1> QED
  BY <1>1, InitInv, TypeCorrect, PTL DEF Spec

\* Every word of a burst comes back as Expected says.
THEOREM WordsReturn == Spec => []WordsComeBack
<1>1. SerialType /\ SerialInv => WordsComeBack
  <2> SUFFICES ASSUME SerialType, SerialInv, rxReady > 0, RxDone, flips = 0
               PROVE  rxData = Expected(rxWord, rxFirst)
    BY DEF WordsComeBack
  <2>1. rxFirst \in BOOLEAN /\ Length(rxFirst) \in Nat
    BY LengthFacts DEF SerialType
  <2>2. Got = Length(rxFirst)
    BY <2>1 DEF Got, RxDone
  <2>3. rxData = IF rxFirst THEN Received(rxWord, Got) ELSE ReceivedLater(rxWord, Got)
    BY DEF SerialInv, RxInv
  <2>4. ~rxFirst => Length(rxFirst) = Width
    BY <2>1, LengthFacts
  <2> QED
    BY <2>1, <2>2, <2>3, <2>4 DEF Expected
<1> QED
  BY <1>1, EndsAgree, TypeCorrect, PTL

\* The counter's done marks every UPTO-th word and nothing else.
THEOREM WordsCounted == Spec => []DoneEveryUpto
<1>1. SerialInv => DoneEveryUpto
  BY DEF SerialInv
<1> QED
  BY <1>1, EndsAgree, PTL
=============================================================================
