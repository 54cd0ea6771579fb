-------------------------- MODULE SpiFrontendProofs --------------------------
(***************************************************************************)
(* Proofs about the SPI front end, for every master that leaves at least   *)
(* two clock edges between its moves.                                      *)
(***************************************************************************)
EXTENDS SpiFrontend, TLAPS

\* The last edge of sck was a sampling one.
AfterSampling == (sck # cpol) <=> (cpha = 0)

\* An edge of sck has still to be strobed.
Pending == lastSck # sck

\* Where a wave of the master's lines is in the synchronizers.
WaveInv ==
    /\ warm < 2 => age = warm
    /\ age >= 1 => sckR = sck /\ ssR = ss
    /\ age >= 2 => ~Pending
    /\ warm = 2 => /\ ~Pending => sckR = sck
                   /\ Pending => ssR = ss

\* The bit on its way in is the one of a sampling edge that is pending.
IncomingInv == incoming = IF warm = 2 /\ Pending /\ AfterSampling THEN <<mosi>> ELSE << >>

\* A bit on its way out is on o_miso, the next edge of the transfer samples it,
\* and no changing edge is pending that would put another one.
OutgoingInv ==
    /\ outgoing # << >> =>
         /\ warm = 2 /\ outgoing = <<oMiso>>
         /\ IF ss = 0 THEN ~AfterSampling /\ ~Pending ELSE cpha = 0
    /\ asked => warm = 2 /\ (outgoing # << >> \/ (ss = 0 /\ Pending /\ ~AfterSampling))

FrontInv == WaveInv /\ IncomingInv /\ OutgoingInv
-----------------------------------------------------------------------------
LEMMA OptionalFacts ==
    ASSUME NEW bits \in OptionalBit, NEW drop \in BOOLEAN
    PROVE  /\ << >> \o bits = bits /\ bits \o << >> = bits
           /\ DropHead(<< >>, drop) = << >> /\ DropHead(bits, FALSE) = bits
           /\ DropHead(bits, TRUE) = << >>
<1>1. CASE bits = << >>
  BY <1>1 DEF DropHead
<1>2. CASE \E b \in Bit : bits = <<b>>
  <2>1. PICK b \in Bit : bits = <<b>>
    BY <1>2
  <2>2. bits # << >> /\ Tail(bits) = << >>
    BY <2>1
  <2>3. << >> \o bits = bits /\ bits \o << >> = bits
    BY <2>1
  <2> QED
    BY <2>2, <2>3 DEF DropHead
<1> QED
  BY <1>1, <1>2 DEF OptionalBit

\* The strobes say which of the two edges sck_r has just seen.
LEMMA StrobeFacts ==
    ASSUME FrontendType
    PROVE  /\ SampleStrobe <=> sckR # lastSck /\ ((sckR # cpol) <=> (cpha = 0))
           /\ ChangeStrobe <=> sckR # lastSck /\ ~((sckR # cpol) <=> (cpha = 0))
BY DEF FrontendType, Bit, SampleStrobe, ChangeStrobe, Leading, Trailing, SckRise, SckFall

\* What a move of the master does, with or without an edge of the clock.
Moved ==
    /\ MasterMove /\ UNCHANGED mode
    /\ age >= 2 /\ warm = 2 /\ age' = 0 /\ warm' = 2
    /\ sckR = sck /\ lastSck = sck /\ lastSck' = sck /\ incoming = << >>
    /\ sckR' \in {sck, sck'} /\ ssR' \in {ss, ss'}
    /\ mosiR' \in Bit /\ oData' = oData /\ oMiso' = oMiso /\ spiBusy' = spiBusy
    /\ sent' = IF SamplingEdge THEN <<mosi>> ELSE << >>
    /\ shown' = << >> /\ put' = << >>
    /\ incoming' = sent'
    /\ IF SamplingEdge /\ ss = 0 /\ outgoing # << >>
       THEN sampled' = <<oMiso>> /\ outgoing' = << >>
       ELSE sampled' = << >> /\ outgoing' = outgoing
    /\ asked' = IF ChangingEdge THEN ss = 0
                ELSE IF SamplingEdge /\ ss = 0 THEN FALSE ELSE asked

LEMMA MoveFacts ==
    ASSUME FrontendType, FrontInv, MinHalf \in Nat, MinHalf >= 2, Move \/ TickAndMove
    PROVE  Moved
<1>1. MasterMove /\ UNCHANGED mode
  BY DEF Move, TickAndMove
<1>2. age = MinHalf /\ warm = 2 /\ sckR = sck /\ ssR = ss /\ lastSck = sck
  BY <1>1 DEF MasterMove, FrontInv, WaveInv, FrontendType, Pending
<1>3. ~SampleStrobe /\ ~ChangeStrobe
  BY <1>2, StrobeFacts
<1>4. incoming = << >> /\ outgoing \in OptionalBit
  BY <1>2 DEF FrontInv, IncomingInv, Pending, FrontendType
<1>5. mosi' \in Bit /\ mosi \in Bit
  BY <1>1 DEF MasterMove, MoveSck, Select, Deselect, FrontendType
<1>6. /\ sckR' \in {sck, sck'} /\ ssR' \in {ss, ss'} /\ lastSck' = sck
      /\ mosiR' \in Bit /\ oData' = oData /\ oMiso' = oMiso /\ spiBusy' = spiBusy
  <2>1. CASE Move
    BY <1>2, <2>1 DEF Move, registers, FrontendType
  <2>2. CASE TickAndMove
    BY <1>2, <1>3, <1>5, <2>2 DEF TickAndMove, ClockEdge, Answers
  <2> QED
    BY <2>1, <2>2
<1>7. \E ticks \in BOOLEAN, busy \in Bit, data \in Bit :
          Record(ticks, TRUE, busy, data)
  BY DEF Move, TickAndMove, Bit
<1>8. PICK ticks \in BOOLEAN, busy \in Bit, data \in Bit : Record(ticks, TRUE, busy, data)
  BY <1>7
<1>9. /\ age' = 0 /\ warm' = 2
      /\ sent' = IF SamplingEdge THEN <<mosi>> ELSE << >>
      /\ shown' = << >> /\ put' = << >>
      /\ asked' = IF ChangingEdge THEN ss = 0
                  ELSE IF SamplingEdge /\ ss = 0 THEN FALSE ELSE asked
  <2>1. age' = 0 /\ warm' = 2
    BY <1>2, <1>8 DEF Record
  <2>2. sent' = IF SamplingEdge THEN <<mosi>> ELSE << >>
    BY <1>8 DEF Record
  <2>3. shown' = << >> /\ put' = << >>
    BY <1>3, <1>8 DEF Record, Answers
  <2>4. asked' = IF ChangingEdge THEN ss = 0
                 ELSE IF SamplingEdge /\ ss = 0 THEN FALSE ELSE asked
    <3>1. asked' = IF ChangingEdge THEN ss = 0
                   ELSE IF SamplingEdge /\ ss = 0 THEN FALSE
                   ELSE asked /\ ~(ticks /\ ChangeStrobe /\ busy = 0)
      BY <1>8 DEF Record
    <3>2. (asked /\ ~(ticks /\ ChangeStrobe /\ busy = 0)) = asked
      BY <1>3 DEF FrontendType
    <3> QED
      BY <3>1, <3>2
  <2> QED
    BY <2>1, <2>2, <2>3, <2>4
<1>10. incoming' = sent'
  <2>1. incoming' = DropHead(incoming, FALSE) \o sent'
    BY <1>3, <1>8 DEF Record
  <2>2. << >> \in OptionalBit /\ sent' \in OptionalBit
    BY <1>5, <1>9 DEF OptionalBit
  <2> QED
    BY <1>4, <2>1, <2>2, OptionalFacts
<1>11. IF SamplingEdge /\ ss = 0 /\ outgoing # << >>
       THEN sampled' = <<oMiso>> /\ outgoing' = << >>
       ELSE sampled' = << >> /\ outgoing' = outgoing
  <2> DEFINE samples == SamplingEdge /\ ss = 0 /\ outgoing # << >>
  <2>1. /\ sampled' = IF samples THEN <<oMiso>> ELSE << >>
        /\ outgoing' = DropHead(outgoing, samples) \o put'
    BY <1>8 DEF Record
  <2>2. CASE samples
    <3>1. DropHead(outgoing, TRUE) = << >> /\ << >> \o << >> = << >>
      BY <1>4, OptionalFacts DEF OptionalBit
    <3>2. outgoing' = DropHead(outgoing, TRUE) \o << >>
      BY <1>9, <2>1, <2>2 DEF DropHead
    <3> QED
      BY <2>1, <2>2, <3>1, <3>2
  <2>3. CASE ~samples
    <3>1. DropHead(outgoing, FALSE) = outgoing /\ outgoing \o << >> = outgoing
      BY <1>4, OptionalFacts
    <3>2. outgoing' = DropHead(outgoing, FALSE) \o << >>
      BY <1>9, <2>1, <2>3 DEF DropHead
    <3> QED
      BY <2>1, <2>3, <3>1, <3>2
  <2> QED
    BY <2>2, <2>3
<1> QED
  BY <1>1, <1>2, <1>4, <1>6, <1>9, <1>10, <1>11 DEF Moved

LEMMA MoveType ==
    ASSUME FrontendType, Moved, MinHalf \in Nat
    PROVE  FrontendType'
<1>1. sck' \in Bit /\ ss' \in Bit /\ mosi' \in Bit /\ cpol' \in Bit /\ cpha' \in Bit
  BY DEF Moved, MasterMove, MoveSck, Select, Deselect, FrontendType, Bit, mode
<1>2. /\ sckR' \in Bit /\ ssR' \in Bit /\ mosiR' \in Bit /\ lastSck' \in Bit
      /\ oData' \in Bit /\ oMiso' \in Bit /\ spiBusy' \in Bit
  BY <1>1 DEF Moved, FrontendType
<1>3. age' \in 0 .. MinHalf /\ warm' \in 0 .. 2 /\ asked' \in BOOLEAN
  <2>1. age' \in 0 .. MinHalf /\ warm' \in 0 .. 2
    BY DEF Moved
  <2>2. asked' \in BOOLEAN
    BY Zenon DEF Moved, FrontendType
  <2> QED
    BY <2>1, <2>2
<1>4. /\ sent' \in OptionalBit /\ incoming' \in OptionalBit
      /\ shown' \in OptionalBit /\ put' \in OptionalBit
  BY DEF Moved, FrontendType, OptionalBit
<1>5. sampled' \in OptionalBit /\ outgoing' \in OptionalBit
  BY DEF Moved, FrontendType, OptionalBit
<1> QED
  BY <1>1, <1>2, <1>3, <1>4, <1>5 DEF FrontendType

LEMMA MoveInv ==
    ASSUME FrontendType, FrontInv, Moved
    PROVE  FrontInv'
<1>1. CASE sck' = sck
  <2>1. ~SamplingEdge /\ ~ChangingEdge /\ ~Pending' /\ sckR' = sck'
    BY <1>1 DEF SamplingEdge, ChangingEdge, Pending, Moved
  <2>2. /\ ss \in Bit /\ ss' = 1 - ss /\ sck = cpol /\ cpol' = cpol /\ cpha' = cpha
        /\ (AfterSampling <=> cpha # 0)
    BY <1>1 DEF Moved, MasterMove, MoveSck, Select, Deselect, FrontendType, Bit, mode, AfterSampling
  <2>3. WaveInv'
    BY <2>1 DEF WaveInv, Moved
  <2>4. IncomingInv'
    BY <2>1 DEF IncomingInv, Moved
  <2>5. outgoing' = outgoing /\ asked' = asked /\ oMiso' = oMiso /\ warm' = 2
    BY <2>1 DEF Moved
  <2>6. AfterSampling' <=> AfterSampling
    BY <1>1, <2>2 DEF AfterSampling
  <2>7. ~Pending
    BY DEF Moved, Pending
  <2>8. OutgoingInv'
    BY <2>1, <2>2, <2>5, <2>6, <2>7 DEF FrontInv, OutgoingInv, Bit
  <2> QED
    BY <2>3, <2>4, <2>8 DEF FrontInv
<1>2. CASE sck' # sck
  <2>1. /\ MoveSck /\ cpol' = cpol /\ cpha' = cpha /\ ss' = ss
        /\ sck \in Bit /\ cpol \in Bit /\ cpha \in Bit
    BY <1>2 DEF Moved, MasterMove, MoveSck, Select, Deselect, mode, FrontendType
  <2>2. SamplingEdge => mosi' = mosi
    BY <1>2, <2>1 DEF SamplingEdge, MoveSck, Bit
  <2>7. \/ SamplingEdge /\ ~ChangingEdge /\ AfterSampling' /\ ~AfterSampling
        \/ ~SamplingEdge /\ ChangingEdge /\ ~AfterSampling' /\ AfterSampling
    BY <1>2, <2>1 DEF SamplingEdge, ChangingEdge, AfterSampling, MoveSck, Bit
  <2>3. Pending' /\ ~Pending /\ ssR' = ss'
    BY <1>2, <2>1 DEF Pending, Moved
  <2>4. WaveInv'
    BY <2>3 DEF WaveInv, Moved
  <2>5. IncomingInv'
    <3>1. /\ warm' = 2 /\ incoming' = sent'
          /\ sent' = IF SamplingEdge THEN <<mosi>> ELSE << >>
      BY DEF Moved
    <3>2. CASE SamplingEdge
      BY <2>2, <2>3, <2>7, <3>1, <3>2 DEF IncomingInv
    <3>3. CASE ~SamplingEdge
      <4>1. incoming' = << >> /\ ~AfterSampling'
        BY <2>7, <3>1, <3>3
      <4> QED
        BY <4>1 DEF IncomingInv
    <3> QED
      BY <3>2, <3>3
  <2>6. OutgoingInv'
    <3>1. /\ oMiso' = oMiso /\ warm' = 2
          /\ IF SamplingEdge /\ ss = 0 /\ outgoing # << >>
             THEN outgoing' = << >> ELSE outgoing' = outgoing
          /\ asked' = IF ChangingEdge THEN ss = 0
                      ELSE IF SamplingEdge /\ ss = 0 THEN FALSE ELSE asked
      BY DEF Moved
    <3>2. /\ outgoing # << >> =>
               /\ outgoing = <<oMiso>>
               /\ IF ss = 0 THEN ~AfterSampling ELSE cpha = 0
          /\ asked => outgoing # << >>
      BY <2>3 DEF FrontInv, OutgoingInv
    <3>3. outgoing' # << >> =>
            /\ outgoing' = <<oMiso'>>
            /\ IF ss' = 0 THEN ~AfterSampling' /\ ~Pending' ELSE cpha' = 0
      <4> SUFFICES ASSUME outgoing' # << >>
                   PROVE  /\ outgoing' = <<oMiso'>>
                          /\ IF ss' = 0 THEN ~AfterSampling' /\ ~Pending' ELSE cpha' = 0
        OBVIOUS
      <4>1. ~(SamplingEdge /\ ss = 0) /\ outgoing # << >> /\ outgoing' = outgoing
        BY <3>1
      <4>2. ss # 0
        BY <2>7, <3>2, <4>1
      <4> QED
        BY <2>1, <3>1, <3>2, <4>1, <4>2
    <3>4. asked' => outgoing' # << >> \/ (ss' = 0 /\ Pending' /\ ~AfterSampling')
      <4>1. CASE ChangingEdge
        <5>1. asked' => ss = 0
          BY <3>1, <4>1
        <5> QED
          BY <2>1, <2>7, <2>3, <4>1, <5>1
      <4>2. CASE ~ChangingEdge
        BY <2>1, <2>7, <3>1, <3>2, <4>2
      <4> QED
        BY <4>1, <4>2
    <3> QED
      BY <3>1, <3>3, <3>4 DEF OutgoingInv
  <2> QED
    BY <2>4, <2>5, <2>6 DEF FrontInv
<1> QED
  BY <1>1, <1>2

\* What an edge of the clock does while the master's lines stand still.
Ticked(busy, data) ==
    /\ UNCHANGED <<cpol, cpha, sck, ss, mosi>>
    /\ sckR' = sck /\ ssR' = ss /\ mosiR' = mosi /\ lastSck' = sckR
    /\ oData' = IF SampleStrobe THEN mosi ELSE oData
    /\ oMiso' = IF Answers(busy) THEN data ELSE oMiso
    /\ spiBusy' = IF Answers(busy) THEN busy ELSE spiBusy
    /\ age' = IF age < MinHalf THEN age + 1 ELSE age
    /\ warm' = IF warm < 2 THEN warm + 1 ELSE warm
    /\ sent' = << >> /\ sampled' = << >>
    /\ IF SampleStrobe /\ warm = 2
       THEN shown' = <<mosi>> /\ incoming' = << >>
       ELSE shown' = << >> /\ incoming' = incoming
    /\ IF Answers(busy) /\ warm = 2
       THEN put' = <<data>> /\ outgoing' = outgoing \o <<data>>
       ELSE put' = << >> /\ outgoing' = outgoing
    /\ asked' = (asked /\ ~(ChangeStrobe /\ busy = 0))

LEMMA TickFacts ==
    ASSUME FrontendType, NEW busy \in Bit, NEW data \in Bit,
           ClockEdge(sck, ss, mosi, mosi, busy, data),
           Record(TRUE, FALSE, busy, data), UNCHANGED <<mode, lines>>
    PROVE  Ticked(busy, data)
<1>1. UNCHANGED <<cpol, cpha, sck, ss, mosi>>
  BY DEF mode, lines
<1>2. ~SamplingEdge /\ ~ChangingEdge
  BY <1>1 DEF SamplingEdge, ChangingEdge
<1>3. /\ sckR' = sck /\ ssR' = ss /\ mosiR' = mosi /\ lastSck' = sckR
      /\ oData' = IF SampleStrobe THEN mosi ELSE oData
      /\ oMiso' = IF Answers(busy) THEN data ELSE oMiso
      /\ spiBusy' = IF Answers(busy) THEN busy ELSE spiBusy
  BY DEF ClockEdge
<1>4. /\ age' = IF age < MinHalf THEN age + 1 ELSE age
      /\ warm' = IF warm < 2 THEN warm + 1 ELSE warm
      /\ sent' = << >> /\ sampled' = << >>
  BY DEF Record
<1>5. incoming \in OptionalBit /\ outgoing \in OptionalBit /\ << >> \in OptionalBit
  BY DEF FrontendType, OptionalBit
<1>6. IF SampleStrobe /\ warm = 2
      THEN shown' = <<mosi>> /\ incoming' = << >>
      ELSE shown' = << >> /\ incoming' = incoming
  <2>1. CASE SampleStrobe /\ warm = 2
    <3>1. shown' = <<oData'>> /\ incoming' = DropHead(incoming, TRUE) \o << >>
      BY <1>4, <2>1 DEF Record, DropHead
    <3> QED
      BY <1>3, <1>5, <2>1, <3>1, OptionalFacts
  <2>2. CASE ~(SampleStrobe /\ warm = 2)
    <3>1. shown' = << >> /\ incoming' = DropHead(incoming, FALSE) \o << >>
      BY <1>4, <2>2 DEF Record, DropHead
    <3> QED
      BY <1>5, <2>2, <3>1, OptionalFacts
  <2> QED
    BY <2>1, <2>2
<1>7. IF Answers(busy) /\ warm = 2
      THEN put' = <<data>> /\ outgoing' = outgoing \o <<data>>
      ELSE put' = << >> /\ outgoing' = outgoing
  <2>1. outgoing' = DropHead(outgoing, FALSE) \o put'
    BY DEF Record, DropHead
  <2>2. outgoing' = outgoing \o put'
    BY <1>5, <2>1, OptionalFacts
  <2>3. put' = IF Answers(busy) /\ warm = 2 THEN <<data>> ELSE << >>
    BY DEF Record
  <2>4. outgoing \o << >> = outgoing
    BY <1>5, OptionalFacts
  <2> QED
    BY <2>2, <2>3, <2>4
<1>8. asked' = (asked /\ ~(ChangeStrobe /\ busy = 0))
  BY <1>2 DEF Record
<1> QED
  BY <1>1, <1>3, <1>4, <1>6, <1>7, <1>8 DEF Ticked

LEMMA TickInv ==
    ASSUME FrontendType, FrontInv, MinHalf \in Nat, MinHalf >= 2,
           NEW busy \in Bit, NEW data \in Bit, Ticked(busy, data)
    PROVE  /\ FrontInv'
           /\ Answers(busy) /\ warm = 2 => outgoing = << >>
           /\ SampleStrobe /\ warm = 2 => incoming = <<mosi>>
<1>1. /\ sckR \in Bit /\ sck \in Bit /\ lastSck \in Bit /\ ss \in Bit /\ ssR \in Bit
      /\ age \in Nat /\ warm \in 0 .. 2
  BY DEF FrontendType
<1>2. /\ UNCHANGED <<cpol, cpha, sck, ss, mosi>>
      /\ sckR' = sck /\ ssR' = ss /\ lastSck' = sckR
      /\ age' = IF age < MinHalf THEN age + 1 ELSE age
      /\ warm' = IF warm < 2 THEN warm + 1 ELSE warm
  BY DEF Ticked
<1>3. /\ warm < 2 => age = warm
      /\ age >= 1 => sckR = sck
      /\ age >= 2 => lastSck = sck
      /\ warm = 2 => /\ lastSck = sck => sckR = sck
                     /\ lastSck # sck => ssR = ss
  BY DEF FrontInv, WaveInv, Pending
<1>4. WaveInv'
  BY <1>1, <1>2, <1>3 DEF WaveInv, Pending
<1>5. Pending' <=> sckR # sck
  BY <1>2 DEF Pending
<1>6. (AfterSampling' /\ AfterSampling) \/ (~AfterSampling' /\ ~AfterSampling)
  BY <1>2 DEF AfterSampling
<1>7. CASE warm < 2
  <2>1. incoming = << >> /\ outgoing = << >> /\ ~asked
    BY <1>7 DEF FrontInv, IncomingInv, OutgoingInv
  <2>2. incoming' = << >> /\ outgoing' = << >> /\ ~asked'
    <3>1. warm # 2 /\ incoming' = incoming /\ outgoing' = outgoing
      BY <1>1, <1>7 DEF Ticked
    <3>2. asked' => asked
      BY DEF Ticked
    <3> QED
      BY <2>1, <3>1, <3>2
  <2>3. warm' = 2 => ~Pending'
    BY <1>1, <1>2, <1>3, <1>5, <1>7
  <2> QED
    BY <1>4, <1>7, <2>2, <2>3 DEF FrontInv, IncomingInv, OutgoingInv
<1>8. CASE warm = 2 /\ sckR = lastSck
  <2>1. ~SampleStrobe /\ ~ChangeStrobe /\ ~Answers(busy)
    BY <1>8, StrobeFacts DEF Answers
  <2>2. incoming' = incoming /\ outgoing' = outgoing /\ asked' = asked /\ oMiso' = oMiso
    BY <2>1 DEF Ticked, FrontendType
  <2>3. warm' = 2 /\ ((Pending' /\ Pending) \/ (~Pending' /\ ~Pending))
    BY <1>2, <1>5, <1>8 DEF Pending
  <2>4. IncomingInv'
    BY <1>2, <1>6, <1>8, <2>2, <2>3 DEF FrontInv, IncomingInv
  <2>5. OutgoingInv'
    BY <1>2, <1>6, <1>8, <2>2, <2>3 DEF FrontInv, OutgoingInv
  <2> QED
    BY <1>4, <2>1, <2>4, <2>5 DEF FrontInv
<1>9. CASE warm = 2 /\ sckR # lastSck
  <2>1. sckR = sck /\ Pending /\ ~Pending' /\ ssR = ss /\ warm' = 2
    BY <1>1, <1>2, <1>3, <1>5, <1>9 DEF Pending, Bit
  <2>2. (SampleStrobe <=> AfterSampling) /\ (ChangeStrobe <=> ~AfterSampling)
    BY <1>9, <2>1, StrobeFacts DEF AfterSampling
  <2>3. incoming = IF AfterSampling THEN <<mosi>> ELSE << >>
    BY <1>9, <2>1 DEF FrontInv, IncomingInv
  <2>4. /\ outgoing # << >> => outgoing = <<oMiso>> /\ ss # 0 /\ cpha = 0
        /\ asked => outgoing # << >> \/ (ss = 0 /\ ~AfterSampling)
    BY <2>1 DEF FrontInv, OutgoingInv
  <2>5. CASE AfterSampling
    <3>1. SampleStrobe /\ ~ChangeStrobe /\ ~Answers(busy)
      BY <2>2, <2>5 DEF Answers
    <3>2. incoming' = << >> /\ outgoing' = outgoing /\ asked' = asked /\ oMiso' = oMiso
      BY <1>9, <3>1 DEF Ticked, FrontendType
    <3>3. IncomingInv'
      BY <2>1, <3>2 DEF IncomingInv
    <3>4. OutgoingInv'
      BY <1>2, <2>1, <2>4, <2>5, <3>2 DEF OutgoingInv
    <3> QED
      BY <1>4, <2>3, <2>5, <3>1, <3>3, <3>4 DEF FrontInv
  <2>6. CASE ~AfterSampling
    <3>1. ~SampleStrobe /\ ChangeStrobe /\ (Answers(busy) <=> (busy = 1 /\ ss = 0))
      BY <2>1, <2>2, <2>6 DEF Answers
    <3>2. incoming' = << >>
      BY <2>3, <2>6, <3>1 DEF Ticked
    <3>3. IncomingInv'
      BY <2>1, <3>2 DEF IncomingInv
    <3>4. CASE busy = 1 /\ ss = 0
      <4>1. outgoing = << >>
        BY <2>4, <3>4
      <4>2. Answers(busy)
        BY <3>1, <3>4
      <4>3. oMiso' = data /\ outgoing' = outgoing \o <<data>>
        BY <1>9, <4>2 DEF Ticked
      <4>4. outgoing' = <<data>> /\ outgoing' # << >>
        BY <4>1, <4>3
      <4>5. OutgoingInv'
        BY <1>2, <1>6, <2>1, <2>6, <3>4, <4>3, <4>4 DEF OutgoingInv
      <4> QED
        BY <1>4, <3>1, <3>3, <4>1, <4>5 DEF FrontInv
    <3>5. CASE ~(busy = 1 /\ ss = 0)
      <4>1. ~Answers(busy)
        BY <3>1, <3>5
      <4>2. oMiso' = oMiso /\ outgoing' = outgoing /\ (asked' => asked /\ busy # 0)
        BY <3>1, <4>1 DEF Ticked
      <4>3. asked' => outgoing # << >>
        BY <2>4, <3>5, <4>2 DEF Bit
      <4>4. OutgoingInv'
        BY <1>2, <2>1, <2>4, <4>2, <4>3 DEF OutgoingInv
      <4> QED
        BY <1>4, <3>1, <3>3, <4>1, <4>4 DEF FrontInv
    <3> QED
      BY <3>4, <3>5
  <2> QED
    BY <2>5, <2>6
<1> QED
  BY <1>1, <1>7, <1>8, <1>9

LEMMA TickType ==
    ASSUME FrontendType, MinHalf \in Nat, NEW busy \in Bit, NEW data \in Bit,
           Ticked(busy, data), Answers(busy) /\ warm = 2 => outgoing = << >>
    PROVE  FrontendType'
<1>1. /\ cpol' \in Bit /\ cpha' \in Bit /\ sck' \in Bit /\ ss' \in Bit /\ mosi' \in Bit
      /\ sckR' \in Bit /\ ssR' \in Bit /\ mosiR' \in Bit /\ lastSck' \in Bit
  BY DEF Ticked, FrontendType
<1>2. oData' \in Bit /\ oMiso' \in Bit /\ spiBusy' \in Bit
  BY DEF Ticked, FrontendType
<1>3. age' \in 0 .. MinHalf /\ warm' \in 0 .. 2
  BY DEF Ticked, FrontendType
<1>4. asked' \in BOOLEAN
  BY DEF Ticked
<1>5. /\ incoming' \in OptionalBit /\ sent' \in OptionalBit /\ shown' \in OptionalBit
      /\ sampled' \in OptionalBit
  BY DEF Ticked, FrontendType, OptionalBit
<1>6. put' \in OptionalBit /\ outgoing' \in OptionalBit
  <2>1. << >> \o <<data>> = <<data>> /\ <<data>> \in OptionalBit /\ << >> \in OptionalBit
    BY DEF OptionalBit
  <2>2. CASE Answers(busy) /\ warm = 2
    BY <2>1, <2>2 DEF Ticked
  <2>3. CASE ~(Answers(busy) /\ warm = 2)
    BY <2>1, <2>3 DEF Ticked, FrontendType
  <2> QED
    BY <2>2, <2>3
<1> QED
  BY <1>1, <1>2, <1>3, <1>4, <1>5, <1>6 DEF FrontendType
-----------------------------------------------------------------------------
LEMMA FrontInit == Init /\ MinHalf \in Nat => FrontendType /\ FrontInv
<1> SUFFICES ASSUME Init, MinHalf \in Nat PROVE FrontendType /\ FrontInv
  OBVIOUS
<1>1. FrontendType
  <2>1. /\ cpol \in Bit /\ cpha \in Bit /\ sck \in Bit /\ ss \in Bit /\ mosi \in Bit
        /\ sckR \in Bit /\ ssR \in Bit /\ mosiR \in Bit /\ lastSck \in Bit
        /\ oData \in Bit /\ oMiso \in Bit /\ spiBusy \in Bit
    BY DEF Init, Bit
  <2>2. age \in 0 .. MinHalf /\ warm \in 0 .. 2 /\ asked \in BOOLEAN
    <3>1. age = 0 /\ warm = 0 /\ asked = FALSE
      BY DEF Init
    <3>2. 0 \in 0 .. MinHalf /\ 0 \in 0 .. 2
      OBVIOUS
    <3> QED
      BY Zenon, <3>1, <3>2
  <2>3. /\ incoming \in OptionalBit /\ sent \in OptionalBit /\ shown \in OptionalBit
        /\ outgoing \in OptionalBit /\ put \in OptionalBit /\ sampled \in OptionalBit
    BY DEF Init, OptionalBit
  <2> QED
    BY <2>1, <2>2, <2>3 DEF FrontendType
<1>2. age = 0 /\ warm = 0 /\ incoming = << >> /\ outgoing = << >> /\ asked = FALSE
  BY DEF Init
<1> QED
  BY <1>1, <1>2 DEF FrontInv, WaveInv, IncomingInv, OutgoingInv

LEMMA FrontStep ==
    ASSUME FrontendType, FrontInv, MinHalf \in Nat, MinHalf >= 2, [Next]_vars
    PROVE  FrontendType' /\ FrontInv'
<1>1. CASE Tick
  <2>1. PICK busy \in Bit, data \in Bit :
            /\ ClockEdge(sck, ss, mosi, mosi, busy, data)
            /\ Record(TRUE, FALSE, busy, data)
            /\ UNCHANGED <<mode, lines>>
    BY <1>1 DEF Tick
  <2>2. Ticked(busy, data)
    BY <2>1, TickFacts
  <2> QED
    BY <2>2, TickInv, TickType
<1>2. CASE Move \/ TickAndMove
  BY <1>2, MoveFacts, MoveType, MoveInv
<1>3. CASE UNCHANGED vars
  BY <1>3 DEF vars, mode, lines, registers, history, FrontendType, FrontInv, WaveInv,
              IncomingInv, OutgoingInv, Pending, AfterSampling
<1> QED
  BY <1>1, <1>2, <1>3 DEF Next

\* Type correctness, and where each edge of sck and each bit is, for every
\* distance of the master's moves from two clock edges on.
THEOREM FrontInvariant ==
    ASSUME MinHalf >= 2
    PROVE  Spec => []FrontendType /\ []FrontInv
<1>1. Init => FrontendType /\ FrontInv
  BY FrontInit, FrontendAssumption
<1>2. FrontendType /\ FrontInv /\ [Next]_vars => FrontendType' /\ FrontInv'
  BY FrontStep, FrontendAssumption
<1> QED
  BY <1>1, <1>2, PTL DEF Spec

LEMMA StepRefines ==
    ASSUME FrontendType, FrontInv, MinHalf \in Nat, MinHalf >= 2, [Next]_vars
    PROVE  /\ [Incoming!FifoNext]_(Incoming!FifoVars)
           /\ [Outgoing!FifoNext]_(Outgoing!FifoVars)
           /\ SamplingEdge /\ ss = 0 /\ asked => outgoing # << >>
<1>1. CASE Tick
  <2>1. PICK busy \in Bit, data \in Bit :
            /\ ClockEdge(sck, ss, mosi, mosi, busy, data)
            /\ Record(TRUE, FALSE, busy, data)
            /\ UNCHANGED <<mode, lines>>
    BY <1>1 DEF Tick
  <2>2. Ticked(busy, data)
    BY <2>1, TickFacts
  <2>3. /\ Answers(busy) /\ warm = 2 => outgoing = << >>
        /\ SampleStrobe /\ warm = 2 => incoming = <<mosi>>
    BY <2>2, TickInv
  <2>4. Incoming!Move(SampleStrobe /\ warm = 2, << >>)
    <3>1. CASE SampleStrobe /\ warm = 2
      <4>1. incoming = <<mosi>> /\ sent' = << >> /\ shown' = <<mosi>> /\ incoming' = << >>
        BY <2>2, <2>3, <3>1 DEF Ticked
      <4>2. Head(incoming) = mosi /\ Tail(incoming) \o << >> = << >> /\ incoming # << >>
        BY <4>1
      <4> QED
        BY <3>1, <4>1, <4>2 DEF Incoming!Move
    <3>2. CASE ~(SampleStrobe /\ warm = 2)
      <4>1. sent' = << >> /\ shown' = << >> /\ incoming' = incoming
        BY <2>2, <3>2 DEF Ticked
      <4>2. incoming \o << >> = incoming
        BY OptionalFacts DEF FrontendType
      <4> QED
        BY <3>2, <4>1, <4>2 DEF Incoming!Move
    <3> QED
      BY <3>1, <3>2
  <2>5. Outgoing!Move(FALSE, put') /\ put' \in OptionalBit
    <3>1. CASE Answers(busy) /\ warm = 2
      <4>1. /\ outgoing = << >> /\ put' = <<data>> /\ sampled' = << >>
            /\ outgoing' = outgoing \o put'
        BY <2>2, <2>3, <3>1 DEF Ticked
      <4> QED
        BY <4>1 DEF Outgoing!Move, OptionalBit
    <3>2. CASE ~(Answers(busy) /\ warm = 2)
      <4>1. put' = << >> /\ sampled' = << >> /\ outgoing' = outgoing
        BY <2>2, <3>2 DEF Ticked
      <4>2. outgoing \o << >> = outgoing
        BY OptionalFacts DEF FrontendType
      <4> QED
        BY <4>1, <4>2 DEF Outgoing!Move, OptionalBit
    <3> QED
      BY <3>1, <3>2
  <2>6. ~SamplingEdge
    BY <2>2 DEF Ticked, SamplingEdge
  <2> QED
    BY <2>4, <2>5, <2>6 DEF Incoming!FifoNext, Outgoing!FifoNext, Incoming!OptionalWord,
                           Outgoing!OptionalWord, OptionalBit
<1>2. CASE Move \/ TickAndMove
  <2>1. Moved
    BY <1>2, MoveFacts
  <2>2. Incoming!Move(FALSE, sent') /\ sent' \in OptionalBit
    <3>1. /\ incoming = << >> /\ incoming' = sent' /\ shown' = << >> /\ sent' \in OptionalBit
      BY <2>1 DEF Moved, OptionalBit, FrontendType
    <3>2. << >> \o sent' = sent'
      BY <3>1, OptionalFacts
    <3> QED
      BY <3>1, <3>2 DEF Incoming!Move
  <2>3. Outgoing!Move(SamplingEdge /\ ss = 0 /\ outgoing # << >>, << >>)
    <3>1. CASE SamplingEdge /\ ss = 0 /\ outgoing # << >>
      <4>1. /\ outgoing = <<oMiso>> /\ put' = << >> /\ sampled' = <<oMiso>>
            /\ outgoing' = << >>
        BY <2>1, <3>1 DEF Moved, FrontInv, OutgoingInv
      <4>2. Head(outgoing) = oMiso /\ Tail(outgoing) \o << >> = << >>
        BY <4>1
      <4> QED
        BY <3>1, <4>1, <4>2 DEF Outgoing!Move
    <3>2. CASE ~(SamplingEdge /\ ss = 0 /\ outgoing # << >>)
      <4>1. put' = << >> /\ sampled' = << >> /\ outgoing' = outgoing
        BY <2>1, <3>2 DEF Moved
      <4>2. outgoing \o << >> = outgoing
        BY OptionalFacts DEF FrontendType
      <4> QED
        BY <3>2, <4>1, <4>2 DEF Outgoing!Move
    <3> QED
      BY <3>1, <3>2
  <2>4. asked => outgoing # << >>
    BY <2>1 DEF Moved, Pending, FrontInv, OutgoingInv
  <2> QED
    BY <2>2, <2>3, <2>4 DEF Incoming!FifoNext, Outgoing!FifoNext, Incoming!OptionalWord,
                           Outgoing!OptionalWord, OptionalBit
<1>3. CASE UNCHANGED vars
  BY <1>3 DEF vars, lines, history, mode, registers, Incoming!FifoVars, Outgoing!FifoVars,
              SamplingEdge
<1> QED
  BY <1>1, <1>2, <1>3 DEF Next

\* Two clock edges between the master's moves are enough: in each mode every bit
\* it sends is strobed into o_data exactly once, in order.
THEOREM BitsStrobed ==
    ASSUME MinHalf >= 2
    PROVE  Spec => EveryBitStrobedOnce
<1>1. Init => Incoming!FifoInit
  BY DEF Init, Incoming!FifoInit
<1>2. FrontendType /\ FrontInv /\ [Next]_vars => [Incoming!FifoNext]_(Incoming!FifoVars)
  BY StepRefines, FrontendAssumption
<1> QED
  BY <1>1, <1>2, FrontInvariant, PTL DEF Spec, EveryBitStrobedOnce, Incoming!FifoSpec

\* And every bit put on o_miso is sampled by the master exactly once, in order.
THEOREM AnswersSampled ==
    ASSUME MinHalf >= 2
    PROVE  Spec => EveryAnswerSampledOnce
<1>1. Init => Outgoing!FifoInit
  BY DEF Init, Outgoing!FifoInit
<1>2. FrontendType /\ FrontInv /\ [Next]_vars => [Outgoing!FifoNext]_(Outgoing!FifoVars)
  BY StepRefines, FrontendAssumption
<1> QED
  BY <1>1, <1>2, FrontInvariant, PTL DEF Spec, EveryAnswerSampledOnce, Outgoing!FifoSpec

\* A bit that was called for is there when the master samples it.
THEOREM AnswersInTime ==
    ASSUME MinHalf >= 2
    PROVE  Spec => AnsweredInTime
<1>1. FrontendType /\ FrontInv /\ [Next]_vars
        => [SamplingEdge /\ ss = 0 /\ asked => outgoing # << >>]_vars
  BY StepRefines, FrontendAssumption
<1> QED
  BY <1>1, FrontInvariant, PTL DEF Spec, AnsweredInTime
=============================================================================
