------------------------- MODULE SpillRegisterProofs -------------------------
(***************************************************************************)
(* Proofs about spill_register.sv without FLUSH, for every set of words.   *)
(*                                                                         *)
(* The argument: the four combinations of a_full_q and b_full_q are the    *)
(* queues of no word, one word (in A or in B) and two words, and in each   *)
(* of them fill and drain do to the registers what Move does to the queue. *)
(***************************************************************************)
EXTENDS SpillRegister, SequenceTheorems, TLAPS

LEMMA ConcatEmpty ==
    ASSUME NEW s \in Seq(Data)
    PROVE  s \o << >> = s /\ << >> \o s = s
OBVIOUS

LEMMA ConcatOne ==
    ASSUME NEW x \in Data, NEW y \in Data
    PROVE  <<x>> \o <<y>> = <<x, y>>
<1>1. <<x>> \in Seq(Data) /\ <<y>> \in Seq(Data) /\ <<x, y>> \in Seq(Data)
  OBVIOUS
<1>2. Len(<<x>>) = 1 /\ Len(<<y>>) = 1 /\ Len(<<x, y>>) = 2
  OBVIOUS
<1>3. /\ <<x>> \o <<y>> \in Seq(Data)
      /\ Len(<<x>> \o <<y>>) = 2
      /\ (<<x>> \o <<y>>)[1] = x /\ (<<x>> \o <<y>>)[2] = y
  BY <1>1, <1>2, ConcatProperties
<1> DEFINE z == <<x>> \o <<y>>
<1> HIDE DEF z
<1>4. ASSUME z \in Seq(Data), Len(z) = 2, z[1] = x, z[2] = y PROVE z = <<x, y>>
  BY <1>4
<1> QED
  BY <1>3, <1>4 DEF z

LEMMA Pops ==
    /\ \A x : Head(<<x>>) = x /\ Tail(<<x>>) = << >> /\ Len(<<x>>) = 1 /\ <<x>> # << >>
    /\ \A x, y : Head(<<x, y>>) = x /\ Tail(<<x, y>>) = <<y>> /\ Len(<<x, y>>) = 2
                   /\ <<x, y>> # << >>
    /\ Len(<< >>) = 0
OBVIOUS

\* The queue by the two full bits.
LEMMA HeldCases ==
    ASSUME TypeOK
    PROVE  /\ aFull /\ bFull => Held = <<bData, aData>>
           /\ aFull /\ ~bFull => Held = <<aData>>
           /\ ~aFull /\ bFull => Held = <<bData>>
           /\ ~aFull /\ ~bFull => Held = << >>
<1>1. aData \in Data /\ bData \in Data
  BY DEF TypeOK
<1>2. <<aData>> \in Seq(Data) /\ <<bData>> \in Seq(Data) /\ << >> \in Seq(Data)
  BY <1>1
<1> QED
  BY <1>1, <1>2, ConcatEmpty, ConcatOne DEF Held
LEMMA HeldCasesNext ==
    ASSUME TypeOK'
    PROVE  /\ aFull' /\ bFull' => Held' = <<bData', aData'>>
           /\ aFull' /\ ~bFull' => Held' = <<aData'>>
           /\ ~aFull' /\ bFull' => Held' = <<bData'>>
           /\ ~aFull' /\ ~bFull' => Held' = << >>
<1>1. aData' \in Data /\ bData' \in Data
  BY DEF TypeOK
<1>2. <<aData'>> \in Seq(Data) /\ <<bData'>> \in Seq(Data) /\ << >> \in Seq(Data)
  BY <1>1
<1> QED
  BY <1>1, <1>2, ConcatEmpty, ConcatOne DEF Held
-----------------------------------------------------------------------------
LEMMA InitType == Init => TypeOK
<1>1. ASSUME Init PROVE aData \in Data /\ bData \in Data /\ dataI \in Data /\ rstN \in {0, 1}
  BY <1>1, SpillAssumption DEF Init
<1>2. ASSUME Init PROVE validI \in BOOLEAN /\ readyI \in BOOLEAN /\ aFull \in BOOLEAN /\ bFull \in BOOLEAN
  BY <1>2 DEF Init
<1>3. ASSUME Init PROVE got \in Fifo!OptionalWord /\ given \in Fifo!OptionalWord
  BY <1>3 DEF Init, Fifo!OptionalWord
<1> QED
  BY <1>1, <1>2, <1>3 DEF TypeOK

LEMMA TypeStep == TypeOK /\ [Next]_vars => TypeOK'
<1>1. ASSUME TypeOK, Tick PROVE TypeOK'
  <2>1. aData' \in Data /\ bData' \in Data /\ dataI' \in Data /\ rstN' \in {0, 1}
    BY <1>1 DEF Tick, NewInputs, TypeOK
  <2>2. validI' \in BOOLEAN /\ readyI' \in BOOLEAN
    BY <1>1 DEF Tick, NewInputs, TypeOK
  <2>3. aFull' \in BOOLEAN /\ bFull' \in BOOLEAN
    BY <1>1 DEF Tick, TypeOK, AFill, BFill
  <2>4. DataO \in Data
    BY <1>1 DEF TypeOK, DataO
  <2>5. got' \in Fifo!OptionalWord /\ given' \in Fifo!OptionalWord
    BY <1>1, <2>4 DEF Tick, TypeOK, Fifo!OptionalWord
  <2> QED
    BY <2>1, <2>2, <2>3, <2>5 DEF TypeOK
<1>2. ASSUME TypeOK, Reset PROVE TypeOK'
  <2>1. aData' \in Data /\ bData' \in Data /\ dataI' \in Data /\ rstN' \in {0, 1}
    BY <1>2, SpillAssumption DEF Reset, TypeOK
  <2>2. validI' \in BOOLEAN /\ readyI' \in BOOLEAN /\ aFull' \in BOOLEAN /\ bFull' \in BOOLEAN
    BY <1>2 DEF Reset
  <2>3. got' \in Fifo!OptionalWord /\ given' \in Fifo!OptionalWord
    BY <1>2 DEF Reset, Fifo!OptionalWord
  <2> QED
    BY <2>1, <2>2, <2>3 DEF TypeOK
<1>3. ASSUME TypeOK, Release PROVE TypeOK'
  BY <1>3 DEF Release, inputVars, regVars, historyVars, TypeOK
<1>4. ASSUME TypeOK, UNCHANGED vars PROVE TypeOK'
  BY <1>4 DEF vars, inputVars, regVars, historyVars, TypeOK
<1> QED
  BY <1>1, <1>2, <1>3, <1>4 DEF Next

\* Every register stays in its range.
THEOREM TypeCorrect == Spec => []TypeOK
BY InitType, TypeStep, PTL DEF Spec
-----------------------------------------------------------------------------
LEMMA InitRefines == Init => Fifo!FifoInit
<1>1. ASSUME Init PROVE Held = << >>
  BY <1>1, InitType, HeldCases DEF Init
<1> QED
  BY <1>1 DEF Init, Fifo!FifoInit

\* A word is accepted if there is room, and joins the queue at its end.
LEMMA TickRefines ==
    ASSUME ~FLUSH, TypeOK, Tick
    PROVE  Fifo!FifoNext
<1> DEFINE gives == ValidO /\ readyI
           words == IF validI /\ ReadyO THEN <<dataI>> ELSE << >>
<1>1. gives \in BOOLEAN /\ words \in Fifo!OptionalWord
  BY DEF Fifo!OptionalWord, TypeOK, ValidO
<1>2. TypeOK'
  BY TypeStep DEF Next
<1>3. /\ aData \in Data /\ bData \in Data /\ dataI \in Data
      /\ aFull \in BOOLEAN /\ bFull \in BOOLEAN
      /\ readyI \in BOOLEAN /\ validI \in BOOLEAN
  BY DEF TypeOK
<1>4. /\ << >> \in Seq(Data) /\ <<aData>> \in Seq(Data) /\ <<bData>> \in Seq(Data)
      /\ <<dataI>> \in Seq(Data) /\ <<bData, aData>> \in Seq(Data)
  BY <1>3
<1>5. got' = words /\ given' = (IF gives THEN <<DataO>> ELSE << >>)
  BY DEF Tick
<1>6. ASSUME aFull /\ bFull PROVE Fifo!Move(gives, words)
  <2>1. ~ReadyO /\ words = << >> /\ ~AFill /\ ~ADrain /\ ~BFill
    BY <1>6 DEF ReadyO, AFill, ADrain, BFill
  <2>2. aFull' /\ aData' = aData /\ bData' = bData /\ (bFull' <=> ~readyI)
    BY <1>3, <1>6, <2>1 DEF Tick, BDrain
  <2>3. Held = <<bData, aData>> /\ DataO = bData /\ (gives <=> readyI)
    BY <1>6, HeldCases DEF DataO, ValidO
  <2>4. Held' = IF readyI THEN <<aData>> ELSE <<bData, aData>>
    BY <1>2, <1>3, <2>2, HeldCasesNext
  <2> QED
    BY <1>4, <1>5, <2>1, <2>3, <2>4, Pops, ConcatEmpty DEF Fifo!Move
<1>7. ASSUME aFull /\ ~bFull PROVE Fifo!Move(gives, words)
  <2>1. ReadyO /\ (AFill <=> validI) /\ ADrain /\ (BFill <=> ~readyI) /\ ~BDrain
    BY <1>3, <1>7 DEF ReadyO, AFill, ADrain, BFill, BDrain
  <2>2. /\ (aFull' <=> validI) /\ aData' = (IF validI THEN dataI ELSE aData)
        /\ (bFull' <=> ~readyI) /\ (~readyI => bData' = aData)
    BY <1>3, <1>7, <2>1 DEF Tick
  <2>3. Held = <<aData>> /\ DataO = aData /\ (gives <=> readyI)
    BY <1>7, HeldCases DEF DataO, ValidO
  <2>4. words = IF validI THEN <<dataI>> ELSE << >>
    BY <2>1
  <2>5. Held' = IF readyI THEN words ELSE IF validI THEN <<aData, dataI>> ELSE <<aData>>
    BY <1>2, <1>3, <2>2, <2>4, HeldCasesNext
  <2>6. words \in Seq(Data) /\ Len(Held) = 1 /\ Held # << >> /\ Head(Held) = DataO
    BY <1>4, <2>3, <2>4, Pops
  <2>7. CASE gives
    <3>1. Tail(Held) \o words = Held'
      BY <2>3, <2>5, <2>6, <2>7, Pops, ConcatEmpty
    <3>2. given' = <<Head(Held)>>
      BY <1>5, <2>6, <2>7
    <3> HIDE DEF gives, words
    <3> QED
      BY <1>5, <2>6, <2>7, <3>1, <3>2 DEF Fifo!Move
  <2>8. CASE ~gives
    <3>1. Held \o words = Held'
      BY <1>3, <1>4, <2>3, <2>4, <2>5, <2>8, ConcatEmpty, ConcatOne
    <3>2. given' = << >>
      BY <1>5, <2>6, <2>8
    <3> HIDE DEF gives, words
    <3> QED
      BY <1>5, <2>6, <2>8, <3>1, <3>2 DEF Fifo!Move
  <2> QED
    BY <2>7, <2>8
<1>8. ASSUME ~aFull /\ bFull PROVE Fifo!Move(gives, words)
  <2>1. ReadyO /\ (AFill <=> validI) /\ ~ADrain /\ ~BFill /\ (BDrain <=> readyI)
    BY <1>3, <1>8 DEF ReadyO, AFill, ADrain, BFill, BDrain
  <2>2. /\ (aFull' <=> validI) /\ (validI => aData' = dataI)
        /\ (bFull' <=> ~readyI) /\ bData' = bData
    BY <1>3, <1>8, <2>1 DEF Tick
  <2>3. Held = <<bData>> /\ DataO = bData /\ (gives <=> readyI)
    BY <1>8, HeldCases DEF DataO, ValidO
  <2>4. words = IF validI THEN <<dataI>> ELSE << >>
    BY <2>1
  <2>5. Held' = IF readyI THEN words ELSE IF validI THEN <<bData, dataI>> ELSE <<bData>>
    BY <1>2, <1>3, <2>2, <2>4, HeldCasesNext
  <2>6. words \in Seq(Data) /\ Len(Held) = 1 /\ Held # << >> /\ Head(Held) = DataO
    BY <1>4, <2>3, <2>4, Pops
  <2>7. CASE gives
    <3>1. Tail(Held) \o words = Held'
      BY <2>3, <2>5, <2>6, <2>7, Pops, ConcatEmpty
    <3>2. given' = <<Head(Held)>>
      BY <1>5, <2>6, <2>7
    <3> HIDE DEF gives, words
    <3> QED
      BY <1>5, <2>6, <2>7, <3>1, <3>2 DEF Fifo!Move
  <2>8. CASE ~gives
    <3>1. Held \o words = Held'
      BY <1>3, <1>4, <2>3, <2>4, <2>5, <2>8, ConcatEmpty, ConcatOne
    <3>2. given' = << >>
      BY <1>5, <2>6, <2>8
    <3> HIDE DEF gives, words
    <3> QED
      BY <1>5, <2>6, <2>8, <3>1, <3>2 DEF Fifo!Move
  <2> QED
    BY <2>7, <2>8
<1>9. ASSUME ~aFull /\ ~bFull PROVE Fifo!Move(gives, words)
  <2>1. ReadyO /\ (AFill <=> validI) /\ ~ADrain /\ ~BFill /\ ~BDrain
    BY <1>3, <1>9 DEF ReadyO, AFill, ADrain, BFill, BDrain
  <2>2. aFull' = validI /\ (validI => aData' = dataI) /\ ~bFull'
    BY <1>3, <1>9, <2>1 DEF Tick
  <2>3. Held = << >> /\ ~gives
    BY <1>9, HeldCases DEF ValidO
  <2>4. words = IF validI THEN <<dataI>> ELSE << >>
    BY <2>1
  <2>5. Held' = words
    BY <1>2, <1>3, <2>2, <2>4, HeldCasesNext
  <2> QED
    BY <1>3, <1>4, <1>5, <2>3, <2>4, <2>5, Pops, ConcatEmpty DEF Fifo!Move
<1>10. Fifo!Move(gives, words)
  BY <1>3, <1>6, <1>7, <1>8, <1>9
<1> QED
  BY <1>1, <1>10 DEF Fifo!FifoNext

\* Two registers, one FIFO of two words, for all words and both users' whims.
THEOREM SpillIsFifo == ASSUME ~FLUSH PROVE Spec => ImplementsFifo
<1>1. TypeOK /\ [Next]_vars => [Fifo!FifoNext]_(Fifo!FifoVars)
  <2>1. ASSUME TypeOK, Tick PROVE Fifo!FifoNext
    BY <2>1, TickRefines
  <2>2. ASSUME TypeOK, Reset PROVE Fifo!FifoNext
    <3>1. TypeOK' /\ ~aFull' /\ ~bFull'
      BY <2>2, TypeStep DEF Next, Reset
    <3>2. Held' = << >>
      BY <3>1, HeldCasesNext
    <3> QED
      BY <2>2, <3>2 DEF Reset, Fifo!Empty, Fifo!FifoNext
  <2>3. ASSUME Release \/ UNCHANGED vars PROVE UNCHANGED Fifo!FifoVars
    BY <2>3 DEF Release, vars, regVars, historyVars, Held, Fifo!FifoVars
  <2> QED
    BY <2>1, <2>2, <2>3 DEF Next
<1>2. Spec => []TypeOK
  BY TypeCorrect
<1> QED
  BY <1>1, <1>2, InitRefines, PTL DEF Spec, ImplementsFifo, Fifo!FifoSpec

\* What is offered to the consumer stays until it is taken.
THEOREM OfferIsHeld == ASSUME ~FLUSH PROVE Spec => OfferHeld
<1>1. TypeOK /\ [Next]_vars
        => [ValidO /\ ~readyI /\ rstN' = 1 => ValidO' /\ DataO' = DataO]_vars
  <2>1. ASSUME TypeOK, Tick, ValidO, ~readyI PROVE ValidO' /\ DataO' = DataO
    <3>1. CASE bFull
      <4>1. ~BFill /\ ~BDrain
        BY <2>1, <3>1 DEF ADrain, BFill, BDrain
      <4>2. bFull' = bFull /\ bData' = bData
        BY <2>1, <4>1 DEF Tick
      <4>3. DataO = bData /\ DataO' = bData'
        BY <3>1, <4>2 DEF DataO
      <4> QED
        BY <3>1, <4>2, <4>3 DEF ValidO
    <3>2. CASE ~bFull
      <4>1. aFull /\ BFill
        BY <2>1, <3>2 DEF ValidO, ADrain, BFill
      <4>2. bFull' /\ bData' = aData
        BY <2>1, <4>1 DEF Tick
      <4>3. DataO = aData /\ DataO' = bData'
        BY <3>2, <4>2 DEF DataO
      <4> QED
        BY <4>2, <4>3 DEF ValidO
    <3> QED
      BY <3>1, <3>2
  <2>2. ASSUME Reset PROVE rstN' # 1
    BY <2>2 DEF Reset
  <2>3. ASSUME Release PROVE ValidO' = ValidO /\ DataO' = DataO
    BY <2>3 DEF Release, regVars, ValidO, DataO
  <2> QED
    BY <2>1, <2>2, <2>3 DEF Next
<1>2. Spec => []TypeOK
  BY TypeCorrect
<1> QED
  BY <1>1, <1>2, PTL DEF Spec, OfferHeld

\* One word per edge when both users are willing.
THEOREM FullThroughput == ASSUME ~FLUSH PROVE Spec => NoBubble
<1>1. TypeOK /\ [Next]_vars
        => [rstN = 1 /\ rstN' = 1 =>
              /\ ValidO /\ readyI => ReadyO'
              /\ validI /\ ReadyO => ValidO']_vars
  <2>1. ASSUME TypeOK, Tick, ValidO, readyI PROVE ReadyO'
    <3>1. ~BFill /\ (bFull => BDrain)
      BY <2>1 DEF BFill, BDrain
    <3>2. ~bFull'
      BY <2>1, <3>1 DEF Tick, TypeOK
    <3> QED
      BY <3>2 DEF ReadyO
  <2>2. ASSUME TypeOK, Tick, validI, ReadyO PROVE ValidO'
    <3>1. AFill
      BY <2>2 DEF AFill
    <3> QED
      BY <2>2, <3>1 DEF Tick, ValidO
  <2>3. ASSUME Reset \/ Release PROVE ~(rstN = 1 /\ rstN' = 1)
    BY <2>3 DEF Reset, Release
  <2> QED
    BY <2>1, <2>2, <2>3 DEF Next
<1>2. Spec => []TypeOK
  BY TypeCorrect
<1> QED
  BY <1>1, <1>2, PTL DEF Spec, NoBubble
=============================================================================
