---------------------------- MODULE SarAdcProofs ----------------------------
(***************************************************************************)
(* Proofs about sar_adc.sv for every number of bits and every input.       *)
(*                                                                         *)
(* The argument: while bit i is on trial, dac_code is a multiple of        *)
(* 2^(i+1) plus 2^i, and the inputs already compared bracket that multiple *)
(* to within 2^(i+1) (ConvertInv).  Each comparison halves the bracket; at *)
(* bit 0 it leaves a single code.                                          *)
(***************************************************************************)
EXTENDS SarAdc, TLAPS

LEMMA Weights ==
    /\ N - 1 \in 0..N
    /\ \A i \in 0..N-1 : Weight[i] \in Nat /\ Weight[i] > 0
    /\ FullScale \in Nat /\ FullScale + 1 = 2 * Weight[N-1]
<1>1. Weight[N-1+1] = 2 * Weight[N-1]
  BY SarAssumption
<1> QED
  BY <1>1, SarAssumption DEF FullScale

\* Quotients of a multiple of a weight, without and with a remainder.
LEMMA MultipleDiv ==
    ASSUME NEW k \in Nat, NEW t \in Nat, t > 0
    PROVE  (k * t) \div t = k
OBVIOUS

LEMMA SmallMod ==
    ASSUME NEW x \in Nat, NEW m \in Nat, x < m
    PROVE  x % m = x
OBVIOUS

\* What a bit assignment does to a code that is a multiple of the bit's weight.
LEMMA AssignBit ==
    ASSUME NEW i \in 0..N-1, NEW k \in Nat, NEW b \in {0, 1}
    PROVE  WithBit(k * Weight[i], i, b) = (k + b - (k % 2)) * Weight[i]
<1> DEFINE t == Weight[i]
<1>1. t \in Nat /\ t > 0
  BY Weights
<1>2. BitOf(k * t, i) = k % 2
  BY <1>1, MultipleDiv DEF BitOf
<1>3. WithBit(k * t, i, b) = k * t + (b - (k % 2)) * t
  BY <1>2 DEF WithBit
<1> HIDE DEF t
<1>4. k * t + (b - (k % 2)) * t = (k + b - (k % 2)) * t
  BY <1>1
<1> QED
  BY <1>3, <1>4 DEF t

\* The bit on trial takes the comparator's answer, the bits above it stay.
LEMMA TrialBit ==
    ASSUME TypeOK, ConvertInv, state = "CONVERT"
    PROVE  /\ WithBit(dacCode, bitIndex, CompBit) = Settled + CompBit * Trial
           /\ Settled \in Nat /\ Trial \in Nat /\ Trial > 0
           /\ CompBit \in {0, 1}
<1>1. bitIndex \in 0..N-1 /\ Trial \in Nat /\ Trial > 0 /\ dacCode \in Nat
  BY Weights DEF TypeOK, Trial
<1>2. PICK q \in 0 .. FullScale : Settled = q * (2 * Trial)
  BY DEF ConvertInv
<1> DEFINE k == 2 * q + 1
<1>3. q \in Nat /\ k \in Nat /\ k % 2 = 1
  BY <1>2, Weights
<1>4. dacCode = k * Weight[bitIndex]
  BY <1>1, <1>2, <1>3 DEF Settled, Trial
<1>5. CompBit \in {0, 1}
  BY DEF CompBit
<1> HIDE DEF k
<1>6. WithBit(dacCode, bitIndex, CompBit) = (k + CompBit - (k % 2)) * Weight[bitIndex]
  BY <1>1, <1>3, <1>4, <1>5, AssignBit
<1>7. k + CompBit - (k % 2) = 2 * q + CompBit
  BY <1>3, <1>5 DEF k
<1>8. (2 * q + CompBit) * Trial = q * (2 * Trial) + CompBit * Trial
  BY <1>1, <1>3, <1>5
<1>9. WithBit(dacCode, bitIndex, CompBit) = Settled + CompBit * Trial
  BY <1>2, <1>6, <1>7, <1>8 DEF Trial
<1>10. Settled \in Nat
  BY <1>1, <1>2, <1>3
<1> QED
  BY <1>1, <1>5, <1>9, <1>10
-----------------------------------------------------------------------------
SarInv ==
    /\ TypeOK
    /\ StatusInv
    /\ ConvertInv
    /\ ResultWithinInput
    /\ OneDonePerStart

\* The history of the inputs only widens.
LEMMA Bracket ==
    ASSUME TypeOK, Compared
    PROVE  /\ vin \in Nat /\ lo' \in Nat /\ hi' \in Nat
           /\ lo' <= lo /\ lo' <= vin /\ hi' >= hi /\ hi' >= vin
<1>1. vin \in Nat /\ lo \in Nat /\ hi \in Nat
  BY SarAssumption DEF TypeOK
<1> QED
  BY <1>1 DEF Compared

\* A comparison at a bit other than the last halves the bracket.
LEMMA TryBitStep ==
    ASSUME TypeOK, ConvertInv, TryBit
    PROVE  /\ bitIndex' \in 0..N-1 /\ dacCode' \in 0..FullScale
           /\ lo' \in Nat /\ hi' \in Nat
           /\ ConvertInv'
<1> DEFINE K == Settled + CompBit * Trial
           t == Weight[bitIndex - 1]
<1>1. /\ WithBit(dacCode, bitIndex, CompBit) = K
      /\ Settled \in Nat /\ Trial \in Nat /\ Trial > 0 /\ CompBit \in {0, 1}
  BY TrialBit DEF TryBit
<1>2. bitIndex \in 1..N-1 /\ bitIndex' = bitIndex - 1 /\ bitIndex' \in 0..N-1
  <2>1. bitIndex \in 1..N-1 /\ bitIndex - 1 \in Nat /\ bitIndex - 1 < IndexSize
    BY SarAssumption DEF TryBit, TypeOK, LastBit
  <2>2. (bitIndex - 1) % IndexSize = bitIndex - 1
    BY <2>1, SmallMod, SarAssumption
  <2>3. bitIndex' = (bitIndex - 1) % IndexSize
    BY DEF TryBit
  <2>4. bitIndex' = bitIndex - 1
    BY <2>2, <2>3
  <2> QED
    BY <2>1, <2>4, SarAssumption
<1>3. t \in Nat /\ t > 0 /\ Trial = 2 * t /\ Trial' = t
  <2>1. Weight[bitIndex - 1 + 1] = 2 * Weight[bitIndex - 1]
    BY <1>2, SarAssumption
  <2>2. bitIndex - 1 + 1 = bitIndex
    BY <1>2
  <2> QED
    BY <1>2, <2>1, <2>2, Weights DEF Trial
<1>4. PICK q \in 0 .. FullScale : Settled = q * (2 * Trial)
  BY DEF ConvertInv, TryBit
<1> DEFINE p == 2 * q + CompBit
<1>5. p \in Nat /\ K = p * (2 * t) /\ K \in Nat
  <2>1. q \in Nat
    BY <1>4, Weights
  <2>2. q * (2 * (2 * t)) + CompBit * (2 * t) = (2 * q + CompBit) * (2 * t)
    BY <2>1, <1>1, <1>3
  <2> QED
    BY <2>1, <2>2, <1>1, <1>3, <1>4
<1>6. dacCode' = K + t
  <2>1. bitIndex' \in 0..N-1 /\ 2 * p \in Nat /\ (2 * p) % 2 = 0
    BY <1>2, <1>5
  <2>2. K = (2 * p) * Weight[bitIndex']
    BY <1>2, <1>3, <1>5
  <2>3. WithBit(K, bitIndex', 1) = (2 * p + 1 - ((2 * p) % 2)) * Weight[bitIndex']
    <3> HIDE DEF p, K
    <3> QED BY <2>1, <2>2, AssignBit
  <2>4. (2 * p + 1) * t = p * (2 * t) + t
    BY <1>3, <1>5
  <2>5. dacCode' = WithBit(K, bitIndex', 1)
    BY <1>1 DEF TryBit
  <2> HIDE DEF p, K, t
  <2>6. Weight[bitIndex'] = t
    BY <1>2 DEF t
  <2>7. 2 * p + 1 - ((2 * p) % 2) = 2 * p + 1
    BY <2>1
  <2> QED
    BY <2>3, <2>4, <2>5, <2>6, <2>7, <1>5
<1>7. Settled' = K
  BY <1>3, <1>5, <1>6 DEF Settled
<1>8. K + 2 * t <= FullScale + 1 /\ K + 2 * t <= Settled + 2 * Trial
  <2>1. Settled + 2 * Trial <= FullScale + 1
    BY DEF ConvertInv, TryBit
  <2>2. K + 2 * t <= Settled + 2 * Trial
    <3>1. CASE CompBit = 0
      BY <3>1, <1>1, <1>3
    <3>2. CASE CompBit = 1
      BY <3>2, <1>1, <1>3
    <3> QED
      BY <3>1, <3>2, <1>1
  <2> HIDE DEF K, t
  <2> QED
    BY <2>1, <2>2, <1>1, <1>3, <1>5, Weights
<1>9. /\ vin \in Nat /\ lo' \in Nat /\ hi' \in Nat
      /\ lo' <= lo /\ lo' <= vin /\ hi' >= hi /\ hi' >= vin
  BY Bracket DEF TryBit
<1>10. K <= hi' /\ lo' < K + 2 * t
  <2>1. /\ Settled <= hi /\ lo < Settled + 2 * Trial
        /\ lo \in Nat /\ hi \in Nat /\ dacCode \in Nat
    BY Weights DEF TypeOK, TryBit, ConvertInv
  <2>2. dacCode = Settled + Trial
    BY <1>1, <2>1 DEF Settled
  <2>3. CASE CompOut
    <3>1. CompBit = 1 /\ vin >= dacCode
      BY <2>3 DEF CompBit, CompOut
    <3>2. K = dacCode /\ K + 2 * t = Settled + 2 * Trial
      BY <3>1, <2>2, <1>1, <1>3
    <3> HIDE DEF K, t
    <3> QED
      BY <3>1, <3>2, <2>1, <1>1, <1>3, <1>5, <1>9
  <2>4. CASE ~CompOut
    <3>1. CompBit = 0 /\ ~(vin >= dacCode)
      BY <2>4 DEF CompBit, CompOut
    <3>2. K = Settled /\ K + 2 * t = dacCode
      BY <3>1, <2>2, <1>1, <1>3
    <3> HIDE DEF K, t
    <3> QED
      BY <3>1, <3>2, <2>1, <1>1, <1>3, <1>5, <1>9
  <2> QED
    BY <2>3, <2>4
<1>11. p \in 0 .. FullScale
  <2>1. p <= p * (2 * t)
    BY <1>3, <1>5
  <2> QED
    BY <2>1, <1>3, <1>5, <1>8, Weights
<1>12. dacCode' \in 0 .. FullScale
  BY <1>3, <1>5, <1>6, <1>8, Weights
<1>13. ConvertInv'
  <2> HIDE DEF p, K, t
  <2> QED
    BY <1>3, <1>5, <1>7, <1>8, <1>10, <1>11 DEF ConvertInv
<1> QED
  BY <1>2, <1>9, <1>12, <1>13

\* The comparison at bit 0 leaves one code, the result.
LEMMA LastTryStep ==
    ASSUME TypeOK, ConvertInv, LastTry
    PROVE  /\ dacCode' \in 0..FullScale /\ adcCode' \in 0..FullScale
           /\ lo' \in Nat /\ hi' \in Nat
           /\ lo' <= adcCode' /\ adcCode' <= hi'
<1>1. /\ adcCode' = Settled + CompBit * Trial /\ dacCode' = adcCode'
      /\ Settled \in Nat /\ CompBit \in {0, 1}
  BY TrialBit DEF LastTry
<1>2. Trial = 1
  BY SarAssumption DEF LastTry, LastBit, Trial
<1>3. /\ vin \in Nat /\ lo' \in Nat /\ hi' \in Nat
      /\ lo' <= lo /\ lo' <= vin /\ hi' >= hi /\ hi' >= vin
  BY Bracket DEF LastTry
<1>4. /\ Settled <= hi /\ lo < Settled + 2 /\ Settled + 2 <= FullScale + 1
      /\ lo \in Nat /\ hi \in Nat /\ dacCode \in Nat /\ dacCode = Settled + 1
  BY <1>1, <1>2, Weights DEF TypeOK, LastTry, ConvertInv, Settled
<1>5. adcCode' \in 0 .. FullScale
  BY <1>1, <1>2, <1>4, Weights
<1>6. lo' <= adcCode' /\ adcCode' <= hi'
  <2>1. CASE CompOut
    BY <2>1, <1>1, <1>2, <1>3, <1>4 DEF CompBit, CompOut
  <2>2. CASE ~CompOut
    BY <2>2, <1>1, <1>2, <1>3, <1>4 DEF CompBit, CompOut
  <2> QED
    BY <2>1, <2>2
<1> QED
  BY <1>1, <1>3, <1>5, <1>6
-----------------------------------------------------------------------------
LEMMA InitInv == Init => SarInv
<1>1. /\ 0 \in 0..N-1 /\ 0 \in 0..FullScale
      /\ FullScale \in Nat /\ N \in Nat
  BY Weights, SarAssumption
<1>2. ASSUME Init PROVE TypeOK
  <2>1. start \in BOOLEAN /\ busy \in BOOLEAN /\ done \in BOOLEAN /\ vin \in Inputs
    BY <1>2 DEF Init
  <2>2. rstN \in {0, 1} /\ state \in {"IDLE", "CONVERT", "DONE"}
    BY <1>2 DEF Init
  <2>3. /\ bitIndex \in 0..N-1 /\ dacCode \in 0..FullScale /\ adcCode \in 0..FullScale
        /\ lo \in Nat /\ hi \in Nat /\ owed \in Int
    BY <1>1, <1>2 DEF Init
  <2> QED
    BY <2>1, <2>2, <2>3 DEF TypeOK
<1>3. ASSUME Init PROVE StatusInv /\ ConvertInv /\ ResultWithinInput /\ OneDonePerStart
  BY <1>3 DEF Init, StatusInv, ConvertInv, ResultWithinInput, OneDonePerStart
<1> QED
  BY <1>2, <1>3 DEF SarInv

\* The state machine's part of the invariant, at every step.
LEMMA StatusStep ==
    ASSUME SarInv, Next
    PROVE  StatusInv' /\ OneDonePerStart'
<1> USE DEF SarInv, TypeOK, StatusInv, OneDonePerStart
<1>1. CASE Tick
  <2>1. CASE Idle
    BY <1>1, <2>1 DEF Tick, Idle
  <2>2. CASE Begin
    BY <1>1, <2>2 DEF Tick, Begin
  <2>3. CASE TryBit
    BY <1>1, <2>3 DEF Tick, TryBit
  <2>4. CASE LastTry
    BY <1>1, <2>4 DEF Tick, LastTry
  <2>5. CASE Finish
    BY <1>1, <2>5 DEF Tick, Finish
  <2> QED
    BY <1>1, <2>1, <2>2, <2>3, <2>4, <2>5 DEF Tick
<1>2. CASE Reset
  BY <1>2 DEF Reset
<1>3. CASE Release
  BY <1>3 DEF Release, historyVars
<1> QED
  BY <1>1, <1>2, <1>3 DEF Next

\* The converter's part: types, the bracket and the result.
LEMMA ConversionStep ==
    ASSUME SarInv, Next
    PROVE  TypeOK' /\ ConvertInv' /\ ResultWithinInput'
<1>1. /\ TypeOK /\ StatusInv /\ ConvertInv /\ ResultWithinInput
      /\ 0 \in 0..N-1 /\ 0 \in 0..FullScale
      /\ FullScale \in Nat /\ N \in Nat
  BY Weights, SarAssumption DEF SarInv
<1>2. CASE Tick
  <2>1. /\ rstN' \in {0, 1} /\ start' \in BOOLEAN /\ vin' \in Inputs
        /\ owed' \in Int
    BY <1>1, <1>2 DEF Tick, TypeOK
  <2>2. CASE Idle
    BY <1>1, <2>1, <2>2 DEF Idle, convVars, TypeOK, ConvertInv, ResultWithinInput, StatusInv
  <2>3. CASE Begin
    <3>1. /\ N-1 \in 0..N-1 /\ Weight[N-1] \in Nat /\ Weight[N-1] > 0
          /\ FullScale \in Nat /\ FullScale + 1 = 2 * Weight[N-1]
      BY Weights, SarAssumption
    <3>2. TypeOK' /\ ResultWithinInput'
      <4>1. Weight[N-1] \in 0..FullScale /\ 0 \in Nat
        BY <3>1
      <4>2. TypeOK'
        BY <1>1, <2>1, <2>3, <3>1, <4>1 DEF Begin, TypeOK
      <4>3. ResultWithinInput'
        BY <2>3 DEF Begin, ResultWithinInput
      <4> QED
        BY <4>2, <4>3
    <3>3. Settled' = 0 /\ Trial' = Weight[N-1]
      BY <2>3, <3>1 DEF Begin, Settled, Trial
    <3>4. 0 = 0 * (2 * Weight[N-1])
      BY <3>1
    <3>5. hi' = 0 /\ lo' = FullScale
      BY <2>3 DEF Begin
    <3>6. ConvertInv'
      BY <1>1, <3>1, <3>3, <3>4, <3>5 DEF ConvertInv
    <3> QED
      BY <3>2, <3>6
  <2>4. CASE TryBit
    <3>1. /\ bitIndex' \in 0..N-1 /\ dacCode' \in 0..FullScale
          /\ lo' \in Nat /\ hi' \in Nat /\ ConvertInv'
      BY <1>1, <2>4, TryBitStep
    <3> QED
      BY <1>1, <2>1, <2>4, <3>1 DEF TryBit, TypeOK, ResultWithinInput, StatusInv
  <2>5. CASE LastTry
    <3>1. /\ dacCode' \in 0..FullScale /\ adcCode' \in 0..FullScale
          /\ lo' \in Nat /\ hi' \in Nat /\ lo' <= adcCode' /\ adcCode' <= hi'
      BY <1>1, <2>5, LastTryStep
    <3> QED
      BY <1>1, <2>1, <2>5, <3>1 DEF LastTry, TypeOK, ConvertInv, ResultWithinInput
  <2>6. CASE Finish
    BY <1>1, <2>1, <2>6 DEF Finish, convVars, TypeOK, ConvertInv, ResultWithinInput
  <2> QED
    BY <1>2, <2>2, <2>3, <2>4, <2>5, <2>6 DEF Tick
<1>3. CASE Reset
  <2>1. TypeOK'
    <3>1. start' \in BOOLEAN /\ busy' \in BOOLEAN /\ done' \in BOOLEAN /\ vin' \in Inputs
      BY <1>1, <1>3 DEF Reset, inputVars, TypeOK
    <3>2. rstN' \in {0, 1} /\ state' \in {"IDLE", "CONVERT", "DONE"}
      BY <1>3 DEF Reset
    <3>3. /\ bitIndex' \in 0..N-1 /\ dacCode' \in 0..FullScale
          /\ adcCode' \in 0..FullScale
          /\ lo' \in Nat /\ hi' \in Nat /\ owed' \in Int
      BY <1>1, <1>3 DEF Reset
    <3> QED
      BY <3>1, <3>2, <3>3 DEF TypeOK
  <2>2. ConvertInv' /\ ResultWithinInput'
    BY <1>3 DEF Reset, ConvertInv, ResultWithinInput
  <2> QED
    BY <2>1, <2>2
<1>4. CASE Release
  <2>1. TypeOK'
    BY <1>1, <1>4 DEF Release, inputVars, convVars, historyVars, TypeOK
  <2>2. ConvertInv' /\ ResultWithinInput'
    BY <1>1, <1>4 DEF Release, convVars, historyVars, ConvertInv, Settled, Trial,
                      ResultWithinInput
  <2> QED
    BY <2>1, <2>2
<1> QED
  BY <1>2, <1>3, <1>4 DEF Next

LEMMA SarInvStep == SarInv /\ [Next]_vars => SarInv'
<1>1. ASSUME SarInv, Next PROVE SarInv'
  BY <1>1, StatusStep, ConversionStep DEF SarInv
<1>2. ASSUME SarInv, UNCHANGED vars PROVE SarInv'
  BY <1>2 DEF vars, inputVars, convVars, historyVars, SarInv, TypeOK, StatusInv,
              ConvertInv, Settled, Trial, ResultWithinInput, OneDonePerStart
<1> QED
  BY <1>1, <1>2

LEMMA SarInvariant == Spec => []SarInv
BY InitInv, SarInvStep, PTL DEF Spec

\* The code stays in its N bits, and every register in its range
\* (sar_adc.sv, all assignments).
THEOREM TypeCorrect == Spec => []TypeOK
<1>1. SarInv => TypeOK
  BY DEF SarInv
<1> QED
  BY <1>1, SarInvariant, PTL

\* For every number of bits and every course of the input, the result is a
\* value the input had during the conversion, up to saturation.
THEOREM ResultIsAnInput == Spec => []ResultWithinInput
<1>1. SarInv => ResultWithinInput
  BY DEF SarInv
<1> QED
  BY <1>1, SarInvariant, PTL

\* The bracket of the partial result, comparison by comparison.
THEOREM BracketHalves == Spec => []ConvertInv
<1>1. SarInv => ConvertInv
  BY DEF SarInv
<1> QED
  BY <1>1, SarInvariant, PTL

\* One done cycle for every start that met a free converter.
THEOREM EveryStartAnsweredOnce == Spec => []OneDonePerStart
<1>1. SarInv => OneDonePerStart
  BY DEF SarInv
<1> QED
  BY <1>1, SarInvariant, PTL

\* adc_code does not move while busy is low.
THEOREM ResultIsHeld == Spec => ResultHeld
<1>1. SarInv /\ [Next]_vars => [~busy /\ rstN' = 1 => adcCode' = adcCode]_vars
  <2>1. ASSUME SarInv, Next, ~busy, rstN' = 1 PROVE adcCode' = adcCode
    BY <2>1 DEF Next, Tick, Idle, Begin, TryBit, LastTry, Finish, Reset, Release,
                SarInv, StatusInv
  <2> QED
    BY <2>1
<1> QED
  BY <1>1, SarInvariant, PTL DEF Spec, ResultHeld

\* A conversion takes N + 1 edges for every N, and done marks the last of them
\* and no other.
THEOREM ConversionTakesNPlusOne == Spec => ConversionLatency
<1>1. ASSUME SarInv, Tick
      PROVE  IF EdgesLeft = 0
             THEN EdgesLeft' = (IF start THEN N + 1 ELSE 0) /\ ~done'
             ELSE EdgesLeft' = EdgesLeft - 1 /\ (done' <=> EdgesLeft' = 0)
  <2>1. /\ bitIndex \in 0 .. N - 1 /\ done \in BOOLEAN /\ N \in Nat /\ N >= 2
        /\ IndexSize \in Nat /\ IndexSize >= N
        /\ done => state = "IDLE"
    BY <1>1, SarAssumption DEF SarInv, TypeOK, StatusInv
  <2>2. CASE Idle
    BY <2>1, <2>2 DEF Idle, EdgesLeft
  <2>3. CASE Begin
    <3>1. EdgesLeft = 0 /\ EdgesLeft' = (N - 1) + 2
      BY <2>3 DEF Begin, EdgesLeft
    <3> QED
      BY <2>1, <2>3, <3>1 DEF Begin
  <2>4. CASE TryBit
    <3>1. bitIndex # 0 /\ bitIndex' = (bitIndex - 1) % IndexSize
      BY <2>4 DEF TryBit, LastBit
    <3>2. bitIndex \in 0 .. N - 1 /\ IndexSize \in Nat /\ IndexSize >= N /\ N \in Nat
      BY <2>1
    <3>3. bitIndex - 1 \in Nat /\ bitIndex - 1 < IndexSize
      BY <3>1, <3>2
    <3>4. bitIndex' = bitIndex - 1
      BY <3>1, <3>2, <3>3, SmallMod
    <3>5. state = "CONVERT" /\ state' = "CONVERT" /\ done' = done
      BY <2>4 DEF TryBit
    <3>6. EdgesLeft = bitIndex + 2 /\ EdgesLeft' = bitIndex' + 2
      BY <3>5 DEF EdgesLeft
    <3>7. ~done'
      BY <2>1, <3>5
    <3>8. EdgesLeft # 0 /\ EdgesLeft' = EdgesLeft - 1 /\ EdgesLeft' # 0
      BY <3>2, <3>3, <3>4, <3>6
    <3> QED
      BY <3>7, <3>8
  <2>5. CASE LastTry
    <3>1. bitIndex = 0 /\ state = "CONVERT" /\ state' = "DONE" /\ done' = done
      BY <2>5 DEF LastTry, LastBit
    <3>2. EdgesLeft = 2 /\ EdgesLeft' = 1
      BY <3>1 DEF EdgesLeft
    <3>3. ~done'
      BY <2>1, <3>1
    <3> QED
      BY <3>2, <3>3
  <2>6. CASE Finish
    <3>1. EdgesLeft = 1 /\ EdgesLeft' = 0 /\ done'
      BY <2>6 DEF Finish, EdgesLeft
    <3> QED
      BY <3>1
  <2> QED
    BY <1>1, <2>2, <2>3, <2>4, <2>5, <2>6 DEF Tick
<1>2. SarInv /\ [Next]_vars => [Tick =>
         IF EdgesLeft = 0
         THEN EdgesLeft' = (IF start THEN N + 1 ELSE 0) /\ ~done'
         ELSE EdgesLeft' = EdgesLeft - 1 /\ (done' <=> EdgesLeft' = 0)]_vars
  BY <1>1
<1> QED
  BY <1>2, SarInvariant, PTL DEF Spec, ConversionLatency
=============================================================================
