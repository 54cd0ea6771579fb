------------------------------- MODULE SarAdc -------------------------------
(***************************************************************************)
(* sar_adc.sv: the successive-approximation register of an N-bit ADC.      *)
(* After start it tries the bits of dac_code from the highest to the       *)
(* lowest: each is set, compared (VIN against the DAC's VDAC) and kept or  *)
(* cleared.                                                                *)
(*                                                                         *)
(* A state is a clock cycle: the flip-flops, and the inputs of the cycle.  *)
(* Voltages are in units of VREF / 2^N; VDAC is a whole number of them, so *)
(* the comparison needs only the whole part of VIN.  VIN may move in every *)
(* cycle: there is no sample-and-hold in the block.                        *)
(***************************************************************************)
EXTENDS Integers

CONSTANTS
    N,          \* parameter N: bits of the code
    IndexSize,  \* 2^$clog2(N): the values of bit_index
    Weight,     \* the powers of two from 2^0 to 2^N
    Inputs      \* the voltages VIN may have

ASSUME SarAssumption ==
    /\ N \in Nat /\ N >= 2
    /\ IndexSize \in Nat /\ IndexSize >= N
    /\ Weight \in [0..N -> Nat \ {0}] /\ Weight[0] = 1
    /\ \A i \in 0 .. N-1 : Weight[i+1] = 2 * Weight[i]
    /\ Inputs \subseteq Nat

FullScale == Weight[N] - 1

VARIABLES
    rstN,       \* rst_n
    start,      \* start
    vin,        \* VIN, the input of the comparator
    state,      \* state
    bitIndex,   \* bit_index
    dacCode,    \* dac_code
    adcCode,    \* adc_code
    busy,       \* busy
    done,       \* done
    lo, hi,     \* history: least and greatest VIN compared in this conversion
    owed        \* history: starts accepted (start, not busy) less done cycles

inputVars == <<start, vin>>
convVars == <<bitIndex, dacCode>>
historyVars == <<lo, hi, owed>>
vars == <<rstN, inputVars, state, convVars, adcCode, busy, done, historyVars>>

\* Variant: the comparator's other sense of equality.
CompOut_Strict == vin > dacCode

\* The DAC and the comparator: VIN >= VDAC.
CompOut == vin >= dacCode

\* code[index] and code with code[index] := b.
BitOf(code, index) == (code \div Weight[index]) % 2

\* Variant: the bit is added, whatever it was.
WithBit_Adds(code, index, b) == code + b * Weight[index]

WithBit(code, index, b) == code + (b - BitOf(code, index)) * Weight[index]

CompBit == IF CompOut THEN 1 ELSE 0

Init ==
    /\ rstN = 0 /\ start = FALSE /\ vin \in Inputs
    /\ state = "IDLE" /\ bitIndex = 0
    /\ dacCode = 0 /\ adcCode = 0
    /\ busy = FALSE /\ done = FALSE
    /\ lo = 0 /\ hi = 0 /\ owed = 0
-----------------------------------------------------------------------------
\* Variant: done stays up until the next start.
Idle_KeepsDone ==
    /\ state = "IDLE" /\ ~start
    /\ busy' = FALSE
    /\ UNCHANGED <<state, convVars, adcCode, done, lo, hi>>

Idle ==
    /\ state = "IDLE" /\ ~start
    /\ done' = FALSE /\ busy' = FALSE
    /\ UNCHANGED <<state, convVars, adcCode, lo, hi>>

\* Variant: the old result is cleared when a conversion starts.
Begin_ClearsResult ==
    /\ state = "IDLE" /\ start
    /\ dacCode' = Weight[N-1] /\ bitIndex' = N - 1
    /\ done' = FALSE /\ busy' = TRUE
    /\ state' = "CONVERT"
    /\ lo' = FullScale /\ hi' = 0
    /\ adcCode' = 0

\* start in IDLE; elsewhere it is not looked at.
Begin ==
    /\ state = "IDLE" /\ start
    /\ dacCode' = Weight[N-1] /\ bitIndex' = N - 1
    /\ done' = FALSE /\ busy' = TRUE
    /\ state' = "CONVERT"
    /\ lo' = FullScale /\ hi' = 0
    /\ UNCHANGED adcCode

Compared == lo' = (IF vin < lo THEN vin ELSE lo) /\ hi' = (IF vin > hi THEN vin ELSE hi)

\* Variant: the index is compared with the bit count.
LastBit_Count == bitIndex = N

LastBit == bitIndex = 0

\* CONVERT with a lower bit left: it is set tentatively.
TryBit ==
    /\ state = "CONVERT" /\ ~LastBit
    /\ bitIndex' = (bitIndex - 1) % IndexSize
    /\ dacCode' = WithBit(WithBit(dacCode, bitIndex, CompBit), bitIndex', 1)
    /\ Compared
    /\ UNCHANGED <<state, adcCode, busy, done>>

\* Variant: the result is the register before the last comparison.
LastTry_Early ==
    /\ state = "CONVERT" /\ LastBit
    /\ dacCode' = WithBit(dacCode, bitIndex, CompBit)
    /\ adcCode' = dacCode
    /\ state' = "DONE"
    /\ Compared
    /\ UNCHANGED <<bitIndex, busy, done>>

\* CONVERT at bit 0: the result includes this comparison.
LastTry ==
    /\ state = "CONVERT" /\ LastBit
    /\ dacCode' = WithBit(dacCode, bitIndex, CompBit)
    /\ adcCode' = WithBit(dacCode, bitIndex, CompBit)
    /\ state' = "DONE"
    /\ Compared
    /\ UNCHANGED <<bitIndex, busy, done>>

Finish ==
    /\ state = "DONE"
    /\ busy' = FALSE /\ done' = TRUE
    /\ state' = "IDLE"
    /\ UNCHANGED <<convVars, adcCode, lo, hi>>
-----------------------------------------------------------------------------
Tick ==
    /\ rstN = 1
    /\ Idle \/ Begin \/ TryBit \/ LastTry \/ Finish
    /\ owed' = (owed + (IF start /\ ~busy THEN 1 ELSE 0)) - (IF done THEN 1 ELSE 0)
    /\ start' \in BOOLEAN /\ vin' \in Inputs
    /\ UNCHANGED rstN

Reset ==
    /\ rstN' = 0
    /\ state' = "IDLE" /\ bitIndex' = 0
    /\ dacCode' = 0 /\ adcCode' = 0
    /\ busy' = FALSE /\ done' = FALSE
    /\ lo' = 0 /\ hi' = 0 /\ owed' = 0
    /\ UNCHANGED inputVars

Release ==
    /\ rstN = 0
    /\ rstN' = 1
    /\ UNCHANGED <<inputVars, state, convVars, adcCode, busy, done, historyVars>>

Next == Tick \/ Reset \/ Release

Spec == Init /\ [][Next]_vars

\* The clock runs: a conversion that can go on does.  Nothing is assumed of
\* start or VIN.
FairSpec == Spec /\ WF_vars(Tick /\ state # "IDLE") /\ WF_vars(Release)
-----------------------------------------------------------------------------
TypeOK ==
    /\ rstN \in {0, 1} /\ start \in BOOLEAN /\ vin \in Inputs
    /\ state \in {"IDLE", "CONVERT", "DONE"}
    /\ bitIndex \in 0 .. N - 1
    /\ dacCode \in 0 .. FullScale /\ adcCode \in 0 .. FullScale
    /\ busy \in BOOLEAN /\ done \in BOOLEAN
    /\ lo \in Nat /\ hi \in Nat /\ owed \in Int

\* Half-way through, the bits above bit_index are settled, bit_index is on
\* trial and the bits below are clear; every settled value is bracketed by
\* inputs that were really there.
Trial == Weight[bitIndex]
Settled == dacCode - Trial

ConvertInv ==
    state = "CONVERT" =>
        /\ \E q \in 0 .. FullScale : Settled = q * (2 * Trial)
        /\ Settled + 2 * Trial <= FullScale + 1
        /\ Settled <= hi
        /\ lo < Settled + 2 * Trial

\* Though VIN moves between the N comparisons, the result is a value the input
\* had in between: not below the least nor above the greatest voltage compared
\* (saturated at full scale).  With a steady input it is VIN itself.
ResultWithinInput ==
    state = "DONE" \/ done =>
        /\ lo <= adcCode
        /\ adcCode <= hi

\* busy and done by state; not a property but part of what makes the next
\* two inductive.
StatusInv ==
    /\ busy <=> state # "IDLE"
    /\ done => state = "IDLE"

\* Exactly one done cycle for every start accepted, where the only thing the
\* user can see of acceptance is busy: a start that meets busy is ignored, one
\* that does not is served, also in the cycle of the previous done.
OneDonePerStart == owed = IF busy \/ done THEN 1 ELSE 0

\* adc_code can be read whenever busy is low, not only at done: it changes
\* only during a conversion.
ResultHeld == [][~busy /\ rstN' = 1 => adcCode' = adcCode]_vars

\* A conversion ends, whatever the comparator says.
ConversionEnds == busy ~> done \/ rstN = 0

\* The edges until done, and that they are counted without a halt: N + 1 after
\* the edge that accepts start, whatever the comparator says.  ConversionEnds
\* follows when the clock runs.
EdgesLeft ==
    CASE state = "CONVERT" -> bitIndex + 2
      [] state = "DONE"    -> 1
      [] state = "IDLE"    -> 0

ConversionLatency ==
    [][Tick =>
        IF EdgesLeft = 0
        THEN EdgesLeft' = (IF start THEN N + 1 ELSE 0) /\ ~done'
        ELSE EdgesLeft' = EdgesLeft - 1 /\ (done' <=> EdgesLeft' = 0)]_vars
=============================================================================
