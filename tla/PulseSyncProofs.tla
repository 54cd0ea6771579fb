--------------------------- MODULE PulseSyncProofs ---------------------------
(***************************************************************************)
(* Proofs about pulse_sync.sv.  The losslessness theorem asks for MinGap   *)
(* >= 1; nothing is assumed about the clocks otherwise.                    *)
(*                                                                         *)
(* The argument: after a fast edge with pulse_mux at rest the first        *)
(* flip-flop agrees with pulse_mux, so the next toggle adds one edge to    *)
(* those under way, even if the synchronizer catches it late; every fast   *)
(* edge moves all of them by one place and hands the last one to o_data.   *)
(***************************************************************************)
EXTENDS PulseSync, TLAPS

\* How far the synchronizer has caught up, by the edges since the last toggle.
CaughtUp ==
    /\ gap >= 1 => muxSync[1] = pulseMux
    /\ gap >= 2 => muxSync[2] = muxSync[1]

\* No two edges next to each other.
Apart ==
    /\ ~(pulseMux # muxSync[1] /\ muxSync[1] # muxSync[2])
    /\ ~(muxSync[1] # muxSync[2] /\ muxSync[2] # ffd)

PulseInv ==
    /\ TypeOK
    /\ CaughtUp
    /\ ~close /\ resets = 0 => Apart

\* The flip-flops of a synchronizer, as two bits.
LEMMA SyncBits ==
    ASSUME NEW sync \in FfdType, NEW c \in Bit
    PROVE  /\ sync[1] \in Bit /\ sync[2] \in Bit
           /\ FfdOut(sync) = sync[2]
           /\ FfdEdge(sync, c) \in FfdType
           /\ FfdEdge(sync, c)[1] = c /\ FfdEdge(sync, c)[2] = sync[1]
BY DEF FfdType, FfdOut, FfdEdge

LEMMA ResetBits ==
    FfdReset \in FfdType /\ FfdReset[1] = 0 /\ FfdReset[2] = 0
BY DEF FfdType, FfdReset, Bit

\* An edge of the fast clock, possibly together with one of the slow clock:
\* what the synchronizer captures is the old or the new pulse_mux.
FastShift(pulse, captured) ==
    /\ SlowEdge(pulse)
    /\ captured \in {pulseMux, pulseMux'}
    /\ FastEdge(captured)

LEMMA FastTickShifts ==
    ASSUME TypeOK, FastTick
    PROVE  FastShift(FALSE, pulseMux) /\ gap' = (IF gap < 2 THEN gap + 1 ELSE 2)
BY DEF FastTick, FastShift, SlowEdge, slowVars

LEMMA BothTickShifts ==
    ASSUME TypeOK, BothTick
    PROVE  \E pulse \in BOOLEAN, captured \in Bit :
              /\ FastShift(pulse, captured) /\ Spaced(pulse)
              /\ sent' = pulse
              /\ gap' = IF pulse THEN 0 ELSE IF gap < 2 THEN gap + 1 ELSE 2
              /\ close' = (close \/ (pulse /\ gap < 2))
<1>1. PICK pulse \in BOOLEAN :
         /\ Spaced(pulse) /\ SlowEdge(pulse) /\ sent' = pulse
         /\ gap' = IF pulse THEN 0 ELSE IF gap < 2 THEN gap + 1 ELSE 2
         /\ close' = (close \/ (pulse /\ gap < 2))
  BY DEF BothTick
<1>2. PICK captured \in Captured(pulseMux, pulseMux', Bit) : FastEdge(captured)
  BY DEF BothTick
<1>3. pulseMux' = (IF pulse THEN 1 - pulseMux ELSE pulseMux) /\ pulseMux \in Bit
  BY <1>1 DEF SlowEdge, TypeOK
<1>4. captured \in Bit /\ captured \in {pulseMux, pulseMux'}
  BY <1>2, <1>3 DEF Captured, Bit
<1> QED
  BY <1>1, <1>2, <1>4 DEF FastShift

\* A shift moves every edge by one place; the last one leaves as o_data.
LEMMA ShiftCounts ==
    ASSUME TypeOK, NEW pulse \in BOOLEAN, NEW captured \in Bit,
           FastShift(pulse, captured),
           pulse => muxSync[1] = pulseMux
    PROVE  /\ pulseMux' \in Bit /\ muxSync' \in FfdType /\ ffd' \in Bit
           /\ muxSync'[1] = captured /\ muxSync'[2] = muxSync[1] /\ ffd' = muxSync[2]
           /\ InFlight' = InFlight + (IF pulse THEN 1 ELSE 0) - OData
<1>1. /\ muxSync' \in FfdType
      /\ muxSync'[1] = captured /\ muxSync'[2] = muxSync[1] /\ ffd' = muxSync[2]
      /\ muxSync[1] \in {0, 1} /\ muxSync[2] \in {0, 1} /\ FfdOut(muxSync) = muxSync[2]
  BY SyncBits DEF FastShift, FastEdge, TypeOK, Bit
<1>2. /\ pulseMux \in {0, 1} /\ ffd \in {0, 1}
      /\ pulseMux' = (IF pulse THEN 1 - pulseMux ELSE pulseMux)
      /\ captured \in {pulseMux, pulseMux'}
  BY DEF FastShift, SlowEdge, TypeOK, Bit
<1>3. pulseMux' \in Bit /\ ffd' \in Bit
  BY <1>1, <1>2 DEF Bit
<1>4. InFlight' = InFlight + (IF pulse THEN 1 ELSE 0) - OData
  <2>1. InFlight = Differs(pulseMux, muxSync[1]) + Differs(muxSync[1], muxSync[2])
                     + Differs(muxSync[2], ffd)
    BY DEF InFlight
  <2>2. InFlight' = Differs(pulseMux', captured) + Differs(captured, muxSync[1])
                     + Differs(muxSync[1], muxSync[2])
    BY <1>1 DEF InFlight
  <2>3. OData = Differs(muxSync[2], ffd)
    BY <1>1 DEF OData, Differs
  <2>4. CASE pulse
    BY <2>1, <2>2, <2>3, <2>4, <1>1, <1>2 DEF Differs
  <2>5. CASE ~pulse
    BY <2>1, <2>2, <2>3, <2>5, <1>1, <1>2 DEF Differs
  <2> QED
    BY <2>4, <2>5
<1> QED
  BY <1>1, <1>3, <1>4

LEMMA SlowTickCounts ==
    ASSUME TypeOK, CaughtUp, MinGap >= 1, SlowTick
    PROVE  \E pulse \in BOOLEAN :
              /\ Spaced(pulse) /\ sent' = pulse
              /\ pulseMux' = (IF pulse THEN 1 - pulseMux ELSE pulseMux)
              /\ InFlight' = InFlight + (IF pulse THEN 1 ELSE 0)
              /\ gap' = (IF pulse THEN 0 ELSE gap)
              /\ close' = (close \/ (pulse /\ gap < 2))
<1>1. PICK pulse \in BOOLEAN :
         /\ Spaced(pulse) /\ SlowEdge(pulse) /\ sent' = pulse
         /\ gap' = (IF pulse THEN 0 ELSE gap)
         /\ close' = (close \/ (pulse /\ gap < 2))
  BY DEF SlowTick
<1>2. muxSync' = muxSync /\ ffd' = ffd
  BY DEF SlowTick, fastVars
<1>3. muxSync[1] \in {0, 1} /\ pulseMux \in {0, 1}
  BY DEF TypeOK, FfdType, Bit
<1>4. pulse => muxSync[1] = pulseMux
  BY <1>1, PulseAssumption DEF Spaced, CaughtUp, TypeOK
<1>5. pulseMux' = (IF pulse THEN 1 - pulseMux ELSE pulseMux)
  BY <1>1 DEF SlowEdge
<1>6. InFlight' = InFlight + (IF pulse THEN 1 ELSE 0)
  <2>1. InFlight \in Nat
    BY DEF InFlight, Differs
  <2>2. CASE pulse
    BY <2>2, <1>2, <1>3, <1>4, <1>5 DEF InFlight, Differs
  <2>3. CASE ~pulse
    BY <2>1, <2>3, <1>2, <1>5 DEF InFlight
  <2> QED
    BY <2>2, <2>3
<1> QED
  BY <1>1, <1>5, <1>6

\* The number of edges under way is what the channel calls pending.
LEMMA InFlightType == InFlight \in Nat
BY DEF InFlight, Differs

LEMMA ODataPending == TypeOK /\ OData = 1 => InFlight > 0
<1>1. TypeOK /\ OData = 1 => muxSync[2] # ffd
  BY SyncBits DEF OData, TypeOK, FfdOut
<1> QED
  BY <1>1 DEF InFlight, Differs
-----------------------------------------------------------------------------
\* TypeOK in two parts, for the two kinds of prover.
RegisterType ==
    /\ rstS \in Bit /\ rstF \in Bit
    /\ pulseMux \in Bit /\ muxSync \in FfdType /\ ffd \in Bit
    /\ gap \in 0..2 /\ resets \in Nat

FlagType == close \in BOOLEAN /\ sent \in BOOLEAN /\ seen \in BOOLEAN

LEMMA TypeParts == TypeOK <=> RegisterType /\ FlagType
BY DEF TypeOK, RegisterType, FlagType

LEMMA InitInv == Init => PulseInv
<1>1. ASSUME Init PROVE RegisterType /\ CaughtUp /\ Apart
  BY <1>1, ResetBits DEF Init, RegisterType, CaughtUp, Apart, Bit
<1>2. ASSUME Init PROVE FlagType
  BY <1>2 DEF Init, FlagType
<1> QED
  BY <1>1, <1>2, TypeParts DEF PulseInv

\* The invariant after an edge of the fast clock.
LEMMA ShiftInv ==
    ASSUME PulseInv, MinGap >= 1, NEW pulse \in BOOLEAN, NEW captured \in Bit,
           FastShift(pulse, captured), Spaced(pulse),
           gap' = IF pulse THEN 0 ELSE IF gap < 2 THEN gap + 1 ELSE 2,
           close' = (close \/ (pulse /\ gap < 2)),
           resets' = resets
    PROVE  CaughtUp' /\ (~close' /\ resets' = 0 => Apart')
<1>1. /\ TypeOK /\ CaughtUp /\ (~close /\ resets = 0 => Apart)
      /\ gap \in 0..2 /\ close \in BOOLEAN
      /\ pulseMux \in {0, 1}
      /\ muxSync[1] \in {0, 1} /\ muxSync[2] \in {0, 1} /\ ffd \in {0, 1}
  BY SyncBits DEF PulseInv, TypeOK, Bit
<1>2. pulse => gap >= 1 /\ muxSync[1] = pulseMux
  BY <1>1, PulseAssumption DEF Spaced, CaughtUp
<1>3. /\ muxSync'[1] = captured /\ muxSync'[2] = muxSync[1] /\ ffd' = muxSync[2]
      /\ pulseMux' = (IF pulse THEN 1 - pulseMux ELSE pulseMux)
      /\ captured \in {pulseMux, pulseMux'}
  BY <1>1, <1>2, ShiftCounts DEF FastShift, SlowEdge
<1>4. CASE pulse
  <2>1. CaughtUp'
    BY <1>4 DEF CaughtUp
  <2>2. ASSUME ~close', resets' = 0 PROVE Apart'
    <3>1. ~(gap < 2)
      BY <1>4, <2>2
    <3>2. gap = 2
      BY <1>1, <3>1
    <3>3. muxSync[2] = muxSync[1] /\ muxSync[1] = pulseMux
      BY <1>1, <3>2 DEF CaughtUp
    <3> QED
      BY <1>1, <1>3, <3>3 DEF Apart
  <2> QED
    BY <2>1, <2>2
<1>5. CASE ~pulse
  <2>1. captured = pulseMux /\ pulseMux' = pulseMux
    BY <1>3, <1>5
  <2>2. CaughtUp'
    BY <1>1, <1>3, <1>5, <2>1 DEF CaughtUp
  <2>3. ASSUME ~close', resets' = 0 PROVE Apart'
    BY <1>1, <1>3, <1>5, <2>1, <2>3 DEF Apart
  <2> QED
    BY <2>2, <2>3
<1> QED
  BY <1>4, <1>5

\* The flags after a step of any kind.
LEMMA FlagStep ==
    ASSUME FlagType, Next
    PROVE  FlagType'
<1> USE DEF FlagType
<1>1. CASE SlowTick
  BY <1>1 DEF SlowTick
<1>2. CASE FastTick
  BY <1>2 DEF FastTick
<1>3. CASE BothTick
  BY <1>3 DEF BothTick
<1>4. CASE JointReset
  BY <1>4 DEF JointReset
<1>5. CASE SlowOnlyReset
  BY <1>5 DEF SlowOnlyReset
<1>6. CASE FastOnlyReset
  BY <1>6 DEF FastOnlyReset
<1>7. CASE ReleaseSlow
  BY <1>7 DEF ReleaseSlow
<1>8. CASE ReleaseFast
  BY <1>8 DEF ReleaseFast
<1> QED
  BY <1>1, <1>2, <1>3, <1>4, <1>5, <1>6, <1>7, <1>8 DEF Next

\* The registers after a step of any kind.
LEMMA RegisterStep ==
    ASSUME PulseInv, MinGap >= 1, Next
    PROVE  RegisterType'
<1>0. TypeOK /\ CaughtUp /\ RegisterType
  BY TypeParts DEF PulseInv
<1>1. CASE SlowTick
  <2>1. PICK pulse \in BOOLEAN :
              /\ pulseMux' = (IF pulse THEN 1 - pulseMux ELSE pulseMux)
              /\ gap' = (IF pulse THEN 0 ELSE gap)
    BY <1>0, <1>1, SlowTickCounts
  <2>2. UNCHANGED <<rstS, rstF, muxSync, ffd, resets>>
    BY <1>1 DEF SlowTick, fastVars
  <2>3. pulseMux' \in Bit /\ gap' \in 0..2
    BY <1>0, <2>1 DEF RegisterType, Bit
  <2> QED
    BY <1>0, <2>2, <2>3 DEF RegisterType
<1>2. CASE FastTick
  <2>1. /\ pulseMux' \in Bit /\ muxSync' \in FfdType /\ ffd' \in Bit
        /\ gap' = (IF gap < 2 THEN gap + 1 ELSE 2)
    BY <1>0, <1>2, FastTickShifts, ShiftCounts DEF TypeOK
  <2>2. UNCHANGED <<rstS, rstF, resets>>
    BY <1>2 DEF FastTick
  <2>3. gap' \in 0..2
    BY <1>0, <2>1 DEF RegisterType
  <2> QED
    BY <1>0, <2>1, <2>2, <2>3 DEF RegisterType
<1>3. CASE BothTick
  <2>1. PICK pulse \in BOOLEAN, captured \in Bit :
              /\ FastShift(pulse, captured) /\ Spaced(pulse)
              /\ sent' = pulse
              /\ gap' = IF pulse THEN 0 ELSE IF gap < 2 THEN gap + 1 ELSE 2
              /\ close' = (close \/ (pulse /\ gap < 2))
    BY <1>0, <1>3, BothTickShifts
  <2>2. pulse => muxSync[1] = pulseMux
    BY <1>0, <2>1, PulseAssumption DEF Spaced, CaughtUp, RegisterType
  <2>3. pulseMux' \in Bit /\ muxSync' \in FfdType /\ ffd' \in Bit
    BY <1>0, <2>1, <2>2, ShiftCounts
  <2>4. UNCHANGED <<rstS, rstF, resets>>
    BY <1>3 DEF BothTick
  <2>5. gap' \in 0..2
    BY <1>0, <2>1 DEF RegisterType
  <2> QED
    BY <1>0, <2>3, <2>4, <2>5 DEF RegisterType
<1>4. CASE JointReset
  BY <1>4, ResetBits DEF JointReset, ClearSlow, ClearFast, RegisterType, Bit
<1>5. CASE SlowOnlyReset
  BY <1>0, <1>5 DEF SlowOnlyReset, ClearSlow, fastVars, RegisterType, Bit
<1>6. CASE FastOnlyReset
  BY <1>0, <1>6, ResetBits DEF FastOnlyReset, ClearFast, slowVars, RegisterType, Bit
<1>7. CASE ReleaseSlow
  BY <1>0, <1>7 DEF ReleaseSlow, fastVars, slowVars, RegisterType, Bit
<1>8. CASE ReleaseFast
  BY <1>0, <1>8 DEF ReleaseFast, fastVars, slowVars, RegisterType, Bit
<1> QED
  BY <1>1, <1>2, <1>3, <1>4, <1>5, <1>6, <1>7, <1>8 DEF Next

\* Where the edges are after a step of any kind.
LEMMA EdgeStep ==
    ASSUME PulseInv, MinGap >= 1, Next
    PROVE  CaughtUp' /\ (~close' /\ resets' = 0 => Apart')
<1>0. /\ TypeOK /\ RegisterType /\ CaughtUp /\ (~close /\ resets = 0 => Apart)
      /\ gap \in 0..2 /\ resets \in Nat
  BY TypeParts DEF PulseInv, RegisterType
<1>1. CASE SlowTick
  <2>1. PICK pulse \in BOOLEAN :
              /\ Spaced(pulse)
              /\ pulseMux' = (IF pulse THEN 1 - pulseMux ELSE pulseMux)
              /\ gap' = (IF pulse THEN 0 ELSE gap)
              /\ close' = (close \/ (pulse /\ gap < 2))
    BY <1>0, <1>1, SlowTickCounts
  <2>2. muxSync' = muxSync /\ ffd' = ffd /\ resets' = resets
    BY <1>1 DEF SlowTick, fastVars
  <2>3. CASE pulse
    <3>1. CaughtUp'
      BY <2>1, <2>3 DEF CaughtUp
    <3>2. ASSUME ~close', resets' = 0 PROVE Apart'
      <4>1. ~(gap < 2)
        BY <2>1, <2>3, <3>2
      <4>2. muxSync[1] = muxSync[2]
        BY <1>0, <4>1 DEF CaughtUp
      <4> QED
        BY <2>2, <4>2 DEF Apart
    <3> QED
      BY <3>1, <3>2
  <2>4. CASE ~pulse
    <3>1. pulseMux' = pulseMux /\ gap' = gap
      BY <2>1, <2>4
    <3>2. close' = close
      BY <2>1, <2>4, <1>0 DEF TypeOK
    <3> QED
      BY <1>0, <2>2, <3>1, <3>2 DEF CaughtUp, Apart
  <2> QED
    BY <2>3, <2>4
<1>2. CASE FastTick
  <2>1. /\ FastShift(FALSE, pulseMux) /\ gap' = (IF gap < 2 THEN gap + 1 ELSE 2)
        /\ resets' = resets /\ close' = close /\ Spaced(FALSE) /\ pulseMux \in Bit
    BY <1>0, <1>2, FastTickShifts DEF FastTick, Spaced, RegisterType
  <2>2. close' = (close \/ (FALSE /\ gap < 2))
    BY <1>0, <2>1 DEF TypeOK
  <2> QED
    BY <2>1, <2>2, ShiftInv
<1>3. CASE BothTick
  <2>1. PICK pulse \in BOOLEAN, captured \in Bit :
              /\ FastShift(pulse, captured) /\ Spaced(pulse)
              /\ sent' = pulse
              /\ gap' = IF pulse THEN 0 ELSE IF gap < 2 THEN gap + 1 ELSE 2
              /\ close' = (close \/ (pulse /\ gap < 2))
    BY <1>0, <1>3, BothTickShifts
  <2>2. resets' = resets
    BY <1>3 DEF BothTick
  <2> QED
    BY <2>1, <2>2, ShiftInv
<1>4. CASE JointReset
  BY <1>4, ResetBits DEF JointReset, ClearSlow, ClearFast, CaughtUp, Apart
<1>5. CASE SlowOnlyReset
  BY <1>0, <1>5 DEF SlowOnlyReset, CaughtUp
<1>6. CASE FastOnlyReset
  BY <1>0, <1>6 DEF FastOnlyReset, CaughtUp
<1>7. CASE ReleaseSlow
  BY <1>0, <1>7 DEF ReleaseSlow, fastVars, slowVars, CaughtUp, Apart
<1>8. CASE ReleaseFast
  BY <1>0, <1>8 DEF ReleaseFast, fastVars, slowVars, CaughtUp, Apart
<1> QED
  BY <1>1, <1>2, <1>3, <1>4, <1>5, <1>6, <1>7, <1>8 DEF Next

LEMMA PulseInvStep == ASSUME MinGap >= 1 PROVE PulseInv /\ [Next]_vars => PulseInv'
<1>1. ASSUME PulseInv, Next PROVE PulseInv'
  <2>1. FlagType' /\ RegisterType'
    BY <1>1, FlagStep, RegisterStep, TypeParts DEF PulseInv
  <2>2. TypeOK'
    BY <2>1, TypeParts DEF TypeOK, RegisterType, FlagType
  <2> QED
    BY <1>1, <2>2, EdgeStep DEF PulseInv
<1>2. ASSUME PulseInv, UNCHANGED vars PROVE PulseInv'
  BY <1>2 DEF vars, slowVars, fastVars, PulseInv, TypeOK, CaughtUp, Apart
<1> QED
  BY <1>1, <1>2

LEMMA PulseInvariant == ASSUME MinGap >= 1 PROVE Spec => []PulseInv
BY InitInv, PulseInvStep, PTL DEF Spec

\* Every register stays in its range.
THEOREM TypeCorrect == ASSUME MinGap >= 1 PROVE Spec => []TypeOK
<1>1. PulseInv => TypeOK
  BY DEF PulseInv
<1> QED
  BY <1>1, PulseInvariant, PTL
-----------------------------------------------------------------------------
LEMMA InitRefines == Init => Channel!ChannelInit
BY ResetBits DEF Init, Channel!ChannelInit, InFlight, Differs

\* Every step of the circuit is a step of the channel.
LEMMA StepRefines ==
    ASSUME PulseInv, MinGap >= 1, Next
    PROVE  [Channel!ChannelNext]_(Channel!ChannelVars)
<1>0. /\ TypeOK /\ CaughtUp /\ InFlight \in Nat
      /\ pulseMux \in {0, 1} /\ muxSync[1] \in {0, 1} /\ muxSync[2] \in {0, 1}
      /\ ffd \in {0, 1} /\ FfdReset[1] = 0 /\ FfdReset[2] = 0
  BY SyncBits, ResetBits, InFlightType DEF PulseInv, TypeOK, Bit
<1>1. CASE SlowTick
  <2>1. PICK pulse \in BOOLEAN :
              /\ sent' = pulse
              /\ InFlight' = InFlight + (IF pulse THEN 1 ELSE 0)
    BY <1>0, <1>1, SlowTickCounts
  <2>2. seen' = FALSE /\ resets' = resets
    BY <1>1 DEF SlowTick
  <2>3. Channel!Move(pulse, FALSE)
    BY <1>0, <2>1, <2>2 DEF Channel!Move
  <2> QED
    BY <2>3 DEF Channel!ChannelNext
<1>2. CASE FastTick
  <2>1. FastShift(FALSE, pulseMux) /\ pulseMux \in Bit
    BY <1>0, <1>2, FastTickShifts DEF Bit
  <2>2. InFlight' = InFlight + (IF FALSE THEN 1 ELSE 0) - OData
    BY <1>0, <2>1, ShiftCounts
  <2>3. sent' = FALSE /\ seen' = (OData = 1) /\ resets' = resets
    BY <1>2 DEF FastTick
  <2>4. Channel!Move(FALSE, OData = 1)
    BY <1>0, <2>2, <2>3, ODataPending DEF Channel!Move, OData
  <2> QED
    BY <2>4 DEF Channel!ChannelNext
<1>3. CASE BothTick
  <2>1. PICK pulse \in BOOLEAN, captured \in Bit :
              FastShift(pulse, captured) /\ Spaced(pulse) /\ sent' = pulse
    BY <1>0, <1>3, BothTickShifts
  <2>2. pulse => muxSync[1] = pulseMux
    BY <1>0, <2>1, PulseAssumption DEF Spaced, CaughtUp, TypeOK
  <2>3. InFlight' = InFlight + (IF pulse THEN 1 ELSE 0) - OData
    BY <1>0, <2>1, <2>2, ShiftCounts
  <2>4. seen' = (OData = 1) /\ resets' = resets
    BY <1>3 DEF BothTick
  <2>5. Channel!Move(pulse, OData = 1)
    BY <1>0, <2>1, <2>3, <2>4, ODataPending DEF Channel!Move, OData
  <2> QED
    BY <2>5 DEF Channel!ChannelNext
<1>4. CASE JointReset
  <2>1. Channel!Forget
    BY <1>0, <1>4 DEF JointReset, ClearSlow, ClearFast, Channel!Forget, InFlight, Differs
  <2> QED
    BY <2>1 DEF Channel!ChannelNext
<1>5. CASE SlowOnlyReset
  <2>1. Channel!Upset
    BY <1>0, <1>5 DEF SlowOnlyReset, ClearSlow, fastVars, Channel!Upset, InFlight, Differs
  <2> QED
    BY <2>1 DEF Channel!ChannelNext
<1>6. CASE FastOnlyReset
  <2>1. Channel!Upset
    BY <1>0, <1>6 DEF FastOnlyReset, ClearFast, slowVars, Channel!Upset, InFlight, Differs
  <2> QED
    BY <2>1 DEF Channel!ChannelNext
<1>7. ASSUME ReleaseSlow \/ ReleaseFast PROVE Channel!Move(FALSE, FALSE)
  <2>1. InFlight' = InFlight
    BY <1>7 DEF ReleaseSlow, ReleaseFast, fastVars, slowVars, InFlight
  <2> QED
    BY <1>0, <1>7, <2>1 DEF ReleaseSlow, ReleaseFast, Channel!Move
<1>8. Channel!Move(FALSE, FALSE) => Channel!ChannelNext
  BY DEF Channel!ChannelNext
<1> QED
  BY <1>1, <1>2, <1>3, <1>4, <1>5, <1>6, <1>7, <1>8 DEF Next

\* With a fast edge strictly between two pulses no pulse is lost, doubled or
\* invented, for all clocks, all captures and any number of resets.
THEOREM PulsesConserved == ASSUME MinGap >= 1 PROVE Spec => ImplementsPulseChannel
<1>1. PulseInv /\ [Next]_vars => [Channel!ChannelNext]_(Channel!ChannelVars)
  <2>1. ASSUME UNCHANGED vars PROVE UNCHANGED Channel!ChannelVars
    BY <2>1 DEF vars, slowVars, fastVars, InFlight, Channel!ChannelVars
  <2> QED
    BY <2>1, StepRefines
<1> QED
  BY <1>1, InitRefines, PulseInvariant, PTL
  DEF Spec, ImplementsPulseChannel, Channel!ChannelSpec

\* With two fast edges between all pulses, each comes out one cycle wide.
THEOREM PulsesOneCycleWide == ASSUME MinGap >= 1 PROVE Spec => OneCyclePulses
<1>1. PulseInv /\ [Next]_vars
        => [OData = 1 /\ seen' /\ ~close /\ resets = 0 => OData' = 0]_vars
  <2>1. ASSUME PulseInv, Next, OData = 1, seen', ~close, resets = 0
        PROVE  OData' = 0
    <3>1. /\ TypeOK /\ CaughtUp /\ Apart
      BY <2>1 DEF PulseInv
    <3>2. muxSync[2] # ffd /\ muxSync[1] = muxSync[2]
      BY <2>1, <3>1, SyncBits DEF OData, Apart, TypeOK, FfdOut
    <3>3. CASE FastTick \/ BothTick
      <4>1. PICK captured : FastEdge(captured)
        BY <3>3 DEF FastTick, BothTick
      <4>2. FfdOut(muxSync') = muxSync[1] /\ ffd' = muxSync[2]
        BY <4>1 DEF FastEdge, FfdEdge, FfdOut
      <4> QED
        BY <3>2, <4>2 DEF OData
    <3>4. CASE ~(FastTick \/ BothTick)
      BY <2>1, <3>4 DEF Next, SlowTick, JointReset, SlowOnlyReset, FastOnlyReset,
                        ReleaseSlow, ReleaseFast
    <3> QED
      BY <3>3, <3>4
  <2> QED
    BY <2>1
<1> QED
  BY <1>1, PulseInvariant, PTL DEF Spec, OneCyclePulses

\* Every pulse is on o_data within two fast edges and counted by the third.
THEOREM PulsesInTime == ASSUME MinGap >= 1 PROVE Spec => []SeenInTime
<1>1. ASSUME PulseInv, gap = 2 PROVE InFlight = OData
  <2>1. muxSync[1] = pulseMux /\ muxSync[2] = muxSync[1]
    BY <1>1 DEF PulseInv, CaughtUp
  <2>2. FfdOut(muxSync) = muxSync[2]
    BY DEF FfdOut
  <2> QED
    BY <2>1, <2>2 DEF InFlight, OData, Differs
<1> QED
  BY <1>1, PulseInvariant, PTL DEF SeenInTime
=============================================================================
