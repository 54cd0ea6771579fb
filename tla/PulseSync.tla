------------------------------ MODULE PulseSync ------------------------------
(***************************************************************************)
(* pulse_sync.sv: brings one-cycle pulses of a slow clock into a fast      *)
(* clock domain.  A pulse toggles pulse_mux; the toggle goes through an    *)
(* ffd_sync; the fast side turns every edge of the synchronized toggle     *)
(* back into a pulse.                                                      *)
(*                                                                         *)
(* An action is an edge of one clock, a pair of edges in each other's      *)
(* capture window, or a reset event.                                       *)
(***************************************************************************)
EXTENDS FfdSync

CONSTANTS
    MinGap,     \* the producer's spacing: fast edges strictly between pulses
    MaxResets   \* bound on one-sided resets between two joint ones

ASSUME PulseAssumption == MinGap \in Nat /\ MaxResets \in Nat

VARIABLES
    rstS,       \* i_rst_s
    rstF,       \* i_rst_f
    pulseMux,   \* pulse_mux
    muxSync,    \* flip-flops of ffd_sync_inst (pulse_mux_sync)
    ffd,        \* ffd
    gap,        \* history: fast edges since the last toggle or reset, up to 2
    close,      \* history: two pulses came with less than two edges between
    sent,       \* history: i_data was high at this step's edge
    seen,       \* history: o_data was high at this step's edge
    resets      \* history: one-sided resets since the last joint one

slowVars == <<pulseMux>>
fastVars == <<muxSync, ffd>>
vars == <<rstS, rstF, slowVars, fastVars, gap, close, sent, seen, resets>>

\* Variant: only a rising toggle makes a pulse.
OData_Rising == IF FfdOut(muxSync) = 1 /\ ffd = 0 THEN 1 ELSE 0

\* Variant: the toggle is taken after the first flip-flop of the synchronizer.
OData_FirstFlop == IF muxSync[1] # ffd THEN 1 ELSE 0

\* o_data: combinational, an edge of pulse_mux_sync.
OData == IF FfdOut(muxSync) # ffd THEN 1 ELSE 0

Init ==
    /\ rstS = 0 /\ rstF = 0
    /\ pulseMux = 0 /\ muxSync = FfdReset /\ ffd = 0
    /\ gap = 2 /\ close = FALSE
    /\ sent = FALSE /\ seen = FALSE /\ resets = 0
-----------------------------------------------------------------------------
\* Variant: pulse_mux follows i_data.
SlowEdge_Level(pulse) == pulseMux' = IF pulse THEN 1 ELSE 0

\* The slow side at an edge, with i_data = pulse.
SlowEdge(pulse) == pulseMux' = IF pulse THEN 1 - pulseMux ELSE pulseMux

\* The fast side at an edge that captures `captured` from pulse_mux.
FastEdge(captured) ==
    /\ muxSync' = FfdEdge(muxSync, captured)
    /\ ffd' = FfdOut(muxSync)

\* A fast clock is one that ticks at least MinGap times between two pulses.
Spaced(pulse) == pulse => gap >= MinGap

SlowTick ==
    /\ rstS = 1
    /\ \E pulse \in BOOLEAN :
          /\ Spaced(pulse)
          /\ SlowEdge(pulse)
          /\ gap' = IF pulse THEN 0 ELSE gap
          /\ close' = (close \/ (pulse /\ gap < 2))
          /\ sent' = pulse
    /\ seen' = FALSE
    /\ UNCHANGED <<rstS, rstF, fastVars, resets>>

FastTick ==
    /\ rstF = 1
    /\ FastEdge(pulseMux)
    /\ gap' = IF gap < 2 THEN gap + 1 ELSE 2
    /\ sent' = FALSE /\ seen' = (OData = 1)
    /\ UNCHANGED <<rstS, rstF, slowVars, close, resets>>

BothTick ==
    /\ rstS = 1 /\ rstF = 1
    /\ \E pulse \in BOOLEAN :
          /\ Spaced(pulse)
          /\ SlowEdge(pulse)
          /\ gap' = IF pulse THEN 0 ELSE IF gap < 2 THEN gap + 1 ELSE 2
          /\ close' = (close \/ (pulse /\ gap < 2))
          /\ sent' = pulse
    /\ \E captured \in Captured(pulseMux, pulseMux', Bit) : FastEdge(captured)
    /\ seen' = (OData = 1)
    /\ UNCHANGED <<rstS, rstF, resets>>
-----------------------------------------------------------------------------
ClearSlow == rstS' = 0 /\ pulseMux' = 0
ClearFast == rstF' = 0 /\ muxSync' = FfdReset /\ ffd' = 0

\* The system reset: both inputs fall together.
JointReset ==
    /\ ClearSlow /\ ClearFast
    /\ gap' = 2 /\ close' = FALSE
    /\ sent' = FALSE /\ seen' = FALSE /\ resets' = 0

SlowOnlyReset ==
    /\ resets < MaxResets
    /\ ClearSlow
    /\ gap' = 0 /\ sent' = FALSE /\ seen' = FALSE
    /\ resets' = resets + 1
    /\ UNCHANGED <<rstF, fastVars, close>>

FastOnlyReset ==
    /\ resets < MaxResets
    /\ ClearFast
    /\ gap' = 0 /\ sent' = FALSE /\ seen' = FALSE
    /\ resets' = resets + 1
    /\ UNCHANGED <<rstS, slowVars, close>>

ReleaseSlow ==
    /\ rstS = 0 /\ rstS' = 1
    /\ sent' = FALSE /\ seen' = FALSE
    /\ UNCHANGED <<rstF, slowVars, fastVars, gap, close, resets>>

ReleaseFast ==
    /\ rstF = 0 /\ rstF' = 1
    /\ sent' = FALSE /\ seen' = FALSE
    /\ UNCHANGED <<rstS, slowVars, fastVars, gap, close, resets>>

Next ==
    \/ SlowTick \/ FastTick \/ BothTick
    \/ JointReset \/ SlowOnlyReset \/ FastOnlyReset
    \/ ReleaseSlow \/ ReleaseFast

Spec == Init /\ [][Next]_vars
-----------------------------------------------------------------------------
\* The pulses under way: the edges along  pulse_mux, sync[0], sync[1], ffd.
Differs(a, b) == IF a # b THEN 1 ELSE 0

InFlight ==
    Differs(pulseMux, muxSync[1]) + Differs(muxSync[1], muxSync[2])
        + Differs(muxSync[2], ffd)

(***************************************************************************)
(* The fast clock runs, so what is on its way through the fast side moves  *)
(* on, and the reset of the fast side ends.  Nothing is assumed of the     *)
(* producer or of the slow clock.                                          *)
(***************************************************************************)
FastWorks == InFlight > 0 /\ (FastTick \/ BothTick)

FairSpec == Spec /\ WF_fastVars(FastWorks) /\ WF_vars(ReleaseFast)
-----------------------------------------------------------------------------
TypeOK ==
    /\ rstS \in Bit /\ rstF \in Bit
    /\ pulseMux \in Bit /\ muxSync \in FfdType /\ ffd \in Bit
    /\ gap \in 0..2 /\ close \in BOOLEAN
    /\ sent \in BOOLEAN /\ seen \in BOOLEAN
    /\ resets \in Nat

Channel == INSTANCE PulseChannel WITH pending <- InFlight

\* With one fast edge strictly between two pulses, every pulse comes out as
\* one cycle of o_data and no other cycle does, however the edges of the two
\* clocks fall and whatever the synchronizer captures; and a reset of one
\* domain alone makes at most one pulse of its own (the toggle, the
\* synchronizer and the edge detector of pulse_sync.sv).
ImplementsPulseChannel == Channel!ChannelSpec

\* A pulse is seen in the end, unless a reset comes in its way.
EveryPulseSeen == InFlight > 0 ~> seen \/ rstS = 0 \/ rstF = 0

\* tb_pulse_sync.sv, "1 fast clock cycle wide": it needs two fast edges between
\* pulses, one more than what keeps them from being lost.
OneCyclePulses ==
    [][OData = 1 /\ seen' /\ ~close /\ resets = 0 => OData' = 0]_vars

\* Two fast edges after the last toggle or reset nothing is left on its way but
\* what o_data shows: no pulse takes longer than three edges.  EveryPulseSeen
\* follows when the fast clock runs.
SeenInTime == gap = 2 => InFlight = OData
=============================================================================
