# BioQuick and the SAR ADC: models, checks and proofs

This directory holds TLA+ models of the digital logic of the repository, the
TLC runs that check them and the theorems the TLA+ proof system has proved
about them. The code modelled is SystemVerilog: `src/BioQuick/src/rtl` (an SPI
to APB bridge with two clock domains) and
`src/Module_ADC_SAR_PDK_SAED/blocks/SAR_ADC/rtl/sar_adc.sv`. `PROJECT.json`
lists components, runs, mutants, hazards, findings and theorems, and maps every
definition to the lines it stands for.

## 1. The system

BioQuick lets an SPI host read and write registers behind an APB bus. The SPI
side runs on a slow clock, the Addresser and the APB side on 100 MHz. Words
cross between the two by handshake.

| Component (source) | State it keeps | Operations | What makes it correct |
|---|---|---|---|
| `hds_4_phase` (`hds_4_phase*.sv`) | two FSMs, `req`, `ack`, data register, two synchronizers | accept a word, request, take, acknowledge, release, resets | no word lost, duplicated, altered; data stable while visible; no lock-up |
| `ffd_sync` | two flip-flops | shift | used by the handshake and `pulse_sync` |
| `addresser.sv` | FSM, latched packet, address, data, `pready_flag`, latched outputs | decode the packet, set up transfers, step the address | words reach consecutive even addresses; packets and data are not confused; never stuck |
| `apb.sv` = `apbmaster`, `apb_slave_memory`, `register_bank` | two FSMs, address/data/enable registers, the bank | setup, access, write, read | APB phases; PREADY when it is needed |
| `hf_top.sv` | the above and a latch with the last read word | offer a read word, withdraw it at `i_hds_ack` | no read word overwritten before it is taken |
| `spill_register.sv` | registers A and B with full bits | fill, drain, flush | a FIFO of two words at full throughput |
| `pulse_sync.sv` | toggle, synchronizer, edge detector | toggle, capture, resets | each pulse seen once, one cycle wide |
| `sar_adc.sv` | FSM, `bit_index`, `dac_code`, `adc_code`, `busy`, `done` | start, try a bit, finish | the result is a value the input had; one `done` per start |
| `serializer.sv`, `deserializer.sv`, `counter.sv` | shift registers, bit counts, a word count | load, shift out, shift in, count a word, abandon a burst | the words that went in come out, counted |
| `crc.sv`, `comparator.sv` | `crc_internal`, `o_eq` | shift a bit in, hold, clear, compare | a frame passes if and only if its check value is right |
| `spi_frontend.sv` | synchronizers, `last_sck`, `o_data`, `o_miso`, `spi_busy` | find an edge of `sck`, sample, change | each bit sampled once, in four modes, at any phase |
| `spi_top.sv` | none of its own | wiring | not modelled (section 7) |
| `top.sv`, `wrap_spi.sv`, `wrap_apb.sv` | none of their own | wiring | not modelled (section 7) |

Interaction: the words of an SPI frame come out of a `hds_4_phase` receiver as
`i_ready`/`i_data` of `hf_top`; `o_ack` takes them. The Addresser drives
`o_Transfer` and the address, direction and data of the APB master; PREADY comes
back to the Addresser and to the latch in `hf_top`; the latch drives
`o_hds_ready`, which the Addresser also looks at before it starts the next read
of a burst.

On the SPI side `spi_frontend` turns the master's lines into bits, deserializers
make words of them, the counter counts the words, `crc` and `comparator` check
them, and a serializer feeds `o_miso`.

What is hard here: unrelated clocks; registers and lines captured while they
change; words cut off at any bit; a data bus that is not synchronized; resets of one domain or in the middle of a
transfer; one-cycle levels (PREADY, pulses) that somebody must not miss;
latches and increments inside `always_comb` blocks; address wrap-around; an
analogue input that moves during a conversion. The list with lines is under
`hazards` in `PROJECT.json`.

## 2. Modules

| Module | Models | Uses |
|---|---|---|
| `FfdSync` | `ffd_sync.sv`, and what a capture of a changing register yields | |
| `HandshakeChannel` | abstract: a channel of one word | |
| `WordSource` | abstract: what the receiver promises to the block it feeds | |
| `Hds4Phase`, `Hds4PhaseProps` | `hds_4_phase.sv` with sender and receiver; its properties and inductive invariant | `FfdSync`, refines `HandshakeChannel` and `WordSource` |
| `HfTypes`, `Addresser`, `Apb` | words and addresses; `addresser.sv`; `apb.sv` with master, slave, bank | |
| `HfTop`, `HfTopProps` | `hf_top.sv`, the composition; its properties | `Addresser`, `Apb` |
| `BoundedFifo`, `SpillRegister` | abstract FIFO; `spill_register.sv` | `SpillRegister` refines `BoundedFifo` |
| `PulseChannel`, `PulseSync` | abstract count of pending pulses; `pulse_sync.sv` | `FfdSync`, refines `PulseChannel` |
| `SarAdc` | `sar_adc.sv` with DAC and comparator | |
| `SerialPath` | `serializer.sv`, `deserializer.sv` and `counter.sv` at the two ends of a wire | |
| `CrcCheck` | `crc.sv` and `comparator.sv` behind it | `SerialPath` |
| `SpiFrontend` | `spi_frontend.sv` and an SPI master | refines `BoundedFifo` twice |
| `MC*` | TLC instances, one or more `.cfg` each | |
| `*Proofs` | theorems about `Hds4Phase`, `HfTop`, `SpillRegister`, `PulseSync`, `SarAdc`, `SerialPath`, `CrcCheck`, `SpiFrontend` | |

Operators called `X_Something` next to a definition `X` are faulty variants of
it. Nothing refers to them; putting one in the place of `X` shows that a
property notices (`mutants` in `PROJECT.json`).

### How state and steps correspond to the RTL

**Handshake and pulse synchronizer** (two clocks). A step is an edge of one
clock, or a pair of edges that fall in each other's capture window (`BothTick`),
or a reset event. In `BothTick` a register of the other domain that changes in
this very step is captured old or new for a bit, and as any word for a data bus
(`Captured`). No ratio of the frequencies is assumed. Flip-flops are variables,
combinational outputs operators. Metastability beyond the first flip-flop is not
modelled: that the second settles within a cycle is what a synchronizer is for.

**High-frequency side** (one clock). A state is what every flip-flop and latch
holds once a cycle has settled. `Tick` is the next edge: the flip-flops take
their next values (`ApbEdge`, `aState' = aNext`), new inputs arrive
(`NewInputs`), and the combinational blocks settle in the order of their
dependencies (`AddresserLatches`, `OfferRead`, `AddresserNext`, `MasterSettle`).
Latches the code infers (`apbmaster.next_state`, the Addresser's packet, data,
address and output latches, `read_data_reg`) are state. The Addresser adds 2 to
`addr_reg` inside `always_comb`, so the number of evaluations in a cycle
matters: with `Settled = TRUE` the block runs once per cycle, on settled inputs;
with `Settled = FALSE` it may run once before, on a view in which PREADY or
`o_hds_ready` still has its old value (`EarlyViews`; the bound is one early run
per cycle). A word is `[op, addr]`: the two fields a packet is read as; a data
word is any word. `frameOpen`, `hostWrite`, `cursor`, `model`, `paced` are
history of what the host handed over, with an increment of their own.

`o_error` is left out: every 12-bit address passes `register_bank`'s check, so
outside reset it is constant 0.

**Spill register and SAR ADC** (one clock). A state is a cycle: registers and
inputs; `Tick` is the edge. Voltages are counted in units of VREF/2^N, where the
DAC's output is a whole number, so the comparator needs only the whole part of
VIN. `Weight` is the table of powers of two from 2^0 to 2^N.

**SPI data path** (one clock). A state is a cycle; `Edge` is the next clock edge
with the serializer's `en` and `i_data` and a bit that the wire may invert.
The deserializer's `en` follows the serializer's by one cycle, which is the
cycle `o_data` of the serializer takes; the counter is wired as in `spi_top.sv`
(`rst` while not enabled, `incr` at `done`). A word is a function from bit
numbers, so `dir` and `WIDTH` are parameters (`Shapes`). None of the registers
has a reset, so all start with anything (all zeros or all ones stand for the
shift registers). In `CrcCheck`, `crc` runs over the first word of a burst and
the comparator sets it against the second: the write flow of `CONTEXT.md` in
small, as the testbench of `crc` drives it. A polynomial over GF(2) is the set
of its exponents, and `CheckWord` defines the check value by divisibility, not
by a shift register. That the definition gives 5F and F3 for the bytes AA and FF
with polynomial 07, and 73 for AA with 1D, is the assumption `CheckValues` of
`MCCrcCheck`, which TLC evaluates; the testbench expects other values in three
places (section 6).

**SPI front end** (the system clock against an SPI master). A step is a clock
edge, a move of the master, or both in the same moment; then each flip-flop that
reads a moving line captures the old or the new value, on its own (`o_data`
reads `i_mosi` itself). A captured value is assumed to have settled a cycle
later. `incoming` and `outgoing` are the bits under way in the two directions.

### Assumptions on the environment

- *Handshake*: `HoldData` - the producer keeps `i_data` from the valid/ready
  edge until the sender is ready again (the sender samples later; see the
  finding of run `hds_late`). `OneSided = FALSE` - both reset inputs fall
  together (`3_clock_reset.tex`, one system reset), and are released
  separately. Both are switched off in runs of their own.
- *hf_top*: `i_ready`/`i_data` behave like a handshake receiver's outputs: a word
  stays until `o_ack`, then `i_ready` is low for a cycle. That the receiver does
  behave so is `ImplementsWordSource`, checked and proved. (`NewInputs` keeps
  `i_data` while nothing is offered; the Addresser looks at it under `i_ready`
  only.) `i_ss`
  and `i_hds_ack` are free at every edge. The select is inactive when reset is
  released. With `ResetAnytime = FALSE` reset falls only while the APB master's
  next state is IDLE; the other case is run `hf_reset`. The master's `next_state`, which no reset
  reaches, starts as IDLE: in simulation its unknown power-up value leads to
  IDLE by the `default` branches; a latch that powers up as SETUP behaves like
  the one of run `hf_reset`.
- *Paced host* (`Paced`, recorded in `paced`): only for `CommandFraming`,
  `ReadNotLost`, `FrameEnds`, `NoHang`. The host ends a frame while the transfer
  of its last word is still to come, begins the next when that has ended and the
  read word was taken, and sends words only inside a frame. The code relies on
  this without stating it; run `hf_interrupt` shows what happens otherwise.
  `MemoryMatches`, `ReadsInOrder` and `ApbTransfer` hold for every host.
- *Spill register*: `FLUSH` is 0 and the producer keeps an offer until it is
  accepted. The consumer may change its mind about ready.
- *Pulse synchronizer*: at least `MinGap = 1` edges of the fast clock strictly
  between two pulses (and between a reset and the next pulse). With 0, two
  pulses can cancel. Width one needs two edges (`OneCyclePulses`).
- *SPI data path*: nothing. `en` may fall at any bit and rise again at the next;
  words are chosen afresh for every load. The theorems of `SerialPathProofs` need `WIDTH >= 8` (a
  narrower deserializer has no bit 7), `OP_LEN < WIDTH` and `UPTO > 1`.
- *SPI front end*: at least `MinHalf` clock edges between two moves of the master.
  `MinHalf = 2` is what the code needs: with 1, TLC refutes the three action
  properties. The master keeps its mode: `sck` rests at CPOL while the select
  moves, `mosi` changes on the changing edges. While the select is high `sck`
  may move for another slave. `i_busy` and `i_data` are free.
- *SAR ADC*: nothing. `start` and VIN change freely in every cycle.

## 3. Runs

| Run | Question | Bounds | Result |
|---|---|---|---|
| `hds_joint` | is the handshake a reliable one-word channel? | 3 words of data, at most 3 accepted words between joint resets | holds, 634 states |
| `hds_onesided` | what do resets of one side cost? | 2 words of data, 4 accepted words, 2 one-sided resets | at most one word each; no lock-up; 106,881 states |
| `hds_late` | is the word of the valid/ready edge delivered? | 3 words, producer free | violated (finding) |
| `hf_host` | do frames reach memory and come back? | 4 addresses (2 even), 3 words | holds, 106,590 states |
| `hf_interrupt` | does a fallen select bring back IDLE? | as above | violated (finding) |
| `hf_reset` | does the slave serve only what the Addresser asked for? | as above, reset at any time | violated (finding) |
| `hf_race` | does a burst survive an early evaluation? | as above, one early evaluation per cycle | violated (finding) |
| `spill` | is it a FIFO of two? | 3 words | holds, 1,011 states |
| `pulse` | is each pulse seen once? | gap counted up to 2, 2 one-sided resets | holds, 354 states |
| `spi_words` | do words come back and are bad frames refused? | widths 8 and 16, `OP_LEN` 0 and 3, both orders, UPTO 3, up to 3 inverted bits, 1 or 2 words | holds, 905,145 states |
| `spi_frontend` | is every bit sampled once and every answer in time? | `MinHalf` 2; nothing else | holds, 3,648 states |
| `sar` | is the result a value the input had? | N = 4, 9 voltages | holds, 80,172 states |

Why the bounds are enough. The handshake never looks at a word, so three
(a stale one, the reset value, the right one) tell all cases apart; after one
transfer the registers are back where they began, so three transfers include a
second one on used registers and the step to it; the theorems of section 5 hold
for any number. Four addresses leave two even ones, so that a burst of two words
already wraps, and an odd one for the mask. The spill register holds two words,
a third tells a stale one. The counter of the pulse synchronizer saturates at the
first value the properties no longer distinguish. Four bits give a first, two
middle and a last comparison, and the nine voltages lie on both sides of the
codes at which they turn, with both ends and VREF itself. The shapes of the SPI
data path are the widths the sources instantiate, with and without an operation
field; UPTO is that of `spi_top.sv`; CRC-8 with polynomial 07 detects any three
inverted bits in a frame of 16, and four is the first number it can miss, so the
bound is where the claim ends. The front end's history holds one bit each way
because the properties forbid a second.

Deadlock is checked in every run; no run switches it off.

### Properties

- *Handshake*: `ImplementsChannel`, `ImplementsWordSource` (refinements), `RcvValidHeld`,
  `BundledDataStable`, `FourPhaseOrder`, `HandshakeInv`, `EventuallyDelivered`,
  `SenderRecovers`; with one-sided resets `ResetSkew`, `BothRecover`.
- *hf_top*: `MemoryMatches` (bank = the memory the acknowledged words imply,
  whenever the bus is idle), `ReadsInOrder` (every word offered is the content
  of the next address of the burst), `ApbTransfer`, `ReadNotLost`,
  `CommandFraming`, `FrameEnds`, `NoHang`; `BurstInv`, the inductive invariant.
- *SPI data path*: `WordsComeBack`, `DoneEveryUpto`, `CrcVerdict`; `SerialInv`,
  the inductive invariant.
- *SPI front end*: `EveryBitStrobedOnce`, `EveryAnswerSampledOnce` (refinements
  of a FIFO of one bit), `AnsweredInTime`.
- *Spill register*: `ImplementsFifo`, `OfferHeld`, `NoBubble`.
- *Pulse synchronizer*: `ImplementsPulseChannel`, `EveryPulseSeen`,
  `OneCyclePulses`.
- *SAR ADC*: `ConvertInv`, `ResultWithinInput`, `OneDonePerStart`,
  `ResultHeld`, `ConversionEnds`.

## 4. Fairness

Clocks run: that is all the hardware gives, and all that is assumed of it.

- `Hds4Phase`: weak fairness of an edge of the sender while it is not idle
  (changing its registers), of an edge of the receiver that changes its
  registers, of releasing each reset; and of the consumer being ready at some
  edge while a word is on offer. An idle sender need not be given a word.
- `HfTop`: weak fairness of the clock edge and of the release of reset. The
  variable `clk` makes every edge a change, so a host that keeps its inputs for
  ever is a behaviour too. Nothing is assumed of the host.
- `PulseSync`: the fast clock ticks while a pulse is under way; the fast reset
  ends. Nothing about the slow clock.
- `SarAdc`: the clock ticks during a conversion; the reset ends.
- `SerialPath`, `CrcCheck`, `SpiFrontend`: none. What they promise is bounded in
  clock edges, and stated as safety.

No strong fairness is used.

## 5. Proofs

Proved with TLAPS for every value of the constants, from the named assumptions
of each module:

- `Hds4PhaseProofs`: `TypeCorrect`, `HandshakeInvariant`, `ChannelRefinement`,
  `ValidIsHeld`, `DataIsBundled`, `FourPhases`, `ReceiverIsWordSource`. The invariant needs to be found:
  none of the properties is inductive, because a bit may sit in any of four
  flip-flops. `HandshakeInv` describes a transfer as a wave that runs around the
  ring req, receiver's synchronizer, receiver, ack, sender's synchronizer:
  `Rising` while the wave of ones advances, `AllOnes`, `Falling` for the wave of
  zeros, `Quiet` in between. From it follow where the word is (`DataInv`) and
  every step of the abstract channel. The theorems about the channel assume
  `HoldData` and `~OneSided`, as the runs do; type correctness does not.
- The same module, resets of one side: `ResetsSkewByOne` proves `ResetSkew` with no
  hypothesis at all, for producers that change their word and any pattern of
  resets. `HandshakeInv` does not hold there, so the argument is another one: a
  potential. Each half of the ring (request: sender's state, req, two flip-flops,
  receiver's state; acknowledge: the same backwards) is a row of levels, and a rise
  between neighbours is an event still on its way. `Deliverable` counts those of the
  request half, `Acceptable` those of the other; `SkewInv` is `ResetSkew` with both
  added to what happened already. Every edge and every capture keeps the sums, a
  reset of one side makes at most one new rise in each and is paid for by `resets`.
- The same module, progress: `EdgesCount` and `TransfersEnd`. `StepsLeft` measures a
  transfer by the number of ones in the ring, up to seven and down again: at most 16
  changes. No edge or capture raises it, an edge of a side that is due lowers it
  unless the consumer is not ready, and one side always is due. With running
  clocks that is `EventuallyDelivered` and `SenderRecovers`; the last step, which needs
  `ENABLED`, stays with TLC.
- `SpillRegisterProofs`: `TypeCorrect`, and, without FLUSH, `SpillIsFifo`
  (refinement of a FIFO of capacity two, by cases over the full bits),
  `OfferIsHeld`, `FullThroughput`.
- `PulseSyncProofs`: with `MinGap >= 1`, `TypeCorrect`, `PulsesConserved`
  (refinement: the number of edges along the toggle, the synchronizer and the
  edge detector is the number of pending pulses), `PulsesOneCycleWide`,
  `PulsesInTime` (three fast edges at most).
- `SarAdcProofs`: for every `N >= 2`, `TypeCorrect`, `BracketHalves`,
  `ResultIsAnInput`, `EveryStartAnsweredOnce`, `ResultIsHeld`,
  `ConversionTakesNPlusOne` (the edges until `done` count down). The invariant says
  that the settled bits are a multiple of twice the trial weight, bracketed
  within one such step by voltages that were really compared. Powers of two
  enter as the table `Weight` with `Weight[i+1] = 2 * Weight[i]` as assumption.

- `HfTopProofs`: `TypeCorrect` for every instance; `BurstInvariant`,
  `MemoryFollowsHost`, `FramesAgree`, `ReadsFollowHost`, `TransfersAreApb`,
  `ReadsAreTaken` assuming `Settled` and `~ResetAnytime`, the cases in which the
  runs do not refute them, for every even number of addresses and every set of
  words. No property is inductive: whether the bank is up to date depends on
  where the transfer is. `BurstInv` distinguishes the phases of the bus (free,
  setup, access, with DONE in the slave behind it) and says for each how far
  the bank is behind the host's words (`BankInv`: by the word on the bus), how
  far `addrReg` is behind the host's cursor (`CursorInv`: by one word once it has
  been served), what is on offer from the handshake (`WordInv`) and which frame
  the Addresser believes it is in (`FrameInv`). DONE's second write is harmless
  because it repeats the last word at its address.
- `SerialPathProofs`: `TypeCorrect`, `EndsAgree`, `WordsReturn`, `WordsCounted` for
  all widths from 8, all words, both orders, any number of bursts and cuts. The
  invariant `SerialInv` is that both ends have counted the same bits of the same
  word, one cycle apart; then the bit on the wire is the one the deserializer is
  due, and both registers are functions of the word and the count. `CrcSpec`'s
  steps are steps of `SerialPath`, so the theorems apply there too.
- `CrcCheckProofs`: `CrcInvariant`, `FramesJudged`, `SingleErrorsRejected`, for every
  width, polynomial, bit order, message and placement of the inverted bits. A
  polynomial over GF(2) is the set of its exponents. Multiples of the divisor are
  closed under sums and none but 0 is shorter than the divisor (the highest term of
  a product is a product of highest terms), so remainders are unique
  (`RemainderUnique`). One shift of the register is one step of the long division
  (`DivisionStep`, `CrcShiftDivides`); so after n bits of the first word the register
  is what division leaves of the word plus an error polynomial with as many terms as
  bits were inverted (`CrcInv`, an invariant of what has been received, message or
  check value, and how). At the end the comparator's question is whether the
  errors in message and check value together are a multiple (`UndetectedErrors`).
  Two hypotheses: `DetectsFlips`, that the code of `i_poly` has no multiple with one
  to `MaxFlips` terms in the length of a frame (a fact about a polynomial; TLC
  evaluates it for 8'h07 and three flips, and `SingleErrorsRejected` does without
  it), and `RestartFits`, that a least-significant-first deserializer whose words the
  crc checks is 8 bits wide (see the finding on `deserializer.sv:11`; TLC evaluates
  that too). Bursts whose words have another width or an `OP_LEN` are outside
  `CrcVerdict`.
- `SpiFrontendProofs`: `FrontInvariant`, `BitsStrobed`, `AnswersSampled`,
  `AnswersInTime` for every `MinHalf >= 2`. The invariant follows an edge of `sck`
  through `sck_r` and `last_sck`: where it is depends only on the clock edges since
  the master's move (`age`) and on whether a moving line was captured old or new;
  two edges are enough for it to have passed, so two are never under way.

Every invariant and every action property of a passing run is proved, every
refinement too. Only model-checked are the liveness properties
(`EventuallyDelivered`, `SenderRecovers`, `BothRecover`, `FrameEnds`, `NoHang`,
`EveryPulseSeen`, `ConversionEnds`): they need fairness and `ENABLED`, out of the
prover's reach. For four of them (`EventuallyDelivered`, `SenderRecovers`,
`EveryPulseSeen`, `ConversionEnds`) the measure that the argument rests on is proved, as above.
Induction over data is avoided: where a highest term is needed, it is the least
element of a well-founded family of subsets (`HighestTerm`).

## 6. Findings

Each is in `PROJECT.json` with its lines.

1. `hds_late`: the sender's comment says a word is sampled when valid is
   asserted; the code samples it at the edges after that.
2. `hf_interrupt`: the testbench asserts a return to IDLE when the select falls;
   most states do not look at it.
3. `hf_reset`: the APB master's `next_state` is a latch without reset. When the
   reset falls in the cycle of a transfer request, the latch keeps SETUP and
   after the release the bus carries a read of address 0 that nobody asked for;
   `hf_top` offers its word to the SPI side. With `ResetAnytime = FALSE` the same
   property holds.
4. `hf_race`: the address increment sits in a combinational block and counts
   evaluations.
5. Without a run: the APB master leaves ACCESS without waiting for PREADY, which
   its testbench and the document ask for. `ApbTransfer` shows that with the
   memory of this repository PREADY is always there.

6. Without a run, `tb_crc.sv` expects E7 for AA after a reset (line 190) and FE for FF
   (line 145), with polynomial 07, and 7C for AA with 1D (line 212). Code and
   definition (`CrcVerdict`) give 5F, F3 and 73; line 86 of the same testbench
   expects 5F too, and no polynomial of eight bits gives E7 for AA. So the
   testbench is wrong there, and `CrcVerdict` contradicts three of its lines: it
   shows that the code computes the remainder, `CheckValues` which remainders
   these are. All its
   other check values (5F, 1F, DA, 35, E3, D9) agree with the code.
7. Without a run, the master of `tb_spi_frontend.sv` moves `sck` once per period of
   `clk`, changes `mosi` at the next move and expects the bit at the sampling edge (line
   98); the code samples `i_mosi` a cycle after `sck_r` and gets the next one. Run
   `spi_frontend` with `MinHalf = 1` and TLC shows it in five states.
8. Without a run, in the SPI path: `deserializer` restarts a later LSB-first word
   of 16 bits at bit 7, so its bit 0 is lost; `counter` counts the word in the
   cycle of `done`, where its testbench expects a reload of UPTO; `crc` holds
   without `en`, where its testbench expects 0; `spi_top` connects a port that
   does not exist, enables its data path while the slave is *not* selected and
   clears `crc` at every byte; `spi_busy` is never cleared; with CPHA = 0 nothing is
   on `o_miso` for the master's first sample; and `clk` must be at least four
   times as fast as `sck`, although the documents give 1 MHz for both. `o_data` of
   `spi_frontend` is declared a net and assigned in a clocked block, which the
   language does not allow; the model reads it as `output reg`, like its
   neighbours.
9. Without a run, testbenches that contradict the code beyond that: `tb_deserializer`
   expects `done` after `WIDTH` bits from an instance with `OP_LEN = 3` (line 163);
   `tb_ffd_sync` drives the active-low reset as active high (line 21), so its
   synchronizer never leaves reset; `addresser_tb` names states that `addresser.sv`
   no longer has (line 54); `apbmaster_tb` expects the outputs of a state one cycle later
   (lines 89 and 95).

One-sided resets of the handshake are outside the documented reset strategy;
for the record, they can also deliver a word that was never sent and withdraw
`o_rcv_valid`, which is why only `ResetSkew` and `BothRecover` are claimed.

## 7. Not modelled, and the plan

- `spi_top.sv`: it does not elaborate (it connects a port its counter does not
  have), its select has the wrong polarity for its own parts and `i_busy` is tied to
  0, so there is no behaviour to be faithful to. `spi_frontend` also exports no
  strobe, so the deserializers as wired there would shift at every clock edge. Its
  parts are modelled one by one, the counter with the wiring it has there.
- `top.sv`, `wrap_spi.sv`, `wrap_apb.sv`: wrappers that only assign `o_data`; the
  handshakes between them have undriven valid and ready. The composition the
  design intends, a handshake in front of `hf_top`, is covered by contract:
  `ReceiverIsWordSource` on one side, `NewInputs` on the other. What drives
  `i_hds_ack` is not in the sources.
- The C files of the repository
  (`src/Module_ADC_SAR_PDK_SAED/blocks/SAR_ADC/csrc`: `rmapats.h`,
  `_vcs_pli_stub_.c`, `rmapats.c`, `rmar*.{c,h}`, `filelist.cu`) are what the VCS
  simulator generated when the testbench of the SAR ADC was compiled: its
  internal declarations, dlsym stubs and event routines. They hold no logic of the
  project; the design they simulate is `sar_adc.sv`, modelled by `SarAdc`. No
  definition here stands for a line of them.
- Testbenches (all were read for what they expect; `hf_top_tb.sv` is none, it
  holds a copy of `apbmaster`), scripts and constraints, and the vendored ALU flow and cell
  libraries under `flatrun`.
- Within the modelled parts: `o_error` of `hf_top` (constant 0 outside reset), the
  BYPASS branch of `spill_register` (wires), `o_order` and `o_ss` (wires), and
  metastability beyond the first flip-flop.

Of the plan, all modules that have behaviour of their own are modelled. Left:

1. when `spi_top` is repaired, its composition: `SpiFrontend`'s bits as the wire of
   `SerialPath`, with the strobe as enable, and `CrcCheck` on whole frames;
2. when `top` connects the return handshake, `hf_top` with both handshakes, which
   would discharge the freedom of `i_hds_ack`;
3. measures of progress for `hf_top` (a frame of a paced host ends) and for the
   handshake under resets of one side (`BothRecover`), as for the handshake without.

## 8. Running

    tlc -config MCHds4Phase_joint.cfg MCHds4Phase
    tlapm Hds4PhaseProofs.tla

and so on for the rows of section 3 and the modules of section 5.
