# CellNetPU: specification, model checking and proofs

CellNetPU is a cellular neural network processor on a Spartan-6: a hardware
processor in VHDL (`src/src/ISE/source`), the MicroBlaze firmware that drives it
(`src/src/SDK/mpu_sw`) and the Matlab functions that talk to the firmware over a
UART (`src/src/Matlab`). This directory holds TLA+ modules of these parts,
configurations that check them with TLC, and theorems checked by TLAPS.
`PROJECT.json` is the machine-readable index: components, runs, mutants, the map
from definitions to source lines, findings, hazards and theorems.

## 1. The system

| part | state | operations | module |
|---|---|---|---|
| line buffer, `cnn_fifo.vhd` | two pointers (never reset), memory, output register | falling edge with `ce` high (shift) or low (hold); width input | `CnnFifo`, promise in `CnnDelayLine` |
| state machine, `cnn_state_machine.vhd` | state, raster position, phase, addresses, enables; the ready timer of `cnn_au.vhd` | one action per branch of the clocked process, one for `rst` | `CnnStateMachine` |
| arithmetic unit, `cnn_au.vhd` | latched operands, result, error sums | rising edge of `calc`; configuration | `CnnAu` |
| processor, `cnn_processor.vhd`, caches `ram_generic.vhd` | image cache, patch registers, line buffers, latched patch, terms of the error sums | one clock; load, start, a run cut short | `CnnProcessor` |
| command registers and interface, `cnn_commands.vhd`, `cnn_interface.vhd` | size, count, `rst`; GPO1, GPI1 | decoded at every clock; the reset button | `CnnSystem` |
| firmware control, `main.c`, `cnn_driver`, `cnn_algorithm.c`, `sys_init.c` | the I/O operations still to do, header fields | command write, access, poll, header, algorithm, error request | `CnnSystem` |
| learning arithmetic, `error_get`, `template_*` | errors, templates, loop counter | one action per step of `algorithm3` to `algorithm5` | `CnnLearning` |
| random numbers, `cnn_rand.vhd`, `rand_num_*` | shift register, sample, command, GPI1 | clock; the three accesses of a draw | `CnnRand` |
| host protocol, `func_fpga/*.m` and the command loop of `main.c` | script position, line in each direction, receive register, planes, templates | one action per step of script and firmware, line, faults | `CnnHost` |

How they interact. The Matlab script sends unframed bytes; the firmware's command
loop collects them, allocates image planes, runs algorithms and sends answers. An
algorithm calls `cnn_driver`, which writes command registers (GPO1), loads the
dual-ported caches, pulses `rst`, polls the ready flag (GPI1) and reads the result
back. The processor runs concurrently with the firmware on the same clock. It walks
the image as a raster, overwriting it in place while the line buffers keep the old
rows, and starts one AU calculation per position.

What is hard here: no handshake but one polled flag that is registered several
times; caches without arbitration; state that survives from run to run (buffer
pointers, pass counter, `alu_calc`) and is not cleared by `rst`; a reset button that
restarts only the firmware; incremental address arithmetic that wraps; fixed-point
truncation and saturation; a byte protocol without framing, checksum or flow
control, with time-outs that a loop mistakes for answers. Section `hazards` of
`PROJECT.json` lists each at its line with the properties that watch it.

## 2. Modules and their correspondence to the code

`CnnFifo`: a word stands for the six words of the six buffers at one ring position
(they share clock enable and width). `Push` and `Idle` are the two branches of the
process, `Resize` the width written by `cnn_commands` while the processor is idle.
`Next` allows the width changes under which the buffer works (the read pointer fits
the new ring), `AnyNext` all of them.

`CnnDelayLine`: the abstract specification, a line of exactly `cacheWidth` words.
`CnnFifo!DelayLine` maps ring slots to line positions by age.

`CnnStateMachine`: one step is one rising clock edge. `AssignReadAddress`,
`AssignWriteAddress`, `PushPixel`, `StartCalc`, `FinishPosition` are the phases of a
position in order; `PassEnd` the end of a pass; `Reset` keeps what the code's `rst`
branch keeps. `Configure`, `RaiseRst`, `LowerRst` are the environment in normal use.

`CnnProcessor`: extends the machine by the data path. A pixel value is abstracted to
its provenance `<<run, address, step>>`; the AU's result is the next step of the
centre exactly when the patch is the right neighbourhood, and junk otherwise. The
line buffers are `CnnFifo`'s own operators (`INSTANCE`).

`CnnAu`: the fixed-point path in integers of the last bit, with the widths as
constants. The eight cells around the centre are treated alike and are one cell.

`CnnSystem`: extends the machine by the firmware, whose program is the sequence
`prog` of I/O operations still to be done, any number of clocks apart but at least
`IoCycles`. `CnnDriver`, `HeaderRead`, `InitSystem` and the five algorithms are such
sequences, translated call by call.

`CnnLearning`: one coefficient for each kind that is treated alike; `s16`, `s32`
narrow as the C types do; the division is C's.

`CnnRand`: the register bit by bit.

`CnnHost`: bytes with `Base` values; a command takes effect when its last byte is
there. The UART hardware and the line are not in the repository and are modelled
from their use (marked external in the map).

`DivisionLemmas`: facts about `\div` and `%` shared by the proofs. `*_proofs`: the
theorems of a module (`CnnBlocks_proofs` holds those of the two small blocks, `CnnFifo`
and `CnnRand`). `MC*`: the instances for TLC; `MCCnnProcessor`, `MCCnnSystem` and `MCCnnHost`
extend the proof modules, so that TLC evaluates the assumptions next to the
invariants the proofs use. Definitions marked `\* mutant`
are faulty variants of the definition after them; each property is shown to fail
under one of them.

## 3. Runs

| run | checks | what it shows |
|---|---|---|
| `fifo` | `TypeOK`, `RingPhase`, `DelayLine` | pointers stay in phase and the ring is a delay line of `cacheWidth` words over pushes, idle edges and permitted width changes |
| `fifo_shrink` (violation) | `PointersInRange` | a width reduced below the read pointer lets the pointers leave their declared range |
| `machine` | `TypeOK`, `StoresInImage`, `NeverStalls`, `Terminates` | over consecutive runs of different sizes every store is a pixel of the image, the AU is never waited for, every run ends |
| `processor` | `ResultExact`, `ErrorOncePerPixel`, `ErrorPairing` | after each run a pixel out of reach of the stale store has had exactly `iter_cnt+1` synchronous steps; error terms are counted once, paired with the ideal pixel one address before; a cut run spoils at most the next one |
| `system` | `CacheOwnership`, `ResultFresh`, `PassCount`, `MachineContract`, `ConfigStable`, `ReturnsUnlessWedged` | firmware and processor concurrently, with the reset button at any clock |
| `system_reset_hang` (violation) | `MainLoopReturns` | a reset in the clock in which `alu_calc` is high leaves it high and the next run never ends |
| `learning` | `TypeOK`, `LearnedExact`, `SecondLayerCopies`, `OuterRowsZero` | each run's error is used once; a 1d template is zero outside its middle row; `algorithm4` learns one template twice |
| `learning_rate` (violation) | `LearnedAtAnyRate` | the 32-bit product of `error_get` overflows at large rate and image |
| `au` | `TypeOK`, `NoOvershoot`, `StepAccurate`, `StopsAtTarget`, `ErrorSumsExact` | accuracy and direction of a step through two truncations and three saturations; error sums meet no limit |
| `rand` | `FullPeriod`, `DrawSettled`, `DrawIsPixel` | full period from power-up; a draw is settled and is a pixel value |
| `host` | `TypeOK`, `HeaderDelivered`, `ImagesDelivered`, `ResultDelivered`, `BuffersSuffice`, `HostReturns` | a fault-free session delivers everything; with up to two faults the script still ends, and a reset restores the next session |
| `host_timestep` (violation) | `TimeStepDelivered` | Matlab rounds the int16 quotient before `floor` sees it |

Bounds, and why they are enough.
- `fifo`: a ring of five positions and every width 1 to 4: every order of wrap and
  width change occurs; two word values distinguish any two slots.
- `machine`: widths 1 to 3, heights 3 and 4. Three rows is the smallest raster the
  code supports; four has a row that is neither first, last nor adjacent to the wrap;
  `iter_cnt` 0 to 2 has a pass that is neither first nor last.
- `processor`: up to 5x3 and 4x4 pixels so that some pixels lie out of reach of the stale
  store; two runs, and one cut at any clock followed by two runs (`CutRuns`).
- `system`: images of 1x3 and 2x3; the host's counts 0 (which wraps), 1 and 2; two
  learning loops; `IoCycles = 2`, the tightest case; two resets.
- `learning`: words of 4 and 8 bits keep the relation of the real widths; two areas,
  one of which overflows; no loop and two.
- `au`: words of five bits; templates that stay inside, reach and leave the word.
- `rand`: the real register (16 bits, 1023 values), draws at seven phases.
- `host`: bytes of three bits, images of two and three pixels, `MaxFaults = 2`: a
  fault and a session on the board it left behind, or two faults in one session.

Fairness. The clock never stops (`WF` of the clock in `FairSpec` and of `Tick` in
`SystemFairSpec`). The MicroBlaze has no interrupts and waits for nothing but the
ready flag, so its next I/O operation is eventually done (`WF` of `Io`). In
`CnnHost`, bytes on the line arrive, the firmware keeps executing and the script
continues when `fread` or `fwrite` returns; nothing obliges the user to start a
session, so `Host` is fair only while `hpc # "idle"`.

Deadlock is checked in every run.

## 4. Findings

The four violation runs are disagreements between the code and what the repository
says of it; `PROJECT.json` quotes the lines. In short: line buffer pointers that are
never reset and leave their range when the width shrinks; `alu_calc` surviving a
reset and hanging the next run; the 32-bit product in `error_get`; the rounded high
byte of the time step and learning rate in `fpga_send_header.m`.

The first of them reaches the result. `ResultExact` is false of a sequence of runs whose
widths the read pointer does not fit: three runs of 3x3 pixels leave the pointer at 3,
and a run on one column after them gives wrong pixels (TLC on `CnnProcessor` with
`Dims = {<<3,3>>, <<1,3>>, <<1,5>>}`, `iter_cnt` 0, `MaxRuns = 4`). Within two runs, the
bound of `processor`, and with three runs of these sizes, the buffer still recovers:
its write pointer happens to meet the new width in the first pass. The theorems on
`CnnProcessor` therefore carry the condition (section 5).

## 5. Proofs

TLAPS checks the theorems below for every value of the constants that the named
assumptions allow. `PROJECT.json` lists them; the lemmas stand beside them.

Assumptions on the constants.
- `FifoAssumption`: at least one word, pointers wide enough for the ring, widths
  within the maximum.
- `MachineAssumption`: images of at least one column and three rows that fit the
  address space; `iter_cnt` within its register. Fewer than three rows is the case
  the code does not support (a run on such an image never ends; listed hazard).
- `ProcessorAssumption`: the buffer pointers can count to `cacheWidthMAX`, as declared.
- `AuAssumption`: templates fit the bus word, `Ts` and pixels lie in the code's
  ranges, and the error register holds `MaxTerms` terms.
- `LearningAssumption`: the error sums fit their register, which is wider than the bus.
- `SystemAssumption`: an I/O access takes at least two clocks (`IoCycles >= 2`), which
  is what registering GPO1 in the command decoder costs. With one clock the second
  of two writes would overwrite the first unseen.
- `RandAssumption`: the same two clocks per access.
- `HostAssumption`: an even number of at least six byte values (256 on the board);
  images that fit a plane; non-negative `Ts` and `learn_rate`; error and template
  answers no longer than an image, since the script reads them into the serial
  port's buffer sized for an image.

The invariants and why they are needed.

`CnnBlocks_proofs`, line buffer. `TypeOK` and `RingPhase` (the write pointer follows the read pointer
in the ring) are inductive together. `FifoImplementsDelayLine` maps the ring slot
written `k` pushes ago to position `k` of the line: a push moves every slot one
position on because the pointers keep their distance, an idle edge and a permitted
resize map to the abstract steps of the same name or stutter.

`CnnBlocks_proofs`, random numbers. `RandInv == TypesInv /\ WordsInv /\ Settling /\ DrawIsPixel`. `WordsInv` is the shape
of every word the register holds (upper bits are copies of one bit, the bit below
its complement), which is what makes a draw a pixel value; `Settling` counts the
clocks from a command to GPI1.

`CnnStateMachine_proofs`. `IInv == TypeOK /\ StoresInImage /\ PhaseInv /\ TimerInv`. The
store address is built by wrapping additions and subtractions, so `StoresInImage`
carries the exact value of the row base for each raster position; `PhaseInv` says
which lag counters go with which state, `TimerInv` ties the AU's ready timer to the
three clocks of a position. `NeverStalls` follows from `TimerInv`.

`CnnProcessor_proofs`. The theorems have the form `ProcessorSpec /\ [][Fits]_allVars => []P`,
where `Fits` says that the step cuts no run short and that the read pointer fits the
commanded width, the condition of `CnnFifo!Next`; without it `ResultExact` is false (section
4). Image sizes, iteration counts and the number of runs are arbitrary.
- `PInv`. The raster passes the `(h+1)(w+1)` positions of the image, boundary included,
  lap after lap. Each position of each lap has a number, its code, that grows by one
  with each push; `Good(im, x, z)` says that `x` is the word with code `z`: the right pixel at
  the step of its lap, or the boundary, or unknown where the stale store may have
  reached (`StateOk`). Patch registers, line buffers and latched patch are described by
  the codes of their words alone: the slot written `k` pushes ago by the code `k` before
  the last (`LinesGood`), a column by codes a row apart. So a push adds one to every code
  and nothing else, and the nine cells of a patch are the neighbourhood of its centre.
- The image is overwritten in place. `CacheGood` says that a pixel has its step-`l` value
  from its store of lap `l-1` (`StoreCode`) up to that of lap `l`, two rows and one position
  behind the reading of it; the addresses are those `StoresInImage` proves. Between the
  end of one run and the first store of the next, the latched patch belongs to an
  earlier run: the tags (`TagInv`, `StartInv`) show that this one store yields the stale
  pixel and no other. The machine's `IInv` is a conjunct and is reused.
- `EInv`, relative to `PInv`: the ideal pixel at the AU is that of the address before the
  centre's, the sums are empty up to the last pass, and in it they hold one term for each
  position passed, in raster order, `h(w+1)+1` at the end. `ErrorOncePerPixel` and
  `ErrorPairing` are then counting: a pixel occurs at one position of the raster, the
  boundary at `h+1` of them.

`CnnAu_proofs`. `IInv == TypeOK /\ ErrorSumsExact /\ SumsBounded`: the limits of the error
registers are never reached because `terms` bounds each sum. `NoOvershoot`,
`StopsAtTarget` and `StepAccurate` are then facts about one step, from the
monotonicity of truncation and saturation and the bounds in `DivisionLemmas`.

`CnnLearning_proofs`. `IInv == TypeOK /\ ControlInv /\ LearnInv /\ EdgeInv`. `LearnedExact` holds
only between loops; `LearnInv` says what the template lacks in the middle of one
(the correction for the present sums). `SecondLayerCopies` needs `CopyInv`: between the
two updates of `algorithm4` the first template is exactly one update ahead.

`CnnSystem_proofs`. `SysInv == ProgInv /\ DriverInv /\ (resets = 0 => IInv /\ CountInv)`.
`ProgInv` says the remaining program is well ordered (each run's `rst`, poll and read
back follow each other, nothing polls without a run under way); `DriverInv` relates
the next operation, the command on GPO1, the registers it has or has not reached yet
and the machine. `CacheOwnership`, `ResultFresh` and `ConfigStable` hold whatever the
reset button does. `PassCount` and `MachineContract` speak of systems not reset so far:
there the firmware is an environment `CnnStateMachine` was proved for, so its `IInv`
is part of the invariant and is reused, not repeated.

`CnnHost_proofs`. `TypesInv /\ SessionInv`. The delivery properties look only at the end of a
session, so `SessionInv` describes a fault-free session phase by phase: header sent,
taken and acknowledged; after `d` images; calculating; calculated; asked and
answered; ended. Each phase says which bytes are under way in either direction,
what the firmware has collected of the current command, and what the planes and
the header hold already. Two supporting facts carry the proof: `InBound` (the firmware
never holds more bytes of a command than its first bytes ask for), without which a
stale byte could shift every later command; and `BuffersSuffice`, without which a byte
of an answer could be dropped in the script's buffer. From them a fault-free session
has no time-out step and no lost byte, and the three delivery theorems are the last
phase read off.

Each of these invariants was checked by TLC on the instance of the run before it was
proved (`PInv` and `EInv` on a small instance without cuts, with laps bounded).

## 6. Only model-checked, and why

- `Terminates`, `ReturnsUnlessWedged`, `HostReturns`: liveness under fairness.
- `CnnProcessor` after a run cut short: that `ResultExact`, `ErrorOncePerPixel` and `ErrorPairing`
  hold again from the second run after a cut. The theorems cover the runs before any
  cut; the run after one starts with its pass count, `calc` and shift enable, states that
  `PInv` does not describe.
- `FullPeriod`: the orbit of one register value, a computation of 1023 steps.

## 7. Not modelled, and the plan

- The firmware heap: the allocator is the C library's. `header_read` frees only the
  outermost array of the planes; the resulting leak is a listed hazard without a
  property.
- The Matlab reference and tools: floating-point programs without state, used as the
  statement of what the hardware computes.
- Board support package, lwIP, MicroBlaze platform, clocking, vendor cores: vendored
  or generated, no logic of this project.

Plan: extend `PInv` to the run after one cut short, whose contents are unknown but whose
control state has to reach that of a normal start, and carry `ResultExact` past it.
