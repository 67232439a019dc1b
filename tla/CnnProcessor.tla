---------------------------- MODULE CnnProcessor ----------------------------
(***************************************************************************)
(* cnn_processor.vhd: the state machine composed with the L2 caches        *)
(* (ram_generic.vhd), the line buffers (cnn_fifo.vhd) and the arithmetic   *)
(* unit's registers (cnn_au.vhd).                                          *)
(*                                                                         *)
(* Pixel values are abstracted to what they are: <<run, a, v>> is the      *)
(* value that the reference iteration of run number run gives pixel a      *)
(* after v steps (v = 0: the loaded image).  The AU's result for a patch   *)
(* is the next reference value of its centre exactly when the patch holds  *)
(* the reference values, all of the same step, of the centre's 3x3         *)
(* neighbourhood, with boundary values outside the image; any other patch  *)
(* gives Junk, a value nothing is known of.  What the arithmetic computes  *)
(* from a patch is thus left out and where its operands come from is not.  *)
(***************************************************************************)
EXTENDS CnnStateMachine, Sequences, FiniteSets

CONSTANTS
  PtrMod,    \* pointer modulus of the line buffers
  MaxRuns,   \* bound: runs started by the firmware
  CutRuns,   \* bound: width, height and iter_cnt of the runs about a cut
  MaxCuts    \* bound: runs cut short by a board reset

ASSUME ProcessorAssumption == PtrMod \in Nat /\ PtrMod > cacheWidthMAX

VARIABLES
  run,                                        \* number of images loaded so far
  xram, x_data_in, x_data_out,                \* L2CACHE_X
  u_data_out, ideal_data_out,                 \* output registers of the other two
  fifo_data_in, cols, ideal,                  \* machine registers: patch columns 0, 1
  read_address, write_address, FIFO, q,       \* line buffers; q is patch column 2
  lat, lat_ideal, x_out,                      \* AU: latched patch, latched ideal, result
  err,                                        \* AU: the terms summed since err_rst
  since, cuts                                 \* history: "cut" until an image is loaded after
                                              \* a cut, "dirty" until that run has ended

data == <<run, xram, x_data_in, x_data_out, u_data_out, ideal_data_out,
          fifo_data_in, cols, ideal, read_address, write_address, FIFO, q,
          lat, lat_ideal, x_out, err>>
history == <<since, cuts>>
allVars == <<vars, data, history>>

NoPixel == -1
JunkX == <<0, NoPixel, 0>>

\* The word of the u and x line buffers for pixel a at step v, for a boundary cell, and unknown.
Pixel(a, v) == <<<<run, a>>, <<run, a, v>>>>
Bnd == Pixel(NoPixel, 0)
Junk == <<<<0, NoPixel>>, JunkX>>
JunkColumn == [i \in 0..patchWH-1 |-> Junk]

\* The three line pairs share clock enable and width: one ring of columns.
Bank == INSTANCE CnnFifo WITH
          Widths <- {d[1] : d \in Dims}, Data <- {JunkColumn}, Zero <- JunkColumn

DataInit ==
  /\ run = 0
  /\ xram = [a \in 0..AddrSpace-1 |-> JunkX]
  /\ x_data_in = JunkX /\ x_data_out = JunkX
  /\ u_data_out = <<0, NoPixel>> /\ ideal_data_out = NoPixel /\ ideal = NoPixel
  /\ fifo_data_in = JunkColumn /\ cols = <<JunkColumn, JunkColumn>>
  /\ read_address = 0 /\ write_address = cacheWidthMAX
  /\ FIFO = [k \in 0..cacheWidthMAX |-> JunkColumn] /\ q = JunkColumn
  /\ lat = <<JunkColumn, JunkColumn, JunkColumn>>
  /\ lat_ideal = NoPixel /\ x_out = JunkX /\ err = <<>>
  /\ since = "run" /\ cuts = 0
-----------------------------------------------------------------------------
\* The pixel at row r, column c, if the image has one.
PixelAt(r, c, v) ==
  IF r \in 0..cacheHeight-1 /\ c \in 0..cacheWidth-1
  THEN Pixel(r * cacheWidth + c, v) ELSE Bnd

\* The AU's x_out for a latched patch p of three columns.
Eval(p) ==
  LET centre == p[2][1][2]
      a == centre[2]
      v == centre[3]
  IN IF a # NoPixel /\ \A i \in 0..patchWH-1, j \in 1..patchWH :
          p[j][i] = PixelAt((a \div cacheWidth) + i - 1, (a % cacheWidth) + j - 2, v)
     THEN <<run, a, v + 1>> ELSE JunkX

\* Port A of the L2 caches: write, then read the word just written.
CacheClock ==
  /\ xram' = IF x_we THEN [xram EXCEPT ![x_address] = x_data_in] ELSE xram
  /\ x_data_out' = IF x_we THEN x_data_in ELSE xram[x_address]
  /\ u_data_out' = <<run, u_address>>
  /\ ideal_data_out' = ideal_address

PatchClockSameLine ==                                         \* mutant
  IF PushPixel
  THEN /\ fifo_data_in' = [i \in 0..patchWH-1 |->
                             IF i < patchWH-1 THEN q[i]
                             ELSE IF InImage THEN <<u_data_out, x_data_out>> ELSE Bnd]
       /\ cols' = <<cols[2], q>>
       /\ ideal' = ideal_data_out
  ELSE UNCHANGED <<fifo_data_in, cols, ideal>>

\* The data registers of the state machine, at the rising edge.
PatchClock ==
  IF PushPixel
  THEN /\ fifo_data_in' = [i \in 0..patchWH-1 |->
                             IF i < patchWH-1 THEN q[i+1]
                             ELSE IF InImage THEN <<u_data_out, x_data_out>> ELSE Bnd]
       /\ cols' = <<cols[2], q>>
       /\ ideal' = ideal_data_out
  ELSE UNCHANGED <<fifo_data_in, cols, ideal>>

StoreClock ==
  x_data_in' = IF FinishPosition /\ cache_wr_lag = 1 /\ jj # 1 THEN x_out ELSE x_data_in

\* Falling edge: the line buffers see the clock enable and data just set.
LineClock ==
  IF fifo_clk_en' THEN Bank!Shift(cacheWidth, fifo_data_in') ELSE Bank!Hold(cacheWidth)

AuLatchIdealEarly ==                                          \* mutant
  IF alu_calc' /\ ~alu_calc
  THEN /\ lat' = <<cols[1], cols[2], q>> /\ lat_ideal' = ideal
       /\ x_out' = Eval(lat)
       /\ err' = IF alu_err_rst THEN <<>> ELSE Append(err, <<ideal, lat[2][1][2]>>)
  ELSE UNCHANGED <<lat, lat_ideal, x_out, err>>

AuLatchNoReset ==                                             \* mutant
  IF alu_calc' /\ ~alu_calc
  THEN /\ lat' = <<cols[1], cols[2], q>> /\ lat_ideal' = ideal
       /\ x_out' = Eval(lat)
       /\ err' = Append(err, <<lat_ideal, lat[2][1][2]>>)
  ELSE UNCHANGED <<lat, lat_ideal, x_out, err>>

(***************************************************************************)
(* Rising edge of alu_calc: x_out and the error sums take the results for  *)
(* the patch latched before, and the AU latches the present patch.  A term *)
(* of the error sums pairs an ideal pixel with the state at the centre.    *)
(***************************************************************************)
AuLatch ==
  IF alu_calc' /\ ~alu_calc
  THEN /\ lat' = <<cols[1], cols[2], q>> /\ lat_ideal' = ideal
       /\ x_out' = Eval(lat)
       /\ err' = IF alu_err_rst THEN <<>> ELSE Append(err, <<lat_ideal, lat[2][1][2]>>)
  ELSE UNCHANGED <<lat, lat_ideal, x_out, err>>

ProcessorClock ==
  /\ Clock /\ UNCHANGED inputs
  /\ CacheClock /\ PatchClock /\ StoreClock /\ LineClock /\ AuLatch
  /\ UNCHANGED <<run, history>>
-----------------------------------------------------------------------------
(***************************************************************************)
(* cnn_driver up to raising rst: commands and image loaded while the       *)
(* machine is idle.                                                        *)
(***************************************************************************)
Load ==
  /\ run < MaxRuns + cuts
  /\ run = 0 \/ since = "cut" \/ (ready /\ ~rst)
  /\ Configure /\ rst' = TRUE
  /\ cuts > 0 => <<cacheWidth', cacheHeight', iter_cnt'>> \in CutRuns
  /\ run' = run + 1
  /\ since' = IF since = "cut" THEN "dirty" ELSE "run"
  /\ xram' = [a \in 0..AddrSpace-1 |->
                IF a < cacheWidth' * cacheHeight' THEN <<run', a, 0>> ELSE xram[a]]
  /\ UNCHANGED <<machineVars, x_data_in, x_data_out, u_data_out, ideal_data_out,
                 fifo_data_in, cols, ideal, read_address, write_address, FIFO, q,
                 lat, lat_ideal, x_out, err, cuts>>

Go == run > 0 /\ since # "cut" /\ LowerRst /\ UNCHANGED <<machineVars, data, history>>

\* A board reset during a run: init_system raises rst wherever the machine is.
Cut ==
  /\ cuts < MaxCuts /\ ~rst /\ ~ready /\ <<cacheWidth, cacheHeight, iter_cnt>> \in CutRuns
  /\ rst' = TRUE /\ UNCHANGED <<cacheWidth, cacheHeight, iter_cnt>>
  /\ since' = "cut" /\ cuts' = cuts + 1
  /\ UNCHANGED <<machineVars, data>>

ProcessorInit == Init /\ DataInit

ProcessorNext == ProcessorClock \/ Load \/ Go \/ Cut

ProcessorSpec == ProcessorInit /\ [][ProcessorNext]_allVars
-----------------------------------------------------------------------------
\* A run has ended that was started after another had ended, or as the first.
Done == ready /\ ~rst /\ since = "run"

Pixels == 0..(cacheWidth * cacheHeight - 1)

Distance(a, b) ==
  LET dr == (a \div cacheWidth) - (b \div cacheWidth)
      dc == (a % cacheWidth) - (b % cacheWidth)
      Abs(n) == IF n < 0 THEN -n ELSE n
  IN IF Abs(dr) > Abs(dc) THEN Abs(dr) ELSE Abs(dc)

\* The pixel stored at the raster's origin, before the first pass has calculated anything.
StalePixel == (cacheHeight - 3) * cacheWidth + cacheWidth - 1

(***************************************************************************)
(* ResultExact: when ready is raised after a run, every pixel farther from *)
(* the stale pixel than the number of passes holds its value of exactly    *)
(* iter_cnt+1 synchronous steps of its 3x3 neighbourhood: no pixel was     *)
(* overwritten before its neighbours had read it, none was skipped or      *)
(* stored twice, and nothing of an earlier run's line buffers, patch       *)
(* registers or image size is left in it.  A run cut short by a board      *)
(* reset, wherever it was cut, spoils the next run at most (which starts   *)
(* with its pass count, calc and shift enable), not the one after it.      *)
(* It needs widths that the line buffers' read pointer fits.               *)
(***************************************************************************)
ResultExact ==
  Done => \A a \in Pixels : Distance(a, StalePixel) > iter_cnt + 1
                              => xram[a] = <<run, a, iter_cnt + 1>>

(***************************************************************************)
(* ErrorOncePerPixel: after a run of two or more passes the error sums     *)
(* hold the state of each pixel exactly once, at the last step but one,    *)
(* and no state of an earlier pass or run (for pixels the stale store      *)
(* cannot have reached).                                                   *)
(***************************************************************************)
ErrorOncePerPixel ==
  Done /\ iter_cnt > 0 =>
    /\ \A a \in Pixels : Distance(a, StalePixel) > iter_cnt =>
         Cardinality({k \in 1..Len(err) : err[k][2][2] = a}) = 1
    /\ \A k \in 1..Len(err) : err[k][2][2] # NoPixel =>
         err[k][2] = <<run, err[k][2][2], iter_cnt>>

(***************************************************************************)
(* ErrorPairing: the terms of the error sums of a run of two or more       *)
(* passes pair the state of a pixel with the ideal value one address       *)
(* before it (pixel 0 with the last address of the cache), and one cell of *)
(* the boundary is counted for each row and one more.                      *)
(***************************************************************************)
ErrorPairing ==
  Done /\ iter_cnt > 0 =>
    /\ \A k \in 1..Len(err) : err[k][2][2] # NoPixel =>
         err[k][1] = (err[k][2][2] - 1) % AddrSpace
    /\ Cardinality({k \in 1..Len(err) : err[k][2] = <<run, NoPixel, 0>>}) = cacheHeight + 1
=============================================================================
