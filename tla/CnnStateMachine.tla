-------------------------- MODULE CnnStateMachine --------------------------
(***************************************************************************)
(* cnn_state_machine.vhd: the control of the CNN processor, together with  *)
(* the ready timer of cnn_au.vhd it handshakes with.  One step of the      *)
(* specification is one rising edge of sys_clk.                            *)
(*                                                                         *)
(* The machine walks a raster (ii,jj) of (cacheHeight+1) x (cacheWidth+1)  *)
(* positions.  At each position it reads the pixel (ii-1,jj-1) of the old  *)
(* image into the line buffers and stores the pixel (ii-3,jj-2) of the new *)
(* image, so reading and writing share one memory two rows apart.  The     *)
(* first pass only fills the line buffers (init_state = 1); iter_cnt+1     *)
(* passes follow, each from (patchWH,1) round to (patchWH,0).              *)
(***************************************************************************)
EXTENDS Integers

CONSTANTS
  cacheWidthMAX, cacheHeightMAX,  \* largest image
  AddrSpace,                      \* 2^cacheAddressWidth words in each L2 cache
  iterMAX,                        \* largest iteration count
  Dims,                           \* image sizes <<width, height>> in use
  Iters                           \* iteration counts (minus one) in use

ASSUME MachineAssumption ==
  /\ cacheWidthMAX \in Nat \ {0} /\ cacheHeightMAX \in Nat /\ cacheHeightMAX >= 3
  /\ AddrSpace \in Nat /\ AddrSpace >= cacheWidthMAX * cacheHeightMAX
  /\ iterMAX \in Nat /\ iterMAX >= 3
  /\ Dims \subseteq (1..cacheWidthMAX) \X (3..cacheHeightMAX)
  /\ Iters \subseteq 0..iterMAX

patchWH == 3
cacheLagMAX == 2
cacheWrLagMAX == 2
ALULagMAX == 4

VARIABLES
  rst, cacheWidth, cacheHeight, iter_cnt,       \* inputs, from cnn_commands
  state, init_state, iter,                      \* progress of the run
  ii, ii_1d, jj, cache_lag, cache_wr_lag,       \* position and phase within it
  cacheAddressShift, address,                   \* address arithmetic
  x_we, u_address, x_address, ideal_address,    \* L2 cache ports
  fifo_clk_en, alu_calc, alu_err_rst,           \* line buffer and AU controls
  alu_state, x_out_ready                        \* the AU's ready timer

inputs == <<rst, cacheWidth, cacheHeight, iter_cnt>>
progress == <<state, init_state, iter>>
position == <<ii, ii_1d, jj>>
addresses == <<address, u_address, x_address, ideal_address>>
au == <<alu_state, x_out_ready>>
vars == <<rst, cacheWidth, cacheHeight, iter_cnt, state, init_state, iter, ii,
          ii_1d, jj, cache_lag, cache_wr_lag, cacheAddressShift, address, x_we,
          u_address, x_address, ideal_address, fifo_clk_en, alu_calc,
          alu_err_rst, alu_state, x_out_ready>>

States == {"X_OLD_U_INIT", "X_OLD_U_READ", "X_NEW_WRITE", "SUCCESS"}

ready == state = "SUCCESS"

InputTypes ==
  /\ rst \in BOOLEAN
  /\ cacheWidth \in 1..cacheWidthMAX /\ cacheHeight \in 3..cacheHeightMAX
  /\ iter_cnt \in 0..iterMAX

RasterTypes ==
  /\ state \in States /\ init_state \in 0..1 /\ iter \in 0..iterMAX
  /\ ii \in 0..cacheHeightMAX /\ jj \in 0..cacheWidthMAX
  /\ ii_1d \in 0..cacheHeightMAX*cacheWidthMAX
  /\ cache_lag \in 0..cacheLagMAX /\ cache_wr_lag \in 0..cacheWrLagMAX

AddressTypes ==
  /\ cacheAddressShift \in Nat /\ address \in Int
  /\ u_address \in 0..AddrSpace-1 /\ x_address \in 0..AddrSpace-1
  /\ ideal_address \in 0..AddrSpace-1

ControlTypes ==
  /\ x_we \in BOOLEAN /\ fifo_clk_en \in BOOLEAN
  /\ alu_calc \in BOOLEAN /\ alu_err_rst \in BOOLEAN

TimerTypes == alu_state \in 0..ALULagMAX /\ x_out_ready \in BOOLEAN

TypeOK == InputTypes /\ RasterTypes /\ AddressTypes /\ ControlTypes /\ TimerTypes

\* Power-up: the defaults of the VHDL signals and variables, in reset.
MachineInit ==
  /\ state = "X_OLD_U_INIT" /\ init_state = 0 /\ iter = 0
  /\ ii = 0 /\ ii_1d = 0 /\ jj = 0 /\ cache_lag = 0 /\ cache_wr_lag = 0
  /\ cacheAddressShift = cacheWidth * cacheHeight /\ address = 0
  /\ x_we = FALSE /\ u_address = 0 /\ x_address = 0 /\ ideal_address = 0
  /\ fifo_clk_en = FALSE /\ alu_calc = FALSE /\ alu_err_rst = FALSE
  /\ alu_state = ALULagMAX /\ x_out_ready = TRUE
-----------------------------------------------------------------------------
(***************************************************************************)
(* Address arithmetic.  std_logic_vector(to_unsigned(address, w)) keeps    *)
(* the low bits.  The new image trails the raster by three rows, so while  *)
(* the raster is back in its first rows the last rows are being stored.    *)
(***************************************************************************)
ToUnsigned(a) == a % AddrSpace

WrapBaseRowLate == cacheAddressShift + ii_1d - cacheWidth     \* mutant

WrapBase == cacheAddressShift + ii_1d - 2*cacheWidth

BodyBase == ii_1d - 3*cacheWidth

InImage == ii \in 1..cacheHeight /\ jj \in 1..cacheWidth

\* The positions at which a pixel is stored, in the order the code tests them.
AfterWrap == ii \in 0..1 /\ jj \in 2..cacheWidth /\ init_state = 0

AfterWrapRowEnd == ii \in 1..2 /\ jj = 0 /\ init_state = 0

Body == ii \in 3..cacheHeight /\ jj \in 2..cacheWidth

BodyRowEnd == ii \in 4..cacheHeight /\ jj = 0

Origin == ii = 0 /\ jj = 0

\* Position jj = 1: the AU takes a patch but there is no pixel to store.
RowStart == jj = 1
-----------------------------------------------------------------------------
(***************************************************************************)
(* cnn_au.vhd, "Common Process": ready falls when calc is seen and rises   *)
(* ALULagMAX clocks later, when the combinational path has settled.        *)
(***************************************************************************)
AluClockShort ==                                              \* mutant
  LET s == IF alu_calc THEN 0 ELSE alu_state
  IN /\ x_out_ready' = IF s = ALULagMAX THEN TRUE
                       ELSE IF alu_calc THEN FALSE ELSE x_out_ready
     /\ alu_state' = IF s < ALULagMAX THEN s + 1 ELSE s

AluClock ==
  LET s == IF alu_calc THEN 0 ELSE alu_state
  IN /\ x_out_ready' = IF s = ALULagMAX - 1 THEN TRUE
                       ELSE IF alu_calc THEN FALSE ELSE x_out_ready
     /\ alu_state' = IF s < ALULagMAX THEN s + 1 ELSE s

(***************************************************************************)
(* rst='1'.  init_state, iter, alu_calc, alu_err_rst and fifo_clk_en are   *)
(* not reset.                                                              *)
(***************************************************************************)
Reset ==
  /\ rst
  /\ state' = "X_OLD_U_INIT"
  /\ ii' = 0 /\ ii_1d' = 0 /\ jj' = 0 /\ cache_lag' = 0 /\ cache_wr_lag' = 0
  /\ cacheAddressShift' = cacheWidth * cacheHeight
  /\ x_we' = FALSE /\ u_address' = 0 /\ x_address' = 0 /\ ideal_address' = 0
  /\ UNCHANGED <<init_state, iter, address, fifo_clk_en, alu_calc, alu_err_rst>>

\* state X_OLD_U_INIT.
StartRun ==
  /\ ~rst /\ state = "X_OLD_U_INIT"
  /\ state' = "X_OLD_U_READ" /\ init_state' = 1
  /\ ii' = 0 /\ ii_1d' = 0 /\ jj' = 0 /\ cache_lag' = 0 /\ cache_wr_lag' = 0
  /\ cacheAddressShift' = cacheWidth * cacheHeight
  /\ UNCHANGED <<iter, addresses, x_we, fifo_clk_en, alu_calc, alu_err_rst>>

\* state X_OLD_U_READ at the given cache_lag; the error sums run in the last pass only.
Reading(lag) ==
  /\ ~rst /\ state = "X_OLD_U_READ" /\ cache_lag = lag
  /\ cache_lag' = IF lag >= cacheLagMAX THEN 0 ELSE lag + 1
  /\ x_we' = FALSE
  /\ alu_err_rst' = IF iter < iter_cnt THEN TRUE
                    ELSE IF iter = iter_cnt THEN FALSE ELSE alu_err_rst
  /\ UNCHANGED <<init_state, iter, position, cacheAddressShift, alu_calc>>

\* cache_lag = 0: assign read addresses; the last address computed stays in address.
AssignReadAddress ==
  LET a == ii_1d - cacheWidth + (jj - 1)
      wraps == ii \in 0..1 /\ jj \in 1..cacheWidth /\ init_state = 0
      body == ii \in 3..cacheHeight /\ jj \in 1..cacheWidth
      b == IF wraps THEN WrapBase + (jj - 2) ELSE BodyBase + (jj - 2)
  IN /\ Reading(0)
     /\ u_address' = IF InImage THEN ToUnsigned(a) ELSE u_address
     /\ x_address' = IF InImage THEN ToUnsigned(a) ELSE x_address
     /\ ideal_address' = IF wraps \/ body THEN ToUnsigned(b) ELSE ideal_address
     /\ address' = IF wraps \/ body THEN b ELSE IF InImage THEN a ELSE address
     /\ UNCHANGED <<state, cache_wr_lag, fifo_clk_en>>

Store(a) ==
  /\ cache_wr_lag' = 0
  /\ address' = a /\ x_address' = ToUnsigned(a)

\* cache_lag = 1: assign the write address, or note that nothing is calculated here.
AssignWriteAddress ==
  /\ Reading(1)
  /\ \/ AfterWrap /\ Store(WrapBase + (jj - 2))
     \/ AfterWrapRowEnd /\ Store(WrapBase - cacheWidth + (cacheWidth - 1))
     \/ Body /\ Store(BodyBase + (jj - 2))
     \/ BodyRowEnd /\ Store(BodyBase - cacheWidth + (cacheWidth - 1))
     \/ Origin /\ Store(WrapBase - cacheWidth + (cacheWidth - 1))
     \/ RowStart /\ cache_wr_lag' = 0 /\ UNCHANGED <<address, x_address>>
     \/ /\ ~(AfterWrap \/ AfterWrapRowEnd \/ Body \/ BodyRowEnd \/ Origin \/ RowStart)
        /\ cache_wr_lag' = 2 /\ UNCHANGED <<address, x_address>>
  /\ UNCHANGED <<state, u_address, ideal_address, fifo_clk_en>>

\* cache_lag = 2: one push into the line buffers; the patch columns move left.
PushPixel ==
  /\ Reading(2)
  /\ state' = "X_NEW_WRITE" /\ fifo_clk_en' = TRUE
  /\ UNCHANGED <<cache_wr_lag, addresses>>

\* state X_NEW_WRITE, cache_wr_lag = 0: the AU takes the patch as soon as it is ready.
StartCalc ==
  /\ ~rst /\ state = "X_NEW_WRITE" /\ cache_wr_lag = 0
  /\ fifo_clk_en' = FALSE
  /\ IF x_out_ready THEN alu_calc' = TRUE /\ cache_wr_lag' = 1
                    ELSE UNCHANGED <<alu_calc, cache_wr_lag>>
  /\ UNCHANGED <<progress, position, cache_lag, cacheAddressShift, addresses, x_we,
                 alu_err_rst>>

\* The next raster position.
AdvanceKeepRow ==                                             \* mutant
  IF jj = cacheWidth
  THEN /\ jj' = 0
       /\ IF ii = cacheHeight THEN ii' = 0 /\ UNCHANGED ii_1d
          ELSE ii' = ii + 1 /\ ii_1d' = ii_1d + cacheWidth
  ELSE jj' = jj + 1 /\ UNCHANGED <<ii, ii_1d>>

Advance ==
  IF jj = cacheWidth
  THEN /\ jj' = 0
       /\ IF ii = cacheHeight THEN ii' = 0 /\ ii_1d' = 0
          ELSE ii' = ii + 1 /\ ii_1d' = ii_1d + cacheWidth
  ELSE jj' = jj + 1 /\ UNCHANGED <<ii, ii_1d>>

PassEndKeepsInit ==                                           \* mutant
  IF init_state = 1
  THEN state' = "X_OLD_U_READ" /\ UNCHANGED <<init_state, iter, alu_err_rst>>
  ELSE iter' = 0 /\ alu_err_rst' = TRUE /\ state' = "SUCCESS" /\ UNCHANGED init_state

\* A pass ends when the raster comes to (patchWH,1): the first one filled the line buffers.
PassEndOffByOne ==                                            \* mutant
  IF init_state = 1
  THEN /\ init_state' = 0 /\ state' = "X_OLD_U_READ"
       /\ UNCHANGED <<iter, alu_err_rst>>
  ELSE IF iter + 1 >= iter_cnt
  THEN /\ iter' = 0 /\ alu_err_rst' = TRUE /\ state' = "SUCCESS"
       /\ UNCHANGED init_state
  ELSE /\ iter' = (iter + 1) % (iterMAX + 1) /\ state' = "X_OLD_U_READ"
       /\ UNCHANGED <<init_state, alu_err_rst>>

PassEnd ==
  IF init_state = 1
  THEN /\ init_state' = 0 /\ state' = "X_OLD_U_READ"
       /\ UNCHANGED <<iter, alu_err_rst>>
  ELSE IF iter = iter_cnt
  THEN /\ iter' = 0 /\ alu_err_rst' = TRUE /\ state' = "SUCCESS"
       /\ UNCHANGED init_state
  ELSE /\ iter' = (iter + 1) % (iterMAX + 1) /\ state' = "X_OLD_U_READ"
       /\ UNCHANGED <<init_state, alu_err_rst>>

(***************************************************************************)
(* state X_NEW_WRITE, cache_wr_lag = 1 (drop calc, write the pixel) or 2   *)
(* (nothing was calculated here); both go on to the next position in the   *)
(* same clock.                                                             *)
(***************************************************************************)
FinishPosition ==
  /\ ~rst /\ state = "X_NEW_WRITE" /\ cache_wr_lag \in {1, 2}
  /\ alu_calc' = IF cache_wr_lag = 1 THEN FALSE ELSE alu_calc
  /\ x_we' = IF cache_wr_lag = 1 /\ jj # 1 THEN TRUE ELSE x_we
  /\ cache_wr_lag' = 0 /\ fifo_clk_en' = FALSE
  /\ Advance
  /\ IF ii' = patchWH /\ jj' = 1
     THEN PassEnd
     ELSE state' = "X_OLD_U_READ" /\ UNCHANGED <<init_state, iter, alu_err_rst>>
  /\ UNCHANGED <<cache_lag, cacheAddressShift, addresses>>

\* state SUCCESS.
Finished ==
  /\ ~rst /\ state = "SUCCESS"
  /\ x_we' = FALSE
  /\ UNCHANGED <<progress, position, cache_lag, cache_wr_lag, cacheAddressShift,
                 addresses, fifo_clk_en, alu_calc, alu_err_rst>>

\* One rising edge of sys_clk.
Clock ==
  /\ \/ Reset \/ StartRun \/ AssignReadAddress \/ AssignWriteAddress \/ PushPixel
     \/ StartCalc \/ FinishPosition \/ Finished
  /\ AluClock
-----------------------------------------------------------------------------
(***************************************************************************)
(* The environment in normal operation: cnn_commands changes the image     *)
(* size and the iteration count only while the machine is held in reset or *)
(* has finished, pulses rst only when it has finished, and holds rst until *)
(* a clock has seen it.  CnnSystem shows the firmware keeps to this.       *)
(***************************************************************************)
Configure ==
  /\ ready \/ (rst /\ state = "X_OLD_U_INIT")
  /\ \E d \in Dims : cacheWidth' = d[1] /\ cacheHeight' = d[2]
  /\ iter_cnt' \in Iters

RaiseRst == ready /\ ~rst /\ rst' = TRUE /\ UNCHANGED <<cacheWidth, cacheHeight, iter_cnt>>

LowerRst == rst /\ state = "X_OLD_U_INIT" /\ rst' = FALSE
            /\ UNCHANGED <<cacheWidth, cacheHeight, iter_cnt>>

machineVars == <<progress, position, cache_lag, cache_wr_lag, cacheAddressShift,
                 addresses, x_we, fifo_clk_en, alu_calc, alu_err_rst, au>>

Init ==
  /\ rst = TRUE
  /\ cacheWidth = cacheWidthMAX /\ cacheHeight = cacheHeightMAX /\ iter_cnt = 2
  /\ MachineInit

Next ==
  \/ Clock /\ UNCHANGED inputs
  \/ Configure /\ UNCHANGED <<rst, machineVars>>
  \/ RaiseRst /\ UNCHANGED machineVars
  \/ LowerRst /\ UNCHANGED machineVars

Spec == Init /\ [][Next]_vars

\* The clock never stops.
FairSpec == Spec /\ WF_vars(Clock /\ UNCHANGED inputs)
-----------------------------------------------------------------------------
Running == state \in {"X_OLD_U_READ", "X_NEW_WRITE"}

\* The raster position is inside the raster and its row base is precomputed correctly.
PositionInv ==
  /\ Running => /\ ii \in 0..cacheHeight /\ jj \in 0..cacheWidth
                /\ ii_1d = ii * cacheWidth
                /\ cacheAddressShift = cacheWidth * cacheHeight
                /\ iter <= iter_cnt
  /\ ~Running => iter = 0

\* A write enabled by the machine goes to a pixel of the image.
StoreAddressInv ==
  /\ x_we => x_address < cacheWidth * cacheHeight
  /\ (Running /\ jj # 1 /\ \/ state = "X_OLD_U_READ" /\ cache_lag = 2 /\ cache_wr_lag = 0
                           \/ state = "X_NEW_WRITE" /\ cache_wr_lag \in {0, 1})
       => x_address < cacheWidth * cacheHeight

(***************************************************************************)
(* StoresInImage: across passes, image sizes and consecutive runs of       *)
(* different sizes, every word the machine writes into the state cache     *)
(* falls on a pixel of the current image (never on the words beyond        *)
(* cacheWidth*cacheHeight), with the row base kept incrementally in ii_1d. *)
(***************************************************************************)
StoresInImage == PositionInv /\ StoreAddressInv

(***************************************************************************)
(* NeverStalls: whenever the machine reaches the point where it needs the  *)
(* AU, the AU's ALULagMAX clocks are over, so the x_new_ready wait of      *)
(* X_NEW_WRITE never costs a clock; the five clocks between two patches    *)
(* that cnn_constants.vhd asks for ("minalufreq:5") are always there.      *)
(***************************************************************************)
NeverStalls == state = "X_NEW_WRITE" /\ cache_wr_lag = 0 => x_out_ready

(***************************************************************************)
(* Terminates: once rst is released the run finishes, for every image size *)
(* and iteration count, and ready is raised.                               *)
(***************************************************************************)
Terminates == ~rst ~> ready
=============================================================================
