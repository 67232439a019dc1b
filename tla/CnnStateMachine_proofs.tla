----------------------- MODULE CnnStateMachine_proofs -----------------------
(***************************************************************************)
(* Proofs about CnnStateMachine, for every cache size, image size and      *)
(* iteration count: the machine's stores stay in the image and it never    *)
(* waits for the AU.                                                       *)
(***************************************************************************)
EXTENDS CnnStateMachine, TLAPS

(***************************************************************************)
(* The phase of the machine within a position.  The last conjunct is why   *)
(* no write is pending when a run ends: a pass ends after position         *)
(* (patchWH,0), at which nothing is stored.                                *)
(***************************************************************************)
PhaseInv ==
  /\ rst => ~Running
  /\ state = "X_NEW_WRITE" => cache_lag = 0
  /\ state = "X_OLD_U_READ" => cache_wr_lag # 1
  /\ x_we => state = "X_OLD_U_READ" /\ cache_lag = 0
  /\ (\/ state = "X_OLD_U_READ" /\ cache_lag = 2
      \/ state = "X_NEW_WRITE") /\ ii = patchWH /\ jj = 0 => cache_wr_lag = 2

\* The AU's timer runs in step with the three clocks of X_OLD_U_READ.
TimerInv ==
  /\ alu_calc <=> state = "X_NEW_WRITE" /\ cache_wr_lag = 1
  /\ x_out_ready => alu_state = ALULagMAX
  /\ ~x_out_ready => state = "X_OLD_U_READ" /\ alu_state = cache_lag + 1

IInv == TypeOK /\ StoresInImage /\ PhaseInv /\ TimerInv
-----------------------------------------------------------------------------
\* Products of naturals grow with their factors.
LEMMA NatProductMonotone ==
  \A a, b, c, d \in Nat : a <= b /\ c <= d => a * c <= b * d /\ a * c \in Nat
  OBVIOUS

\* What the constants and the types say of the image size.
LEMMA SizeFacts ==
  ASSUME TypeOK
  PROVE  /\ cacheWidth \in Nat /\ cacheWidth >= 1 /\ cacheHeight \in Nat /\ cacheHeight >= 3
         /\ cacheWidth * cacheHeight \in Nat
         /\ 3 * cacheWidth <= cacheWidth * cacheHeight
         /\ cacheWidth * cacheHeight <= cacheHeightMAX * cacheWidthMAX
         /\ cacheHeightMAX * cacheWidthMAX \in Nat
         /\ cacheWidth * cacheHeight <= AddrSpace
         /\ AddrSpace \in Nat /\ AddrSpace >= 1
<1>1. /\ cacheWidth \in Nat /\ cacheWidth >= 1 /\ cacheHeight \in Nat /\ cacheHeight >= 3
      /\ cacheWidthMAX \in Nat /\ cacheHeightMAX \in Nat
      /\ cacheWidth <= cacheWidthMAX /\ cacheHeight <= cacheHeightMAX
      /\ AddrSpace \in Nat /\ AddrSpace >= cacheWidthMAX * cacheHeightMAX
  BY MachineAssumption DEF MachineAssumption, TypeOK, InputTypes
<1>2. /\ cacheWidth * 3 <= cacheWidth * cacheHeight
      /\ cacheWidth * cacheHeight <= cacheWidthMAX * cacheHeightMAX
      /\ cacheWidth * cacheHeight \in Nat
      /\ cacheWidthMAX * cacheHeightMAX \in Nat
  BY <1>1, NatProductMonotone
<1>3. cacheHeightMAX * cacheWidthMAX = cacheWidthMAX * cacheHeightMAX
  BY <1>1
<1> QED BY <1>1, <1>2, <1>3

\* The row base of a row of the image, and of the rows above it.
LEMMA RowBase ==
  ASSUME TypeOK, PositionInv, Running
  PROVE  /\ ii \in 0..cacheHeight /\ jj \in 0..cacheWidth
         /\ ii_1d \in Nat /\ ii_1d <= cacheWidth * cacheHeight
         /\ cacheAddressShift = cacheWidth * cacheHeight
         /\ ii = 0 => ii_1d = 0
         /\ ii = 1 => ii_1d = cacheWidth
         /\ ii = 2 => ii_1d = 2 * cacheWidth
         /\ ii >= 3 => ii_1d >= 3 * cacheWidth
         /\ ii >= 4 => ii_1d >= 4 * cacheWidth
         /\ ii < cacheHeight => ii_1d + cacheWidth <= cacheWidth * cacheHeight
<1>1. /\ ii \in 0..cacheHeight /\ jj \in 0..cacheWidth /\ ii_1d = ii * cacheWidth
      /\ cacheAddressShift = cacheWidth * cacheHeight
      /\ cacheWidth \in Nat /\ cacheHeight \in Nat
  BY SizeFacts DEF PositionInv
<1>2. cacheHeight * cacheWidth = cacheWidth * cacheHeight
  BY <1>1
<1>3. ii_1d \in Nat /\ ii_1d <= cacheHeight * cacheWidth
  BY <1>1, NatProductMonotone
<1>4. (ii >= 3 => ii_1d >= 3 * cacheWidth) /\ (ii >= 4 => ii_1d >= 4 * cacheWidth)
  BY <1>1, NatProductMonotone
<1>5. ii < cacheHeight => ii_1d + cacheWidth <= cacheHeight * cacheWidth
  <2>1. ii < cacheHeight => (ii + 1) * cacheWidth <= cacheHeight * cacheWidth
    BY <1>1, NatProductMonotone
  <2>2. (ii + 1) * cacheWidth = ii_1d + cacheWidth
    BY <1>1
  <2> QED BY <2>1, <2>2
<1>6. (ii = 0 => ii_1d = 0) /\ (ii = 1 => ii_1d = cacheWidth) /\ (ii = 2 => ii_1d = 2 * cacheWidth)
  BY <1>1
<1> QED BY <1>1, <1>2, <1>3, <1>4, <1>5, <1>6

\* to_unsigned: a word address, and the same number when it is one already.
LEMMA ToUnsignedRange ==
  ASSUME TypeOK
  PROVE  /\ \A a \in Int : ToUnsigned(a) \in 0..AddrSpace-1
         /\ \A a \in 0..AddrSpace-1 : ToUnsigned(a) = a
  BY SizeFacts DEF ToUnsigned

\* The address the machine computes for a store is a pixel of the image.
LEMMA StoreAddress ==
  ASSUME TypeOK, PositionInv, Running, NEW a,
         \/ AfterWrap /\ a = WrapBase + (jj - 2)
         \/ AfterWrapRowEnd /\ a = WrapBase - cacheWidth + (cacheWidth - 1)
         \/ Body /\ a = BodyBase + (jj - 2)
         \/ BodyRowEnd /\ a = BodyBase - cacheWidth + (cacheWidth - 1)
         \/ Origin /\ a = WrapBase - cacheWidth + (cacheWidth - 1)
  PROVE  a \in Int /\ ToUnsigned(a) = a /\ a \in 0..(cacheWidth * cacheHeight - 1)
<1> DEFINE WH == cacheWidth * cacheHeight
<1>1. /\ cacheWidth \in Nat /\ cacheWidth >= 1 /\ cacheHeight \in Nat
      /\ WH \in Nat /\ 3 * cacheWidth <= WH /\ WH <= AddrSpace /\ AddrSpace \in Nat
  BY SizeFacts
<1>2. /\ ii \in 0..cacheHeight /\ jj \in 0..cacheWidth
      /\ ii_1d \in Nat /\ ii_1d <= WH /\ cacheAddressShift = WH
      /\ ii = 0 => ii_1d = 0
      /\ ii = 1 => ii_1d = cacheWidth
      /\ ii = 2 => ii_1d = 2 * cacheWidth
      /\ ii >= 3 => ii_1d >= 3 * cacheWidth
      /\ ii >= 4 => ii_1d >= 4 * cacheWidth
  BY RowBase
<1> HIDE DEF WH
<1>3. a \in 0..(WH - 1)
  <2>1. CASE AfterWrap /\ a = WrapBase + (jj - 2)
    BY <1>1, <1>2, <2>1 DEF AfterWrap, WrapBase
  <2>2. CASE AfterWrapRowEnd /\ a = WrapBase - cacheWidth + (cacheWidth - 1)
    BY <1>1, <1>2, <2>2 DEF AfterWrapRowEnd, WrapBase
  <2>3. CASE Body /\ a = BodyBase + (jj - 2)
    BY <1>1, <1>2, <2>3 DEF Body, BodyBase
  <2>4. CASE BodyRowEnd /\ a = BodyBase - cacheWidth + (cacheWidth - 1)
    BY <1>1, <1>2, <2>4 DEF BodyRowEnd, BodyBase
  <2>5. CASE Origin /\ a = WrapBase - cacheWidth + (cacheWidth - 1)
    BY <1>1, <1>2, <2>5 DEF Origin, WrapBase
  <2> QED BY <2>1, <2>2, <2>3, <2>4, <2>5
<1>4. a \in 0..AddrSpace-1
  BY <1>1, <1>3
<1> QED BY <1>3, <1>4, ToUnsignedRange DEF WH
-----------------------------------------------------------------------------
\* Power-up.
LEMMA InitInv == Init => IInv
<1> SUFFICES ASSUME Init PROVE IInv
  OBVIOUS
<1>1. /\ cacheWidthMAX * cacheHeightMAX \in Nat /\ cacheHeightMAX * cacheWidthMAX \in Nat
      /\ cacheWidthMAX * cacheHeightMAX >= 1
  <2>1. 1 * 1 <= cacheWidthMAX * cacheHeightMAX
    BY MachineAssumption, NatProductMonotone DEF MachineAssumption
  <2> QED BY <2>1, MachineAssumption, NatProductMonotone DEF MachineAssumption
<1>2. InputTypes
  BY MachineAssumption DEF MachineAssumption, Init, InputTypes
<1>3. RasterTypes
  BY <1>1, MachineAssumption
     DEF MachineAssumption, Init, MachineInit, RasterTypes, States, cacheLagMAX, cacheWrLagMAX
<1>4. AddressTypes
  BY <1>1, MachineAssumption DEF MachineAssumption, Init, MachineInit, AddressTypes
<1>5. ControlTypes /\ TimerTypes
  <2>1. ControlTypes /\ x_out_ready \in BOOLEAN
    BY Zenon DEF Init, MachineInit, ControlTypes
  <2>2. alu_state \in 0..ALULagMAX
    BY DEF Init, MachineInit, ALULagMAX
  <2> QED BY <2>1, <2>2 DEF TimerTypes
<1>6. StoresInImage
  BY DEF Init, MachineInit, StoresInImage, PositionInv, StoreAddressInv, Running
<1>7. PhaseInv /\ TimerInv
  BY DEF Init, MachineInit, PhaseInv, TimerInv, Running, ALULagMAX
<1> QED BY <1>2, <1>3, <1>4, <1>5, <1>6, <1>7 DEF IInv, TypeOK

(***************************************************************************)
(* The timer keeps its type; it is ready ALULagMAX clocks after a calc and *)
(* stays ready without one.                                                *)
(***************************************************************************)
LEMMA TimerStep ==
  ASSUME TypeOK, TimerInv, AluClock
  PROVE  /\ TimerTypes'
         /\ ~alu_calc /\ x_out_ready => x_out_ready' /\ alu_state' = ALULagMAX
         /\ alu_calc => ~x_out_ready' /\ alu_state' = 1
         /\ ~alu_calc /\ ~x_out_ready =>
              IF cache_lag = 2 THEN x_out_ready' /\ alu_state' = ALULagMAX
              ELSE ~x_out_ready' /\ alu_state' = cache_lag + 2
<1>1. alu_state \in 0..4 /\ cache_lag \in 0..2 /\ x_out_ready \in BOOLEAN /\ alu_calc \in BOOLEAN
  BY DEF TypeOK, RasterTypes, ControlTypes, TimerTypes, ALULagMAX, cacheLagMAX
<1>2. x_out_ready' \in BOOLEAN
  BY <1>1, Zenon DEF AluClock
<1>3. CASE alu_calc
  BY <1>1, <1>2, <1>3 DEF AluClock, ALULagMAX, TimerTypes
<1>4. CASE ~alu_calc /\ x_out_ready
  BY <1>1, <1>2, <1>4 DEF AluClock, TimerInv, ALULagMAX, TimerTypes
<1>5. CASE ~alu_calc /\ ~x_out_ready
  <2>1. alu_state = cache_lag + 1
    BY <1>5 DEF TimerInv
  <2>2. alu_state' = cache_lag + 2
    BY <1>1, <1>5, <2>1 DEF AluClock, ALULagMAX
  <2>3. CASE cache_lag = 2
    <3>1. alu_state = ALULagMAX - 1
      BY <2>1, <2>3 DEF ALULagMAX
    <3>2. x_out_ready'
      BY <1>5, <3>1, Zenon DEF AluClock
    <3> QED BY <1>2, <1>5, <2>2, <2>3, <3>2 DEF TimerTypes, ALULagMAX
  <2>4. CASE cache_lag # 2
    <3>1. alu_state # ALULagMAX - 1
      BY <1>1, <2>1, <2>4 DEF ALULagMAX
    <3>2. ~x_out_ready'
      BY <1>5, <3>1, Zenon DEF AluClock
    <3> QED BY <1>1, <1>2, <1>5, <2>2, <2>4, <3>2 DEF TimerTypes, ALULagMAX
  <2> QED BY <2>3, <2>4
<1> QED BY <1>1, <1>3, <1>4, <1>5

\* rst='1'.
LEMMA ResetInv ==
  ASSUME IInv, Reset, AluClock, UNCHANGED inputs
  PROVE  IInv'
<1>1. TypeOK /\ StoresInImage /\ PhaseInv /\ TimerInv
  BY DEF IInv
<1>2. InputTypes'
  BY <1>1 DEF TypeOK, InputTypes, inputs
<1>3. RasterTypes'
  BY <1>1, SizeFacts, MachineAssumption
     DEF MachineAssumption, TypeOK, RasterTypes, Reset, States, cacheLagMAX, cacheWrLagMAX
<1>4. AddressTypes' /\ ControlTypes'
  <2>1. AddressTypes'
    BY <1>1, SizeFacts DEF TypeOK, AddressTypes, Reset
  <2>2. ControlTypes'
    BY <1>1, Zenon DEF TypeOK, ControlTypes, Reset
  <2> QED BY <2>1, <2>2
<1>5. ~x_we /\ ~alu_calc /\ x_out_ready /\ iter = 0
  BY <1>1 DEF PhaseInv, TimerInv, StoresInImage, PositionInv, Reset, Running, TypeOK, TimerTypes
<1>6. StoresInImage'
  BY <1>5 DEF StoresInImage, PositionInv, StoreAddressInv, Running, Reset
<1>7. PhaseInv' /\ TimerInv'
  BY <1>1, <1>5, TimerStep DEF PhaseInv, TimerInv, Running, Reset
<1> QED BY <1>1, <1>2, <1>3, <1>4, <1>6, <1>7, TimerStep DEF IInv, TypeOK

\* X_OLD_U_INIT: the run starts at the raster's origin.
LEMMA StartRunInv ==
  ASSUME IInv, StartRun, AluClock, UNCHANGED inputs
  PROVE  IInv'
<1>1. TypeOK /\ StoresInImage /\ PhaseInv /\ TimerInv
  BY DEF IInv
<1>2. InputTypes'
  BY <1>1 DEF TypeOK, InputTypes, inputs
<1>3. RasterTypes'
  BY <1>1, SizeFacts, MachineAssumption
     DEF MachineAssumption, TypeOK, RasterTypes, StartRun, States, cacheLagMAX, cacheWrLagMAX
<1>4. AddressTypes' /\ ControlTypes'
  BY <1>1, SizeFacts DEF TypeOK, AddressTypes, ControlTypes, StartRun, addresses
<1>5. ~x_we /\ ~alu_calc /\ x_out_ready /\ iter = 0
  BY <1>1 DEF PhaseInv, TimerInv, StoresInImage, PositionInv, StartRun, Running, TypeOK, TimerTypes
<1>6. PositionInv'
  BY <1>1, <1>5, SizeFacts DEF TypeOK, InputTypes, PositionInv, Running, StartRun, inputs
<1>7. StoreAddressInv'
  BY <1>5 DEF StoreAddressInv, Running, StartRun
<1>8. PhaseInv' /\ TimerInv'
  BY <1>1, <1>5, TimerStep DEF PhaseInv, TimerInv, Running, StartRun, inputs, patchWH
<1> QED BY <1>1, <1>2, <1>3, <1>4, <1>6, <1>7, <1>8, TimerStep DEF IInv, TypeOK, StoresInImage

\* SUCCESS.
LEMMA FinishedInv ==
  ASSUME IInv, Finished, AluClock, UNCHANGED inputs
  PROVE  IInv'
<1>1. TypeOK /\ StoresInImage /\ PhaseInv /\ TimerInv
  BY DEF IInv
<1>2. InputTypes' /\ RasterTypes' /\ AddressTypes' /\ ControlTypes'
  BY <1>1 DEF TypeOK, InputTypes, RasterTypes, AddressTypes, ControlTypes, Finished, inputs,
              progress, position, addresses
<1>3. ~x_we /\ ~alu_calc /\ x_out_ready
  BY <1>1 DEF PhaseInv, TimerInv, Finished, TypeOK, TimerTypes
<1>4. StoresInImage'
  BY <1>1, <1>3 DEF StoresInImage, PositionInv, StoreAddressInv, Running, Finished, progress
<1>5. PhaseInv' /\ TimerInv'
  BY <1>1, <1>3, TimerStep DEF PhaseInv, TimerInv, Running, Finished, progress
<1> QED BY <1>1, <1>2, <1>4, <1>5, TimerStep DEF IInv, TypeOK
(***************************************************************************)
(* What the three clocks of X_OLD_U_READ have in common: the position is   *)
(* kept, no write is enabled, and the timer is ready by the last of them.  *)
(***************************************************************************)
LEMMA ReadingStep ==
  ASSUME IInv, NEW lag \in 0..2, Reading(lag), AluClock, UNCHANGED inputs,
         state' = IF lag = 2 THEN "X_NEW_WRITE" ELSE "X_OLD_U_READ",
         cache_wr_lag' \in {0, 2}, fifo_clk_en' \in BOOLEAN
  PROVE  /\ Running /\ InputTypes' /\ RasterTypes' /\ ControlTypes' /\ TimerTypes'
         /\ PositionInv' /\ TimerInv' /\ ~x_we'
         /\ cache_lag' = IF lag = 2 THEN 0 ELSE lag + 1
<1>1. TypeOK /\ StoresInImage /\ PhaseInv /\ TimerInv
  BY DEF IInv
<1>2. InputTypes'
  BY <1>1 DEF TypeOK, InputTypes, inputs
<1>3. cache_lag' = IF lag = 2 THEN 0 ELSE lag + 1
  BY DEF Reading, cacheLagMAX
<1>4. RasterTypes'
  BY <1>1, <1>3 DEF TypeOK, RasterTypes, Reading, States, position, cacheLagMAX, cacheWrLagMAX
<1>5. ControlTypes'
  BY <1>1, Zenon DEF TypeOK, ControlTypes, Reading
<1>6. Running /\ ~rst /\ state = "X_OLD_U_READ" /\ cache_lag = lag /\ ~alu_calc
  BY <1>1 DEF Running, Reading, TimerInv
<1>7. PositionInv'
  BY <1>1, <1>6 DEF StoresInImage, PositionInv, Running, Reading, position, inputs
<1>8. TimerInv'
  <2>1. ~alu_calc' /\ cache_wr_lag' # 1
    BY <1>6 DEF Reading
  <2>2. CASE lag = 2
    BY <1>1, <1>6, <2>1, <2>2, TimerStep DEF TimerInv
  <2>3. CASE lag # 2
    BY <1>1, <1>3, <1>6, <2>1, <2>3, TimerStep DEF TimerInv
  <2> QED BY <2>2, <2>3
<1>9. ~x_we'
  BY DEF Reading
<1> QED BY <1>1, <1>2, <1>3, <1>4, <1>5, <1>6, <1>7, <1>8, <1>9, TimerStep

\* X_OLD_U_READ, first clock.
LEMMA AssignReadAddressInv ==
  ASSUME IInv, AssignReadAddress, AluClock, UNCHANGED inputs
  PROVE  IInv'
<1>1. TypeOK /\ StoresInImage /\ PhaseInv /\ TimerInv
  BY DEF IInv
<1>2. /\ Reading(0) /\ state' = "X_OLD_U_READ" /\ state = "X_OLD_U_READ"
      /\ cache_wr_lag' = cache_wr_lag /\ fifo_clk_en' = fifo_clk_en
  BY DEF AssignReadAddress, Reading
<1>3. cache_wr_lag' \in {0, 2} /\ fifo_clk_en' \in BOOLEAN
  BY <1>1, <1>2 DEF PhaseInv, TypeOK, RasterTypes, ControlTypes, cacheWrLagMAX
<1>4. /\ InputTypes' /\ RasterTypes' /\ ControlTypes' /\ TimerTypes'
      /\ PositionInv' /\ TimerInv' /\ ~x_we' /\ cache_lag' = 1
  BY <1>2, <1>3, ReadingStep
<1>5. AddressTypes'
  <2>1. /\ ii_1d - cacheWidth + (jj - 1) \in Int
        /\ WrapBase + (jj - 2) \in Int /\ BodyBase + (jj - 2) \in Int
    BY <1>1, SizeFacts DEF TypeOK, RasterTypes, AddressTypes, WrapBase, BodyBase
  <2>2. /\ cacheAddressShift' = cacheAddressShift
        /\ u_address' \in {u_address, ToUnsigned(ii_1d - cacheWidth + (jj - 1))}
        /\ x_address' \in {x_address, ToUnsigned(ii_1d - cacheWidth + (jj - 1))}
        /\ ideal_address' \in {ideal_address, ToUnsigned(WrapBase + (jj - 2)),
                               ToUnsigned(BodyBase + (jj - 2))}
        /\ address' \in {address, ii_1d - cacheWidth + (jj - 1), WrapBase + (jj - 2),
                         BodyBase + (jj - 2)}
    BY DEF AssignReadAddress, Reading
  <2> QED BY <1>1, <2>1, <2>2, ToUnsignedRange DEF TypeOK, AddressTypes
<1>6. StoreAddressInv' /\ PhaseInv'
  BY <1>1, <1>2, <1>4 DEF StoreAddressInv, PhaseInv, Running, Reading, inputs
<1> QED BY <1>4, <1>5, <1>6 DEF IInv, TypeOK, StoresInImage

\* X_OLD_U_READ, second clock: the store address computed here is a pixel of the image.
LEMMA AssignWriteAddressInv ==
  ASSUME IInv, AssignWriteAddress, AluClock, UNCHANGED inputs
  PROVE  IInv'
<1>1. TypeOK /\ StoresInImage /\ PhaseInv /\ TimerInv
  BY DEF IInv
<1>2. /\ Reading(1) /\ state' = "X_OLD_U_READ" /\ state = "X_OLD_U_READ" /\ ~rst
      /\ fifo_clk_en' = fifo_clk_en /\ u_address' = u_address /\ ideal_address' = ideal_address
      /\ cacheAddressShift' = cacheAddressShift /\ UNCHANGED <<ii, jj, cacheWidth, cacheHeight>>
  BY DEF AssignWriteAddress, Reading, position, inputs
<1>3. cache_wr_lag' \in {0, 2} /\ fifo_clk_en' \in BOOLEAN
  BY <1>1, <1>2 DEF TypeOK, ControlTypes, AssignWriteAddress, Store
<1>4. /\ Running /\ InputTypes' /\ RasterTypes' /\ ControlTypes' /\ TimerTypes'
      /\ PositionInv' /\ TimerInv' /\ ~x_we' /\ cache_lag' = 2
  BY <1>2, <1>3, ReadingStep
<1>5. \/ /\ address' \in Int /\ x_address' \in 0..AddrSpace-1
         /\ x_address' < cacheWidth * cacheHeight
      \/ (jj = 1 \/ cache_wr_lag' = 2) /\ UNCHANGED <<address, x_address>>
  <2>1. ASSUME NEW a, Store(a),
               \/ AfterWrap /\ a = WrapBase + (jj - 2)
               \/ AfterWrapRowEnd /\ a = WrapBase - cacheWidth + (cacheWidth - 1)
               \/ Body /\ a = BodyBase + (jj - 2)
               \/ BodyRowEnd /\ a = BodyBase - cacheWidth + (cacheWidth - 1)
               \/ Origin /\ a = WrapBase - cacheWidth + (cacheWidth - 1)
        PROVE  /\ address' \in Int /\ x_address' \in 0..AddrSpace-1
               /\ x_address' < cacheWidth * cacheHeight
    <3>1. ToUnsigned(a) = a /\ a \in 0..(cacheWidth * cacheHeight - 1)
      BY <1>1, <1>4, <2>1, StoreAddress DEF StoresInImage
    <3>2. address' = a /\ x_address' = a
      BY <2>1, <3>1 DEF Store
    <3> QED BY <1>1, <3>1, <3>2, SizeFacts
  <2> QED BY <2>1 DEF AssignWriteAddress, RowStart
<1>6. AddressTypes'
  BY <1>1, <1>2, <1>5 DEF TypeOK, AddressTypes
<1>7. StoreAddressInv'
  BY <1>2, <1>4, <1>5 DEF StoreAddressInv, Running
<1>8. PhaseInv'
  <2>1. ii = patchWH /\ jj = 0 => cache_wr_lag' = 2
    BY DEF AssignWriteAddress, AfterWrap, AfterWrapRowEnd, Body, BodyRowEnd, Origin, RowStart, patchWH
  <2> QED BY <1>1, <1>2, <1>3, <1>4, <2>1 DEF PhaseInv, Running, inputs
<1> QED BY <1>4, <1>6, <1>7, <1>8 DEF IInv, TypeOK, StoresInImage

\* X_OLD_U_READ, third clock.
LEMMA PushPixelInv ==
  ASSUME IInv, PushPixel, AluClock, UNCHANGED inputs
  PROVE  IInv'
<1>1. TypeOK /\ StoresInImage /\ PhaseInv /\ TimerInv
  BY DEF IInv
<1>2. /\ Reading(2) /\ state' = "X_NEW_WRITE" /\ state = "X_OLD_U_READ" /\ ~rst /\ cache_lag = 2
      /\ cache_wr_lag' = cache_wr_lag /\ UNCHANGED <<ii, jj, cacheWidth, cacheHeight, rst>>
      /\ UNCHANGED <<address, u_address, x_address, ideal_address, cacheAddressShift>>
  BY DEF PushPixel, Reading, position, inputs, addresses
<1>3. fifo_clk_en' \in BOOLEAN
  BY Zenon DEF PushPixel
<1>4. cache_wr_lag' \in {0, 2}
  BY <1>1, <1>2 DEF PhaseInv, TypeOK, RasterTypes, cacheWrLagMAX
<1>5. /\ Running /\ InputTypes' /\ RasterTypes' /\ ControlTypes' /\ TimerTypes'
      /\ PositionInv' /\ TimerInv' /\ ~x_we' /\ cache_lag' = 0
  BY <1>2, <1>3, <1>4, ReadingStep
<1>6. AddressTypes'
  BY <1>1, <1>2 DEF TypeOK, AddressTypes
<1>7. StoreAddressInv'
  BY <1>1, <1>2, <1>4, <1>5 DEF StoresInImage, StoreAddressInv, Running
<1>8. PhaseInv'
  BY <1>1, <1>2, <1>4, <1>5 DEF PhaseInv, Running
<1> QED BY <1>5, <1>6, <1>7, <1>8 DEF IInv, TypeOK, StoresInImage
\* X_NEW_WRITE, first clock: the AU is always ready, so the calculation starts at once.
LEMMA StartCalcInv ==
  ASSUME IInv, StartCalc, AluClock, UNCHANGED inputs
  PROVE  IInv'
<1>1. TypeOK /\ StoresInImage /\ PhaseInv /\ TimerInv
  BY DEF IInv
<1>2. /\ state = "X_NEW_WRITE" /\ ~rst /\ cache_wr_lag = 0 /\ cache_lag = 0
      /\ ~alu_calc /\ x_out_ready /\ ~x_we
  BY <1>1 DEF StartCalc, PhaseInv, TimerInv, TypeOK, TimerTypes
<1>3. alu_calc' = TRUE /\ cache_wr_lag' = 1 /\ fifo_clk_en' = FALSE
  BY <1>2, Zenon DEF StartCalc
<1>4. /\ UNCHANGED <<state, init_state, iter, ii, ii_1d, jj, cache_lag, cacheAddressShift>>
      /\ UNCHANGED <<address, u_address, x_address, ideal_address, x_we, alu_err_rst>>
      /\ UNCHANGED <<rst, cacheWidth, cacheHeight, iter_cnt>>
  BY DEF StartCalc, progress, position, addresses, inputs
<1>5. InputTypes' /\ RasterTypes' /\ AddressTypes'
  BY <1>1, <1>3, <1>4 DEF TypeOK, InputTypes, RasterTypes, AddressTypes, cacheWrLagMAX
<1>6. ControlTypes'
  BY <1>1, <1>3, <1>4, Zenon DEF TypeOK, ControlTypes
<1>7. StoresInImage'
  BY <1>1, <1>2, <1>3, <1>4 DEF StoresInImage, PositionInv, StoreAddressInv, Running
<1>8. PhaseInv'
  <2>1. ~(ii = patchWH /\ jj = 0)
    BY <1>1, <1>2 DEF PhaseInv
  <2> QED BY <1>2, <1>3, <1>4, <2>1 DEF PhaseInv, Running
<1>9. TimerInv'
  BY <1>1, <1>2, <1>3, <1>4, TimerStep DEF TimerInv
<1> QED BY <1>1, <1>5, <1>6, <1>7, <1>8, <1>9, TimerStep DEF IInv, TypeOK

\* The raster position moves on inside the raster, and its row base with it.
LEMMA AdvanceStep ==
  ASSUME TypeOK, PositionInv, Running, Advance, UNCHANGED inputs
  PROVE  /\ ii' \in 0..cacheHeight /\ jj' \in 0..cacheWidth /\ ii_1d' = ii' * cacheWidth
         /\ ii_1d' \in 0..cacheHeightMAX*cacheWidthMAX
         /\ jj' = 1 => jj = 0 /\ ii' = ii
<1>1. /\ cacheWidth \in Nat /\ cacheWidth >= 1 /\ cacheHeight \in Nat
      /\ cacheWidth * cacheHeight \in Nat
      /\ cacheWidth * cacheHeight <= cacheHeightMAX * cacheWidthMAX
      /\ cacheHeightMAX * cacheWidthMAX \in Nat
  BY SizeFacts
<1>2. /\ ii \in 0..cacheHeight /\ jj \in 0..cacheWidth
      /\ ii_1d \in Nat /\ ii_1d <= cacheWidth * cacheHeight
      /\ ii < cacheHeight => ii_1d + cacheWidth <= cacheWidth * cacheHeight
  BY RowBase
<1>3. ii_1d = ii * cacheWidth
  BY DEF PositionInv
<1>4. CASE jj = cacheWidth /\ ii = cacheHeight
  BY <1>1, <1>2, <1>4 DEF Advance
<1>5. CASE jj = cacheWidth /\ ii # cacheHeight
  <2>1. ii' = ii + 1 /\ ii_1d' = ii_1d + cacheWidth /\ jj' = 0
    BY <1>5 DEF Advance
  <2>2. (ii + 1) * cacheWidth = ii * cacheWidth + cacheWidth
    BY <1>1, <1>2
  <2> QED BY <1>1, <1>2, <1>3, <1>5, <2>1, <2>2
<1>6. CASE jj # cacheWidth
  <2>1. ii' = ii /\ ii_1d' = ii_1d /\ jj' = jj + 1
    BY <1>6 DEF Advance
  <2> QED BY <1>1, <1>2, <1>3, <1>6, <2>1
<1> QED BY <1>4, <1>5, <1>6

(***************************************************************************)
(* X_NEW_WRITE, last clock.  When the run ends here nothing is being       *)
(* written, because the last position of a pass stores no pixel.           *)
(***************************************************************************)
LEMMA FinishPositionInv ==
  ASSUME IInv, FinishPosition, AluClock, UNCHANGED inputs
  PROVE  IInv'
<1>1. TypeOK /\ StoresInImage /\ PositionInv /\ PhaseInv /\ TimerInv
  BY DEF IInv, StoresInImage
<1>2. /\ Running /\ ~rst /\ state = "X_NEW_WRITE" /\ cache_lag = 0 /\ x_out_ready /\ ~x_we
      /\ cache_wr_lag \in {1, 2} /\ (alu_calc <=> cache_wr_lag = 1)
  BY <1>1 DEF FinishPosition, Running, PhaseInv, TimerInv, TypeOK, TimerTypes
<1>3. /\ cache_wr_lag' = 0 /\ cache_lag' = cache_lag /\ cacheAddressShift' = cacheAddressShift
      /\ UNCHANGED <<address, u_address, x_address, ideal_address>>
      /\ UNCHANGED <<rst, cacheWidth, cacheHeight, iter_cnt>>
  BY DEF FinishPosition, addresses, inputs
<1>4. /\ ii' \in 0..cacheHeight /\ jj' \in 0..cacheWidth /\ ii_1d' = ii' * cacheWidth
      /\ ii_1d' \in 0..cacheHeightMAX*cacheWidthMAX
      /\ jj' = 1 => jj = 0 /\ ii' = ii
  BY <1>1, <1>2, AdvanceStep DEF FinishPosition
<1>5. ii' = patchWH /\ jj' = 1 => cache_wr_lag = 2
  BY <1>1, <1>2, <1>4 DEF PhaseInv
<1>6. /\ x_we' => cache_wr_lag = 1 /\ jj # 1
      /\ ~alu_calc'
  BY <1>2 DEF FinishPosition
<1>7. /\ state' \in {"X_OLD_U_READ", "SUCCESS"} /\ init_state' \in 0..1 /\ iter' \in 0..iterMAX
      /\ state' = "X_OLD_U_READ" => iter' <= iter_cnt
      /\ state' = "SUCCESS" => iter' = 0 /\ ii' = patchWH /\ jj' = 1
  <2>1. iter \in 0..iter_cnt /\ iter_cnt \in 0..iterMAX /\ iterMAX \in Nat /\ init_state \in 0..1
    BY <1>1, <1>2, MachineAssumption
       DEF MachineAssumption, TypeOK, InputTypes, RasterTypes, PositionInv
  <2>2. CASE ~(ii' = patchWH /\ jj' = 1)
    BY <2>1, <2>2 DEF FinishPosition
  <2>3. CASE ii' = patchWH /\ jj' = 1
    <3>1. PassEnd
      BY <2>3 DEF FinishPosition
    <3>2. CASE init_state = 1 \/ iter = iter_cnt
      BY <2>1, <2>3, <3>1, <3>2 DEF PassEnd
    <3>3. CASE init_state # 1 /\ iter # iter_cnt
      <4>1. (iter + 1) % (iterMAX + 1) = iter + 1 /\ iter + 1 \in 0..iter_cnt
        BY <2>1, <3>3
      <4> QED BY <2>1, <3>1, <3>3, <4>1 DEF PassEnd
    <3> QED BY <3>2, <3>3
  <2> QED BY <2>2, <2>3
<1>8. InputTypes' /\ RasterTypes' /\ AddressTypes'
  <2>1. InputTypes' /\ AddressTypes'
    BY <1>1, <1>3 DEF TypeOK, InputTypes, AddressTypes
  <2>2. ii' \in 0..cacheHeightMAX /\ jj' \in 0..cacheWidthMAX
    BY <1>1, <1>4, MachineAssumption DEF MachineAssumption, TypeOK, InputTypes
  <2> QED BY <1>1, <1>2, <1>3, <1>4, <1>7, <2>1, <2>2
          DEF TypeOK, RasterTypes, States, cacheLagMAX, cacheWrLagMAX
<1>9. ControlTypes'
  <2>1. alu_err_rst' \in BOOLEAN
    BY <1>1, Zenon DEF TypeOK, ControlTypes, FinishPosition, PassEnd
  <2>2. x_we' \in BOOLEAN /\ fifo_clk_en' \in BOOLEAN /\ alu_calc' \in BOOLEAN
    BY <1>1, Zenon DEF TypeOK, ControlTypes, FinishPosition
  <2> QED BY <2>1, <2>2 DEF ControlTypes
<1>10. PositionInv'
  BY <1>1, <1>2, <1>3, <1>4, <1>7 DEF PositionInv, Running
<1>11. StoreAddressInv'
  <2>1. cache_wr_lag = 1 /\ jj # 1 => x_address < cacheWidth * cacheHeight
    BY <1>1, <1>2 DEF StoresInImage, StoreAddressInv, Running
  <2> QED BY <1>2, <1>3, <1>6, <1>7, <2>1 DEF StoreAddressInv, Running
<1>12. PhaseInv'
  BY <1>2, <1>3, <1>5, <1>6, <1>7 DEF PhaseInv, Running
<1>13. TimerInv'
  BY <1>1, <1>2, <1>3, <1>5, <1>6, <1>7, TimerStep DEF TimerInv
<1> QED BY <1>1, <1>8, <1>9, <1>10, <1>11, <1>12, <1>13, TimerStep DEF IInv, TypeOK, StoresInImage
-----------------------------------------------------------------------------
\* The environment acts between runs only, when no write is pending.
LEMMA EnvironmentInv ==
  ASSUME IInv, UNCHANGED machineVars,
         (Configure /\ rst' \in BOOLEAN) \/ RaiseRst \/ LowerRst
  PROVE  IInv'
<1>1. TypeOK /\ StoresInImage /\ PhaseInv /\ TimerInv
  BY DEF IInv
<1>2. /\ UNCHANGED <<state, init_state, iter, ii, ii_1d, jj, cache_lag, cache_wr_lag>>
      /\ UNCHANGED <<cacheAddressShift, address, u_address, x_address, ideal_address>>
      /\ UNCHANGED <<x_we, fifo_clk_en, alu_calc, alu_err_rst, alu_state, x_out_ready>>
  BY DEF machineVars, progress, position, addresses, au
<1>3. ~Running
  BY DEF Configure, RaiseRst, LowerRst, ready, Running
<1>4. ~x_we
  BY <1>1, <1>3 DEF PhaseInv, Running
<1>5. rst' \in BOOLEAN
  BY <1>1, Zenon DEF TypeOK, InputTypes, RaiseRst, LowerRst
<1>6. cacheWidth' \in 1..cacheWidthMAX /\ cacheHeight' \in 3..cacheHeightMAX /\ iter_cnt' \in 0..iterMAX
  <2>1. CASE Configure
    BY <2>1, MachineAssumption DEF MachineAssumption, Configure
  <2>2. CASE RaiseRst \/ LowerRst
    BY <1>1, <2>2 DEF TypeOK, InputTypes, RaiseRst, LowerRst
  <2> QED BY <2>1, <2>2
<1>7. TypeOK'
  BY <1>1, <1>2, <1>5, <1>6
     DEF TypeOK, InputTypes, RasterTypes, AddressTypes, ControlTypes, TimerTypes
<1>8. StoresInImage'
  BY <1>1, <1>2, <1>3, <1>4 DEF StoresInImage, PositionInv, StoreAddressInv, Running
<1>9. PhaseInv' /\ TimerInv'
  BY <1>1, <1>2, <1>3, <1>4 DEF PhaseInv, TimerInv, Running
<1> QED BY <1>7, <1>8, <1>9 DEF IInv

\* IInv is inductive.
LEMMA NextInv ==
  ASSUME IInv, [Next]_vars
  PROVE  IInv'
<1>1. ASSUME Clock, UNCHANGED inputs PROVE IInv'
  BY <1>1, ResetInv, StartRunInv, AssignReadAddressInv, AssignWriteAddressInv, PushPixelInv,
     StartCalcInv, FinishPositionInv, FinishedInv DEF Clock
<1>2. CASE Configure /\ UNCHANGED <<rst, machineVars>>
  <2>1. rst' \in BOOLEAN
    BY <1>2 DEF IInv, TypeOK, InputTypes
  <2> QED BY <1>2, <2>1, EnvironmentInv
<1>3. CASE (RaiseRst \/ LowerRst) /\ UNCHANGED machineVars
  BY <1>3, EnvironmentInv
<1>4. CASE UNCHANGED vars
  BY <1>4 DEF vars, IInv, TypeOK, InputTypes, RasterTypes, AddressTypes, ControlTypes, TimerTypes,
              StoresInImage, PositionInv, StoreAddressInv, PhaseInv, TimerInv, Running
<1> QED BY <1>1, <1>2, <1>3, <1>4 DEF Next

\* The inductive invariant holds in every reachable state.
THEOREM InductiveInvariant == Spec => []IInv
<1>1. IInv /\ [Next]_vars => IInv'
  BY NextInv
<1> QED BY InitInv, <1>1, PTL DEF Spec

(***************************************************************************)
(* Every variable of cnn_state_machine.vhd but address stays in its        *)
(* declared range, for every cache size, image size and iteration count.   *)
(***************************************************************************)
THEOREM TypesHold == Spec => []TypeOK
<1>1. IInv => TypeOK
  BY DEF IInv
<1> QED BY InductiveInvariant, <1>1, PTL

(***************************************************************************)
(* Whatever the image size and the number of passes, the machine writes    *)
(* only to the words of the state cache that hold the image.               *)
(***************************************************************************)
THEOREM StoresHold == Spec => []StoresInImage
<1>1. IInv => StoresInImage
  BY DEF IInv
<1> QED BY InductiveInvariant, <1>1, PTL

(***************************************************************************)
(* The machine never waits for the AU: the clocks of X_OLD_U_READ cover    *)
(* the ALULagMAX clocks of a calculation.                                  *)
(***************************************************************************)
THEOREM NeverStallsHolds == Spec => []NeverStalls
<1>1. IInv => NeverStalls
  BY DEF IInv, TimerInv, NeverStalls
<1> QED BY InductiveInvariant, <1>1, PTL
=============================================================================
