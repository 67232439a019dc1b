-------------------------- MODULE CnnBlocks_proofs --------------------------
(***************************************************************************)
(* Proofs about the two blocks that stand alone.                           *)
(*                                                                         *)
(* CnnFifo, for every memory size, set of widths and set of words: the     *)
(* types, the phase of the ring, and that the ring implements the delay    *)
(* line.                                                                   *)
(*                                                                         *)
(* CnnRand: the number the firmware draws is the settled sample, and it is *)
(* a pixel value, for every number of clocks an I/O access may take and    *)
(* every phase at which a draw begins.                                     *)
(***************************************************************************)
EXTENDS CnnFifo, CnnRand, TLAPS

\* The widths the buffer can be given fit its memory.
LEMMA WidthRange == TypeOK => cacheWidth \in 1..cacheWidthMAX
  BY FifoAssumption DEF FifoAssumption, TypeOK

(***************************************************************************)
(* With the pointers in phase, an enabled edge of cnn_fifo moves the read  *)
(* pointer to the next ring position and the write pointer to the position *)
(* the read pointer has left.                                              *)
(***************************************************************************)
LEMMA PointersFollow ==
  ASSUME TypeOK, RingPhase
  PROVE  /\ NextPointers(cacheWidth)[1] = IF read_address = cacheWidth THEN 0 ELSE read_address + 1
         /\ NextPointers(cacheWidth)[2] = read_address
<1>1. /\ cacheWidth \in 1..cacheWidthMAX /\ read_address \in 0..cacheWidth
      /\ PtrMod \in Nat /\ PtrMod > cacheWidthMAX /\ cacheWidthMAX \in Nat
  BY WidthRange, FifoAssumption DEF FifoAssumption, RingPhase
<1>2. CASE read_address = cacheWidth
  BY <1>1, <1>2 DEF NextPointers
<1>3. CASE read_address = 0
  BY <1>1, <1>3 DEF NextPointers, RingPhase
<1>4. CASE read_address # cacheWidth /\ read_address # 0
  <2>1. /\ read_address + 1 \in 0..PtrMod-1 /\ write_address = read_address - 1
        /\ write_address # cacheWidth
    BY <1>1, <1>4 DEF RingPhase
  <2>2. /\ (read_address + 1) % PtrMod = read_address + 1
        /\ (write_address + 1) % PtrMod = read_address
    BY <1>1, <2>1
  <2> QED BY <1>1, <1>4, <2>1, <2>2 DEF NextPointers
<1> QED BY <1>2, <1>3, <1>4

\* A push keeps types and phase.
LEMMA PushKeeps ==
  ASSUME TypeOK, RingPhase, NEW d \in Data, Push(d)
  PROVE  TypeOK' /\ RingPhase'
<1> DEFINE r == NextPointers(cacheWidth)[1]
           wr == NextPointers(cacheWidth)[2]
<1>1. /\ cacheWidth \in 1..cacheWidthMAX /\ read_address \in 0..cacheWidth
      /\ PtrMod \in Nat /\ PtrMod > cacheWidthMAX /\ cacheWidthMAX \in Nat
  BY WidthRange, FifoAssumption DEF FifoAssumption, RingPhase
<1>2. /\ r = IF read_address = cacheWidth THEN 0 ELSE read_address + 1
      /\ wr = read_address
  BY PointersFollow
<1>3. /\ read_address' = r /\ write_address' = wr /\ cacheWidth' = cacheWidth
      /\ q' \in IF r <= cacheWidthMAX THEN {FIFO[r]} ELSE Data
      /\ FIFO' = [a \in 0..cacheWidthMAX |-> IF a = wr THEN d ELSE FIFO[a]]
  BY DEF Push, Shift
<1> HIDE DEF r, wr
<1>4. read_address' \in 0..cacheWidth /\ write_address' = read_address
  BY <1>1, <1>2, <1>3
<1>5. FIFO' \in [0..cacheWidthMAX -> Data] /\ q' \in Data
  BY <1>1, <1>2, <1>3 DEF TypeOK
<1>6. TypeOK'
  BY <1>1, <1>3, <1>4, <1>5 DEF TypeOK
<1>7. RingPhase'
  BY <1>1, <1>2, <1>3 DEF RingPhase
<1> QED BY <1>6, <1>7

\* An edge without clock enable keeps them too, also when it brings a new width.
LEMMA HoldKeeps ==
  ASSUME TypeOK, RingPhase, NEW w \in Widths \cup {cacheWidthMAX}, read_address <= w,
         Hold(w), cacheWidth' = w
  PROVE  TypeOK' /\ RingPhase'
<1>1. w \in 1..cacheWidthMAX /\ PtrMod \in Nat /\ PtrMod > cacheWidthMAX /\ cacheWidthMAX \in Nat
  BY FifoAssumption DEF FifoAssumption
<1>2. read_address \in 0..w
  BY <1>1 DEF TypeOK
<1>3. TypeOK'
  BY <1>1, <1>2 DEF TypeOK, Hold
<1>4. RingPhase'
  BY <1>1, <1>2 DEF RingPhase, Hold
<1> QED BY <1>3, <1>4

\* The inductive step: every step of the buffer keeps types and phase.
LEMMA NextKeeps ==
  ASSUME TypeOK /\ RingPhase, [Next]_vars
  PROVE  TypeOK' /\ RingPhase'
<1>1. ASSUME NEW d \in Data, Push(d) PROVE TypeOK' /\ RingPhase'
  BY <1>1, PushKeeps
<1>2. CASE Idle
  <2>1. cacheWidth \in Widths \cup {cacheWidthMAX} /\ read_address <= cacheWidth
    BY WidthRange DEF TypeOK, RingPhase
  <2> QED BY <1>2, <2>1, HoldKeeps DEF Idle
<1>3. ASSUME NEW w \in Widths, read_address <= w, Resize(w) PROVE TypeOK' /\ RingPhase'
  BY <1>3, HoldKeeps DEF Resize
<1>4. CASE UNCHANGED vars
  BY <1>4 DEF vars, TypeOK, RingPhase
<1> QED BY <1>1, <1>2, <1>3, <1>4 DEF Next

\* Power-up: the write pointer is one ring position behind the read pointer.
LEMMA InitKeeps == Init => TypeOK /\ RingPhase
  BY FifoAssumption DEF FifoAssumption, Init, TypeOK, RingPhase

(***************************************************************************)
(* cnn_fifo keeps its two pointers in phase on the ring of the commanded   *)
(* width, over any number of runs and width changes, as long as the read   *)
(* pointer fits each new width.                                            *)
(***************************************************************************)
THEOREM RingPhaseHolds == Spec => [](TypeOK /\ RingPhase)
<1>1. TypeOK /\ RingPhase /\ [Next]_vars => (TypeOK /\ RingPhase)'
  BY NextKeeps
<1> QED BY InitKeeps, <1>1, PTL DEF Spec

(***************************************************************************)
(* Neither pointer of cnn_fifo leaves the memory and every word of it is a *)
(* word: in particular no access of the ring is out of the range of FIFO.  *)
(***************************************************************************)
THEOREM TypesHold == Spec => []TypeOK
  BY RingPhaseHolds, PTL
-----------------------------------------------------------------------------
\* Where the words of the delay line are: in the memory, and never on the read pointer.
LEMMA SlotRange ==
  ASSUME TypeOK, RingPhase, NEW k \in 1..cacheWidth
  PROVE  Slot(k) \in 0..cacheWidth /\ Slot(k) \in 0..cacheWidthMAX /\ Slot(k) # read_address
  BY WidthRange, FifoAssumption DEF FifoAssumption, RingPhase, Slot

\* The initial states of the ring map to the initial state of the line.
LEMMA LineInit == Init => DL!Init
<1> SUFFICES ASSUME Init PROVE DL!Init
  OBVIOUS
<1>1. TypeOK /\ RingPhase
  BY InitKeeps
<1>2. ASSUME NEW k \in 1..cacheWidth PROVE FIFO[Slot(k)] = Zero
  BY <1>1, <1>2, SlotRange DEF Init
<1> QED BY <1>2 DEF Init, DL!Init

\* A push into the ring is a push into the line.
LEMMA LinePush ==
  ASSUME TypeOK, RingPhase, NEW d \in Data, Push(d)
  PROVE  DL!Push(d)
<1>1. /\ cacheWidth \in 1..cacheWidthMAX /\ read_address \in 0..cacheWidth
      /\ cacheWidthMAX \in Nat
  BY WidthRange, FifoAssumption DEF FifoAssumption, RingPhase
<1>2. /\ read_address' = IF read_address = cacheWidth THEN 0 ELSE read_address + 1
      /\ cacheWidth' = cacheWidth
      /\ read_address' <= cacheWidthMAX => q' = FIFO[read_address']
      /\ FIFO' = [a \in 0..cacheWidthMAX |-> IF a = read_address THEN d ELSE FIFO[a]]
  BY PointersFollow DEF Push, Shift
<1>3. Slot(cacheWidth) = read_address'
  BY <1>1, <1>2 DEF Slot
<1>4. q' = FIFO[Slot(cacheWidth)]
  BY <1>1, <1>2, <1>3
<1>5. ASSUME NEW k \in 1..cacheWidth
      PROVE  FIFO'[Slot(k)'] = IF k = 1 THEN d ELSE FIFO[Slot(k-1)]
  <2>1. CASE k = 1
    <3>1. Slot(k)' = read_address
      BY <1>1, <1>2, <2>1 DEF Slot
    <3> QED BY <1>1, <1>2, <2>1, <3>1
  <2>2. CASE k # 1
    <3>1. k - 1 \in 1..cacheWidth /\ Slot(k)' = Slot(k-1)
      BY <1>1, <1>2, <1>5, <2>2 DEF Slot
    <3>2. Slot(k-1) \in 0..cacheWidthMAX /\ Slot(k-1) # read_address
      BY <3>1, SlotRange
    <3> QED BY <1>2, <2>2, <3>1, <3>2
  <2> QED BY <2>1, <2>2
<1>6. \A k \in 1..cacheWidth : k # 1 => k - 1 \in 1..cacheWidth
  BY <1>1
<1>7. (cacheWidth \in 1..cacheWidth) /\ (1..cacheWidth)' = 1..cacheWidth
  BY <1>1, <1>2
<1> QED BY <1>2, <1>4, <1>5, <1>6, <1>7 DEF DL!Push

\* A width change replaces the words in the line by words.
LEMMA LineResize ==
  ASSUME TypeOK, RingPhase, NEW w \in Widths, read_address <= w, Resize(w)
  PROVE  DL!Resize(w)
<1>1. TypeOK' /\ RingPhase' /\ cacheWidth' = w /\ q' = q
  BY HoldKeeps DEF Resize, Hold
<1>2. ASSUME NEW k \in 1..w PROVE Slot(k)' \in 0..cacheWidthMAX
  <2>1. w \in 1..cacheWidthMAX /\ cacheWidthMAX \in Nat /\ k \in 1..w
    BY <1>2, FifoAssumption DEF FifoAssumption
  <2>2. read_address' \in 0..w
    BY <1>1 DEF RingPhase
  <2>3. Slot(k)' = IF k <= read_address' THEN read_address' - k
                   ELSE read_address' + w + 1 - k
    BY <1>1 DEF Slot
  <2>4. \A r \in 0..w : (IF k <= r THEN r - k ELSE r + w + 1 - k) \in 0..cacheWidthMAX
    BY <2>1
  <2> QED BY <2>2, <2>3, <2>4
<1>3. ASSUME NEW k \in 1..w PROVE FIFO'[Slot(k)'] \in Data
  BY <1>1, <1>2, <1>3 DEF TypeOK
<1> QED BY <1>1, <1>3 DEF DL!Resize

\* Every step of the ring is a step of the line, or leaves it unchanged.
LEMMA LineNext ==
  ASSUME TypeOK /\ RingPhase, [Next]_vars
  PROVE  [DL!Next]_(DL!vars)
<1>1. ASSUME NEW d \in Data, Push(d) PROVE DL!Next
  BY <1>1, LinePush DEF DL!Next
<1>2. ASSUME NEW w \in Widths, read_address <= w, Resize(w) PROVE DL!Next
  BY <1>2, LineResize DEF DL!Next
<1>3. CASE Idle \/ UNCHANGED vars
  BY <1>3 DEF Idle, Hold, vars, DL!vars, Slot
<1> QED BY <1>1, <1>2, <1>3 DEF Next

(***************************************************************************)
(* cnn_fifo implements a delay line of exactly cacheWidth words, whatever  *)
(* the memory size, the widths commanded and the position in which earlier *)
(* runs left its pointers.                                                 *)
(***************************************************************************)
THEOREM FifoImplementsDelayLine == Spec => DelayLine
<1>1. TypeOK /\ RingPhase /\ [Next]_vars => [DL!Next]_(DL!vars)
  BY LineNext
<1> QED BY LineInit, RingPhaseHolds, <1>1, PTL DEF Spec, DelayLine, DL!Spec
-----------------------------------------------------------------------------
(***************************************************************************)
(* A word of the generator: the power-up value, or one that Shifted made,  *)
(* whose six upper bits are the complement of bit 9.                       *)
(***************************************************************************)
SignExtended(w) ==
  /\ w \in Word
  /\ w = ZeroWord \/ (w[9] = 1 - w[10] /\ \A k \in 10..busWidth-1 : w[k] = w[10])

WordsInv == SignExtended(rand_temp) /\ SignExtended(rand_num) /\ SignExtended(gpi)

TypesInv ==
  /\ rand_gen \in 0..1 /\ command \in 0..1 /\ io \in 0..GapMAX
  /\ pc \in {"idle", "off", "read"}

(***************************************************************************)
(* Where the command is on its way: one clock after the write it is in     *)
(* rand_gen, two clocks after the sample is on GPI1 as well.               *)
(***************************************************************************)
Settling ==
  /\ pc = "off" => command = 1
  /\ pc = "read" => command = 0 /\ (io >= 1 => rand_gen = 0) /\ (io >= 2 => gpi = rand_num)
  /\ pc = "idle" =>
       command = 0 /\ rand_gen = 0 /\ gpi = rand_num /\ drawn = Signed(rand_num)

RandInv == TypesInv /\ WordsInv /\ Settling /\ DrawIsPixel
-----------------------------------------------------------------------------
(* The power-up word, as a number. *)
LEMMA SignedZero == ZeroWord \in Word /\ Signed(ZeroWord) = 0
  BY DEF ZeroWord, Word, Signed, busWidth

(* A word of the generator is a pixel value, at least a half away from zero. *)
LEMMA SignedIsPixel ==
  ASSUME NEW w, SignExtended(w)
  PROVE  Signed(w) \in {0} \cup (512..1023) \cup (-1024..-513)
<1>1. CASE w = ZeroWord
  BY <1>1, SignedZero
<1>2. CASE w[9] = 1 - w[10] /\ \A k \in 10..busWidth-1 : w[k] = w[10]
  <2>1. \A k \in 0..15 : w[k] \in 0..1
    BY DEF SignExtended, Word, busWidth
  <2>2. /\ w[11] = w[10] /\ w[12] = w[10] /\ w[13] = w[10]
        /\ w[14] = w[10] /\ w[15] = w[10] /\ w[9] = 1 - w[10]
    BY <1>2 DEF busWidth
  <2>3. /\ w[0] \in 0..1 /\ w[1] \in 0..1 /\ w[2] \in 0..1 /\ w[3] \in 0..1
        /\ w[4] \in 0..1 /\ w[5] \in 0..1 /\ w[6] \in 0..1 /\ w[7] \in 0..1
        /\ w[8] \in 0..1 /\ w[10] \in 0..1
    BY <2>1
  <2>4. Signed(w) = w[0] + 2 * w[1] + 4 * w[2] + 8 * w[3] + 16 * w[4] + 32 * w[5] + 64 * w[6]
                    + 128 * w[7] + 256 * w[8] + 512 - 1536 * w[10]
    BY <2>2, <2>3 DEF Signed
  <2>5. CASE w[10] = 0
    BY <2>3, <2>4, <2>5
  <2>6. CASE w[10] = 1
    BY <2>3, <2>4, <2>6
  <2> QED  BY <2>3, <2>5, <2>6
<1> QED  BY <1>1, <1>2 DEF SignExtended

(* One clock of the register makes a word of the generator of any word. *)
LEMMA ShiftedSignExtended ==
  ASSUME NEW w \in Word
  PROVE  SignExtended(Shifted(w))
<1>1. \A k \in 0..15 : w[k] \in 0..1
  BY DEF Word, busWidth
<1>2. \A a, b \in 0..1 : Xor(a, b) \in 0..1
  BY DEF Xor
<1>3. \A a \in 0..1 : Xor(a, 1) = 1 - a
  BY DEF Xor
<1>4. Shifted(w) \in Word
  BY <1>1, <1>2 DEF Shifted, Word, busWidth
<1>5. \A k \in 10..15 : Shifted(w)[k] = w[0]
  BY DEF Shifted, busWidth
<1>6. Shifted(w)[9] = 1 - w[0]
  BY <1>1, <1>3 DEF Shifted, busWidth
<1> QED  BY <1>4, <1>5, <1>6 DEF SignExtended, busWidth
-----------------------------------------------------------------------------
\* The invariant holds after power-up.
LEMMA InitRandInv == RandInit => RandInv
  BY RandAssumption, SignedZero
  DEF RandInit, RandInv, TypesInv, WordsInv, SignExtended, Settling, DrawIsPixel

(* A clock keeps the words of the generator and lets the command settle. *)
LEMMA TickRandInv == RandInv /\ Tick => RandInv'
<1> SUFFICES ASSUME RandInv, Tick PROVE RandInv'
  OBVIOUS
<1> USE RandAssumption
<1>1. TypesInv'
  BY DEF RandInv, TypesInv, Tick
<1>2. WordsInv'
  <2>1. SignExtended(rand_temp')
    BY ShiftedSignExtended DEF RandInv, WordsInv, SignExtended, Tick
  <2>2. SignExtended(rand_num') /\ SignExtended(gpi')
    BY DEF RandInv, WordsInv, Tick
  <2> QED  BY <2>1, <2>2 DEF WordsInv, SignExtended
<1>3. ASSUME pc = "off" PROVE Settling'
  BY <1>3 DEF RandInv, Settling, Tick
<1>4. ASSUME pc = "read" PROVE Settling'
  <2>1. io' = io + 1 /\ io \in Nat
    BY <1>4 DEF RandInv, TypesInv, Tick
  <2>2. command' = 0 /\ rand_gen' = 0
    BY <1>4 DEF RandInv, Settling, Tick
  <2>3. io' >= 2 => gpi' = rand_num'
    BY <1>4, <2>1 DEF RandInv, Settling, Tick
  <2> QED  BY <1>4, <2>2, <2>3 DEF Settling, Tick
<1>5. ASSUME pc = "idle" PROVE Settling'
  BY <1>5 DEF RandInv, Settling, Tick
<1>6. Settling'
  BY <1>3, <1>4, <1>5 DEF RandInv, TypesInv, Settling, Tick
<1> QED  BY <1>1, <1>2, <1>6 DEF RandInv, DrawIsPixel, Tick

(* The three accesses of one draw. *)
LEMMA AccessRandInv == RandInv /\ (GenerateOn \/ GenerateOff \/ Read) => RandInv'
<1> SUFFICES ASSUME RandInv, GenerateOn \/ GenerateOff \/ Read PROVE RandInv'
  OBVIOUS
<1> USE RandAssumption
<1>1. WordsInv' /\ TypesInv'
  BY DEF RandInv, WordsInv, SignExtended, TypesInv, GenerateOn, GenerateOff, Read, Access
<1>2. CASE GenerateOn
  BY <1>1, <1>2 DEF RandInv, Settling, DrawIsPixel, GenerateOn, Access
<1>3. CASE GenerateOff
  BY <1>1, <1>3 DEF RandInv, Settling, DrawIsPixel, GenerateOff, Access
<1>4. CASE Read
  <2>1. io \in Int /\ io >= 2 /\ pc = "read"
    BY <1>4 DEF Read, Access, RandInv, TypesInv
  <2>2. command = 0 /\ rand_gen = 0 /\ gpi = rand_num
    BY <2>1 DEF RandInv, Settling
  <2>3. Settling'
    BY <1>4, <2>2 DEF Settling, Read, Access
  <2>4. DrawIsPixel'
    BY <1>4, SignedIsPixel DEF DrawIsPixel, Read, RandInv, WordsInv
  <2> QED  BY <1>1, <2>3, <2>4 DEF RandInv
<1> QED  BY <1>2, <1>3, <1>4

(***************************************************************************)
(* The inductive invariant of the generator and the firmware's draw.       *)
(***************************************************************************)
THEOREM RandInvariant == RandSpec => []RandInv
<1>1. RandInv /\ [RandNext]_randVars => RandInv'
  <2>1. CASE UNCHANGED randVars
    BY <2>1 DEF randVars, RandInv, TypesInv, WordsInv, SignExtended, Settling, DrawIsPixel
  <2> QED  BY <2>1, TickRandInv, AccessRandInv DEF RandNext
<1> QED  BY <1>1, InitRandInv, PTL DEF RandSpec

(***************************************************************************)
(* DrawSettled: what rand_num_generate returns is the settled sample and   *)
(* what rand_num_read returns until the next draw, however many clocks     *)
(* (two or more) pass between the writes of the command and the read.      *)
(***************************************************************************)
THEOREM DrawSettledHolds == RandSpec => []DrawSettled
<1>1. RandInv => DrawSettled
  BY DEF RandInv, Settling, DrawSettled
<1> QED  BY <1>1, RandInvariant, PTL

(***************************************************************************)
(* DrawIsPixel: a drawn number is a pixel value and never nearer to zero   *)
(* than a half: the word that cnn_rand shifts extends its sign.            *)
(***************************************************************************)
THEOREM DrawIsPixelHolds == RandSpec => []DrawIsPixel
<1>1. RandInv => DrawIsPixel
  BY DEF RandInv
<1> QED  BY <1>1, RandInvariant, PTL
=============================================================================
