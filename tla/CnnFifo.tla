------------------------------ MODULE CnnFifo ------------------------------
(***************************************************************************)
(* cnn_fifo.vhd: the ring buffer behind each image line of the 3x3 patch.  *)
(* It has no reset: its two pointers keep their values from one run of the *)
(* processor to the next, and the ring size is the input cacheWidth, which *)
(* the firmware rewrites for every image.                                  *)
(*                                                                         *)
(* The processor instantiates six of them with one clock enable and one    *)
(* width, so their pointers always agree; a word of this module stands for *)
(* the six words they hold at one ring position.                           *)
(***************************************************************************)
EXTENDS Integers

CONSTANTS
  cacheWidthMAX,  \* widest image, and last index of the ring's memory
  PtrMod,         \* 2^fifoCoreAddressWidth: pointers are that many bits wide
  Widths,         \* image widths the firmware may command
  Data,           \* words
  Zero            \* the word in every register at power-up

ASSUME FifoAssumption ==
  /\ cacheWidthMAX \in Nat \ {0}
  /\ PtrMod \in Nat /\ PtrMod > cacheWidthMAX
  /\ Widths \subseteq 1..cacheWidthMAX
  /\ Zero \in Data

VARIABLES
  cacheWidth,     \* input port: set by cnn_commands
  read_address,
  write_address,
  FIFO,           \* the memory, 0..cacheWidthMAX
  q               \* output register

vars == <<cacheWidth, read_address, write_address, FIFO, q>>

TypeOK ==
  /\ cacheWidth \in Widths \cup {cacheWidthMAX}
  /\ read_address \in 0..PtrMod-1
  /\ write_address \in 0..PtrMod-1
  /\ FIFO \in [0..cacheWidthMAX -> Data]
  /\ q \in Data

Init ==
  /\ cacheWidth = cacheWidthMAX
  /\ read_address = 0
  /\ write_address = cacheWidthMAX
  /\ FIFO = [a \in 0..cacheWidthMAX |-> Zero]
  /\ q = Zero
-----------------------------------------------------------------------------
\* Mutants of NextPointers and Hold used to show the properties are not vacuous.
NextPointersNoWrap(w) == <<read_address + 1, write_address + 1>>

NextPointersWriteFirst(w) ==
  IF read_address = w THEN <<0, w>>
  ELSE IF write_address = w THEN <<0, 0>>
  ELSE <<read_address + 1, write_address + 1>>

HoldNoRepair(w) == UNCHANGED <<read_address, write_address, FIFO, q>>
-----------------------------------------------------------------------------
\* The pointers after an enabled clock edge, for ring size w.
NextPointers(w) ==
  IF read_address = w THEN <<0, w>>
  ELSE IF write_address = w THEN <<1, 0>>
  ELSE <<(read_address + 1) % PtrMod, (write_address + 1) % PtrMod>>

(***************************************************************************)
(* Falling edge with ce='1'.  The memory ends at cacheWidthMAX: what a     *)
(* pointer beyond it reads is undefined, what it writes is lost.           *)
(***************************************************************************)
Shift(w, d) ==
  LET r == NextPointers(w)[1]
      wr == NextPointers(w)[2]
  IN /\ read_address' = r
     /\ write_address' = wr
     /\ q' \in IF r <= cacheWidthMAX THEN {FIFO[r]} ELSE Data
     /\ FIFO' = [a \in 0..cacheWidthMAX |-> IF a = wr THEN d ELSE FIFO[a]]

\* Falling edge with ce='0': only here does the write pointer learn of a new width.
Hold(w) ==
  /\ write_address' = IF read_address = 0 THEN w ELSE write_address
  /\ UNCHANGED <<read_address, FIFO, q>>

(***************************************************************************)
(* The firmware commands a new width while the state machine is held in    *)
(* reset or has finished; the buffer then sees at least one idle edge      *)
(* before the next push.                                                   *)
(***************************************************************************)
Resize(w) ==
  /\ cacheWidth' = w
  /\ Hold(w)

Push(d) == Shift(cacheWidth, d) /\ UNCHANGED cacheWidth

Idle == Hold(cacheWidth) /\ UNCHANGED cacheWidth

\* Every width change the firmware may make.
AnyNext ==
  \/ \E d \in Data : Push(d)
  \/ Idle
  \/ \E w \in Widths : Resize(w)

\* The width changes under which the buffer works: the read pointer fits the new ring.
Next ==
  \/ \E d \in Data : Push(d)
  \/ Idle
  \/ \E w \in Widths : read_address <= w /\ Resize(w)

AnySpec == Init /\ [][AnyNext]_vars

Spec == Init /\ [][Next]_vars
-----------------------------------------------------------------------------
(***************************************************************************)
(* PointersInRange: after any sequence of pushes, idle edges and width     *)
(* changes the pointers stay in the range they are declared with in        *)
(* cnn_fifo.vhd, the range of the memory they index.                       *)
(***************************************************************************)
PointersInRange ==
  /\ read_address \in 0..cacheWidthMAX
  /\ write_address \in 0..cacheWidthMAX

(***************************************************************************)
(* RingPhase: the write pointer follows the read pointer by one position   *)
(* of the cacheWidth+1 ring the current width defines, across width        *)
(* changes: the word overwritten by the next push is the one that has just *)
(* left.  Together with the refinement below it is what makes the fixed    *)
(* delay of cnn_fifo independent of where earlier runs left the pointers.  *)
(***************************************************************************)
RingPhase ==
  /\ read_address \in 0..cacheWidth
  /\ write_address = IF read_address = 0 THEN cacheWidth ELSE read_address - 1

\* The ring position that was written k pushes ago.
Slot(k) == IF k <= read_address THEN read_address - k
           ELSE read_address + cacheWidth + 1 - k

DL == INSTANCE CnnDelayLine WITH line <- [k \in 1..cacheWidth |-> FIFO[Slot(k)]]

(***************************************************************************)
(* DelayLine: the ring buffer implements a delay line of cacheWidth words, *)
(* whatever position earlier runs left its pointers in, as long as the     *)
(* read pointer fits each newly commanded width.                           *)
(***************************************************************************)
DelayLine == DL!Spec
=============================================================================
