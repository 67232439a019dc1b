------------------------------ MODULE CnnRand ------------------------------
(***************************************************************************)
(* cnn_rand.vhd, the random number generator, with its register in         *)
(* cnn_commands.vhd, its feedback on GPI1 and the firmware's               *)
(* rand_num_generate and rand_num_read.  (No algorithm calls them yet.)    *)
(***************************************************************************)
EXTENDS Integers

CONSTANTS
  IoCycles,   \* fewest clocks between two I/O accesses of the firmware
  GapMAX,     \* bound: most clocks between two accesses of one draw
  DrawAt      \* bound: phases of the register at which a draw may begin

ASSUME RandAssumption ==
  /\ IoCycles \in Nat /\ IoCycles >= 2   \* an I/O access takes at least two clocks
  /\ GapMAX \in Nat /\ IoCycles <= GapMAX
  /\ DrawAt \subseteq 0..1022

busWidth == 16

VARIABLES
  rand_temp, rand_num,   \* the shift register and its sample, bit by bit
  rand_gen,              \* register of cnn_commands
  command,               \* GPO1: the CMD_RAND_GEN data last written
  gpi,                   \* GPI1(31..16), as last sampled by the I/O module
  pc, io,                \* firmware: next step, clocks since the last access
  drawn,                 \* firmware: what rand_num_generate returned
  clocks                 \* history: clocks since power-up, modulo 1023

randVars == <<rand_temp, rand_num, rand_gen, command, gpi, pc, io, drawn, clocks>>

Word == [0..busWidth-1 -> 0..1]
ZeroWord == [k \in 0..busWidth-1 |-> 0]

\* A word as the signed number the firmware takes it for (an s16).
Signed(w) ==
  w[0] + 2 * w[1] + 4 * w[2] + 8 * w[3] + 16 * w[4] + 32 * w[5] + 64 * w[6] + 128 * w[7]
  + 256 * w[8] + 512 * w[9] + 1024 * w[10] + 2048 * w[11] + 4096 * w[12] + 8192 * w[13]
  + 16384 * w[14] - 32768 * w[15]

RandInit ==
  /\ rand_temp = ZeroWord /\ rand_num = ZeroWord /\ gpi = ZeroWord
  /\ rand_gen = 0 /\ command = 0
  /\ pc = "idle" /\ io = 0 /\ drawn = 0 /\ clocks = 0
-----------------------------------------------------------------------------
Xor(a, b) == (a + b) % 2

ShiftedNoTap(w) ==                                            \* mutant
  [k \in 0..busWidth-1 |-> CASE k >= 10 -> w[0]
                             [] k = 9   -> Xor(w[0], 1)
                             [] k = 6   -> w[7]
                             [] OTHER   -> w[k+1]]

ShiftedSignKept(w) ==                                         \* mutant
  [k \in 0..busWidth-1 |-> CASE k >= 10 -> Xor(w[0], 1)
                             [] k = 9   -> Xor(w[0], 1)
                             [] k = 6   -> Xor(w[7], w[0])
                             [] OTHER   -> w[k+1]]

\* The Galois register in the low ten bits, sign bits above it.
Shifted(w) ==
  [k \in 0..busWidth-1 |-> CASE k >= 10 -> w[0]
                             [] k = 9   -> Xor(w[0], 1)
                             [] k = 6   -> Xor(w[7], w[0])
                             [] OTHER   -> w[k+1]]

Tick ==
  /\ rand_temp' = Shifted(rand_temp)
  /\ rand_num' = IF rand_gen = 1 THEN rand_temp ELSE rand_num
  /\ rand_gen' = command
  /\ gpi' = rand_num
  /\ pc # "idle" => io < GapMAX
  /\ io' = IF io < GapMAX THEN io + 1 ELSE io
  /\ clocks' = (clocks + 1) % 1023
  /\ UNCHANGED <<command, pc, drawn>>

\* One I/O access of the firmware.
Access(from, to) ==
  /\ pc = from /\ pc' = to
  /\ io >= IoCycles /\ io' = 0
  /\ UNCHANGED <<rand_temp, rand_num, rand_gen, gpi, clocks>>

\* rand_num_generate: command_write(CMD_RAND_GEN, 1), command_write(CMD_RAND_GEN, 0), read.
GenerateOn ==
  clocks \in DrawAt /\ Access("idle", "off") /\ command' = 1 /\ UNCHANGED drawn

GenerateOffLate == Access("off", "read") /\ UNCHANGED <<command, drawn>>   \* mutant

GenerateOff == Access("off", "read") /\ command' = 0 /\ UNCHANGED drawn

Read == Access("read", "idle") /\ drawn' = Signed(gpi) /\ UNCHANGED command

RandNext == Tick \/ GenerateOn \/ GenerateOff \/ Read

RandSpec == RandInit /\ [][RandNext]_randVars
-----------------------------------------------------------------------------
(***************************************************************************)
(* FullPeriod: the register comes back to its power-up value after exactly *)
(* 1023 clocks and not before ("period 2^n-1 = 1023"): it passes through   *)
(* 1023 different values and never reaches the one that maps to itself.    *)
(***************************************************************************)
FullPeriod == (\A k \in 0..9 : rand_temp[k] = 0) <=> clocks = 0

(***************************************************************************)
(* DrawSettled: what rand_num_generate returns is the sample in its final  *)
(* state, through the command register, the sampling register and GPI1:    *)
(* rand_num_read gives the same number until the next draw.                *)
(***************************************************************************)
DrawSettled == pc = "idle" => drawn = Signed(rand_num) /\ drawn = Signed(gpi)

(***************************************************************************)
(* DrawIsPixel: a drawn number is a pixel value, between -1.0 and 1.0      *)
(* (1024), and since the sign bits are the complement of bit 9 it is never *)
(* nearer to zero than a half.                                             *)
(***************************************************************************)
DrawIsPixel == drawn \in {0} \cup (512..1023) \cup (-1024..-513)
=============================================================================
