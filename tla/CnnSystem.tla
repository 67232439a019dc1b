----------------------------- MODULE CnnSystem -----------------------------
(***************************************************************************)
(* The processor's control driven by the firmware: cnn_commands.vhd (the   *)
(* command registers behind GPO1), the ready flag behind GPI1, and the     *)
(* MicroBlaze program: main.c's command loop, header_read, cnn_driver and  *)
(* the algorithms built from it.                                           *)
(*                                                                         *)
(* Firmware and processor run concurrently on one clock.  The firmware is  *)
(* a sequence of I/O operations prog still to be done; it does one at a    *)
(* time, any number of clocks apart but never closer than IoCycles.  The   *)
(* board's reset button restarts the firmware and clears GPO1 and touches  *)
(* nothing else: neither cnn_commands nor the processor is reset by it.    *)
(***************************************************************************)
EXTENDS CnnStateMachine, Sequences

CONSTANTS
  IoCycles,    \* fewest clocks between two I/O accesses of the firmware
  HostIters,   \* iteration counts in the host's headers
  LearnLoops,  \* learning loop counts in the host's headers
  alg2Iter,    \* iteration count algorithm2 gives its first run (100 in the code)
  MaxResets    \* bound: presses of the board's reset button

ASSUME SystemAssumption ==
  /\ IoCycles \in Nat /\ IoCycles >= 2 /\ MaxResets \in Nat
  /\ HostIters \subseteq Nat /\ LearnLoops \subseteq Nat
  /\ alg2Iter \in 0..iterMAX

VARIABLES
  prog,        \* I/O operations the firmware has still to do; <<>>: in the main loop
  io,          \* clocks since the last I/O operation, up to IoCycles
  command,     \* GPO1: <<command address, data>>
  gpi,         \* GPI1(0): ready, as last sampled by the I/O module
  image,       \* the firmware's image.width, .height and cnn.iter_cnt, .learn_loop
  resets,      \* presses of the reset button so far
  passes,      \* history: passes since the machine left X_OLD_U_INIT, up to PassesMAX
  fresh        \* history: a run has finished since cnn_driver last loaded an image

firmware == <<prog, io, command, gpi, image, resets, passes, fresh>>
sysVars == <<vars, firmware>>

CMD_NULL == 0
CMD_CACHE_WIDTH == 1
CMD_CACHE_HEIGHT == 2
CMD_TS == 3
CMD_ITER_CNT == 4
CMD_STATE_RST == 6

\* Bound on the history variable passes: one more than the most a run should make.
PassesMAX == iterMAX + 2

Command(address_, value) == <<"command", address_, value>>
Template == <<"template_set", 0, 0>>
Load == <<"l2cache_write", 0, 0>>
Poll == <<"ready_read", 0, 0>>
ReadBack == <<"l2cache_read", 0, 0>>
ErrorGet == <<"error_get", 0, 0>>
-----------------------------------------------------------------------------
\* Mutants.
SetDimensionsAllowedMax(w, h) ==
  w > 0 /\ w <= cacheWidthMAX /\ h > 0 /\ h <= cacheHeightMAX

CnnDriverNoPulse(img, n) ==
  <<Command(CMD_CACHE_WIDTH, img.width), Command(CMD_CACHE_HEIGHT, img.height),
    Command(CMD_TS, 0), Command(CMD_ITER_CNT, n), Template, Load,
    Command(CMD_STATE_RST, 0), Poll, ReadBack>>

CnnDriverHeld(img, n) ==
  <<Command(CMD_CACHE_WIDTH, img.width), Command(CMD_CACHE_HEIGHT, img.height),
    Command(CMD_TS, 0), Command(CMD_ITER_CNT, n), Template, Load,
    Command(CMD_STATE_RST, 0), Command(CMD_STATE_RST, 1), Poll, ReadBack>>

CnnDriverNoPoll(img, n) ==
  <<Command(CMD_CACHE_WIDTH, img.width), Command(CMD_CACHE_HEIGHT, img.height),
    Command(CMD_TS, 0), Command(CMD_ITER_CNT, n), Template, Load,
    Command(CMD_STATE_RST, 1), Command(CMD_STATE_RST, 0), ReadBack>>

CnnDriverLateLoad(img, n) ==
  <<Command(CMD_CACHE_WIDTH, img.width), Command(CMD_CACHE_HEIGHT, img.height),
    Command(CMD_TS, 0), Command(CMD_ITER_CNT, n), Template,
    Command(CMD_STATE_RST, 1), Command(CMD_STATE_RST, 0), Load, Poll, ReadBack>>
-----------------------------------------------------------------------------
\* l2cache_setdimensions: its bounds are strict, so it ignores the largest image.
SetDimensionsAllowed(w, h) ==
  w > 0 /\ w < cacheWidthMAX /\ h > 0 /\ h < cacheHeightMAX

\* init_system, as seen from the processor.
InitSystem ==
  (IF SetDimensionsAllowed(cacheWidthMAX, cacheHeightMAX)
   THEN <<Command(CMD_CACHE_WIDTH, cacheWidthMAX), Command(CMD_CACHE_HEIGHT, cacheHeightMAX)>>
   ELSE <<>>) \o <<Command(CMD_STATE_RST, 1)>>

\* header_read.
HeaderRead(img) ==
  <<Command(CMD_STATE_RST, 1),
    Command(CMD_CACHE_WIDTH, img.width), Command(CMD_CACHE_HEIGHT, img.height),
    Command(CMD_TS, 0), Command(CMD_ITER_CNT, img.iter_cnt)>>

\* cnn_driver, with n as its iter_cnt argument.
CnnDriver(img, n) ==
  <<Command(CMD_CACHE_WIDTH, img.width), Command(CMD_CACHE_HEIGHT, img.height),
    Command(CMD_TS, 0), Command(CMD_ITER_CNT, n), Template, Load,
    Command(CMD_STATE_RST, 1), Command(CMD_STATE_RST, 0), Poll, ReadBack>>

\* cnn_commands: the registers follow the command on GPO1 at every clock.
CommandClock ==
  /\ cacheWidth' = IF command[1] = CMD_CACHE_WIDTH THEN command[2] ELSE cacheWidth
  /\ cacheHeight' = IF command[1] = CMD_CACHE_HEIGHT THEN command[2] ELSE cacheHeight
  /\ iter_cnt' = IF command[1] = CMD_ITER_CNT THEN command[2] ELSE iter_cnt
  /\ rst' = IF command[1] = CMD_STATE_RST THEN command[2] = 1 ELSE rst

\* One clock of the whole chip.
Tick ==
  /\ Clock /\ CommandClock
  /\ gpi' = ready
  /\ io' = IF io < IoCycles THEN io + 1 ELSE io
  /\ passes' = IF StartRun THEN 0
               ELSE IF FinishPosition /\ init_state = 0 /\ ii' = patchWH /\ jj' = 1
               THEN IF passes < PassesMAX THEN passes + 1 ELSE passes
               ELSE passes
  /\ fresh' = (fresh \/ (ready' /\ ~ready))
  /\ UNCHANGED <<prog, command, image, resets>>
-----------------------------------------------------------------------------
\* The firmware's next I/O operation is op.
Does(op) ==
  /\ prog # <<>> /\ Head(prog)[1] = op[1]
  /\ io = IoCycles /\ io' = 0
  /\ UNCHANGED <<vars, gpi, image, resets, passes>>

CommandWrite ==
  /\ Does(Command(0, 0))
  /\ command' = Tail(Head(prog))
  /\ prog' = Tail(prog)
  /\ UNCHANGED fresh

\* template_set, the loops over l2cache_*_write and l2cache_x_read, and error_get.
Access ==
  /\ \E op \in {Template, Load, ReadBack, ErrorGet} : Does(op)
  /\ prog' = Tail(prog)
  /\ fresh' = (fresh /\ Head(prog) # Load)
  /\ UNCHANGED command

\* while (ready_read() == 0);
ReadyRead ==
  /\ Does(Poll)
  /\ prog' = IF gpi THEN Tail(prog) ELSE prog
  /\ UNCHANGED <<command, fresh>>

\* main, case 0: header_read; the firmware stores the host's iteration count less one.
ReceiveHeader ==
  /\ prog = <<>>
  /\ \E d \in Dims, n \in HostIters, l \in LearnLoops :
       image' = [width |-> d[1], height |-> d[2],
                 iter_cnt |-> (n - 1) % (iterMAX + 1), learn_loop |-> l]
  /\ prog' = HeaderRead(image')
  /\ UNCHANGED <<vars, io, command, gpi, resets, passes, fresh>>

\* The body of a learning loop, learn_loop times.
Repeat(body, n) == [k \in 1..n*Len(body) |-> body[((k - 1) % Len(body)) + 1]]

algorithm1 == CnnDriver(image, image.iter_cnt)

algorithm2 ==
  CnnDriver(image, alg2Iter) \o CnnDriver(image, 1) \o CnnDriver(image, 1)
    \o CnnDriver(image, 1)

algorithm3 ==
  Repeat(CnnDriver(image, image.iter_cnt) \o <<ErrorGet>>, image.learn_loop)

algorithm4 ==
  Repeat(CnnDriver(image, image.iter_cnt) \o <<ErrorGet>>
           \o CnnDriver(image, image.iter_cnt), image.learn_loop)

\* template_update_2d reads the error sums once more.
algorithm5 ==
  Repeat(CnnDriver(image, image.iter_cnt) \o <<ErrorGet, ErrorGet>>, image.learn_loop)

\* main, case 2: algorithm_run.
RunAlgorithm ==
  /\ prog = <<>>
  /\ prog' \in {algorithm1, algorithm2, algorithm3, algorithm4, algorithm5}
  /\ UNCHANGED <<vars, io, command, gpi, image, resets, passes, fresh>>

\* main, case 4: error_send.
SendError ==
  /\ prog = <<>> /\ prog' = <<ErrorGet>>
  /\ UNCHANGED <<vars, io, command, gpi, image, resets, passes, fresh>>

\* init_image and init_cnn.
InitImage(l) ==
  [width |-> cacheWidthMAX, height |-> cacheHeightMAX, iter_cnt |-> 3, learn_loop |-> l]

\* The reset button: only the MicroBlaze system has it as an input.
BoardReset ==
  /\ resets < MaxResets /\ resets' = resets + 1
  /\ prog' = InitSystem /\ io' = 0 /\ command' = <<CMD_NULL, 0>>
  /\ image' \in {InitImage(l) : l \in LearnLoops}
  /\ UNCHANGED <<vars, gpi, passes, fresh>>

SystemInit ==
  /\ Init
  /\ prog = InitSystem /\ io = 0 /\ command = <<CMD_NULL, 0>> /\ gpi = FALSE
  /\ image \in {InitImage(l) : l \in LearnLoops}
  /\ resets = 0 /\ passes = 0 /\ fresh = FALSE

Io == CommandWrite \/ Access \/ ReadyRead

SystemNext == Tick \/ Io \/ ReceiveHeader \/ RunAlgorithm \/ SendError \/ BoardReset

SystemSpec == SystemInit /\ [][SystemNext]_sysVars

(***************************************************************************)
(* The clock never stops, and the MicroBlaze, which has no interrupts and  *)
(* nothing to wait for but ready, keeps executing.                         *)
(***************************************************************************)
SystemFairSpec == SystemSpec /\ WF_sysVars(Tick) /\ WF_sysVars(Io)
-----------------------------------------------------------------------------
\* The firmware may do the operation op now.
CpuAt(op) == prog # <<>> /\ Head(prog) = op /\ io = IoCycles

(***************************************************************************)
(* ConfigStable: image size and iteration count never change under a run   *)
(* in progress, even when the reset button restarts the firmware in the    *)
(* middle of it.                                                           *)
(***************************************************************************)
ConfigStable ==
  [][Running /\ ~rst => UNCHANGED <<cacheWidth, cacheHeight, iter_cnt>>]_sysVars

(***************************************************************************)
(* CacheOwnership: while the firmware writes the template registers, loads *)
(* the L2 caches, reads the result back or reads the error sums, the       *)
(* machine is neither reading nor writing them: the dual-ported caches     *)
(* have no arbitration, and the AU takes the template at every pixel.      *)
(***************************************************************************)
CacheOwnership ==
  (\E op \in {Template, Load, ReadBack, ErrorGet} : CpuAt(op)) => ~Running /\ ~x_we

(***************************************************************************)
(* ResultFresh: cnn_driver never takes the ready flag of an earlier run    *)
(* for the end of the one it has just started: what it reads back is the   *)
(* result for the image it has loaded.                                     *)
(***************************************************************************)
ResultFresh == CpuAt(ReadBack) => fresh

(***************************************************************************)
(* PassCount: until the reset button is first used, a finished run has     *)
(* made iter_cnt+1 passes over the image, the number of iterations the     *)
(* host asked for in its header.  (rst does not clear iter: a run after a  *)
(* reset in mid-run makes fewer.)                                          *)
(***************************************************************************)
PassCount == CpuAt(ReadBack) /\ resets = 0 => passes = iter_cnt + 1

(***************************************************************************)
(* MachineContract: until the reset button is first used, the firmware     *)
(* treats the machine as CnnStateMachine's environment does: across        *)
(* headers, algorithms and learning loops of any sizes, its stores stay in *)
(* the image and it never waits for the AU.                                *)
(***************************************************************************)
MachineContract == resets = 0 => StoresInImage /\ NeverStalls

\* A reset has left alu_calc high outside the one clock of its pulse.
Wedged == alu_calc /\ ~(state = "X_NEW_WRITE" /\ cache_wr_lag = 1)

(***************************************************************************)
(* ReturnsUnlessWedged: the firmware always comes back to its command      *)
(* loop, wherever resets cut runs short and whatever iter they leave,      *)
(* except after a reset in the very clock in which alu_calc is high.       *)
(***************************************************************************)
ReturnsUnlessWedged == []<>(prog = <<>> \/ Wedged)

(***************************************************************************)
(* MainLoopReturns: the firmware always comes back to its command loop; no *)
(* run leaves cnn_driver polling ready for ever.                           *)
(***************************************************************************)
MainLoopReturns == []<>(prog = <<>>)
=============================================================================
