-------------------------- MODULE CnnSystem_proofs --------------------------
(***************************************************************************)
(* Proofs about CnnSystem, for every cache size, image, iteration count,   *)
(* learning loop count, spacing of the firmware's accesses and number of   *)
(* presses of the reset button.                                            *)
(***************************************************************************)
EXTENDS CnnSystem, CnnStateMachine_proofs, DivisionLemmas

RST1 == Command(CMD_STATE_RST, 1)
RST0 == Command(CMD_STATE_RST, 0)

\* The register a command sets and the value it gives it.
Setting(o) ==
  \/ \E v \in 1..cacheWidthMAX : o = Command(CMD_CACHE_WIDTH, v)
  \/ \E v \in 3..cacheHeightMAX : o = Command(CMD_CACHE_HEIGHT, v)
  \/ o = Command(CMD_TS, 0)
  \/ \E v \in 0..iterMAX : o = Command(CMD_ITER_CNT, v)

OpTuples ==
  {Command(a, v) : a \in Nat, v \in Nat} \union {Template, Load, Poll, ReadBack, ErrorGet}

Op(o) == o \in {RST1, RST0, Template, Load, Poll, ReadBack, ErrorGet} \/ Setting(o)

(***************************************************************************)
(* The order of the firmware's I/O operations: a run is started by a pulse *)
(* of rst, polled for, and read back, with nothing in between.             *)
(***************************************************************************)
Follows(a, b) ==
  /\ a = RST0 <=> b = Poll
  /\ a = Poll <=> b = ReadBack
  /\ b = RST0 => a = RST1

Ordered(p) ==
  /\ \A k \in 1..Len(p) : Op(p[k])
  /\ \A k \in 1..Len(p)-1 : Follows(p[k], p[k+1])
  /\ p # <<>> => p[Len(p)] # RST0 /\ p[Len(p)] # Poll

\* The next operation of p does not depend on a run being under way.
Unconditional(p) == p # <<>> => p[1] # RST0 /\ p[1] # Poll /\ p[1] # ReadBack

ImageInv ==
  /\ image.width \in 1..cacheWidthMAX /\ image.height \in 3..cacheHeightMAX
  /\ image.iter_cnt \in 0..iterMAX /\ image.learn_loop \in Nat

\* GPO1 holds no command, a write to rst or the setting of a register.
Commanded ==
  \/ command \in {<<CMD_NULL, 0>>, <<CMD_STATE_RST, 0>>, <<CMD_STATE_RST, 1>>, <<CMD_TS, 0>>}
  \/ \E v \in 1..cacheWidthMAX : command = <<CMD_CACHE_WIDTH, v>>
  \/ \E v \in 3..cacheHeightMAX : command = <<CMD_CACHE_HEIGHT, v>>
  \/ \E v \in 0..iterMAX : command = <<CMD_ITER_CNT, v>>

ProgInv ==
  /\ prog \in Seq(OpTuples) /\ Ordered(prog)
  /\ io \in 0..IoCycles /\ rst \in BOOLEAN /\ gpi \in BOOLEAN /\ x_we \in BOOLEAN
  /\ state \in States /\ fresh \in BOOLEAN
  /\ ImageInv /\ Commanded /\ resets \in Nat

NextIs(o) == prog # <<>> /\ prog[1] = o

\* Power-up or the reset button: rst has not been written yet.
Rebooting == prog = InitSystem /\ command = <<CMD_NULL, 0>>

\* rst has just been set: the machine may still be running.
Resetting ==
  /\ command = <<CMD_STATE_RST, 1>> /\ io < 2 /\ (io = 1 => rst)
  /\ ~NextIs(Poll) /\ ~NextIs(ReadBack)

\* The machine stands still, in reset or finished; the firmware owns the caches.
Idle ==
  /\ ~x_we /\ ~NextIs(Poll) /\ ~NextIs(ReadBack)
  /\ \/ rst /\ state = "X_OLD_U_INIT" /\ command # <<CMD_STATE_RST, 0>>
     \/ ~rst /\ state = "SUCCESS" /\ command # <<CMD_STATE_RST, 1>>

\* rst has been released: the machine runs and the firmware polls.
Polling ==
  /\ NextIs(Poll) /\ command = <<CMD_STATE_RST, 0>>
  /\ \/ rst /\ state = "X_OLD_U_INIT" /\ ~x_we /\ io = 0
     \/ ~rst /\ (ready => fresh) /\ (gpi => ready /\ ~x_we)

\* ready has been seen: the result stands in the cache.
Done ==
  /\ NextIs(ReadBack) /\ command = <<CMD_STATE_RST, 0>>
  /\ ~rst /\ ready /\ ~x_we /\ fresh

DriverInv ==
  /\ Rebooting \/ Resetting \/ Idle \/ Polling \/ Done
  /\ NextIs(RST0) => command = <<CMD_STATE_RST, 1>>

(***************************************************************************)
(* Until the reset button is pressed the machine sees the environment of   *)
(* CnnStateMachine, and its iteration counter counts the passes.           *)
(***************************************************************************)
CountInv ==
  /\ ~rst /\ ~ready => NextIs(Poll)
  /\ Running => passes = iter /\ (init_state = 1 => iter = 0)
  /\ ready /\ ~rst /\ (NextIs(Poll) \/ NextIs(ReadBack)) => passes = iter_cnt + 1

SysInv ==
  /\ ProgInv /\ DriverInv
  /\ resets = 0 => IInv /\ CountInv
-----------------------------------------------------------------------------
\* The operations are told apart by their name and, for commands, by address and value.
LEMMA OpNames ==
  /\ RST1 = <<"command", 6, 1>> /\ RST0 = <<"command", 6, 0>>
  /\ RST1 # RST0
  /\ \A a, v : /\ Command(a, v)[1] = "command" /\ Command(a, v)[2] = a /\ Command(a, v)[3] = v
               /\ Tail(Command(a, v)) = <<a, v>>
  /\ Template[1] = "template_set" /\ Load[1] = "l2cache_write" /\ Poll[1] = "ready_read"
  /\ ReadBack[1] = "l2cache_read" /\ ErrorGet[1] = "error_get"
<1>1. RST1 = <<"command", 6, 1>> /\ RST0 = <<"command", 6, 0>>
  BY DEF RST1, RST0, Command, CMD_STATE_RST
<1>2. RST1 # RST0
  <2>1. RST1[3] = 1 /\ RST0[3] = 0
    BY <1>1
  <2> QED BY <2>1
<1>3. ASSUME NEW a, NEW v
      PROVE  /\ Command(a, v)[1] = "command" /\ Command(a, v)[2] = a /\ Command(a, v)[3] = v
             /\ Tail(Command(a, v)) = <<a, v>>
  BY DEF Command
<1>4. /\ Template[1] = "template_set" /\ Load[1] = "l2cache_write" /\ Poll[1] = "ready_read"
      /\ ReadBack[1] = "l2cache_read" /\ ErrorGet[1] = "error_get"
  BY DEF Template, Load, Poll, ReadBack, ErrorGet
<1> QED BY <1>1, <1>2, <1>3, <1>4

\* No two of them are the same operation.
LEMMA OpDistinct ==
  /\ \A o \in {RST1, RST0} : o[1] = "command"
  /\ \A o : Setting(o) => o[1] = "command" /\ o # RST1 /\ o # RST0
  /\ \A o \in {Template, Load, Poll, ReadBack, ErrorGet} :
        o[1] # "command" /\ ~Setting(o) /\ o # RST1 /\ o # RST0
  /\ Poll # ReadBack /\ Poll # Template /\ Poll # Load /\ Poll # ErrorGet
  /\ ReadBack # Template /\ ReadBack # Load /\ ReadBack # ErrorGet
<1>1. \A o \in {RST1, RST0} : o[1] = "command" /\ o[2] = 6
  BY OpNames
<1>2. ASSUME NEW o, Setting(o)
      PROVE  o[1] = "command" /\ o[2] # 6
  BY <1>2, OpNames DEF Setting, CMD_CACHE_WIDTH, CMD_CACHE_HEIGHT, CMD_TS, CMD_ITER_CNT
<1>3. \A o \in {Template, Load, Poll, ReadBack, ErrorGet} : o[1] # "command"
  BY OpNames
<1>4. /\ Poll # ReadBack /\ Poll # Template /\ Poll # Load /\ Poll # ErrorGet
      /\ ReadBack # Template /\ ReadBack # Load /\ ReadBack # ErrorGet
  BY OpNames
<1>5. \A o : Setting(o) => o[1] = "command" /\ o # RST1 /\ o # RST0
  BY <1>1, <1>2
<1>6. \A o \in {Template, Load, Poll, ReadBack, ErrorGet} :
        o[1] # "command" /\ ~Setting(o) /\ o # RST1 /\ o # RST0
  BY <1>1, <1>2, <1>3
<1> QED BY <1>1, <1>4, <1>5, <1>6
-----------------------------------------------------------------------------
\* What remains of an ordered program is ordered, and its head follows the operation done.
LEMMA OrderedTail ==
  ASSUME NEW p \in Seq(OpTuples), p # <<>>, Ordered(p)
  PROVE  /\ Head(p) = p[1] /\ Op(p[1])
         /\ Tail(p) \in Seq(OpTuples) /\ Ordered(Tail(p))
         /\ Tail(p) # <<>> => Follows(p[1], Tail(p)[1])
         /\ Tail(p) = <<>> => p[1] # RST0 /\ p[1] # Poll
<1> DEFINE t == Tail(p)
<1>0. /\ Len(p) \in Nat /\ Len(p) >= 1 /\ t \in Seq(OpTuples) /\ Len(t) = Len(p) - 1
      /\ Head(p) = p[1]
      /\ \A k \in 1..Len(t) : t[k] = p[k+1]
  OBVIOUS
<1>1. /\ Len(p) \in Nat /\ Len(p) >= 1 /\ t \in Seq(OpTuples) /\ Len(t) = Len(p) - 1
      /\ Head(p) = p[1]
      /\ \A k \in 1..Len(t) : t[k] = p[k+1]
      /\ t = <<>> <=> Len(p) = 1
  <2> HIDE DEF t
  <2>1. t = <<>> <=> Len(t) = 0
    BY <1>0
  <2> QED BY <1>0, <2>1
<1> HIDE DEF t
<1>2. \A k \in 1..Len(t) : Op(t[k])
  BY <1>1 DEF Ordered
<1>3. ASSUME NEW k \in 1..Len(t)-1
      PROVE  Follows(t[k], t[k+1])
  <2>1. k + 1 \in 1..Len(p)-1 /\ t[k] = p[k+1] /\ t[k+1] = p[(k+1)+1]
    BY <1>1
  <2> QED BY <2>1 DEF Ordered
<1>4. t # <<>> => t[Len(t)] # RST0 /\ t[Len(t)] # Poll
  <2>1. t # <<>> => Len(t) \in 1..Len(t) /\ Len(t) + 1 = Len(p)
    BY <1>1
  <2>2. t # <<>> => t[Len(t)] = p[Len(p)]
    BY <1>1, <2>1
  <2> QED BY <2>2 DEF Ordered
<1>5. t # <<>> => Follows(p[1], t[1])
  <2>1. t # <<>> => 1 \in 1..Len(p)-1 /\ t[1] = p[1+1]
    BY <1>1
  <2> QED BY <2>1 DEF Ordered
<1>6. t = <<>> => p[1] # RST0 /\ p[1] # Poll
  BY <1>1 DEF Ordered
<1>7. Op(p[1])
  BY <1>1 DEF Ordered
<1> QED BY <1>1, <1>2, <1>3, <1>4, <1>5, <1>6, <1>7 DEF Ordered, t

\* An operation after which the firmware waits for nothing may be followed by a new program.
LEMMA UnconditionalFollows ==
  ASSUME NEW a, NEW b, a # RST0, a # Poll, b # RST0, b # Poll, b # ReadBack
  PROVE  Follows(a, b)
  BY DEF Follows

\* Two programs in a row.
LEMMA OrderedConcat ==
  ASSUME NEW p \in Seq(OpTuples), NEW q \in Seq(OpTuples),
         Ordered(p), Unconditional(p), Ordered(q), Unconditional(q)
  PROVE  p \o q \in Seq(OpTuples) /\ Ordered(p \o q) /\ Unconditional(p \o q)
<1> DEFINE r == p \o q
<1>1. /\ r \in Seq(OpTuples) /\ Len(p) \in Nat /\ Len(q) \in Nat /\ Len(r) = Len(p) + Len(q)
      /\ \A k \in 1..Len(p) : r[k] = p[k]
      /\ \A k \in 1..Len(q) : r[Len(p) + k] = q[k]
      /\ p = <<>> <=> Len(p) = 0
      /\ q = <<>> <=> Len(q) = 0
      /\ r = <<>> <=> Len(r) = 0
  OBVIOUS
<1> HIDE DEF r
<1>2. \A k \in 1..Len(r) : \/ k \in 1..Len(p) /\ r[k] = p[k]
                           \/ k - Len(p) \in 1..Len(q) /\ r[k] = q[k - Len(p)]
  <2> SUFFICES ASSUME NEW k \in 1..Len(r), k \notin 1..Len(p)
               PROVE  k - Len(p) \in 1..Len(q) /\ r[k] = q[k - Len(p)]
    BY <1>1
  <2>1. k - Len(p) \in 1..Len(q) /\ Len(p) + (k - Len(p)) = k
    BY <1>1
  <2> QED BY <2>1, <1>1
<1>3. \A k \in 1..Len(r) : Op(r[k])
  BY <1>2 DEF Ordered
<1>4. ASSUME NEW k \in 1..Len(r)-1
      PROVE  Follows(r[k], r[k+1])
  <2>1. CASE k + 1 <= Len(p)
    <3>1. k \in 1..Len(p)-1 /\ r[k] = p[k] /\ r[k+1] = p[k+1]
      BY <2>1, <1>1
    <3> QED BY <3>1 DEF Ordered
  <2>2. CASE k = Len(p)
    <3>1. /\ p # <<>> /\ q # <<>> /\ r[k] = p[Len(p)] /\ 1 \in 1..Len(q)
          /\ k + 1 = Len(p) + 1
      BY <2>2, <1>1
    <3>2. r[k+1] = q[1]
      BY <3>1, <1>1
    <3> QED BY <3>1, <3>2, UnconditionalFollows DEF Ordered, Unconditional
  <2>3. CASE k > Len(p)
    <3> DEFINE m == k - Len(p)
    <3>1. m \in 1..Len(q)-1 /\ m + 1 \in 1..Len(q) /\ Len(p) + m = k /\ Len(p) + (m + 1) = k + 1
      BY <2>3, <1>1
    <3> HIDE DEF m
    <3>2. r[k] = q[m] /\ r[k+1] = q[m+1]
      BY <3>1, <1>1
    <3> QED BY <3>1, <3>2 DEF Ordered
  <2> QED BY <2>1, <2>2, <2>3, <1>1
<1>5. r # <<>> => r[Len(r)] # RST0 /\ r[Len(r)] # Poll
  <2>1. CASE q = <<>>
    <3>1. Len(r) = Len(p) /\ (r # <<>> => p # <<>> /\ r[Len(r)] = p[Len(p)])
      BY <2>1, <1>1
    <3> QED BY <3>1 DEF Ordered
  <2>2. CASE q # <<>>
    <3>1. r[Len(r)] = q[Len(q)]
      BY <2>2, <1>1
    <3> QED BY <2>2, <3>1 DEF Ordered
  <2> QED BY <2>1, <2>2
<1>6. Unconditional(r)
  <2>1. CASE p = <<>>
    <3>1. r # <<>> => q # <<>> /\ 1 \in 1..Len(q) /\ Len(p) + 1 = 1
      BY <2>1, <1>1
    <3>2. r # <<>> => q # <<>> /\ r[1] = q[1]
      BY <3>1, <1>1
    <3> QED BY <3>2 DEF Unconditional
  <2>2. CASE p # <<>>
    <3>1. r[1] = p[1]
      BY <2>2, <1>1
    <3> QED BY <2>2, <3>1 DEF Unconditional
  <2> QED BY <2>1, <2>2
<1> QED BY <1>1, <1>3, <1>4, <1>5, <1>6 DEF r, Ordered

\* The remainders of consecutive numbers.
LEMMA NextRemainder ==
  ASSUME NEW L \in Nat \ {0}, NEW k \in Int, NEW c \in Int, NEW m \in 1..L,
         k - 1 = L * c + (m - 1)
  PROVE  (m < L => k % L = m) /\ (m = L => k % L = 0)
<1>1. CASE m < L
  <2>1. k = m + L * c /\ m \in 0..L-1 /\ m \in Int
    BY <1>1
  <2>2. k % L = m % L
    BY <2>1, ModUnique
  <2> QED BY <1>1, <2>1, <2>2
<1>2. CASE m = L
  <2>1. L * (c + 1) = L * c + L /\ c + 1 \in Int
    OBVIOUS
  <2>2. k = 0 + L * (c + 1)
    BY <1>2, <2>1
  <2>3. k % L = 0 % L
    BY <2>1, <2>2, ModUnique
  <2>4. 0 % L = 0
    OBVIOUS
  <2> QED BY <1>2, <2>3, <2>4
<1> QED BY <1>1, <1>2

\* A learning loop: its body, any number of times.
LEMMA OrderedRepeat ==
  ASSUME NEW p \in Seq(OpTuples), Ordered(p), Unconditional(p), p # <<>>, NEW n \in Nat
  PROVE  Repeat(p, n) \in Seq(OpTuples) /\ Ordered(Repeat(p, n)) /\ Unconditional(Repeat(p, n))
<1> DEFINE L == Len(p)
           N == n * L
           r == Repeat(p, n)
<1>1. L \in Nat \ {0} /\ \A k \in 1..L : p[k] \in OpTuples
  OBVIOUS
<1> HIDE DEF L
<1>2. N \in Nat
  BY <1>1
<1>3. r = [k \in 1..N |-> p[((k - 1) % L) + 1]]
  BY DEF Repeat, L
<1> HIDE DEF N, r
<1>4. \A k \in 1..N : (k - 1) % L \in 0..L-1 /\ ((k - 1) % L) + 1 \in 1..L
  BY <1>1, <1>2
<1>5. r \in Seq(OpTuples) /\ Len(r) = N /\ \A k \in 1..N : r[k] = p[((k - 1) % L) + 1]
  <2>1. r \in [1..N -> OpTuples]
    BY <1>1, <1>3, <1>4
  <2> QED BY <1>2, <1>3, <2>1
<1>6. r = <<>> <=> N = 0
  BY <1>2, <1>5
<1>7. \A k \in 1..L : Op(p[k])
  BY DEF Ordered, L
<1>8. \A k \in 1..N : Op(r[k])
  BY <1>4, <1>5, <1>7
<1>9. ASSUME NEW k \in 1..N-1
      PROVE  Follows(r[k], r[k+1])
  <2> DEFINE m == ((k - 1) % L) + 1
             c == (k - 1) \div L
  <2>0. k - 1 \in Int /\ k \in 1..N /\ k \in Int
    BY <1>2
  <2>1. m \in 1..L /\ r[k] = p[m] /\ c \in Int /\ k - 1 = L * c + (m - 1)
    <3>1. c \in Int /\ k - 1 = L * c + ((k - 1) % L) /\ (k - 1) % L \in 0..L-1
      BY <2>0, <1>1, DivMod
    <3>2. r[k] = p[m]
      BY <2>0, <1>5
    <3> HIDE DEF c
    <3> QED BY <3>1, <3>2, <1>1
  <2>2. r[k+1] = p[(k % L) + 1]
    <3>1. k + 1 \in 1..N /\ (k + 1) - 1 = k
      BY <1>2
    <3> QED BY <3>1, <1>5
  <2> HIDE DEF m, c
  <2>3. CASE m < L
    <3>1. k % L = m
      BY <2>0, <2>1, <2>3, <1>1, NextRemainder
    <3>2. m \in 1..Len(p)-1 /\ r[k+1] = p[m+1]
      BY <2>1, <2>2, <2>3, <3>1, <1>1 DEF L
    <3> QED BY <2>1, <3>2 DEF Ordered
  <2>4. CASE m = L
    <3>1. k % L = 0
      BY <2>0, <2>1, <2>4, <1>1, NextRemainder
    <3>2. r[k] = p[Len(p)] /\ r[k+1] = p[1]
      BY <2>1, <2>2, <2>4, <3>1 DEF L
    <3> QED BY <3>2, UnconditionalFollows DEF Ordered, Unconditional
  <2> QED BY <2>1, <2>3, <2>4, <1>1
<1>10. r # <<>> => r[N] = p[L]
  <2> SUFFICES ASSUME r # <<>> PROVE r[N] = p[L]
    OBVIOUS
  <2>1. N \in 1..N /\ r[N] = p[((N - 1) % L) + 1]
    BY <1>2, <1>5, <1>6
  <2>2. N - 1 = (L - 1) + L * (n - 1) /\ n - 1 \in Int /\ L - 1 \in Int /\ N - 1 \in Int
    BY <1>1, <1>2 DEF N
  <2>3. (N - 1) % L = (L - 1) % L
    BY <2>2, <1>1, <1>2, ModUnique
  <2>4. (L - 1) % L = L - 1
    BY <1>1
  <2> QED BY <2>1, <2>3, <2>4, <1>1
<1>11. r # <<>> => r[1] = p[1]
  <2> SUFFICES ASSUME r # <<>> PROVE r[1] = p[1]
    OBVIOUS
  <2>1. 1 \in 1..N /\ r[1] = p[((1 - 1) % L) + 1]
    BY <1>2, <1>5, <1>6
  <2>2. (1 - 1) % L = 0
    BY <1>1
  <2> QED BY <2>1, <2>2
<1>12. r # <<>> => r[Len(r)] # RST0 /\ r[Len(r)] # Poll
  BY <1>5, <1>10 DEF Ordered, L
<1>13. Unconditional(r)
  BY <1>11 DEF Unconditional
<1>14. Ordered(r)
  BY <1>5, <1>8, <1>9, <1>12 DEF Ordered
<1> QED BY <1>5, <1>13, <1>14 DEF r
-----------------------------------------------------------------------------
\* The commands that set a register, and all operations, as tuples.
LEMMA OpTypes ==
  /\ \A o : Op(o) => o \in OpTuples
  /\ \A v \in 1..cacheWidthMAX : Setting(Command(CMD_CACHE_WIDTH, v))
  /\ \A v \in 3..cacheHeightMAX : Setting(Command(CMD_CACHE_HEIGHT, v))
  /\ Setting(Command(CMD_TS, 0))
  /\ \A v \in 0..iterMAX : Setting(Command(CMD_ITER_CNT, v))
  /\ \A o : Setting(o) => Op(o)
  /\ \A o \in {RST1, RST0, Template, Load, Poll, ReadBack, ErrorGet} : Op(o)
<1>1. ASSUME NEW o, Setting(o) PROVE o \in OpTuples
  BY <1>1, MachineAssumption
     DEF Setting, OpTuples, CMD_CACHE_WIDTH, CMD_CACHE_HEIGHT, CMD_TS, CMD_ITER_CNT,
         MachineAssumption
<1>2. \A o \in {RST1, RST0, Template, Load, Poll, ReadBack, ErrorGet} : o \in OpTuples
  BY DEF OpTuples, RST1, RST0, CMD_STATE_RST
<1>3. /\ \A v \in 1..cacheWidthMAX : Setting(Command(CMD_CACHE_WIDTH, v))
      /\ \A v \in 3..cacheHeightMAX : Setting(Command(CMD_CACHE_HEIGHT, v))
      /\ Setting(Command(CMD_TS, 0))
      /\ \A v \in 0..iterMAX : Setting(Command(CMD_ITER_CNT, v))
  BY DEF Setting
<1>4. \A o : Op(o) => o \in OpTuples
  BY <1>1, <1>2 DEF Op
<1> QED BY <1>3, <1>4 DEF Op

\* An operation that is neither part of starting a run nor of waiting for it.
Plain(o) == Op(o) /\ o # RST0 /\ o # Poll /\ o # ReadBack

\* Operations that are a plain read or write of a register.
LEMMA PlainOps ==
  /\ Plain(RST1) /\ Plain(Template) /\ Plain(Load) /\ Plain(ErrorGet)
  /\ \A o : Setting(o) => Plain(o)
  /\ \A a, b : Plain(a) /\ Plain(b) => Follows(a, b)
  /\ \A a : Plain(a) => Op(a)
<1>1. Plain(RST1) /\ Plain(Template) /\ Plain(Load) /\ Plain(ErrorGet)
  BY OpNames, OpDistinct, OpTypes DEF Plain
<1>2. \A o : Setting(o) => Plain(o)
  BY OpDistinct, OpTypes DEF Plain
<1> QED BY <1>1, <1>2, UnconditionalFollows DEF Plain

\* The order in which cnn_driver may issue its operations.
LEMMA DriverFollows ==
  Follows(RST1, RST0) /\ Follows(RST0, Poll) /\ Follows(Poll, ReadBack)
<1>1. /\ RST1 # RST0 /\ RST1 # Poll /\ RST1 # ReadBack /\ RST0 # Poll /\ RST0 # ReadBack
      /\ Poll # ReadBack
  BY OpNames, OpDistinct
<1> QED BY <1>1 DEF Follows

\* cnn_driver's operations are in order and it leaves no run unfinished.
LEMMA DriverOrdered ==
  ASSUME NEW img, img.width \in 1..cacheWidthMAX, img.height \in 3..cacheHeightMAX,
         NEW n \in 0..iterMAX
  PROVE  /\ CnnDriver(img, n) \in Seq(OpTuples) /\ CnnDriver(img, n) # <<>>
         /\ Ordered(CnnDriver(img, n)) /\ Unconditional(CnnDriver(img, n))
<1> DEFINE c1 == Command(CMD_CACHE_WIDTH, img.width)
           c2 == Command(CMD_CACHE_HEIGHT, img.height)
           c3 == Command(CMD_TS, 0)
           c4 == Command(CMD_ITER_CNT, n)
           d == CnnDriver(img, n)
<1>1. Plain(c1) /\ Plain(c2) /\ Plain(c3) /\ Plain(c4)
  BY OpTypes, PlainOps
<1>2. d = <<c1, c2, c3, c4, Template, Load, RST1, RST0, Poll, ReadBack>>
  BY DEF CnnDriver, RST1, RST0
<1> HIDE DEF c1, c2, c3, c4, d
<1>3. Op(RST0) /\ Op(Poll) /\ Op(ReadBack)
  BY OpTypes
<1>4. /\ c1 \in OpTuples /\ c2 \in OpTuples /\ c3 \in OpTuples /\ c4 \in OpTuples
      /\ Template \in OpTuples /\ Load \in OpTuples /\ RST1 \in OpTuples /\ RST0 \in OpTuples
      /\ Poll \in OpTuples /\ ReadBack \in OpTuples
  BY <1>1, <1>3, OpTypes, PlainOps
<1>5. d \in Seq(OpTuples) /\ Len(d) = 10 /\ d # <<>>
  BY <1>2, <1>4
<1>6. /\ d[1] = c1 /\ d[2] = c2 /\ d[3] = c3 /\ d[4] = c4 /\ d[5] = Template /\ d[6] = Load
      /\ d[7] = RST1 /\ d[8] = RST0 /\ d[9] = Poll /\ d[10] = ReadBack
  BY <1>2
<1>7. \A k \in 1..Len(d) : Op(d[k])
  <2> SUFFICES ASSUME NEW k \in 1..10 PROVE Op(d[k])
    BY <1>5
  <2>1. k \in 1..7 => Plain(d[k])
    BY <1>1, <1>6, PlainOps
  <2>2. k \in {8, 9, 10} => Op(d[k])
    BY <1>3, <1>6
  <2> QED BY <2>1, <2>2, PlainOps
<1>8. \A k \in 1..Len(d)-1 : Follows(d[k], d[k+1])
  <2> SUFFICES ASSUME NEW k \in 1..9 PROVE Follows(d[k], d[k+1])
    BY <1>5
  <2>1. \A j \in 1..7 : Plain(d[j])
    BY <1>1, <1>6, PlainOps
  <2>2. k \in 1..6 => Follows(d[k], d[k+1])
    <3>1. k \in 1..6 => k \in 1..7 /\ k + 1 \in 1..7
      OBVIOUS
    <3> QED BY <2>1, <3>1, PlainOps
  <2>3. Follows(d[7], d[8]) /\ Follows(d[8], d[9]) /\ Follows(d[9], d[10])
    BY <1>6, DriverFollows
  <2>4. k \in {7, 8, 9} => Follows(d[k], d[k+1])
    BY <2>3
  <2> QED BY <2>2, <2>4
<1>9. d[10] # RST0 /\ d[10] # Poll
  BY <1>6, OpDistinct
<1>10. Unconditional(d)
  BY <1>1, <1>6 DEF Unconditional, Plain
<1> QED BY <1>5, <1>7, <1>8, <1>9, <1>10 DEF Ordered, d

\* A program of plain operations.
LEMMA PlainOrdered ==
  ASSUME NEW p \in Seq(OpTuples), \A k \in 1..Len(p) : Plain(p[k])
  PROVE  Ordered(p) /\ Unconditional(p)
<1>1. \A k \in 1..Len(p)-1 : k \in 1..Len(p) /\ k + 1 \in 1..Len(p)
  OBVIOUS
<1>2. p # <<>> => Len(p) \in 1..Len(p) /\ 1 \in 1..Len(p)
  OBVIOUS
<1>3. \A k \in 1..Len(p) : Op(p[k])
  BY PlainOps
<1>4. \A k \in 1..Len(p)-1 : Follows(p[k], p[k+1])
  BY <1>1, PlainOps
<1> QED BY <1>2, <1>3, <1>4 DEF Ordered, Unconditional, Plain

\* init_system: l2cache_setdimensions refuses the largest image.
LEMMA InitSystemIs ==
  /\ InitSystem = <<RST1>> /\ InitSystem \in Seq(OpTuples) /\ InitSystem # <<>>
  /\ InitSystem[1] = RST1 /\ Len(InitSystem) = 1
  /\ Ordered(InitSystem) /\ Unconditional(InitSystem)
<1>1. ~SetDimensionsAllowed(cacheWidthMAX, cacheHeightMAX)
  BY MachineAssumption DEF MachineAssumption, SetDimensionsAllowed
<1>2. InitSystem = <<>> \o <<RST1>>
  BY <1>1 DEF InitSystem, RST1
<1>3. RST1 \in OpTuples
  BY OpTypes
<1>4. InitSystem = <<RST1>>
  BY <1>2, <1>3
<1>5. /\ InitSystem \in Seq(OpTuples) /\ InitSystem # <<>>
      /\ InitSystem[1] = RST1 /\ Len(InitSystem) = 1
  BY <1>3, <1>4
<1>6. \A k \in 1..Len(InitSystem) : Plain(InitSystem[k])
  BY <1>5, PlainOps
<1> QED BY <1>4, <1>5, <1>6, PlainOrdered

\* The programs of error_get keep the order of operations.
LEMMA ErrorGetOrdered ==
  /\ <<ErrorGet>> \in Seq(OpTuples) /\ Ordered(<<ErrorGet>>) /\ Unconditional(<<ErrorGet>>)
  /\ <<ErrorGet, ErrorGet>> \in Seq(OpTuples)
  /\ Ordered(<<ErrorGet, ErrorGet>>) /\ Unconditional(<<ErrorGet, ErrorGet>>)
<1>1. ErrorGet \in OpTuples /\ Plain(ErrorGet)
  BY OpTypes, PlainOps
<1>2. /\ <<ErrorGet>> \in Seq(OpTuples) /\ <<ErrorGet, ErrorGet>> \in Seq(OpTuples)
      /\ \A k \in 1..Len(<<ErrorGet>>) : Plain(<<ErrorGet>>[k])
      /\ \A k \in 1..Len(<<ErrorGet, ErrorGet>>) : Plain(<<ErrorGet, ErrorGet>>[k])
  BY <1>1
<1> QED BY <1>2, PlainOrdered

\* The program of header_read keeps the order of operations.
LEMMA HeaderOrdered ==
  ASSUME NEW img, img.width \in 1..cacheWidthMAX, img.height \in 3..cacheHeightMAX,
         img.iter_cnt \in 0..iterMAX
  PROVE  HeaderRead(img) \in Seq(OpTuples) /\ Ordered(HeaderRead(img)) /\ Unconditional(HeaderRead(img))
<1> DEFINE c1 == Command(CMD_CACHE_WIDTH, img.width)
           c2 == Command(CMD_CACHE_HEIGHT, img.height)
           c3 == Command(CMD_TS, 0)
           c4 == Command(CMD_ITER_CNT, img.iter_cnt)
           d == HeaderRead(img)
<1>1. Plain(c1) /\ Plain(c2) /\ Plain(c3) /\ Plain(c4) /\ Plain(RST1)
  BY OpTypes, PlainOps
<1>2. d = <<RST1, c1, c2, c3, c4>>
  BY DEF HeaderRead, RST1
<1> HIDE DEF c1, c2, c3, c4, d
<1>3. /\ c1 \in OpTuples /\ c2 \in OpTuples /\ c3 \in OpTuples /\ c4 \in OpTuples
      /\ RST1 \in OpTuples
  BY <1>1, OpTypes, PlainOps
<1>4. d \in Seq(OpTuples) /\ \A k \in 1..Len(d) : Plain(d[k])
  BY <1>1, <1>2, <1>3
<1> QED BY <1>4, PlainOrdered DEF d

\* Whatever the host asks for, the firmware's program is in order.
LEMMA AlgorithmOrdered ==
  ASSUME ImageInv,
         NEW p \in {algorithm1, algorithm2, algorithm3, algorithm4, algorithm5}
  PROVE  p \in Seq(OpTuples) /\ Ordered(p) /\ Unconditional(p)
<1> DEFINE Good(q) == q \in Seq(OpTuples) /\ Ordered(q) /\ Unconditional(q)
           d == CnnDriver(image, image.iter_cnt)
           d2 == CnnDriver(image, alg2Iter)
           d1 == CnnDriver(image, 1)
           e == <<ErrorGet>>
           ee == <<ErrorGet, ErrorGet>>
           n == image.learn_loop
<1>1. Good(d) /\ Good(d2) /\ Good(d1) /\ d # <<>>
  BY DriverOrdered, MachineAssumption, SystemAssumption
     DEF ImageInv, MachineAssumption, SystemAssumption
<1>2. Good(e) /\ Good(ee)
  BY ErrorGetOrdered
<1>3. n \in Nat
  BY DEF ImageInv
<1>4. /\ algorithm1 = d
      /\ algorithm2 = ((d2 \o d1) \o d1) \o d1
      /\ algorithm3 = Repeat(d \o e, n)
      /\ algorithm4 = Repeat((d \o e) \o d, n)
      /\ algorithm5 = Repeat(d \o ee, n)
  BY DEF algorithm1, algorithm2, algorithm3, algorithm4, algorithm5
<1> HIDE DEF d, d1, d2, e, ee, n
<1>5. \A q, r : Good(q) /\ Good(r) => Good(q \o r)
  BY OrderedConcat
<1>6. \A q, r : Good(q) /\ Good(r) /\ q # <<>> => q \o r # <<>>
  <2> SUFFICES ASSUME NEW q \in Seq(OpTuples), NEW r \in Seq(OpTuples), q # <<>>
               PROVE  q \o r # <<>>
    OBVIOUS
  <2>1. Len(q \o r) = Len(q) + Len(r) /\ Len(q) \in Nat /\ Len(r) \in Nat /\ Len(q) # 0
    OBVIOUS
  <2>2. Len(q \o r) # 0
    BY <2>1
  <2> QED BY <2>2
<1>7. \A q : Good(q) /\ q # <<>> => Good(Repeat(q, n))
  BY <1>3, OrderedRepeat
<1> HIDE DEF Good
<1>8. Good(algorithm1)
  BY <1>1, <1>4
<1>9. Good(algorithm2)
  <2>1. Good(d2 \o d1)
    BY <1>1, <1>5
  <2>2. Good((d2 \o d1) \o d1)
    BY <1>1, <1>5, <2>1
  <2> QED BY <1>1, <1>4, <1>5, <2>2
<1>10. Good(algorithm3)
  <2>1. Good(d \o e) /\ d \o e # <<>>
    BY <1>1, <1>2, <1>5, <1>6
  <2> QED BY <1>4, <1>7, <2>1
<1>11. Good(algorithm4)
  <2>1. Good(d \o e) /\ d \o e # <<>>
    BY <1>1, <1>2, <1>5, <1>6
  <2>2. Good((d \o e) \o d) /\ (d \o e) \o d # <<>>
    BY <1>1, <1>5, <1>6, <2>1
  <2> QED BY <1>4, <1>7, <2>2
<1>12. Good(algorithm5)
  <2>1. Good(d \o ee) /\ d \o ee # <<>>
    BY <1>1, <1>2, <1>5, <1>6
  <2> QED BY <1>4, <1>7, <2>1
<1>13. Good(p)
  BY <1>8, <1>9, <1>10, <1>11, <1>12
<1> QED BY <1>13 DEF Good
-----------------------------------------------------------------------------
\* What one clock does to the machine's state, seen from outside.
LEMMA ClockStates ==
  ASSUME state \in States, x_we \in BOOLEAN, rst \in BOOLEAN, Clock
  PROVE  /\ state' \in States /\ x_we' \in BOOLEAN
         /\ rst => state' = "X_OLD_U_INIT" /\ ~x_we'
         /\ ~rst /\ state = "X_OLD_U_INIT" => state' = "X_OLD_U_READ"
         /\ ~rst /\ state = "SUCCESS" => state' = "SUCCESS" /\ ~x_we'
<1>1. CASE Reset
  BY <1>1 DEF Reset, States
<1>2. CASE StartRun
  BY <1>2 DEF StartRun, States
<1>3. CASE AssignReadAddress
  BY <1>3 DEF AssignReadAddress, Reading, States
<1>4. CASE AssignWriteAddress
  BY <1>4 DEF AssignWriteAddress, Reading, States
<1>5. CASE PushPixel
  BY <1>5 DEF PushPixel, Reading, States
<1>6. CASE StartCalc
  BY <1>6 DEF StartCalc, progress, States
<1>7. CASE FinishPosition
  <2>1. ~rst /\ state = "X_NEW_WRITE" /\ x_we' \in BOOLEAN
    BY <1>7 DEF FinishPosition
  <2>2. state' \in {"X_OLD_U_READ", "SUCCESS"}
    BY <1>7 DEF FinishPosition, PassEnd
  <2> QED BY <2>1, <2>2 DEF States
<1>8. CASE Finished
  BY <1>8 DEF Finished, progress, States
<1> QED BY <1>1, <1>2, <1>3, <1>4, <1>5, <1>6, <1>7, <1>8 DEF Clock

\* A clock of cnn_commands: rst follows a write to it and is otherwise kept.
LEMMA CommandClockRst ==
  ASSUME CommandClock, Commanded, rst \in BOOLEAN
  PROVE  /\ rst' \in BOOLEAN
         /\ command = <<CMD_STATE_RST, 1>> => rst'
         /\ command = <<CMD_STATE_RST, 0>> => ~rst'
         /\ command # <<CMD_STATE_RST, 0>> /\ command # <<CMD_STATE_RST, 1>> => rst' = rst
         /\ command[1] = CMD_STATE_RST <=>
              command = <<CMD_STATE_RST, 0>> \/ command = <<CMD_STATE_RST, 1>>
<1> USE DEF CMD_NULL, CMD_STATE_RST, CMD_CACHE_WIDTH, CMD_CACHE_HEIGHT, CMD_ITER_CNT, CMD_TS
<1>0. <<6, 0>> # <<6, 1>>
  <2>1. <<6, 0>>[2] = 0 /\ <<6, 1>>[2] = 1
    OBVIOUS
  <2> QED BY <2>1
<1>1. CASE command = <<CMD_STATE_RST, 0>>
  <2>1. command[1] = 6 /\ command[2] = 0 /\ command # <<6, 1>>
    BY <1>0, <1>1
  <2>2. rst' = (command[2] = 1)
    BY <2>1 DEF CommandClock
  <2>3. command[2] # 1
    BY <2>1
  <2> QED BY <1>1, <2>1, <2>2, <2>3
<1>2. CASE command = <<CMD_STATE_RST, 1>>
  <2>1. command[1] = 6 /\ command[2] = 1 /\ command # <<6, 0>>
    BY <1>0, <1>2
  <2>2. rst' = TRUE
    BY <2>1 DEF CommandClock
  <2> QED BY <1>2, <2>1, <2>2
<1>3. CASE command # <<CMD_STATE_RST, 0>> /\ command # <<CMD_STATE_RST, 1>>
  <2>1. command[1] # 6
    BY <1>3 DEF Commanded
  <2> QED BY <1>3, <2>1 DEF CommandClock
<1> QED BY <1>1, <1>2, <1>3

\* The command words of a reset are distinct.
LEMMA CommandsDistinct ==
  /\ <<CMD_STATE_RST, 0>> # <<CMD_STATE_RST, 1>>
  /\ <<CMD_NULL, 0>> # <<CMD_STATE_RST, 0>> /\ <<CMD_NULL, 0>> # <<CMD_STATE_RST, 1>>
<1>1. /\ <<6, 0>>[2] = 0 /\ <<6, 1>>[2] = 1 /\ <<0, 0>>[1] = 0
      /\ <<6, 0>>[1] = 6 /\ <<6, 1>>[1] = 6
  OBVIOUS
<1> QED BY <1>1 DEF CMD_STATE_RST, CMD_NULL

\* A clock keeps firmware and machine in step.
LEMMA TickDriver ==
  ASSUME ProgInv, DriverInv, Tick
  PROVE  ProgInv' /\ DriverInv'
<1>1. /\ Clock /\ CommandClock /\ gpi' = ready
      /\ io' = (IF io < IoCycles THEN io + 1 ELSE io)
      /\ fresh' = (fresh \/ (ready' /\ ~ready))
      /\ prog' = prog /\ command' = command /\ image' = image /\ resets' = resets
  BY DEF Tick
<1>2. /\ state' \in States /\ x_we' \in BOOLEAN
      /\ rst => state' = "X_OLD_U_INIT" /\ ~x_we'
      /\ ~rst /\ state = "X_OLD_U_INIT" => state' = "X_OLD_U_READ"
      /\ ~rst /\ state = "SUCCESS" => state' = "SUCCESS" /\ ~x_we'
  BY <1>1, ClockStates DEF ProgInv
<1>3. /\ rst' \in BOOLEAN
      /\ command = <<CMD_STATE_RST, 1>> => rst'
      /\ command = <<CMD_STATE_RST, 0>> => ~rst'
      /\ command # <<CMD_STATE_RST, 0>> /\ command # <<CMD_STATE_RST, 1>> => rst' = rst
  BY <1>1, CommandClockRst DEF ProgInv
<1>4. io \in 0..IoCycles /\ IoCycles \in Nat /\ IoCycles >= 2
  BY SystemAssumption DEF ProgInv, SystemAssumption
<1>5. io' \in 0..IoCycles /\ (io < 2 => io' = io + 1) /\ (io' < 2 => io = 0 /\ io' = 1)
  BY <1>1, <1>4
<1>6. (ready' <=> state' = "SUCCESS") /\ (ready <=> state = "SUCCESS")
  BY DEF ready
<1>7. gpi' \in BOOLEAN /\ fresh' \in BOOLEAN
  BY <1>1 DEF ready, ProgInv
<1>8. ProgInv'
  BY <1>1, <1>2, <1>3, <1>5, <1>7 DEF ProgInv, ImageInv, Commanded
<1> SUFFICES DriverInv'
  BY <1>8
<1>9. \A o : NextIs(o)' <=> NextIs(o)
  BY <1>1 DEF NextIs
<1>10. (NextIs(RST0) => command = <<CMD_STATE_RST, 1>>)'
  BY <1>1, <1>9 DEF DriverInv
<1>11. CASE Rebooting
  BY <1>1, <1>10, <1>11 DEF Rebooting, DriverInv
<1>12. CASE Resetting
  <2>1. /\ command' = <<CMD_STATE_RST, 1>> /\ rst' /\ ~NextIs(Poll)' /\ ~NextIs(ReadBack)'
        /\ io' = io + 1 /\ io \in {0, 1} /\ (io = 1 => rst)
    BY <1>1, <1>3, <1>4, <1>5, <1>9, <1>12 DEF Resetting
  <2>2. CASE io = 0
    <3>1. Resetting'
      BY <2>1, <2>2 DEF Resetting
    <3> QED BY <3>1, <1>10 DEF DriverInv
  <2>3. CASE io = 1
    <3>1. Idle'
      BY <2>1, <2>3, <1>2, CommandsDistinct DEF Idle
    <3> QED BY <3>1, <1>10 DEF DriverInv
  <2> QED BY <2>1, <2>2, <2>3
<1>13. CASE Idle
  <2>1. ~NextIs(Poll)' /\ ~NextIs(ReadBack)' /\ ~x_we'
    BY <1>2, <1>9, <1>13 DEF Idle
  <2>2. CASE rst /\ state = "X_OLD_U_INIT" /\ command # <<CMD_STATE_RST, 0>>
    <3>1. rst' /\ state' = "X_OLD_U_INIT" /\ command' # <<CMD_STATE_RST, 0>>
      BY <2>2, <1>1, <1>2, <1>3
    <3>2. Idle'
      BY <2>1, <3>1 DEF Idle
    <3> QED BY <3>2, <1>10 DEF DriverInv
  <2>3. CASE ~rst /\ state = "SUCCESS" /\ command # <<CMD_STATE_RST, 1>>
    <3>1. ~rst' /\ state' = "SUCCESS" /\ command' # <<CMD_STATE_RST, 1>>
      BY <2>3, <1>1, <1>2, <1>3
    <3>2. Idle'
      BY <2>1, <3>1 DEF Idle
    <3> QED BY <3>2, <1>10 DEF DriverInv
  <2> QED BY <1>13, <2>2, <2>3 DEF Idle
<1>14. CASE Polling
  <2>1. NextIs(Poll)' /\ command' = <<CMD_STATE_RST, 0>> /\ ~rst'
    BY <1>1, <1>3, <1>9, <1>14 DEF Polling
  <2>2. (ready => fresh)'
    BY <1>1, <1>2, <1>6, <1>14 DEF Polling
  <2>3. (gpi => ready /\ ~x_we)'
    BY <1>1, <1>2, <1>6, <1>14 DEF Polling
  <2>4. Polling'
    BY <2>1, <2>2, <2>3 DEF Polling
  <2> QED BY <2>4, <1>10 DEF DriverInv
<1>15. CASE Done
  <2>1. NextIs(ReadBack)' /\ command' = <<CMD_STATE_RST, 0>> /\ ~rst' /\ ready' /\ ~x_we' /\ fresh'
    BY <1>1, <1>2, <1>3, <1>6, <1>9, <1>15 DEF Done
  <2>2. Done'
    BY <2>1 DEF Done
  <2> QED BY <2>2, <1>10 DEF DriverInv
<1> QED BY <1>11, <1>12, <1>13, <1>14, <1>15 DEF DriverInv

\* The operation at the head of the program, by its name.
LEMMA HeadOp ==
  ASSUME ProgInv, prog # <<>>
  PROVE  /\ Head(prog) = prog[1] /\ Op(prog[1])
         /\ prog[1][1] = "command" <=> prog[1] \in {RST1, RST0} \/ Setting(prog[1])
         /\ \A o \in {Template, Load, Poll, ReadBack, ErrorGet} :
              prog[1][1] = o[1] <=> prog[1] = o
         /\ Tail(prog) \in Seq(OpTuples) /\ Ordered(Tail(prog))
         /\ Tail(prog) # <<>> => Follows(prog[1], Tail(prog)[1])
         /\ Tail(prog) = <<>> => prog[1] # RST0 /\ prog[1] # Poll
<1>1. /\ Head(prog) = prog[1] /\ Op(prog[1])
      /\ Tail(prog) \in Seq(OpTuples) /\ Ordered(Tail(prog))
      /\ Tail(prog) # <<>> => Follows(prog[1], Tail(prog)[1])
      /\ Tail(prog) = <<>> => prog[1] # RST0 /\ prog[1] # Poll
  BY OrderedTail DEF ProgInv
<1> DEFINE h == prog[1]
<1>2. Op(h)
  BY <1>1
<1> HIDE DEF h
<1>3. h[1] = "command" <=> h \in {RST1, RST0} \/ Setting(h)
  BY <1>2, OpDistinct DEF Op
<1>4. \A o \in {Template, Load, Poll, ReadBack, ErrorGet} : h[1] = o[1] <=> h = o
  <2>1. CASE h \in {Template, Load, Poll, ReadBack, ErrorGet}
    BY <2>1, OpNames
  <2>2. CASE h \in {RST1, RST0} \/ Setting(h)
    BY <2>2, <1>3, OpDistinct
  <2> QED BY <1>2, <2>1, <2>2 DEF Op
<1> QED BY <1>1, <1>3, <1>4 DEF h

\* What a write to GPO1 leaves there.
LEMMA WrittenCommand ==
  /\ Tail(RST1) = <<CMD_STATE_RST, 1>> /\ Tail(RST0) = <<CMD_STATE_RST, 0>>
  /\ \A o : Setting(o) =>
       /\ \/ Tail(o) = <<CMD_TS, 0>>
          \/ \E v \in 1..cacheWidthMAX : Tail(o) = <<CMD_CACHE_WIDTH, v>>
          \/ \E v \in 3..cacheHeightMAX : Tail(o) = <<CMD_CACHE_HEIGHT, v>>
          \/ \E v \in 0..iterMAX : Tail(o) = <<CMD_ITER_CNT, v>>
       /\ Tail(o) # <<CMD_STATE_RST, 0>> /\ Tail(o) # <<CMD_STATE_RST, 1>>
<1>1. Tail(RST1) = <<CMD_STATE_RST, 1>> /\ Tail(RST0) = <<CMD_STATE_RST, 0>>
  BY OpNames DEF RST1, RST0
<1>2. ASSUME NEW o, Setting(o)
      PROVE  \/ Tail(o) = <<CMD_TS, 0>>
             \/ \E v \in 1..cacheWidthMAX : Tail(o) = <<CMD_CACHE_WIDTH, v>>
             \/ \E v \in 3..cacheHeightMAX : Tail(o) = <<CMD_CACHE_HEIGHT, v>>
             \/ \E v \in 0..iterMAX : Tail(o) = <<CMD_ITER_CNT, v>>
  BY <1>2, OpNames DEF Setting
<1>5. ASSUME NEW o, Setting(o)
      PROVE  Tail(o) # <<CMD_STATE_RST, 0>> /\ Tail(o) # <<CMD_STATE_RST, 1>>
  <2>1. PICK a, v : o = Command(a, v) /\ a \in {1, 2, 3, 4}
    BY <1>5 DEF Setting, CMD_TS, CMD_CACHE_WIDTH, CMD_CACHE_HEIGHT, CMD_ITER_CNT
  <2>2. Tail(o) = <<a, v>>
    BY <2>1, OpNames
  <2>3. <<a, v>>[1] = a /\ \A w : <<CMD_STATE_RST, w>>[1] = 6
    BY DEF CMD_STATE_RST
  <2>4. \A w : <<a, v>> # <<CMD_STATE_RST, w>>
    BY <2>1, <2>3
  <2> QED BY <2>2, <2>4
<1> QED BY <1>1, <1>2, <1>5

\* The firmware's writes to GPO1, its accesses to the caches and its polling.
LEMMA IoDriver ==
  ASSUME ProgInv, DriverInv, Io
  PROVE  ProgInv' /\ DriverInv'
<1> DEFINE h == prog[1]
           t == Tail(prog)
<1>1. /\ prog # <<>> /\ io = IoCycles /\ io' = 0
      /\ rst' = rst /\ x_we' = x_we /\ state' = state
      /\ gpi' = gpi /\ image' = image /\ resets' = resets
  BY DEF Io, CommandWrite, Access, ReadyRead, Does, vars
<1>2. /\ Head(prog) = h /\ Op(h)
      /\ h[1] = "command" <=> h \in {RST1, RST0} \/ Setting(h)
      /\ \A o \in {Template, Load, Poll, ReadBack, ErrorGet} : h[1] = o[1] <=> h = o
      /\ t \in Seq(OpTuples) /\ Ordered(t)
      /\ t # <<>> => Follows(h, t[1])
      /\ t = <<>> => h # RST0 /\ h # Poll
  BY <1>1, HeadOp
<1>3. \A o : NextIs(o) <=> h = o
  BY <1>1 DEF NextIs
<1>4. IoCycles \in Nat /\ IoCycles >= 2
  BY SystemAssumption DEF SystemAssumption
<1>5. ~Resetting
  BY <1>1, <1>4 DEF Resetting
<1>6. Rebooting => h = RST1
  BY InitSystemIs DEF Rebooting
<1>7. ready' <=> ready
  BY <1>1 DEF ready
<1> HIDE DEF h, t
<1>8. io' \in 0..IoCycles
  BY <1>1, <1>4
<1>9. CASE CommandWrite
  <2>1. /\ h \in {RST1, RST0} \/ Setting(h)
        /\ command' = Tail(h) /\ prog' = t /\ fresh' = fresh
    BY <1>2, <1>9, OpNames DEF CommandWrite, Does, t
  <2>2. \A o : NextIs(o)' <=> t # <<>> /\ t[1] = o
    BY <2>1 DEF NextIs
  <2>3. Commanded'
    BY <2>1, WrittenCommand DEF Commanded
  <2>4. ProgInv'
    BY <1>1, <1>2, <1>8, <2>1, <2>3 DEF ProgInv, ImageInv
  <2>5. h # Poll /\ h # ReadBack
    BY <2>1, OpDistinct
  <2>6. Rebooting \/ Idle
    BY <1>3, <1>5, <2>5 DEF DriverInv, Polling, Done
  <2>7. NextIs(RST0)' => h = RST1
    BY <1>2, <2>2 DEF Follows
  <2>8. (NextIs(RST0) => command = <<CMD_STATE_RST, 1>>)'
    BY <2>1, <2>7, WrittenCommand
  <2>9. ~NextIs(ReadBack)'
    BY <1>2, <2>2, <2>5 DEF Follows
  <2>10. NextIs(Poll)' <=> h = RST0
    BY <1>2, <2>2 DEF Follows
  <2>11. CASE h = RST1
    <3>1. command' = <<CMD_STATE_RST, 1>> /\ ~NextIs(Poll)'
      BY <2>1, <2>10, <2>11, WrittenCommand, OpNames
    <3>2. Resetting'
      BY <1>1, <2>9, <3>1 DEF Resetting
    <3> QED BY <2>4, <2>8, <3>2 DEF DriverInv
  <2>12. CASE h = RST0
    <3>1. command = <<CMD_STATE_RST, 1>> /\ ~Rebooting
      BY <1>3, <1>6, <2>12, OpNames DEF DriverInv
    <3>2. rst /\ state = "X_OLD_U_INIT" /\ ~x_we
      BY <2>6, <3>1 DEF Idle
    <3>3. command' = <<CMD_STATE_RST, 0>> /\ NextIs(Poll)'
      BY <2>1, <2>10, <2>12, WrittenCommand
    <3>4. Polling'
      BY <1>1, <3>2, <3>3 DEF Polling
    <3> QED BY <2>4, <2>8, <3>4 DEF DriverInv
  <2>13. CASE Setting(h)
    <3>1. h # RST1 /\ h # RST0
      BY <2>13, OpDistinct
    <3>2. Idle
      BY <1>6, <2>6, <3>1
    <3>3. command' # <<CMD_STATE_RST, 0>> /\ command' # <<CMD_STATE_RST, 1>>
      BY <2>1, <2>13, WrittenCommand
    <3>4. ~NextIs(Poll)'
      BY <2>10, <3>1
    <3>5. Idle'
      BY <1>1, <2>9, <3>2, <3>3, <3>4 DEF Idle
    <3> QED BY <2>4, <2>8, <3>5 DEF DriverInv
  <2> QED BY <2>1, <2>11, <2>12, <2>13
<1>10. CASE Access
  <2>1. /\ h \in {Template, Load, ReadBack, ErrorGet}
        /\ command' = command /\ prog' = t
        /\ fresh' = (fresh /\ h # Load)
    BY <1>2, <1>10 DEF Access, Does, t
  <2>2. \A o : NextIs(o)' <=> t # <<>> /\ t[1] = o
    BY <2>1 DEF NextIs
  <2>3. fresh' \in BOOLEAN
    BY <2>1
  <2>4. ProgInv'
    BY <1>1, <1>2, <1>8, <2>1, <2>3 DEF ProgInv, ImageInv, Commanded
  <2>5. h # RST1 /\ h # RST0 /\ h # Poll
    BY <2>1, OpDistinct
  <2>6. ~NextIs(RST0)' /\ ~NextIs(Poll)' /\ ~NextIs(ReadBack)'
    BY <1>2, <2>2, <2>5 DEF Follows
  <2>7. Idle \/ Done
    BY <1>3, <1>5, <1>6, <2>5 DEF DriverInv, Polling
  <2>8. Idle'
    <3>1. CASE Idle
      BY <1>1, <2>1, <2>6, <3>1 DEF Idle
    <3>2. CASE Done
      BY <1>1, <2>1, <2>6, <3>2, CommandsDistinct DEF Idle, Done, ready
    <3> QED BY <2>7, <3>1, <3>2
  <2> QED BY <2>4, <2>6, <2>8 DEF DriverInv
<1>11. CASE ReadyRead
  <2>1. /\ h = Poll /\ command' = command /\ fresh' = fresh
        /\ prog' = IF gpi THEN t ELSE prog
    BY <1>2, <1>11 DEF ReadyRead, Does, t
  <2>2. h # RST1 /\ h # ReadBack
    BY <2>1, OpDistinct
  <2>3. Polling
    BY <1>3, <1>5, <1>6, <2>1, <2>2 DEF DriverInv, Idle, Done
  <2>4. /\ command = <<CMD_STATE_RST, 0>> /\ ~rst
        /\ ready => fresh
        /\ gpi => ready /\ ~x_we
    BY <1>1, <1>4, <2>3 DEF Polling
  <2>5. CASE gpi
    <3>1. prog' = t
      BY <2>1, <2>5
    <3>2. \A o : NextIs(o)' <=> t # <<>> /\ t[1] = o
      BY <3>1 DEF NextIs
    <3>3. ProgInv'
      BY <1>1, <1>2, <1>8, <2>1, <3>1 DEF ProgInv, ImageInv, Commanded
    <3>4. NextIs(ReadBack)'
      BY <1>2, <2>1, <3>2 DEF Follows
    <3>5. ~NextIs(RST0)'
      BY <3>2, <3>4, OpDistinct
    <3>6. Done'
      BY <1>1, <1>7, <2>1, <2>4, <2>5, <3>4 DEF Done
    <3> QED BY <3>3, <3>5, <3>6 DEF DriverInv
  <2>6. CASE ~gpi
    <3>1. prog' = prog
      BY <2>1, <2>6
    <3>2. \A o : NextIs(o)' <=> NextIs(o)
      BY <3>1 DEF NextIs
    <3>3. ProgInv'
      BY <1>1, <1>8, <2>1, <3>1 DEF ProgInv, ImageInv, Commanded
    <3>4. Polling'
      BY <1>1, <1>3, <1>7, <2>1, <2>4, <3>2 DEF Polling
    <3>5. ~NextIs(RST0)'
      BY <1>3, <2>1, <3>2, OpDistinct
    <3> QED BY <3>3, <3>4, <3>5 DEF DriverInv
  <2> QED BY <2>5, <2>6 DEF ProgInv
<1> QED BY <1>9, <1>10, <1>11 DEF Io

\* The programs the command loop starts are in order and unconditional.
LEMMA LoopPrograms ==
  ASSUME ProgInv, ReceiveHeader \/ RunAlgorithm \/ SendError
  PROVE  /\ ImageInv'
         /\ prog' \in Seq(OpTuples) /\ Ordered(prog') /\ Unconditional(prog')
<1>2. ImageInv'
  <2>1. CASE ReceiveHeader
    <3>1. PICK d \in Dims, n \in HostIters, l \in LearnLoops :
            image' = [width |-> d[1], height |-> d[2],
                      iter_cnt |-> (n - 1) % (iterMAX + 1), learn_loop |-> l]
      BY <2>1 DEF ReceiveHeader
    <3>2. d[1] \in 1..cacheWidthMAX /\ d[2] \in 3..cacheHeightMAX
      BY MachineAssumption DEF MachineAssumption
    <3>3. n \in Nat /\ l \in Nat /\ iterMAX \in Nat
      BY MachineAssumption, SystemAssumption DEF MachineAssumption, SystemAssumption
    <3>4. (n - 1) % (iterMAX + 1) \in 0..iterMAX
      BY <3>3
    <3> QED BY <3>1, <3>2, <3>3, <3>4 DEF ImageInv
  <2>2. CASE RunAlgorithm \/ SendError
    BY <2>2 DEF RunAlgorithm, SendError, ProgInv, ImageInv
  <2> QED BY <2>1, <2>2
<1>3. prog' \in Seq(OpTuples) /\ Ordered(prog') /\ Unconditional(prog')
  <2>1. CASE ReceiveHeader
    <3>1. prog' = HeaderRead(image')
      BY <2>1 DEF ReceiveHeader
    <3> QED BY <3>1, <1>2, HeaderOrdered DEF ImageInv
  <2>2. CASE RunAlgorithm
    <3>1. ImageInv /\ prog' \in {algorithm1, algorithm2, algorithm3, algorithm4, algorithm5}
      BY <2>2 DEF RunAlgorithm, ProgInv
    <3> QED BY <3>1, AlgorithmOrdered
  <2>3. CASE SendError
    BY <2>3, ErrorGetOrdered DEF SendError
  <2> QED BY <2>1, <2>2, <2>3
<1> QED BY <1>2, <1>3

\* The command loop starts a new program only when the last one is done.
LEMMA LoopDriver ==
  ASSUME ProgInv, DriverInv, ReceiveHeader \/ RunAlgorithm \/ SendError
  PROVE  ProgInv' /\ DriverInv'
<1>1. /\ prog = <<>> /\ io' = io /\ command' = command /\ gpi' = gpi /\ fresh' = fresh
      /\ rst' = rst /\ x_we' = x_we /\ state' = state /\ resets' = resets
  BY DEF ReceiveHeader, RunAlgorithm, SendError, vars
<1>2. ImageInv' /\ prog' \in Seq(OpTuples) /\ Ordered(prog') /\ Unconditional(prog')
  BY LoopPrograms
<1>4. ProgInv'
  BY <1>1, <1>2 DEF ProgInv, Commanded
<1>5. \A o : ~NextIs(o)
  BY <1>1 DEF NextIs
<1>6. ~NextIs(RST0)' /\ ~NextIs(Poll)' /\ ~NextIs(ReadBack)'
  BY <1>2 DEF NextIs, Unconditional
<1>7. Resetting \/ Idle
  BY <1>1, <1>5, InitSystemIs DEF DriverInv, Rebooting, Polling, Done
<1>8. Resetting' \/ Idle'
  BY <1>1, <1>6, <1>7 DEF Resetting, Idle
<1> QED BY <1>4, <1>6, <1>8 DEF DriverInv

\* The reset button, and power-up.
LEMMA RebootDriver ==
  ASSUME ProgInv, BoardReset
  PROVE  ProgInv' /\ DriverInv'
<1>1. /\ prog' = InitSystem /\ io' = 0 /\ command' = <<CMD_NULL, 0>>
      /\ rst' = rst /\ x_we' = x_we /\ state' = state /\ gpi' = gpi /\ fresh' = fresh
      /\ image' \in {InitImage(l) : l \in LearnLoops} /\ resets' = resets + 1
  BY DEF BoardReset, vars
<1>2. ImageInv'
  BY <1>1, MachineAssumption, SystemAssumption
     DEF ImageInv, InitImage, MachineAssumption, SystemAssumption
<1>3. ProgInv'
  BY <1>1, <1>2, InitSystemIs, SystemAssumption DEF ProgInv, Commanded, SystemAssumption
<1>4. ~NextIs(RST0)'
  BY <1>1, InitSystemIs, OpNames DEF NextIs
<1>5. Rebooting'
  BY <1>1 DEF Rebooting
<1> QED BY <1>3, <1>4, <1>5 DEF DriverInv

\* The driver invariant holds after power-up.
LEMMA InitDriver ==
  ASSUME SystemInit
  PROVE  ProgInv /\ DriverInv
<1>1. /\ prog = InitSystem /\ io = 0 /\ command = <<CMD_NULL, 0>> /\ gpi = FALSE /\ fresh = FALSE
      /\ rst = TRUE /\ x_we = FALSE /\ state = "X_OLD_U_INIT"
      /\ image \in {InitImage(l) : l \in LearnLoops} /\ resets = 0
  BY DEF SystemInit, Init, MachineInit
<1>2. ImageInv
  BY <1>1, MachineAssumption, SystemAssumption
     DEF ImageInv, InitImage, MachineAssumption, SystemAssumption
<1>3. ProgInv
  <2>1. /\ rst \in BOOLEAN /\ gpi \in BOOLEAN /\ x_we \in BOOLEAN /\ fresh \in BOOLEAN
        /\ state \in States
    BY <1>1 DEF States
  <2>2. io \in 0..IoCycles /\ Commanded
    BY <1>1, SystemAssumption DEF Commanded, SystemAssumption
  <2>3. prog \in Seq(OpTuples) /\ Ordered(prog)
    BY <1>1, InitSystemIs
  <2> QED BY <1>1, <1>2, <2>1, <2>2, <2>3 DEF ProgInv
<1>4. ~NextIs(RST0)
  BY <1>1, InitSystemIs, OpNames DEF NextIs
<1>5. Rebooting
  BY <1>1 DEF Rebooting
<1> QED BY <1>3, <1>4, <1>5 DEF DriverInv

\* Every step keeps the driver invariant, resets of the board included.
LEMMA NextDriver ==
  ASSUME ProgInv, DriverInv, [SystemNext]_sysVars
  PROVE  ProgInv' /\ DriverInv'
<1>1. CASE UNCHANGED sysVars
  BY <1>1 DEF sysVars, firmware, vars, ProgInv, DriverInv, ImageInv, Commanded, NextIs,
     Rebooting, Resetting, Idle, Polling, Done, ready
<1> QED BY <1>1, TickDriver, IoDriver, LoopDriver, RebootDriver DEF SystemNext
-----------------------------------------------------------------------------
\* The registers of cnn_commands keep their ranges, and change only under their own command.
LEMMA CommandClockInputs ==
  ASSUME CommandClock, Commanded
  PROVE  /\ command \in {<<CMD_NULL, 0>>, <<CMD_STATE_RST, 0>>, <<CMD_STATE_RST, 1>>}
              => UNCHANGED <<cacheWidth, cacheHeight, iter_cnt>>
         /\ InputTypes => InputTypes'
<1> USE DEF CMD_NULL, CMD_STATE_RST, CMD_CACHE_WIDTH, CMD_CACHE_HEIGHT, CMD_ITER_CNT, CMD_TS
<1>1. ASSUME command \in {<<CMD_NULL, 0>>, <<CMD_STATE_RST, 0>>, <<CMD_STATE_RST, 1>>, <<CMD_TS, 0>>}
      PROVE  UNCHANGED <<cacheWidth, cacheHeight, iter_cnt>>
  <2>1. command[1] \in {0, 3, 6}
    BY <1>1
  <2> QED BY <2>1 DEF CommandClock
<1>2. ASSUME InputTypes PROVE InputTypes'
  <2>1. rst' \in BOOLEAN
    BY <1>2, CommandClockRst DEF InputTypes
  <2>2. /\ cacheWidth' \in 1..cacheWidthMAX /\ cacheHeight' \in 3..cacheHeightMAX
        /\ iter_cnt' \in 0..iterMAX
    <3>1. CASE UNCHANGED <<cacheWidth, cacheHeight, iter_cnt>>
      BY <1>2, <3>1 DEF InputTypes
    <3>2. ASSUME NEW v \in 1..cacheWidthMAX, command = <<CMD_CACHE_WIDTH, v>>
          PROVE  cacheWidth' = v /\ UNCHANGED <<cacheHeight, iter_cnt>>
      <4>1. command[1] = 1 /\ command[2] = v
        BY <3>2
      <4> QED BY <4>1 DEF CommandClock
    <3>3. ASSUME NEW v \in 3..cacheHeightMAX, command = <<CMD_CACHE_HEIGHT, v>>
          PROVE  cacheHeight' = v /\ UNCHANGED <<cacheWidth, iter_cnt>>
      <4>1. command[1] = 2 /\ command[2] = v
        BY <3>3
      <4> QED BY <4>1 DEF CommandClock
    <3>4. ASSUME NEW v \in 0..iterMAX, command = <<CMD_ITER_CNT, v>>
          PROVE  iter_cnt' = v /\ UNCHANGED <<cacheWidth, cacheHeight>>
      <4>1. command[1] = 4 /\ command[2] = v
        BY <3>4
      <4> QED BY <4>1 DEF CommandClock
    <3> QED BY <1>1, <1>2, <3>1, <3>2, <3>3, <3>4 DEF Commanded, InputTypes
  <2> QED BY <2>1, <2>2 DEF InputTypes
<1> QED BY <1>1, <1>2

(***************************************************************************)
(* A clock in reset or after the end of a run keeps the machine's own      *)
(* invariant whatever the registers do in that clock.                      *)
(***************************************************************************)
LEMMA QuietTick ==
  ASSUME IInv, Clock, rst \/ ready, InputTypes'
  PROVE  IInv'
<1>1. TypeOK /\ StoresInImage /\ PhaseInv /\ TimerInv
  BY DEF IInv
<1>2. AluClock /\ (Reset \/ Finished)
  BY DEF Clock, StartRun, AssignReadAddress, AssignWriteAddress, PushPixel, Reading, StartCalc,
         FinishPosition, ready
<1>3. ~Running
  BY <1>1 DEF PhaseInv, Running, ready
<1>4. ~x_we /\ ~alu_calc /\ x_out_ready /\ iter = 0
  BY <1>1, <1>3 DEF PhaseInv, TimerInv, StoresInImage, PositionInv, Running, TypeOK, TimerTypes
<1>5. TimerTypes' /\ x_out_ready' /\ alu_state' = ALULagMAX
  BY <1>1, <1>2, <1>4, TimerStep
<1>6. CASE Reset
  <2>1. /\ state' = "X_OLD_U_INIT" /\ iter' = 0 /\ x_we' = FALSE /\ alu_calc' = alu_calc
        /\ cache_lag' = 0 /\ cache_wr_lag' = 0
    BY <1>4, <1>6 DEF Reset
  <2>2. RasterTypes'
    BY <1>1, <1>6, SizeFacts, MachineAssumption
       DEF MachineAssumption, TypeOK, RasterTypes, Reset, States, cacheLagMAX, cacheWrLagMAX
  <2>3. AddressTypes'
    BY <1>1, <1>6, SizeFacts DEF TypeOK, AddressTypes, Reset
  <2>4. ControlTypes'
    BY <1>1, <1>6, Zenon DEF TypeOK, ControlTypes, Reset
  <2>5. StoresInImage'
    BY <2>1 DEF StoresInImage, PositionInv, StoreAddressInv, Running
  <2>6. PhaseInv' /\ TimerInv'
    BY <1>4, <1>5, <2>1 DEF PhaseInv, TimerInv, Running
  <2> QED BY <1>5, <2>2, <2>3, <2>4, <2>5, <2>6 DEF IInv, TypeOK
<1>7. CASE Finished
  <2>1. state' = "SUCCESS" /\ iter' = 0 /\ x_we' = FALSE /\ alu_calc' = alu_calc
    BY <1>4, <1>7 DEF Finished, progress
  <2>2. RasterTypes' /\ AddressTypes' /\ ControlTypes'
    BY <1>1, <1>7 DEF TypeOK, RasterTypes, AddressTypes, ControlTypes, Finished, progress,
       position, addresses
  <2>3. StoresInImage'
    BY <2>1 DEF StoresInImage, PositionInv, StoreAddressInv, Running
  <2>4. PhaseInv' /\ TimerInv'
    BY <1>4, <1>5, <2>1 DEF PhaseInv, TimerInv, Running
  <2> QED BY <1>5, <2>2, <2>3, <2>4 DEF IInv, TypeOK
<1> QED BY <1>2, <1>6, <1>7

\* How a clock of a run counts: iter goes with the passes made, from 0 to iter_cnt.
LEMMA RunningCount ==
  ASSUME IInv, Tick, ~rst, Running, passes = iter, init_state = 1 => iter = 0,
         iter_cnt' = iter_cnt
  PROVE  /\ Running' => passes' = iter' /\ (init_state' = 1 => iter' = 0)
         /\ ready' => passes' = iter_cnt' + 1
<1>1. TypeOK /\ PositionInv
  BY DEF IInv, StoresInImage
<1>2. /\ iter \in 0..iterMAX /\ iter_cnt \in 0..iterMAX /\ iter <= iter_cnt
      /\ init_state \in 0..1 /\ iterMAX \in Nat
  BY <1>1, MachineAssumption DEF TypeOK, RasterTypes, InputTypes, PositionInv, MachineAssumption
<1>3. ~StartRun /\ ~Reset /\ ~Finished
  BY DEF StartRun, Running, Reset, Finished
<1>4. passes' = IF FinishPosition /\ init_state = 0 /\ ii' = patchWH /\ jj' = 1
                THEN IF passes < PassesMAX THEN passes + 1 ELSE passes
                ELSE passes
  BY <1>3 DEF Tick
<1>5. \/ AssignReadAddress \/ AssignWriteAddress \/ PushPixel \/ StartCalc
      \/ FinishPosition
  BY <1>3 DEF Tick, Clock
<1>6. CASE ~FinishPosition
  <2>1. passes' = passes
    BY <1>4, <1>6
  <2>2. iter' = iter /\ init_state' = init_state /\ Running'
    BY <1>5, <1>6 DEF AssignReadAddress, AssignWriteAddress, PushPixel, Reading, StartCalc,
       progress, Running
  <2>3. ~ready'
    BY <2>2 DEF Running, ready
  <2> QED BY <2>1, <2>2, <2>3
<1>7. CASE FinishPosition
  <2>1. CASE ~(ii' = patchWH /\ jj' = 1)
    <3>1. passes' = passes
      BY <1>4, <2>1
    <3>2. state' = "X_OLD_U_READ" /\ iter' = iter /\ init_state' = init_state
      BY <1>7, <2>1 DEF FinishPosition
    <3>3. ~ready'
      BY <3>2 DEF ready
    <3> QED BY <3>1, <3>2, <3>3
  <2>2. CASE ii' = patchWH /\ jj' = 1
    <3>1. PassEnd
      BY <1>7, <2>2 DEF FinishPosition
    <3>2. CASE init_state = 1
      <4>1. passes' = passes
        BY <1>4, <3>2
      <4>2. state' = "X_OLD_U_READ" /\ iter' = iter /\ init_state' = 0
        BY <3>1, <3>2 DEF PassEnd
      <4>3. ~ready'
        BY <4>2 DEF ready
      <4> QED BY <4>1, <4>2, <4>3
    <3>3. CASE init_state = 0
      <4>1. passes < PassesMAX
        BY <1>2 DEF PassesMAX
      <4>2. passes' = iter + 1
        BY <1>4, <1>7, <2>2, <3>3, <4>1
      <4>3. CASE iter = iter_cnt
        <5>1. state' = "SUCCESS"
          BY <3>1, <3>3, <4>3 DEF PassEnd
        <5> QED BY <4>2, <4>3, <5>1 DEF Running
      <4>4. CASE iter # iter_cnt
        <5>1. /\ state' = "X_OLD_U_READ" /\ iter' = (iter + 1) % (iterMAX + 1)
              /\ init_state' = 0
          BY <3>1, <3>3, <4>4 DEF PassEnd
        <5>2. iter + 1 \in 0..iterMAX
          BY <1>2, <4>4
        <5>3. (iter + 1) % (iterMAX + 1) = iter + 1
          BY <1>2, <5>2
        <5>4. ~ready'
          BY <5>1 DEF ready
        <5> QED BY <4>2, <5>1, <5>3, <5>4
      <4> QED BY <4>3, <4>4
    <3> QED BY <1>2, <3>2, <3>3
  <2> QED BY <2>1, <2>2
<1> QED BY <1>6, <1>7

\* A clock before the first use of the reset button.
LEMMA TickCount ==
  ASSUME ProgInv, DriverInv, IInv, CountInv, Tick
  PROVE  IInv' /\ CountInv'
<1>1. /\ Clock /\ CommandClock /\ prog' = prog /\ command' = command
      /\ rst \in BOOLEAN /\ Commanded /\ state \in States /\ x_we \in BOOLEAN
  BY DEF Tick, ProgInv
<1>2. /\ rst' \in BOOLEAN
      /\ command = <<CMD_STATE_RST, 1>> => rst'
      /\ command = <<CMD_STATE_RST, 0>> => ~rst'
      /\ command # <<CMD_STATE_RST, 0>> /\ command # <<CMD_STATE_RST, 1>> => rst' = rst
  BY <1>1, CommandClockRst
<1>3. /\ command = <<CMD_STATE_RST, 0>> => UNCHANGED <<cacheWidth, cacheHeight, iter_cnt>>
      /\ InputTypes'
  BY <1>1, CommandClockInputs DEF IInv, TypeOK
<1>4. /\ rst => state' = "X_OLD_U_INIT"
      /\ ~rst /\ state = "X_OLD_U_INIT" => state' = "X_OLD_U_READ"
      /\ ~rst /\ state = "SUCCESS" => state' = "SUCCESS"
  BY <1>1, ClockStates
<1>5. \A o : NextIs(o)' <=> NextIs(o)
  BY <1>1 DEF NextIs
<1>6. ~(Poll = ReadBack) /\ Poll # RST1
  BY OpDistinct
<1>7. NextIs(Poll) \/ NextIs(ReadBack) => command = <<CMD_STATE_RST, 0>>
  <2>1. ASSUME NextIs(Poll) \/ NextIs(ReadBack) PROVE Polling \/ Done
    <3>1. ~Resetting /\ ~Idle
      BY <2>1 DEF Resetting, Idle
    <3>2. ~Rebooting
      BY <2>1, InitSystemIs, OpDistinct DEF Rebooting, NextIs
    <3> QED BY <3>1, <3>2 DEF DriverInv
  <2> QED BY <2>1 DEF Polling, Done
<1>8. CASE rst
  <2>1. IInv'
    BY <1>1, <1>3, <1>8, QuietTick
  <2>2. ~Running' /\ ~ready'
    BY <1>4, <1>8 DEF Running, ready
  <2>3. ~rst' => NextIs(Poll)'
    <3> SUFFICES ASSUME ~rst' PROVE NextIs(Poll)
      BY <1>5
    <3>1. command = <<CMD_STATE_RST, 0>>
      BY <1>2, <1>8
    <3>2. ~Rebooting /\ ~Resetting /\ ~Idle /\ ~Done
      BY <1>8, <3>1, CommandsDistinct DEF Rebooting, Resetting, Idle, Done
    <3> QED BY <3>2 DEF DriverInv, Polling
  <2> QED BY <2>1, <2>2, <2>3 DEF CountInv
<1>9. CASE ~rst /\ ready
  <2>1. IInv'
    BY <1>1, <1>3, <1>9, QuietTick
  <2>2. ~Running' /\ ready'
    BY <1>4, <1>9 DEF Running, ready
  <2>3. passes' = passes
    <3>1. ~StartRun /\ ~FinishPosition
      BY <1>9 DEF StartRun, FinishPosition, ready
    <3> QED BY <3>1 DEF Tick
  <2>4. (NextIs(Poll) \/ NextIs(ReadBack))' => passes' = iter_cnt' + 1
    BY <1>3, <1>5, <1>7, <1>9, <2>3 DEF CountInv
  <2> QED BY <2>1, <2>2, <2>4 DEF CountInv
<1>10. CASE ~rst /\ ~ready
  <2>1. NextIs(Poll) /\ command = <<CMD_STATE_RST, 0>>
    BY <1>7, <1>10 DEF CountInv
  <2>2. /\ rst' = rst /\ cacheWidth' = cacheWidth /\ cacheHeight' = cacheHeight
        /\ iter_cnt' = iter_cnt
    BY <1>2, <1>3, <1>10, <2>1, <1>1
  <2>3. IInv'
    BY <1>1, <2>2, NextInv DEF Next, inputs
  <2>4. /\ Running' => passes' = iter' /\ (init_state' = 1 => iter' = 0)
        /\ ready' => passes' = iter_cnt' + 1
    <3>1. CASE state = "X_OLD_U_INIT"
      <4>1. StartRun
        BY <1>1, <1>10, <3>1 DEF Clock, Reset, AssignReadAddress, AssignWriteAddress, PushPixel,
           Reading, StartCalc, FinishPosition, Finished
      <4>2. passes' = 0
        BY <4>1 DEF Tick
      <4>3. iter' = iter /\ state' = "X_OLD_U_READ"
        BY <4>1 DEF StartRun
      <4>4. iter = 0
        BY <3>1 DEF IInv, StoresInImage, PositionInv, Running
      <4>5. ~ready'
        BY <4>3 DEF ready
      <4> QED BY <4>2, <4>3, <4>4, <4>5
    <3>2. CASE Running
      BY <1>10, <2>2, <3>2, RunningCount DEF CountInv
    <3> QED BY <1>1, <1>10, <3>1, <3>2 DEF States, Running, ready
  <2> QED BY <1>5, <2>1, <2>3, <2>4 DEF CountInv
<1> QED BY <1>1, <1>8, <1>9, <1>10

\* The firmware's operations change no state of the machine.
LEMMA MachineKept ==
  ASSUME IInv, UNCHANGED vars
  PROVE  IInv' /\ (Running' <=> Running) /\ (ready' <=> ready)
<1>1. IInv'
  BY NextInv
<1>2. (Running' <=> Running) /\ (ready' <=> ready)
  BY DEF vars, Running, ready
<1> QED BY <1>1, <1>2

\* An I/O access keeps the count of passes, while the board is not reset.
LEMMA IoCount ==
  ASSUME ProgInv, DriverInv, IInv, CountInv, Io
  PROVE  IInv' /\ CountInv'
<1> DEFINE h == prog[1]
           t == Tail(prog)
<1>1. /\ prog # <<>> /\ io = IoCycles /\ UNCHANGED vars /\ passes' = passes
      /\ rst \in BOOLEAN /\ gpi \in BOOLEAN
  BY DEF Io, CommandWrite, Access, ReadyRead, Does, ProgInv
<1>2. IInv' /\ (Running' <=> Running) /\ (ready' <=> ready)
  BY <1>1, MachineKept
<1>3. /\ rst' = rst /\ iter' = iter /\ iter_cnt' = iter_cnt /\ init_state' = init_state
      /\ passes' = passes
  BY <1>1 DEF vars
<1>4. /\ Head(prog) = h
      /\ h[1] = "command" <=> h \in {RST1, RST0} \/ Setting(h)
      /\ \A o \in {Template, Load, Poll, ReadBack, ErrorGet} : h[1] = o[1] <=> h = o
      /\ t # <<>> => Follows(h, t[1])
  BY <1>1, HeadOp
<1>5. \A o : NextIs(o) <=> h = o
  BY <1>1 DEF NextIs
<1>6. ~Resetting
  BY <1>1, SystemAssumption DEF Resetting, SystemAssumption
<1>7. Rebooting => h = RST1
  BY InitSystemIs DEF Rebooting
<1>8. rst => ~Running
  BY DEF IInv, PhaseInv
<1> HIDE DEF h, t
<1> SUFFICES CountInv'
  BY <1>2
<1>9. CASE h # Poll
  <2>1. rst \/ ready
    BY <1>5, <1>9 DEF CountInv
  <2>2. ~Running'
    BY <1>2, <1>8, <2>1 DEF Running, ready
  <2>3. CommandWrite \/ Access
    BY <1>4, <1>9 DEF Io, ReadyRead, Does
  <2>4. prog' = t
    BY <2>3 DEF CommandWrite, Access, t
  <2>5. \A o : NextIs(o)' <=> t # <<>> /\ t[1] = o
    BY <2>4 DEF NextIs
  <2>6. ~NextIs(ReadBack)' /\ (NextIs(Poll)' => h = RST0)
    BY <1>4, <1>9, <2>5 DEF Follows
  <2>7. NextIs(Poll)' => rst
    <3> SUFFICES ASSUME h = RST0 PROVE rst
      BY <2>6
    <3>1. command = <<CMD_STATE_RST, 1>>
      BY <1>5 DEF DriverInv
    <3>2. h # Poll /\ h # ReadBack /\ h # RST1
      BY OpDistinct, OpNames
    <3>3. Idle
      BY <1>5, <1>6, <1>7, <3>2 DEF DriverInv, Polling, Done
    <3> QED BY <3>1, <3>3 DEF Idle
  <2> QED BY <1>2, <1>3, <2>1, <2>2, <2>6, <2>7 DEF CountInv
<1>10. CASE h = Poll
  <2>1. ReadyRead
    BY <1>4, <1>10, OpDistinct DEF Io, CommandWrite, Access, Does, Command, Template, Load,
       ReadBack, ErrorGet, Poll
  <2>2. NextIs(Poll)
    BY <1>5, <1>10
  <2>3. CASE gpi
    <3>1. prog' = t
      BY <2>1, <2>3 DEF ReadyRead, t
    <3>2. Polling
      BY <1>5, <1>6, <1>7, <1>10, <2>2, OpDistinct DEF DriverInv, Idle, Done
    <3>3. ~rst /\ ready
      BY <1>1, <2>3, <3>2, SystemAssumption DEF Polling, SystemAssumption
    <3>4. passes = iter_cnt + 1
      BY <2>2, <3>3 DEF CountInv
    <3> QED BY <1>2, <1>3, <3>3, <3>4 DEF CountInv, Running, ready
  <2>4. CASE ~gpi
    <3>1. prog' = prog
      BY <2>1, <2>4 DEF ReadyRead
    <3>2. \A o : NextIs(o)' <=> NextIs(o)
      BY <3>1 DEF NextIs
    <3> QED BY <1>2, <1>3, <3>2 DEF CountInv
  <2> QED BY <1>1, <2>3, <2>4
<1> QED BY <1>9, <1>10

\* A command of the main loop keeps the count of passes.
LEMMA LoopCount ==
  ASSUME ProgInv, DriverInv, IInv, CountInv, ReceiveHeader \/ RunAlgorithm \/ SendError
  PROVE  IInv' /\ CountInv'
<1>1. prog = <<>> /\ UNCHANGED vars /\ passes' = passes /\ ImageInv
  BY DEF ReceiveHeader, RunAlgorithm, SendError, ProgInv
<1>2. IInv' /\ (Running' <=> Running) /\ (ready' <=> ready) /\ rst' = rst
  BY <1>1, MachineKept DEF vars
<1>3. rst \/ ready
  BY <1>1 DEF CountInv, NextIs
<1>4. ~Running'
  BY <1>2, <1>3 DEF IInv, PhaseInv, Running, ready
<1>5. ~NextIs(Poll)' /\ ~NextIs(ReadBack)'
  BY LoopPrograms DEF NextIs, Unconditional
<1> QED BY <1>2, <1>3, <1>4, <1>5 DEF CountInv
-----------------------------------------------------------------------------
\* The firmware reads a result back only after it has seen ready.
LEMMA ReadBackDone ==
  ASSUME ProgInv, DriverInv, CpuAt(ReadBack)
  PROVE  Done
<1>1. prog # <<>> /\ prog[1] = ReadBack /\ io = IoCycles
  BY HeadOp DEF CpuAt
<1>2. ~Resetting
  BY <1>1, SystemAssumption DEF Resetting, SystemAssumption
<1>3. ~Rebooting /\ ~Polling /\ ~Idle
  BY <1>1, InitSystemIs, OpDistinct DEF Rebooting, Polling, Idle, NextIs
<1> QED BY <1>2, <1>3 DEF DriverInv

\* The invariant of the system holds after power-up.
LEMMA SystemInitInv == SystemInit => SysInv
<1> SUFFICES ASSUME SystemInit PROVE SysInv
  OBVIOUS
<1>1. ProgInv /\ DriverInv
  BY InitDriver
<1>2. IInv
  BY InitInv DEF SystemInit
<1>3. CountInv
  BY DEF SystemInit, Init, MachineInit, CountInv, Running, ready
<1> QED BY <1>1, <1>2, <1>3 DEF SysInv

\* Every step keeps the invariant of the system.
LEMMA SystemNextInv == SysInv /\ [SystemNext]_sysVars => SysInv'
<1> SUFFICES ASSUME SysInv, [SystemNext]_sysVars PROVE SysInv'
  OBVIOUS
<1>1. ProgInv /\ DriverInv /\ (resets = 0 => IInv /\ CountInv) /\ resets \in Nat
  BY DEF SysInv, ProgInv
<1>2. ProgInv' /\ DriverInv'
  BY <1>1, NextDriver
<1>3. resets' = 0 => IInv' /\ CountInv'
  <2>1. CASE Tick
    BY <1>1, <2>1, TickCount DEF Tick
  <2>2. CASE Io
    <3>1. resets' = resets
      BY <2>2 DEF Io, CommandWrite, Access, ReadyRead, Does
    <3> QED BY <1>1, <2>2, <3>1, IoCount
  <2>3. CASE ReceiveHeader \/ RunAlgorithm \/ SendError
    <3>1. resets' = resets
      BY <2>3 DEF ReceiveHeader, RunAlgorithm, SendError
    <3> QED BY <1>1, <2>3, <3>1, LoopCount
  <2>4. CASE BoardReset
    <3>1. resets' = resets + 1
      BY <2>4 DEF BoardReset
    <3> QED BY <1>1, <3>1
  <2>5. CASE UNCHANGED sysVars
    <3>1. UNCHANGED vars /\ UNCHANGED <<prog, passes, resets>>
      BY <2>5 DEF sysVars, firmware
    <3> QED BY <1>1, <3>1, MachineKept DEF CountInv, NextIs, vars
  <2> QED BY <2>1, <2>2, <2>3, <2>4, <2>5 DEF SystemNext
<1> QED BY <1>2, <1>3 DEF SysInv

(***************************************************************************)
(* Firmware and processor stay in step: the inductive invariant of the     *)
(* whole system, resets of the board included.                             *)
(***************************************************************************)
THEOREM SystemInvariant == SystemSpec => []SysInv
  BY SystemInitInv, SystemNextInv, PTL DEF SystemSpec

(***************************************************************************)
(* Whatever the host asks for and whenever the board is reset, the         *)
(* firmware touches the template registers, the L2 caches and the error    *)
(* sums only while the machine leaves them alone.                          *)
(***************************************************************************)
THEOREM CacheOwnershipHolds == SystemSpec => []CacheOwnership
<1>1. SysInv => CacheOwnership
  <2> SUFFICES ASSUME SysInv, NEW op \in {Template, Load, ReadBack, ErrorGet}, CpuAt(op)
               PROVE  ~Running /\ ~x_we
    BY DEF CacheOwnership
  <2>1. /\ prog # <<>> /\ prog[1] = op /\ io = IoCycles /\ ProgInv /\ DriverInv
    BY HeadOp DEF SysInv, CpuAt
  <2>2. ~Resetting
    BY <2>1, SystemAssumption DEF Resetting, SystemAssumption
  <2>3. ~Rebooting /\ ~Polling
    BY <2>1, InitSystemIs, OpDistinct DEF Rebooting, Polling, NextIs
  <2> QED BY <2>1, <2>2, <2>3 DEF DriverInv, Idle, Done, Running, ready
<1> QED BY SystemInvariant, <1>1, PTL

(***************************************************************************)
(* cnn_driver reads back only the result of a run that finished after its  *)
(* own load: the two clocks that rst takes to clear ready are over before  *)
(* its first poll, for every spacing of two or more clocks.                *)
(***************************************************************************)
THEOREM ResultFreshHolds == SystemSpec => []ResultFresh
<1>1. SysInv => ResultFresh
  <2> SUFFICES ASSUME SysInv, CpuAt(ReadBack) PROVE fresh
    BY DEF ResultFresh
  <2>1. Done
    BY ReadBackDone DEF SysInv
  <2> QED BY <2>1 DEF Done
<1> QED BY SystemInvariant, <1>1, PTL

(***************************************************************************)
(* Until the reset button is first used, every result read back has had    *)
(* iter_cnt+1 passes.                                                      *)
(***************************************************************************)
THEOREM PassCountHolds == SystemSpec => []PassCount
<1>1. SysInv => PassCount
  <2> SUFFICES ASSUME SysInv, CpuAt(ReadBack), resets = 0 PROVE passes = iter_cnt + 1
    BY DEF PassCount
  <2>1. Done
    BY ReadBackDone DEF SysInv
  <2> QED BY <2>1 DEF Done, SysInv, CountInv
<1> QED BY SystemInvariant, <1>1, PTL

(***************************************************************************)
(* Until the reset button is first used, the firmware is an environment    *)
(* under which the machine's stores stay in the image and it never waits   *)
(* for the AU.                                                             *)
(***************************************************************************)
THEOREM MachineContractHolds == SystemSpec => []MachineContract
<1>1. SysInv => MachineContract
  BY DEF SysInv, MachineContract, IInv, TimerInv, NeverStalls
<1> QED BY SystemInvariant, <1>1, PTL

(***************************************************************************)
(* No register of cnn_commands changes under a run in progress, not even   *)
(* when the reset button restarts the firmware in the middle of it.        *)
(***************************************************************************)
THEOREM ConfigStableHolds == SystemSpec => ConfigStable
<1> DEFINE Stable == Running /\ ~rst => UNCHANGED <<cacheWidth, cacheHeight, iter_cnt>>
<1>1. SysInv /\ [SystemNext]_sysVars => [Stable]_sysVars
  <2> SUFFICES ASSUME SysInv, SystemNext, Running, ~rst
               PROVE  UNCHANGED <<cacheWidth, cacheHeight, iter_cnt>>
    OBVIOUS
  <2>1. CASE Tick
    <3>1. ~Idle /\ ~Done
      BY DEF Idle, Done, Running, ready
    <3>2. command \in {<<CMD_NULL, 0>>, <<CMD_STATE_RST, 0>>, <<CMD_STATE_RST, 1>>}
      BY <3>1 DEF SysInv, DriverInv, Rebooting, Resetting, Polling
    <3> QED BY <2>1, <3>2, CommandClockInputs DEF Tick, SysInv, ProgInv
  <2>2. CASE ~Tick
    BY <2>2 DEF SystemNext, Io, CommandWrite, Access, ReadyRead, Does, ReceiveHeader,
       RunAlgorithm, SendError, BoardReset, vars
  <2> QED BY <2>1, <2>2
<1> QED BY SystemInvariant, <1>1, PTL DEF SystemSpec, ConfigStable
=============================================================================
