------------------------ MODULE CnnProcessor_proofs ------------------------
(***************************************************************************)
(* Theorems about CnnProcessor: ResultExact, ErrorOncePerPixel and         *)
(* ErrorPairing, for every image size, iteration count and number of runs. *)
(*                                                                         *)
(* The raster passes the (h+1) x (w+1) positions of an image lap after     *)
(* lap; every position of every lap has a number, its code, that grows by  *)
(* one with each push.  What a register of the data path must hold is said *)
(* by the code of the word in it (Good), so a push, which moves every word *)
(* by one, adds one to every code and changes nothing else.  In-place      *)
(* storing is covered by CacheGood: a pixel has its step-l value after its *)
(* store number l and up to store number l+1, and it is read in between.   *)
(***************************************************************************)
EXTENDS CnnProcessor, CnnStateMachine_proofs, DivisionLemmas, FiniteSetTheorems, FunctionTheorems

\* The image under way: its size and the number of its run.
Image == [w |-> cacheWidth, h |-> cacheHeight, run |-> run]

IsImage(im) ==
  /\ im.w \in Nat /\ im.w >= 1 /\ im.h \in Nat /\ im.h >= 3
  /\ im.run \in Nat /\ im.run >= 1

\* The code of row r, column c in lap l; row 0 and column 0 are the boundary.
Code(im, l, r, c) == (l * (im.h + 1) + r) * (im.w + 1) + c

\* The address of the pixel in row r, column c.
Addr(im, r, c) == (r - 1) * im.w + (c - 1)

\* The pixel is more than v cells from the one of the stale store, in row h-2, column w.
Far(im, r, c, v) == r - (im.h - 2) > v \/ (im.h - 2) - r > v \/ im.w - c > v

\* x is the step-v state of the pixel, or unknown where the stale store may have reached.
StateOk(im, x, r, c, v) ==
  \/ x = <<im.run, Addr(im, r, c), v>>
  \/ ~Far(im, r, c, v) /\ x = JunkX

\* x is the word of row r, column c in lap l.
BndWord(im) == <<<<im.run, NoPixel>>, <<im.run, NoPixel, 0>>>>

WordOk(im, x, l, r, c) ==
  IF r >= 1 /\ c >= 1
  THEN x = <<<<im.run, Addr(im, r, c)>>, x[2]>> /\ StateOk(im, x[2], r, c, l)
  ELSE x = BndWord(im)

\* x is the word of code z; nothing is said of codes before the run (z < 0).
Good(im, x, z) ==
  \A l \in Nat, r \in 0..im.h, c \in 0..im.w : z = Code(im, l, r, c) => WordOk(im, x, l, r, c)

\* A column of three words whose last has code z, and a patch of columns with centre z.
ColumnGood(im, d, z) ==
  /\ Good(im, d[0], z - 2 * (im.w + 1))
  /\ Good(im, d[1], z - (im.w + 1))
  /\ Good(im, d[2], z)

PatchGood(im, p, z) ==
  /\ ColumnGood(im, p[1], z + im.w)
  /\ ColumnGood(im, p[2], z + im.w + 1)
  /\ ColumnGood(im, p[3], z + im.w + 2)

\* How many pushes ago slot s of a ring of w+1 was written, and a ring whose last push was last.
Age(w, rd, s) == IF s < rd THEN rd - 1 - s ELSE rd + w - s

LinesGood(im, ring, rd, last) ==
  \A s \in 0..im.w : ColumnGood(im, ring[s], last - Age(im.w, rd, s))

\* The code at which the pixel is stored in lap l, and the image cache when the raster is at z.
StoreCode(im, l, r, c) == Code(im, l, r, c) + 2 * (im.w + 1) + 1

CacheGood(im, ram, z) ==
  \A r \in 1..im.h, c \in 1..im.w, l \in Nat :
    (l = 0 \/ StoreCode(im, l-1, r, c) < z) /\ z <= StoreCode(im, l, r, c)
      => StateOk(im, ram[Addr(im, r, c)], r, c, l)

\* i is the ideal pixel the machine fetches for the centre of code z.
IdealGood(im, i, z) ==
  \A l \in Nat, r \in 1..im.h, c \in 1..im.w :
    z = Code(im, l, r, c) => i = (Addr(im, r, c) - 1) % AddrSpace

\* The pixel stored at position (i, j) of lap l, and its step; Back: it is of the lap before.
Back(i, j) == i < 2 \/ (j = 0 /\ i < 3)
RowOf(im, i, j) == (IF j = 0 THEN i - 3 ELSE i - 2) + (IF Back(i, j) THEN im.h + 1 ELSE 0)
ColOf(im, j) == IF j = 0 THEN im.w ELSE j - 1
StepOf(l, i, j) == IF Back(i, j) THEN l ELSE l + 1
-----------------------------------------------------------------------------
\* The lap of the machine's position: iter counts passes, which begin at (patchWH,1).
Early == ii < 3 \/ (ii = 3 /\ jj = 0)
Lap == IF init_state = 0 /\ Early THEN iter + 1 ELSE iter

\* The code of the position, and of the word pushed last.
Z == Code(Image, Lap, ii, jj)
Last == IF state = "X_NEW_WRITE" THEN Z ELSE Z - 1

\* The pixel to store at the position, and the positions at which nothing is calculated.
SRow == RowOf(Image, ii, jj)
SCol == ColOf(Image, jj)
SStep == StepOf(Lap, ii, jj)
NoCalc == (init_state = 1 /\ ~Origin /\ jj # 1) \/ (ii = 2 /\ jj >= 2) \/ (ii = 3 /\ jj = 0)

\* The image cache with the write that is under way.
Ram == IF x_we THEN [xram EXCEPT ![x_address] = x_data_in] ELSE xram
-----------------------------------------------------------------------------
\* The pointers of the line buffers are in phase (from the first idle clock after a resize on).
RingInv ==
  /\ read_address \in 0..cacheWidth
  /\ read_address # 0 => write_address = read_address - 1
  /\ read_address = 0 /\ Running => write_address = cacheWidth
  /\ fifo_clk_en => state = "X_NEW_WRITE"

\* No word bears the tag of a later run.
Tagged(d) == d[1][1][1] \in 0..run /\ d[2][1][1] \in 0..run

TagInv ==
  /\ run \in Nat
  /\ \A s \in 0..cacheWidthMAX : Tagged(FIFO[s])
  /\ Tagged(q) /\ Tagged(cols[1]) /\ Tagged(cols[2])
  /\ lat[2][1][1][1] \in 0..run
  /\ xram = [a \in 0..AddrSpace-1 |-> xram[a]]

\* A run begins with the pass that fills the line buffers.
PassInv ==
  /\ run = 0 => rst /\ state = "X_OLD_U_INIT"
  /\ Running /\ init_state = 1 => iter = 0 /\ Early

\* Before the first calculation the cache is as loaded and the latched patch is an earlier run's.
StartInv ==
  /\ run > 0 /\ (rst \/ state = "X_OLD_U_INIT")
      => \A a \in 0..(cacheWidth * cacheHeight - 1) : xram[a] = <<run, a, 0>>
  /\ run > 0 /\ (rst \/ state = "X_OLD_U_INIT"
        \/ (Running /\ init_state = 1 /\ ii = 0 /\ jj = 0 /\ ~alu_calc))
      => lat[2][1][1][1] # run

\* Line buffers, patch columns and cache hold what the raster's position says.
FlowInv ==
  Running => /\ LinesGood(Image, FIFO, read_address, Last)
             /\ ColumnGood(Image, q, Last - cacheWidth)
             /\ ColumnGood(Image, cols[2], Last - 1 - cacheWidth)
             /\ ColumnGood(Image, cols[1], Last - 2 - cacheWidth)
             /\ CacheGood(Image, Ram, Z)

\* The read in progress is of the position's pixel.
ReadInv ==
  state = "X_OLD_U_READ" /\ InImage =>
    /\ cache_lag = 1 => x_address = Addr(Image, ii, jj) /\ u_address = Addr(Image, ii, jj)
    /\ cache_lag = 2 => /\ u_data_out = <<run, Addr(Image, ii, jj)>>
                        /\ StateOk(Image, x_data_out, ii, jj, Lap)

\* The write address, once assigned, is of the pixel to store.
Addressed == (state = "X_OLD_U_READ" /\ cache_lag = 2) \/ state = "X_NEW_WRITE"

WriteInv ==
  Addressed => /\ cache_wr_lag = 2 <=> NoCalc
               /\ ~NoCalc /\ jj # 1 => x_address = Addr(Image, SRow, SCol)

\* The latched patch is of the position before until the calculation starts, then of this one.
LatInv ==
  Running =>
    /\ ~alu_calc /\ init_state = 0 /\ ~NoCalc /\ ~(ii = 3 /\ jj = 1)
         => PatchGood(Image, lat, Z - 1 - 2 * (cacheWidth + 1))
    /\ alu_calc => /\ PatchGood(Image, lat, Z - 2 * (cacheWidth + 1))
                   /\ jj # 1 => StateOk(Image, x_out, SRow, SCol, SStep)

\* At the end of a run every pixel has been stored iter_cnt+1 times.
DoneInv == ready /\ ~rst => CacheGood(Image, xram, Code(Image, iter_cnt + 1, 3, 1))

\* The inductive invariant of the data path.
PInv ==
  /\ IInv /\ RingInv /\ TagInv /\ PassInv /\ StartInv /\ FlowInv
  /\ ReadInv /\ WriteInv /\ LatInv /\ DoneInv
-----------------------------------------------------------------------------
\* The ideal pixel follows the word it is paired with, and the patch latched last in a pass is of row 0.
IdealInv ==
  Running =>
    /\ state = "X_OLD_U_READ" /\ cache_lag = 1 => IdealGood(Image, ideal_address, Z - 2 * (cacheWidth + 1))
    /\ state = "X_OLD_U_READ" /\ cache_lag = 2 => IdealGood(Image, ideal_data_out, Z - 2 * (cacheWidth + 1))
    /\ state = "X_NEW_WRITE" => IdealGood(Image, ideal, Z - 2 * (cacheWidth + 1))
    /\ ~alu_calc /\ init_state = 0 /\ ~NoCalc /\ ~(ii = 3 /\ jj = 1)
         => IdealGood(Image, lat_ideal, Z - 1 - 2 * (cacheWidth + 1))
    /\ alu_calc => IdealGood(Image, lat_ideal, Z - 2 * (cacheWidth + 1))
    /\ ~alu_calc /\ ((ii = 2 /\ jj >= 2) \/ (ii = 3 /\ jj <= 1))
         => lat[2][1] = BndWord(Image)

\* The terms of a pass: one for each pixel, one for each row's boundary cell, and one more.
Terms(im) == im.h * (im.w + 1) + 1

\* The terms e of lap n: the first is the patch left by the pass before, the others are in raster order.
ErrGood(im, e, n) ==
  \A k \in 1..Len(e) :
     IF k = 1 THEN e[k][2] = <<im.run, NoPixel, 0>>
     ELSE \A r \in 0..im.h+1, c \in 0..im.w :
        Code(im, n, 1, 1) + k - 2 = Code(im, n, r, c) =>
           IF r \in 1..im.h /\ c >= 1
           THEN StateOk(im, e[k][2], r, c, n) /\ e[k][1] = (Addr(im, r, c) - 1) % AddrSpace
           ELSE e[k][2] = <<im.run, NoPixel, 0>>

\* The calculations started in the last pass, were every position to start one.
Calcs == Z - Code(Image, iter_cnt, 3, 1) + (IF alu_calc THEN 1 ELSE 0)

\* The error sums are a sequence, held at zero up to the last pass, then one term per calculation.
ErrType == \E S : err \in Seq(S)

ErrRstInv ==
  Running /\ (state = "X_NEW_WRITE" \/ cache_lag > 0) => (alu_err_rst <=> iter < iter_cnt)

ErrClearInv ==
  Running /\ init_state = 0 /\ iter < iter_cnt /\ ~(ii = 3 /\ jj = 1 /\ ~alu_calc) => err = <<>>

ErrSumInv ==
  Running /\ init_state = 0 /\ iter = iter_cnt /\ iter_cnt > 0
    => /\ Len(err) = IF Calcs < Terms(Image) THEN Calcs ELSE Terms(Image)
       /\ ErrGood(Image, err, iter_cnt)

ErrDoneInv ==
  ready /\ ~rst /\ iter_cnt > 0 => Len(err) = Terms(Image) /\ ErrGood(Image, err, iter_cnt)

\* The inductive invariant of the error sums, relative to PInv.
EInv == IdealInv /\ ErrType /\ ErrRstInv /\ ErrClearInv /\ ErrSumInv /\ ErrDoneInv
-----------------------------------------------------------------------------
\* Quotient and remainder by m are unique.
LEMMA RasterUnique ==
  ASSUME NEW m \in Nat \ {0}, NEW a \in Int, NEW b \in Int, NEW c \in 0..m-1, NEW d \in 0..m-1,
         a * m + c = b * m + d
  PROVE  a = b /\ c = d
<1>1. m * a = a * m /\ m * b = b * m /\ m * a \in Int /\ m * b \in Int
  OBVIOUS
<1>2. c = d
  BY <1>1, RemainderUnique
<1>3. a * m = b * m
  BY <1>1, <1>2
<1>4. ~(a < b) /\ ~(b < a)
  <2>1. CASE a + 1 <= b
    <3>1. (a + 1) * m <= b * m /\ (a + 1) * m = a * m + m
      BY <2>1, ProductMonotone
    <3> QED BY <1>1, <1>3, <3>1
  <2>2. CASE b + 1 <= a
    <3>1. (b + 1) * m <= a * m /\ (b + 1) * m = b * m + m
      BY <2>2, ProductMonotone
    <3> QED BY <1>1, <1>3, <3>1
  <2> QED BY <2>1, <2>2
<1> QED BY <1>2, <1>4

\* Neighbouring positions have neighbouring codes.
LEMMA CodeSteps ==
  ASSUME NEW im, IsImage(im), NEW l \in Int, NEW r \in Int, NEW c \in Int
  PROVE  /\ Code(im, l, r, c) \in Int
         /\ Code(im, l, r, c + 1) = Code(im, l, r, c) + 1
         /\ Code(im, l, r, c - 1) = Code(im, l, r, c) - 1
         /\ Code(im, l, r + 1, c) = Code(im, l, r, c) + (im.w + 1)
         /\ Code(im, l, r - 1, c) = Code(im, l, r, c) - (im.w + 1)
         /\ Code(im, l + 1, r, c) = Code(im, l, r + im.h + 1, c)
         /\ Code(im, l - 1, r, c) = Code(im, l, r - im.h - 1, c)
         /\ Code(im, l, r + 1, 0) = Code(im, l, r, im.w) + 1
<1> DEFINE m == im.w + 1
           n == im.h + 1
           R == l * n + r
<1>1. m \in Int /\ n \in Int
  BY DEF IsImage
<1> HIDE DEF m, n
<1>2. l * n \in Int /\ R \in Int /\ R * m \in Int
  BY <1>1
<1>3. (l + 1) * n + r = l * n + (r + n) /\ (l - 1) * n + r = l * n + (r - n)
  BY <1>1
<1>4. (R + 1) * m = R * m + m /\ (R - 1) * m = R * m - m
  BY <1>1, <1>2
<1>5. l * n + (r + 1) = R + 1 /\ l * n + (r - 1) = R - 1
  BY <1>2
<1>6. /\ Code(im, l, r, c) = R * m + c
      /\ Code(im, l, r, c + 1) = R * m + (c + 1)
      /\ Code(im, l, r, c - 1) = R * m + (c - 1)
      /\ Code(im, l, r + 1, c) = (l * n + (r + 1)) * m + c
      /\ Code(im, l, r - 1, c) = (l * n + (r - 1)) * m + c
      /\ Code(im, l, r + 1, 0) = (l * n + (r + 1)) * m + 0
      /\ Code(im, l, r, im.w) = R * m + im.w
      /\ Code(im, l + 1, r, c) = ((l + 1) * n + r) * m + c
      /\ Code(im, l - 1, r, c) = ((l - 1) * n + r) * m + c
      /\ Code(im, l, r + im.h + 1, c) = (l * n + (r + im.h + 1)) * m + c
      /\ Code(im, l, r - im.h - 1, c) = (l * n + (r - im.h - 1)) * m + c
  BY DEF Code, m, n
<1>7. r + im.h + 1 = r + n /\ r - im.h - 1 = r - n /\ im.w + 1 = m /\ im.w \in Int
  BY DEF n, m, IsImage
<1> HIDE DEF R
<1>8. /\ Code(im, l, r + 1, c) = R * m + m + c
      /\ Code(im, l, r - 1, c) = R * m - m + c
      /\ Code(im, l, r + 1, 0) = R * m + m
  BY <1>1, <1>2, <1>4, <1>5, <1>6
<1>9. /\ Code(im, l + 1, r, c) = Code(im, l, r + im.h + 1, c)
      /\ Code(im, l - 1, r, c) = Code(im, l, r - im.h - 1, c)
  BY <1>3, <1>6, <1>7
<1>10. /\ Code(im, l, r, c) \in Int
       /\ Code(im, l, r, c + 1) = Code(im, l, r, c) + 1
       /\ Code(im, l, r, c - 1) = Code(im, l, r, c) - 1
  BY <1>2, <1>6
<1>11. /\ Code(im, l, r + 1, c) = Code(im, l, r, c) + m
       /\ Code(im, l, r - 1, c) = Code(im, l, r, c) - m
       /\ Code(im, l, r + 1, 0) = Code(im, l, r, im.w) + 1
  <2> DEFINE p == R * m
  <2>1. p \in Int /\ Code(im, l, r, im.w) = p + im.w /\ Code(im, l, r, c) = p + c
    BY <1>2, <1>6
  <2>2. /\ Code(im, l, r + 1, c) = p + m + c /\ Code(im, l, r - 1, c) = p - m + c
        /\ Code(im, l, r + 1, 0) = p + m
    BY <1>8
  <2> HIDE DEF p
  <2> QED BY <1>1, <1>7, <2>1, <2>2
<1> QED BY <1>7, <1>9, <1>10, <1>11

\* A position of the raster has its code alone.
LEMMA CodeUnique ==
  ASSUME NEW im, IsImage(im), NEW l \in Int, NEW r \in 0..im.h, NEW c \in 0..im.w,
         NEW k \in Int, NEW s \in 0..im.h, NEW d \in 0..im.w,
         Code(im, l, r, c) = Code(im, k, s, d)
  PROVE  l = k /\ r = s /\ c = d
<1> DEFINE m == im.w + 1
           n == im.h + 1
<1>1. m \in Nat \ {0} /\ n \in Nat \ {0} /\ r \in 0..n-1 /\ s \in 0..n-1 /\ c \in 0..m-1 /\ d \in 0..m-1
  BY DEF IsImage
<1>2. (l * n + r) * m + c = (k * n + s) * m + d
  BY DEF Code
<1> HIDE DEF m, n
<1>3. l * n + r \in Int /\ k * n + s \in Int
  BY <1>1
<1>4. l * n + r = k * n + s /\ c = d
  BY <1>1, <1>2, <1>3, RasterUnique
<1> QED BY <1>1, <1>4, RasterUnique

\* The codes of a lap lie before those of the next; those of laps before the first are negative.
LEMMA CodeOrder ==
  ASSUME NEW im, IsImage(im), NEW l \in Int, NEW r \in 0..im.h, NEW c \in 0..im.w,
         NEW k \in Int, NEW s \in 0..im.h, NEW d \in 0..im.w
  PROVE  /\ l < k => Code(im, l, r, c) < Code(im, k, s, d)
         /\ l = k /\ r < s => Code(im, l, r, c) < Code(im, k, s, d)
         /\ l >= 0 => Code(im, l, r, c) >= 0
         /\ l < 0 => Code(im, l, r, c) < 0
<1> DEFINE m == im.w + 1
           n == im.h + 1
           R == l * n + r
           S == k * n + s
<1>1. m \in Nat \ {0} /\ n \in Nat \ {0} /\ r \in 0..n-1 /\ s \in 0..n-1 /\ c \in 0..m-1 /\ d \in 0..m-1
  BY DEF IsImage
<1>2. Code(im, l, r, c) = R * m + c /\ Code(im, k, s, d) = S * m + d
  BY DEF Code
<1> HIDE DEF m, n
<1>3. l * n \in Int /\ k * n \in Int /\ R \in Int /\ S \in Int
  BY <1>1
<1>4. l < k => R < S
  <2>1. l < k => (l + 1) * n <= k * n /\ (l + 1) * n = l * n + n
    BY <1>1, ProductMonotone
  <2> QED BY <1>1, <1>3, <2>1
<1>5. l = k /\ r < s => R < S
  BY <1>1, <1>3
<1>6. (l >= 0 => R >= 0) /\ (l < 0 => R < 0)
  <2>1. l >= 0 => 0 * n <= l * n
    BY <1>1, ProductMonotone
  <2>2. l < 0 => (l + 1) * n <= 0 * n /\ (l + 1) * n = l * n + n
    BY <1>1, ProductMonotone
  <2> QED BY <1>1, <1>3, <2>1, <2>2
<1> HIDE DEF R, S
<1>7. R < S => R * m + c < S * m + d
  <2>1. R < S => (R + 1) * m <= S * m /\ (R + 1) * m = R * m + m
    BY <1>1, <1>3, ProductMonotone
  <2>2. R * m \in Int /\ S * m \in Int
    BY <1>1, <1>3
  <2> QED BY <1>1, <2>1, <2>2
<1>8. (R >= 0 => R * m + c >= 0) /\ (R < 0 => R * m + c < 0)
  <2>1. R >= 0 => 0 * m <= R * m
    BY <1>1, <1>3, ProductMonotone
  <2>2. R < 0 => (R + 1) * m <= 0 * m /\ (R + 1) * m = R * m + m
    BY <1>1, <1>3, ProductMonotone
  <2>3. R * m \in Int
    BY <1>1, <1>3
  <2> QED BY <1>1, <2>1, <2>2, <2>3
<1> QED BY <1>2, <1>4, <1>5, <1>6, <1>7, <1>8

\* A pixel's address is a word of the image, and its row and column come back from it.
LEMMA AddrFacts ==
  ASSUME NEW im, IsImage(im), NEW r \in 1..im.h, NEW c \in 1..im.w
  PROVE  /\ Addr(im, r, c) \in 0..(im.w * im.h - 1)
         /\ Addr(im, r, c) \div im.w = r - 1
         /\ Addr(im, r, c) % im.w = c - 1
<1> DEFINE w == im.w
           a == Addr(im, r, c)
<1>1. w \in Nat \ {0} /\ im.h \in Nat /\ r - 1 \in Int /\ c - 1 \in 0..w-1 /\ c - 1 \in Int
  BY DEF IsImage
<1>2. a = (r - 1) * w + (c - 1)
  BY DEF Addr
<1> HIDE DEF w, a
<1>3. (r - 1) * w \in Int /\ 0 * w <= (r - 1) * w /\ (r - 1) * w <= (im.h - 1) * w
  BY <1>1, ProductMonotone
<1>4. (im.h - 1) * w = w * im.h - w /\ w * im.h \in Int
  BY <1>1
<1>5. a \in 0..(w * im.h - 1)
  BY <1>1, <1>2, <1>3, <1>4
<1>6. PICK u \in Int, v \in 0..w-1 : a \div w = u /\ a % w = v /\ a = w * u + v
  <2>1. a \in Int
    BY <1>1, <1>2, <1>3
  <2> QED BY <1>1, <2>1, DivMod
<1>7. w * u = u * w
  BY <1>1, <1>6
<1>8. u = r - 1 /\ v = c - 1
  BY <1>1, <1>2, <1>6, <1>7, RasterUnique
<1> QED BY <1>5, <1>6, <1>8 DEF w, a

\* Two pixels have different addresses.
LEMMA AddrUnique ==
  ASSUME NEW im, IsImage(im), NEW r \in 1..im.h, NEW c \in 1..im.w, NEW s \in 1..im.h,
         NEW d \in 1..im.w, Addr(im, r, c) = Addr(im, s, d)
  PROVE  r = s /\ c = d
<1>1. r - 1 = s - 1 /\ c - 1 = d - 1
  BY AddrFacts
<1> QED BY <1>1 DEF IsImage

\* Every word of the image is the address of a pixel.
LEMMA AddrOnto ==
  ASSUME NEW im, IsImage(im), NEW a \in 0..(im.w * im.h - 1)
  PROVE  /\ (a \div im.w) + 1 \in 1..im.h /\ (a % im.w) + 1 \in 1..im.w
         /\ a = Addr(im, (a \div im.w) + 1, (a % im.w) + 1)
<1> DEFINE w == im.w
<1>1. w \in Nat \ {0} /\ im.h \in Nat /\ w * im.h \in Int /\ a \in Int /\ a >= 0 /\ a < w * im.h
  BY DEF IsImage
<1>2. \A r, c : Addr(im, r, c) = (r - 1) * w + (c - 1)
  BY DEF Addr
<1> HIDE DEF w
<1>3. PICK u \in Int, v \in 0..w-1 : a \div w = u /\ a % w = v /\ a = w * u + v
  BY <1>1, DivMod
<1>4. w * u = u * w /\ w * im.h = im.h * w /\ u * w \in Int
  BY <1>1, <1>3
<1>5. u < im.h
  <2>1. u * w < im.h * w
    BY <1>1, <1>3, <1>4
  <2> QED BY <1>1, <2>1, ProductCancels
<1>6. -1 < u
  <2>1. (-1) * w < u * w
    BY <1>1, <1>3, <1>4
  <2> QED BY <1>1, <2>1, ProductCancels
<1>7. u + 1 - 1 = u /\ v + 1 - 1 = v
  OBVIOUS
<1>8. a = Addr(im, u + 1, v + 1)
  BY <1>2, <1>3, <1>4, <1>7
<1>9. u + 1 \in 1..im.h /\ v + 1 \in 1..w
  BY <1>1, <1>5, <1>6
<1> QED BY <1>3, <1>8, <1>9 DEF w
-----------------------------------------------------------------------------
\* A word that is right for its position is right for the position's code.
LEMMA GoodAt ==
  ASSUME NEW im, IsImage(im), NEW x, NEW l \in Nat, NEW r \in 0..im.h, NEW c \in 0..im.w
  PROVE  Good(im, x, Code(im, l, r, c)) <=> WordOk(im, x, l, r, c)
<1>1. ASSUME WordOk(im, x, l, r, c), NEW k \in Nat, NEW s \in 0..im.h, NEW d \in 0..im.w,
             Code(im, l, r, c) = Code(im, k, s, d)
      PROVE  WordOk(im, x, k, s, d)
  <2>1. l = k /\ r = s /\ c = d
    BY <1>1, CodeUnique
  <2> QED BY <1>1, <2>1
<1> QED BY <1>1 DEF Good

\* Nothing is known of what was pushed before the run.
LEMMA GoodBefore ==
  ASSUME NEW im, IsImage(im), NEW x, NEW z \in Int, z < 0
  PROVE  Good(im, x, z)
<1>1. ASSUME NEW l \in Nat, NEW r \in 0..im.h, NEW c \in 0..im.w
      PROVE  Code(im, l, r, c) # z
  <2>1. Code(im, l, r, c) >= 0
    BY CodeOrder
  <2> QED BY <2>1
<1> QED BY <1>1 DEF Good

\* Nor of a whole column.
LEMMA ColumnBefore ==
  ASSUME NEW im, IsImage(im), NEW d, NEW z \in Int, z < 0
  PROVE  ColumnGood(im, d, z)
<1>1. /\ z - 2 * (im.w + 1) \in Int /\ z - 2 * (im.w + 1) < 0
      /\ z - (im.w + 1) \in Int /\ z - (im.w + 1) < 0
  BY DEF IsImage
<1> QED BY <1>1, GoodBefore DEF ColumnGood

\* The cells around the image: the raster runs through one column and one row of them.
LEMMA NeighbourWord ==
  ASSUME NEW im, IsImage(im), NEW x, NEW l \in Nat, NEW r \in 0..im.h+1, NEW c \in 0..im.w+1,
         Good(im, x, Code(im, l, r, c))
  PROVE  IF r \in 1..im.h /\ c \in 1..im.w THEN WordOk(im, x, l, r, c) ELSE x = BndWord(im)
<1>0. im.w \in Nat /\ im.h \in Nat /\ im.h >= 3 /\ im.w >= 1
  BY DEF IsImage
<1>1. CASE r <= im.h /\ c <= im.w
  <2>1. r \in 0..im.h /\ c \in 0..im.w
    BY <1>1, <1>0
  <2>2. WordOk(im, x, l, r, c)
    BY <2>1, GoodAt
  <2> QED BY <1>0, <2>1, <2>2 DEF WordOk
<1>2. CASE r = im.h + 1 /\ c <= im.w
  <2>1. Code(im, l + 1, 0, c) = Code(im, l, r, c)
    <3>1. Code(im, l + 1, 0, c) = Code(im, l, 0 + im.h + 1, c)
      BY <1>0, CodeSteps
    <3>2. 0 + im.h + 1 = r
      BY <1>0, <1>2
    <3> QED BY <3>1, <3>2
  <2>2. l + 1 \in Nat /\ 0 \in 0..im.h /\ c \in 0..im.w
    BY <1>0, <1>2
  <2>3. WordOk(im, x, l + 1, 0, c)
    BY <2>1, <2>2, GoodAt
  <2> QED BY <1>0, <1>2, <2>3 DEF WordOk
<1>3. CASE c = im.w + 1
  <2>1. Code(im, l, r + 1, 0) = Code(im, l, r, im.w) + 1 /\ Code(im, l, r, im.w + 1) = Code(im, l, r, im.w) + 1
    BY <1>0, CodeSteps
  <2>2. CASE r + 1 <= im.h
    <3>1. r + 1 \in 0..im.h /\ 0 \in 0..im.w
      BY <1>0, <2>2
    <3>2. WordOk(im, x, l, r + 1, 0)
      BY <1>3, <2>1, <3>1, GoodAt
    <3> QED BY <1>0, <1>3, <3>2 DEF WordOk
  <2>3. CASE r + 1 > im.h
    <3>1. r - im.h \in 0..im.h /\ 0 \in 0..im.w /\ l + 1 \in Nat /\ r - im.h + im.h + 1 = r + 1
      BY <1>0, <2>3
    <3>2. Code(im, l + 1, r - im.h, 0) = Code(im, l, r - im.h + im.h + 1, 0)
      BY <3>1, CodeSteps
    <3>3. WordOk(im, x, l + 1, r - im.h, 0)
      BY <1>3, <2>1, <3>1, <3>2, GoodAt
    <3> QED BY <1>0, <1>3, <3>3 DEF WordOk
  <2> QED BY <1>0, <2>2, <2>3
<1> QED BY <1>0, <1>1, <1>2, <1>3

\* The ring after a push: every column is one push older and the new one is the youngest.
LEMMA LinesPush ==
  ASSUME NEW im, IsImage(im), NEW ring, NEW ring2, NEW d, NEW rd \in 0..im.w, NEW rd2,
         rd2 = IF rd = im.w THEN 0 ELSE rd + 1,
         NEW last \in Int, LinesGood(im, ring, rd, last), ColumnGood(im, d, last + 1),
         \A s \in 0..im.w : ring2[s] = IF s = rd THEN d ELSE ring[s]
  PROVE  /\ LinesGood(im, ring2, rd2, last + 1)
         /\ ColumnGood(im, ring[rd2], last + 1 - im.w)
<1>0. im.w \in Nat /\ im.w >= 1
  BY DEF IsImage
<1>1. LinesGood(im, ring2, rd2, last + 1)
  <2> SUFFICES ASSUME NEW s \in 0..im.w
               PROVE  ColumnGood(im, ring2[s], (last + 1) - Age(im.w, rd2, s))
    BY DEF LinesGood
  <2>1. CASE s = rd
    <3>1. (last + 1) - Age(im.w, rd2, s) = last + 1
      BY <1>0, <2>1 DEF Age
    <3> QED BY <2>1, <3>1
  <2>2. CASE s # rd
    <3>1. (last + 1) - Age(im.w, rd2, s) = last - Age(im.w, rd, s)
      BY <1>0, <2>2 DEF Age
    <3>2. ColumnGood(im, ring[s], last - Age(im.w, rd, s))
      BY DEF LinesGood
    <3> QED BY <2>2, <3>1, <3>2
  <2> QED BY <2>1, <2>2
<1>2. last - Age(im.w, rd, rd2) = last + 1 - im.w /\ rd2 \in 0..im.w
  BY <1>0 DEF Age
<1>3. ColumnGood(im, ring[rd2], last - Age(im.w, rd, rd2))
  BY <1>2 DEF LinesGood
<1> QED BY <1>1, <1>2, <1>3
-----------------------------------------------------------------------------
\* A pixel's successive stores are a lap apart and trail its reads by two rows and a column.
LEMMA StoreCodes ==
  ASSUME NEW im, IsImage(im), NEW r \in 1..im.h, NEW c \in 1..im.w, NEW l \in Int
  PROVE  /\ StoreCode(im, l, r, c) \in Int
         /\ StoreCode(im, l - 1, r, c) < Code(im, l, r, c)
         /\ Code(im, l, r, c) < StoreCode(im, l, r, c)
         /\ \A k \in Int : /\ l < k => StoreCode(im, l, r, c) < StoreCode(im, k, r, c)
                           /\ StoreCode(im, l, r, c) < StoreCode(im, k, r, c) => l < k
<1>0. im.w \in Nat /\ im.w >= 1 /\ im.h \in Nat /\ im.h >= 3 /\ r \in 0..im.h /\ c \in 0..im.w
      /\ 2 * (im.w + 1) \in Int /\ 2 * (im.w + 1) > 0
  BY DEF IsImage
<1>1. \A k \in Int : Code(im, k, r, c) \in Int
  BY <1>0, CodeSteps
<1>2. \A k \in Int : StoreCode(im, k, r, c) = Code(im, k, r, c) + 2 * (im.w + 1) + 1
  BY DEF StoreCode
<1>3. StoreCode(im, l - 1, r, c) < Code(im, l, r, c)
  <2> DEFINE z == Code(im, l, r, c)
             y == Code(im, l - 1, r, c)
  <2>1. y = Code(im, l, r - im.h - 1, c) /\ r - im.h - 1 \in Int
    BY <1>0, CodeSteps
  <2>2. \A s \in Int : Code(im, l, s + 1, c) = Code(im, l, s, c) + (im.w + 1) /\ Code(im, l, s, c) \in Int
    BY <1>0, CodeSteps
  <2>3. Code(im, l, r - im.h - 1 + 1 + 1 + 1, c) = y + 3 * (im.w + 1)
    BY <1>0, <2>1, <2>2
  <2>4. Code(im, l, r - im.h + 2, c) <= z
    <3>1. CASE im.h = 3
      <4>1. r - im.h + 2 + 1 = r /\ r - im.h + 2 \in Int
        BY <1>0, <3>1
      <4> QED BY <1>0, <2>2, <4>1
    <3>2. CASE im.h > 3 /\ r - im.h + 2 >= 0
      <4>1. r - im.h + 2 \in 0..im.h /\ r - im.h + 2 < r
        BY <1>0, <3>2
      <4>2. Code(im, l, r - im.h + 2, c) < z
        BY <1>0, <4>1, CodeOrder
      <4>3. Code(im, l, r - im.h + 2, c) \in Int /\ z \in Int
        BY <1>1, <2>2, <4>1
      <4> QED BY <4>2, <4>3
    <3>3. CASE im.h > 3 /\ r - im.h + 2 < 0
      <4>1. r + 3 \in 0..im.h /\ r + 3 - im.h - 1 = r - im.h + 2 /\ r + 3 \in Int
        BY <1>0, <3>3
      <4>2. Code(im, l - 1, r + 3, c) = Code(im, l, r + 3 - im.h - 1, c)
        BY <1>0, <4>1, CodeSteps
      <4>3. Code(im, l - 1, r + 3, c) < z
        <5>1. ASSUME NEW k \in Int, k < l, NEW s \in 0..im.h
              PROVE  Code(im, k, s, c) < z
          BY <1>0, <5>1, CodeOrder
        <5>2. l - 1 \in Int /\ l - 1 < l
          BY <1>0
        <5> QED BY <4>1, <5>1, <5>2
      <4>4. Code(im, l, r - im.h + 2, c) < z /\ Code(im, l, r - im.h + 2, c) \in Int
        BY <1>0, <2>2, <4>1, <4>2, <4>3
      <4> QED BY <1>1, <4>4
    <3> QED BY <1>0, <3>1, <3>2, <3>3
  <2>5. r - im.h - 1 + 1 + 1 + 1 = r - im.h + 2
    BY <1>0
  <2>6. y + 3 * (im.w + 1) <= z
    BY <2>3, <2>4, <2>5
  <2>7. StoreCode(im, l - 1, r, c) = y + 2 * (im.w + 1) + 1
    BY <1>2
  <2>8. z \in Int /\ y \in Int
    BY <1>1
  <2> HIDE DEF z, y
  <2>9. y + 2 * (im.w + 1) + 1 < z
    BY <1>0, <2>6, <2>8
  <2> QED BY <2>7, <2>9 DEF z
<1>4. ASSUME NEW k \in Int PROVE l < k => Code(im, l, r, c) < Code(im, k, r, c)
  BY <1>0, CodeOrder
<1>5. ASSUME NEW k \in Int PROVE k < l => Code(im, k, r, c) < Code(im, l, r, c)
  BY <1>0, CodeOrder
<1>6. StoreCode(im, l, r, c) \in Int /\ Code(im, l, r, c) < StoreCode(im, l, r, c)
  BY <1>0, <1>1, <1>2
<1>7. ASSUME NEW k \in Int
      PROVE  /\ l < k => StoreCode(im, l, r, c) < StoreCode(im, k, r, c)
             /\ StoreCode(im, l, r, c) < StoreCode(im, k, r, c) => l < k
  <2>1. /\ Code(im, k, r, c) \in Int /\ Code(im, l, r, c) \in Int
        /\ StoreCode(im, k, r, c) = Code(im, k, r, c) + 2 * (im.w + 1) + 1
        /\ StoreCode(im, l, r, c) = Code(im, l, r, c) + 2 * (im.w + 1) + 1
    BY <1>1, <1>2
  <2>2. /\ l < k => Code(im, l, r, c) < Code(im, k, r, c)
        /\ k < l => Code(im, k, r, c) < Code(im, l, r, c)
    BY <1>4, <1>5
  <2> QED BY <1>0, <2>1, <2>2
<1> QED BY <1>3, <1>6, <1>7

\* A read at a position finds the value of the position's lap: the store has not come, the last has.
LEMMA CacheRead ==
  ASSUME NEW im, IsImage(im), NEW ram, NEW l \in Nat, NEW r \in 1..im.h, NEW c \in 1..im.w,
         CacheGood(im, ram, Code(im, l, r, c))
  PROVE  StateOk(im, ram[Addr(im, r, c)], r, c, l)
<1>1. /\ StoreCode(im, l - 1, r, c) < Code(im, l, r, c)
      /\ Code(im, l, r, c) <= StoreCode(im, l, r, c)
  <2>1. Code(im, l, r, c) \in Int /\ StoreCode(im, l, r, c) \in Int
    <3>1. r \in Int /\ c \in Int
      OBVIOUS
    <3> QED BY <3>1, StoreCodes, CodeSteps
  <2> QED BY <2>1, StoreCodes
<1> QED BY <1>1 DEF CacheGood

\* The cache after a position at which nothing is stored.
LEMMA CacheKeep ==
  ASSUME NEW im, IsImage(im), NEW ram, NEW z \in Int, CacheGood(im, ram, z),
         \A r \in 1..im.h, c \in 1..im.w, l \in Nat : StoreCode(im, l, r, c) # z
  PROVE  CacheGood(im, ram, z + 1)
<1> SUFFICES ASSUME NEW r \in 1..im.h, NEW c \in 1..im.w, NEW l \in Nat,
                    l = 0 \/ StoreCode(im, l-1, r, c) < z + 1, z + 1 <= StoreCode(im, l, r, c)
             PROVE  StateOk(im, ram[Addr(im, r, c)], r, c, l)
  BY DEF CacheGood
<1>1. StoreCode(im, l, r, c) \in Int /\ StoreCode(im, l - 1, r, c) \in Int
  BY StoreCodes
<1>2. l # 0 => StoreCode(im, l - 1, r, c) # z
  OBVIOUS
<1> QED BY <1>1, <1>2 DEF CacheGood

\* The cache after the store of a pixel's next value.
LEMMA CacheStore ==
  ASSUME NEW im, IsImage(im), NEW ram, NEW ram2, NEW r \in 1..im.h, NEW c \in 1..im.w,
         NEW v \in Nat, NEW z, z = StoreCode(im, v - 1, r, c), CacheGood(im, ram, z),
         NEW x, StateOk(im, x, r, c, v),
         \A s \in 1..im.h, d \in 1..im.w :
           ram2[Addr(im, s, d)] = IF s = r /\ d = c THEN x ELSE ram[Addr(im, s, d)]
  PROVE  CacheGood(im, ram2, z + 1)
<1> SUFFICES ASSUME NEW s \in 1..im.h, NEW d \in 1..im.w, NEW l \in Nat,
                    l = 0 \/ StoreCode(im, l-1, s, d) < z + 1, z + 1 <= StoreCode(im, l, s, d)
             PROVE  StateOk(im, ram2[Addr(im, s, d)], s, d, l)
  BY DEF CacheGood
<1>0. v - 1 \in Int /\ z \in Int
  BY StoreCodes
<1>1. StoreCode(im, l, s, d) \in Int /\ StoreCode(im, l - 1, s, d) \in Int
  BY StoreCodes
<1>2. CASE s = r /\ d = c
  <2>1. v - 1 < l
    BY <1>0, <1>1, <1>2, StoreCodes
  <2>2. l # 0 => ~(v - 1 < l - 1)
    <3>1. v - 1 < l - 1 => z < StoreCode(im, l - 1, r, c)
      <4>1. l - 1 \in Int
        OBVIOUS
      <4> QED BY <1>0, <4>1, StoreCodes
    <3> QED BY <1>0, <1>1, <1>2, <3>1
  <2>3. l = v
    BY <2>1, <2>2
  <2> QED BY <1>2, <2>3
<1>3. CASE ~(s = r /\ d = c)
  <2>1. l # 0 => StoreCode(im, l - 1, s, d) # z
    <3>1. ASSUME StoreCode(im, l - 1, s, d) = z PROVE s = r /\ d = c
      <4>1. Code(im, l - 1, s, d) = Code(im, v - 1, r, c)
        <5>1. Code(im, l - 1, s, d) \in Int /\ Code(im, v - 1, r, c) \in Int /\ im.w \in Int
          BY CodeSteps DEF IsImage
        <5> QED BY <3>1, <5>1 DEF StoreCode
      <4>2. s \in 0..im.h /\ r \in 0..im.h /\ d \in 0..im.w /\ c \in 0..im.w /\ l - 1 \in Int
        BY DEF IsImage
      <4> QED BY <1>0, <4>1, <4>2, CodeUnique
    <3> QED BY <1>3, <3>1
  <2>2. (l = 0 \/ StoreCode(im, l-1, s, d) < z) /\ z <= StoreCode(im, l, s, d)
    BY <1>0, <1>1, <2>1
  <2>3. StateOk(im, ram[Addr(im, s, d)], s, d, l)
    BY <2>2 DEF CacheGood
  <2> QED BY <1>3, <2>3
<1> QED BY <1>2, <1>3

\* The cache at the start of a run holds the loaded image.
LEMMA CacheStart ==
  ASSUME NEW im, IsImage(im), NEW ram,
         \A a \in 0..(im.w * im.h - 1) : ram[a] = <<im.run, a, 0>>
  PROVE  CacheGood(im, ram, 0)
<1> SUFFICES ASSUME NEW r \in 1..im.h, NEW c \in 1..im.w, NEW l \in Nat,
                    l = 0 \/ StoreCode(im, l-1, r, c) < 0
             PROVE  StateOk(im, ram[Addr(im, r, c)], r, c, l)
  BY DEF CacheGood
<1>1. l = 0
  <2>1. ASSUME l # 0 PROVE FALSE
    <3>1. l - 1 \in Int /\ l - 1 >= 0 /\ r \in 0..im.h /\ c \in 0..im.w
      BY <2>1 DEF IsImage
    <3>2. Code(im, l - 1, r, c) >= 0
      BY <3>1, CodeOrder
    <3>3. Code(im, l - 1, r, c) \in Int /\ 2 * (im.w + 1) \in Nat
      BY <3>1, CodeSteps DEF IsImage
    <3> QED BY <2>1, <3>2, <3>3 DEF StoreCode
  <2> QED BY <2>1
<1>2. Addr(im, r, c) \in 0..(im.w * im.h - 1)
  BY AddrFacts
<1> QED BY <1>1, <1>2 DEF StateOk

\* At the end of pass n every pixel has taken n + 1 steps.
LEMMA CacheEnd ==
  ASSUME NEW im, IsImage(im), NEW ram, NEW n \in Nat, CacheGood(im, ram, Code(im, n + 1, 3, 1)),
         NEW r \in 1..im.h, NEW c \in 1..im.w
  PROVE  StateOk(im, ram[Addr(im, r, c)], r, c, n + 1)
<1> DEFINE z == Code(im, n + 1, 3, 1)
<1>0. im.w \in Nat /\ im.w >= 1 /\ im.h \in Nat /\ im.h >= 3
  BY DEF IsImage
<1>1. z = Code(im, n + 1, 1, 0) + 2 * (im.w + 1) + 1 /\ Code(im, n + 1, 1, 0) \in Int
  <2>1. \A s \in Int : Code(im, n + 1, s + 1, 1) = Code(im, n + 1, s, 1) + (im.w + 1)
    BY <1>0, CodeSteps
  <2>2. Code(im, n + 1, 2 + 1, 1) = Code(im, n + 1, 2, 1) + (im.w + 1)
    BY <2>1
  <2>3. Code(im, n + 1, 1 + 1, 1) = Code(im, n + 1, 1, 1) + (im.w + 1)
    BY <2>1
  <2>4. Code(im, n + 1, 1, 0 + 1) = Code(im, n + 1, 1, 0) + 1 /\ Code(im, n + 1, 1, 0) \in Int
    BY <1>0, CodeSteps
  <2> QED BY <1>0, <2>2, <2>3, <2>4
<1>2. Code(im, n, r, c) < Code(im, n + 1, 1, 0)
  <2>0. n \in Int /\ r \in 0..im.h /\ c \in 0..im.w
    BY <1>0
  <2>1. ASSUME NEW k \in Int, n < k, NEW s \in 0..im.h, NEW d \in 0..im.w
        PROVE  Code(im, n, r, c) < Code(im, k, s, d)
    BY <2>0, <2>1, CodeOrder
  <2>2. n + 1 \in Int /\ n < n + 1 /\ 1 \in 0..im.h /\ 0 \in 0..im.w
    BY <1>0
  <2> QED BY <2>1, <2>2
<1>3. Code(im, n + 1, 1, 0) < Code(im, n + 1, r, c)
  <2>1. CASE r = 1
    <3>1. Code(im, n + 1, 1, c) = Code(im, n + 1, 1, 0) + c
      BY <1>0 DEF Code
    <3> QED BY <1>0, <1>1, <2>1, <3>1
  <2>2. CASE r > 1
    BY <1>0, <2>2, CodeOrder
  <2> QED BY <1>0, <2>1, <2>2
<1>4. Code(im, n, r, c) \in Int /\ Code(im, n + 1, r, c) \in Int /\ n + 1 \in Nat /\ n + 1 - 1 = n
  BY <1>0, CodeSteps
<1>5. StoreCode(im, n + 1 - 1, r, c) < z /\ z <= StoreCode(im, n + 1, r, c)
  BY <1>0, <1>1, <1>2, <1>3, <1>4 DEF StoreCode
<1> QED BY <1>4, <1>5 DEF CacheGood
-----------------------------------------------------------------------------
\* The pixel stored at a position is the one two rows and a column behind it.
LEMMA StoredPixel ==
  ASSUME NEW im, IsImage(im), NEW l \in Nat, NEW i \in 0..im.h, NEW j \in 0..im.w
  PROVE  /\ RowOf(im, i, j) \in 0..im.h /\ ColOf(im, j) \in 0..im.w /\ StepOf(l, i, j) \in Nat
         /\ Code(im, l, i, j) = StoreCode(im, StepOf(l, i, j) - 1, RowOf(im, i, j), ColOf(im, j))
<1>0. im.w \in Nat /\ im.w >= 1 /\ im.h \in Nat /\ im.h >= 3
  BY DEF IsImage
<1> DEFINE r == IF j = 0 THEN i - 3 ELSE i - 2
           c == ColOf(im, j)
<1>1. r \in Int /\ c \in 0..im.w
  BY <1>0 DEF ColOf
<1>2. Code(im, l, i, j) = Code(im, l, r, c) + 2 * (im.w + 1) + 1
  <2>1. \A s \in Int : /\ Code(im, l, s + 1, c) = Code(im, l, s, c) + (im.w + 1)
                       /\ Code(im, l, s, c) \in Int
    BY <1>1, CodeSteps
  <2>2. CASE j = 0
    <3>1. c = im.w /\ r = i - 3
      BY <2>2 DEF ColOf
    <3>2. Code(im, l, (i - 1) + 1, 0) = Code(im, l, i - 1, im.w) + 1
      BY CodeSteps, <1>0
    <3>3. (i - 1) + 1 = i /\ (i - 2) + 1 = i - 1 /\ (i - 3) + 1 = i - 2
      OBVIOUS
    <3>4. Code(im, l, i - 1, c) = Code(im, l, r, c) + (im.w + 1) + (im.w + 1)
      BY <1>0, <2>1, <3>1, <3>3
    <3>5. Code(im, l, r, c) \in Int
      BY <1>1, <2>1
    <3> QED BY <1>0, <2>2, <3>1, <3>2, <3>3, <3>4, <3>5
  <2>3. CASE j # 0
    <3>1. c = j - 1 /\ r = i - 2 /\ c + 1 = j
      BY <2>3 DEF ColOf
    <3>2. Code(im, l, i, c + 1) = Code(im, l, i, c) + 1
      BY <1>1, CodeSteps
    <3>3. (i - 1) + 1 = i /\ (i - 2) + 1 = i - 1
      OBVIOUS
    <3>4. Code(im, l, i, c) = Code(im, l, r, c) + (im.w + 1) + (im.w + 1)
      BY <1>0, <2>1, <3>1, <3>3
    <3>5. Code(im, l, r, c) \in Int
      BY <1>1, <2>1
    <3> QED BY <1>0, <3>1, <3>2, <3>4, <3>5
  <2> QED BY <2>2, <2>3
<1>3. CASE Back(i, j)
  <2>1. RowOf(im, i, j) = r + im.h + 1 /\ StepOf(l, i, j) = l /\ r \in -3..-1
    BY <1>0, <1>3 DEF RowOf, StepOf, Back
  <2>2. Code(im, l - 1, r + im.h + 1, c) = Code(im, l, r + im.h + 1 - im.h - 1, c)
    BY <1>0, <1>1, CodeSteps
  <2>3. r + im.h + 1 - im.h - 1 = r
    BY <1>0, <1>1
  <2> QED BY <1>0, <1>1, <1>2, <2>1, <2>2, <2>3 DEF StoreCode
<1>4. CASE ~Back(i, j)
  <2>1. RowOf(im, i, j) = r + 0 /\ StepOf(l, i, j) = l + 1 /\ r \in 0..im.h
    BY <1>0, <1>4 DEF RowOf, StepOf, Back
  <2>2. r + 0 = r /\ l + 1 - 1 = l
    BY <1>1
  <2> QED BY <1>0, <1>1, <1>2, <2>1, <2>2 DEF StoreCode
<1> QED BY <1>3, <1>4

\* No other pixel is stored there.
LEMMA StoredPixelOnly ==
  ASSUME NEW im, IsImage(im), NEW l \in Nat, NEW i \in 0..im.h, NEW j \in 0..im.w,
         NEW k \in Int, NEW r \in 1..im.h, NEW c \in 1..im.w,
         Code(im, l, i, j) = StoreCode(im, k, r, c)
  PROVE  k = StepOf(l, i, j) - 1 /\ r = RowOf(im, i, j) /\ c = ColOf(im, j)
<1> DEFINE s == RowOf(im, i, j)
           d == ColOf(im, j)
           v == StepOf(l, i, j) - 1
<1>1. s \in 0..im.h /\ d \in 0..im.w /\ v \in Int /\ Code(im, l, i, j) = StoreCode(im, v, s, d)
  BY StoredPixel
<1>2. im.w \in Int /\ im.h \in Int
  BY DEF IsImage
<1> HIDE DEF s, d, v
<1>3. Code(im, k, r, c) \in Int /\ Code(im, v, s, d) \in Int
  BY <1>1, <1>2, CodeSteps
<1>4. Code(im, k, r, c) = Code(im, v, s, d)
  BY <1>1, <1>2, <1>3 DEF StoreCode
<1>5. r \in 0..im.h /\ c \in 0..im.w
  BY <1>2
<1>6. k = v /\ r = s /\ c = d
  BY <1>1, <1>4, <1>5, CodeUnique
<1> QED BY <1>6 DEF s, d, v

\* The cells of a column stand a row apart.
LEMMA ColumnCells ==
  ASSUME NEW im, IsImage(im), NEW d, NEW l \in Int, NEW r \in Int, NEW c \in Int,
         ColumnGood(im, d, Code(im, l, r + 1, c)), NEW i \in 0..2
  PROVE  Good(im, d[i], Code(im, l, (r + i) - 1, c))
<1>0. im.w \in Int
  BY DEF IsImage
<1>1. /\ Code(im, l, r - 1, c) = Code(im, l, r, c) - (im.w + 1)
      /\ Code(im, l, r + 1, c) = Code(im, l, r, c) + (im.w + 1)
      /\ Code(im, l, r, c) \in Int
  BY CodeSteps
<1> DEFINE z == Code(im, l, r + 1, c)
<1>2. z - 2 * (im.w + 1) = Code(im, l, r - 1, c) /\ z - (im.w + 1) = Code(im, l, r, c)
  BY <1>0, <1>1
<1>3. /\ Good(im, d[0], Code(im, l, r - 1, c)) /\ Good(im, d[1], Code(im, l, r, c))
      /\ Good(im, d[2], Code(im, l, r + 1, c))
  BY <1>2 DEF ColumnGood
<1>4. (r + 0) - 1 = r - 1 /\ (r + 1) - 1 = r /\ (r + 2) - 1 = r + 1
  OBVIOUS
<1> QED BY <1>3, <1>4

\* The cells of a patch are the neighbourhood of its centre.
LEMMA PatchCells ==
  ASSUME NEW im, IsImage(im), NEW p, NEW l \in Int, NEW r \in Int, NEW c \in Int,
         PatchGood(im, p, Code(im, l, r, c)), NEW i \in 0..2, NEW j \in 1..3
  PROVE  Good(im, p[j][i], Code(im, l, (r + i) - 1, (c + j) - 2))
<1>0. im.w \in Int
  BY DEF IsImage
<1> DEFINE z == Code(im, l, r, c)
<1>1. /\ Code(im, l, r + 1, c) = z + (im.w + 1) /\ z \in Int
      /\ Code(im, l, r + 1, c - 1) = Code(im, l, r + 1, c) - 1
      /\ Code(im, l, r + 1, c + 1) = Code(im, l, r + 1, c) + 1
  BY CodeSteps
<1>2. /\ z + im.w = Code(im, l, r + 1, c - 1)
      /\ z + im.w + 1 = Code(im, l, r + 1, c)
      /\ z + im.w + 2 = Code(im, l, r + 1, c + 1)
  BY <1>0, <1>1
<1>3. /\ ColumnGood(im, p[1], Code(im, l, r + 1, c - 1))
      /\ ColumnGood(im, p[2], Code(im, l, r + 1, c))
      /\ ColumnGood(im, p[3], Code(im, l, r + 1, c + 1))
  BY <1>2 DEF PatchGood
<1>4. (c + 1) - 2 = c - 1 /\ (c + 2) - 2 = c /\ (c + 3) - 2 = c + 1
  OBVIOUS
<1>5. ColumnGood(im, p[j], Code(im, l, r + 1, (c + j) - 2)) /\ (c + j) - 2 \in Int
  <2>1. CASE j = 1
    BY <1>3, <1>4, <2>1
  <2>2. CASE j = 2
    BY <1>3, <1>4, <2>2
  <2>3. CASE j = 3
    BY <1>3, <1>4, <2>3
  <2> QED BY <2>1, <2>2, <2>3
<1> QED BY <1>5, ColumnCells

\* What was pushed last makes up the patch of the pixel two rows behind.
LEMMA PatchOfColumns ==
  ASSUME NEW im, IsImage(im), NEW c1, NEW c2, NEW c3, NEW z \in Int,
         ColumnGood(im, c1, z - 2 - im.w), ColumnGood(im, c2, z - 1 - im.w),
         ColumnGood(im, c3, z - im.w)
  PROVE  PatchGood(im, <<c1, c2, c3>>, z - 2 * (im.w + 1))
<1> DEFINE y == z - 2 * (im.w + 1)
<1>1. y + im.w = z - 2 - im.w /\ y + im.w + 1 = z - 1 - im.w /\ y + im.w + 2 = z - im.w
  BY DEF IsImage
<1> HIDE DEF y
<1>2. PatchGood(im, <<c1, c2, c3>>, y)
  BY <1>1 DEF PatchGood
<1> QED BY <1>2 DEF y
-----------------------------------------------------------------------------
\* The fields of the image.
LEMMA ImageFields == Image.w = cacheWidth /\ Image.h = cacheHeight /\ Image.run = run
  BY DEF Image

\* Once an image is loaded its size is one the proofs above are about.
LEMMA ImageLoaded ==
  ASSUME TypeOK, run \in Nat, run > 0
  PROVE  IsImage(Image)
  BY SizeFacts, ImageFields DEF IsImage

\* The reference word of a cell, by its position.
LEMMA ReferenceCell ==
  ASSUME IsImage(Image), NEW r \in Int, NEW c \in Int, NEW v
  PROVE  PixelAt(r - 1, c - 1, v) =
           IF r \in 1..Image.h /\ c \in 1..Image.w
           THEN <<<<Image.run, Addr(Image, r, c)>>, <<Image.run, Addr(Image, r, c), v>>>>
           ELSE BndWord(Image)
<1>1. cacheWidth \in Nat /\ cacheHeight \in Nat
  BY ImageFields DEF IsImage
<1>2. r - 1 \in 0..cacheHeight-1 /\ c - 1 \in 0..cacheWidth-1 <=> r \in 1..Image.h /\ c \in 1..Image.w
  BY <1>1, ImageFields
<1>3. (r - 1) * cacheWidth + (c - 1) = Addr(Image, r, c)
  BY ImageFields DEF Addr
<1> QED BY <1>2, <1>3, ImageFields DEF PixelAt, Pixel, Bnd, BndWord

\* A cell next to one the stale store has not reached within v + 1 steps is not reached within v.
LEMMA FarNeighbour ==
  ASSUME NEW im, IsImage(im), NEW r \in 1..im.h, NEW c \in 1..im.w, NEW i \in 0..2, NEW j \in 1..3,
         NEW v \in Nat, Far(im, r, c, v + 1)
  PROVE  Far(im, (r + i) - 1, (c + j) - 2, v) /\ Far(im, r, c, v)
  BY DEF Far, IsImage

(***************************************************************************)
(* The AU's result for the patch of a pixel is the pixel's next value,     *)
(* unless the stale store has reached a cell of the patch.                 *)
(***************************************************************************)
LEMMA EvalGood ==
  ASSUME IsImage(Image), NEW p, NEW l \in Nat, NEW r \in 1..Image.h, NEW c \in 1..Image.w,
         PatchGood(Image, p, Code(Image, l, r, c))
  PROVE  StateOk(Image, Eval(p), r, c, l + 1)
<1> DEFINE a == Addr(Image, r, c)
<1>0. /\ Image.h \in Nat /\ Image.w \in Nat /\ r \in 0..Image.h /\ c \in 0..Image.w
      /\ l \in Int /\ r \in Int /\ c \in Int
  BY DEF IsImage
<1>1. a \div cacheWidth = r - 1 /\ a % cacheWidth = c - 1 /\ a \in Nat /\ a # NoPixel
  BY AddrFacts, ImageFields DEF NoPixel
<1>2. ASSUME NEW i \in 0..2, NEW j \in 1..3
      PROVE  \/ p[j][i] = PixelAt((r - 1) + i - 1, (c - 1) + j - 2, l)
             \/ ~Far(Image, r, c, l + 1)
  <2> DEFINE s == (r + i) - 1
             d == (c + j) - 2
  <2>1. s \in 0..Image.h+1 /\ d \in 0..Image.w+1 /\ s \in Int /\ d \in Int
    BY <1>0
  <2>2. Good(Image, p[j][i], Code(Image, l, s, d))
    BY <1>0, PatchCells
  <2>3. (r - 1) + i - 1 = s - 1 /\ (c - 1) + j - 2 = d - 1
    BY <1>0
  <2>4. IF s \in 1..Image.h /\ d \in 1..Image.w
        THEN WordOk(Image, p[j][i], l, s, d) ELSE p[j][i] = BndWord(Image)
    BY <2>1, <2>2, NeighbourWord
  <2>5. Far(Image, r, c, l + 1) => Far(Image, s, d, l)
    BY FarNeighbour
  <2> HIDE DEF s, d
  <2>6. CASE s \in 1..Image.h /\ d \in 1..Image.w
    <3>1. p[j][i] = <<<<Image.run, Addr(Image, s, d)>>, p[j][i][2]>> /\ StateOk(Image, p[j][i][2], s, d, l)
      BY <2>4, <2>6 DEF WordOk
    <3>2. CASE p[j][i][2] = <<Image.run, Addr(Image, s, d), l>>
      <4>1. p[j][i] = <<<<Image.run, Addr(Image, s, d)>>, <<Image.run, Addr(Image, s, d), l>>>>
        BY <3>1, <3>2
      <4>2. PixelAt(s - 1, d - 1, l) = <<<<Image.run, Addr(Image, s, d)>>, <<Image.run, Addr(Image, s, d), l>>>>
        BY <2>1, <2>6, ReferenceCell
      <4> QED BY <2>3, <4>1, <4>2
    <3>3. CASE ~Far(Image, s, d, l)
      BY <2>5, <3>3
    <3> QED BY <3>1, <3>2, <3>3 DEF StateOk
  <2>7. CASE ~(s \in 1..Image.h /\ d \in 1..Image.w)
    <3>1. PixelAt(s - 1, d - 1, l) = BndWord(Image)
      BY <2>1, <2>7, ReferenceCell
    <3> QED BY <2>3, <2>4, <2>7, <3>1
  <2> QED BY <2>6, <2>7
<1>3. p[2][1] = <<<<Image.run, a>>, p[2][1][2]>> /\ StateOk(Image, p[2][1][2], r, c, l)
  <2>1. Good(Image, p[2][1], Code(Image, l, (r + 1) - 1, (c + 2) - 2))
    <3>1. ASSUME NEW i \in 0..2, NEW j \in 1..3
          PROVE  Good(Image, p[j][i], Code(Image, l, (r + i) - 1, (c + j) - 2))
      BY <1>0, PatchCells
    <3>2. 1 \in 0..2 /\ 2 \in 1..3
      OBVIOUS
    <3> QED BY <3>1, <3>2
  <2>2. (r + 1) - 1 = r /\ (c + 2) - 2 = c
    BY <1>0
  <2>3. WordOk(Image, p[2][1], l, r, c)
    BY <1>0, <2>1, <2>2, GoodAt
  <2> QED BY <2>3 DEF WordOk
<1>4. CASE p[2][1][2] = <<Image.run, a, l>>
  <2> DEFINE All == \A i \in 0..patchWH-1, j \in 1..patchWH :
                      p[j][i] = PixelAt((r - 1) + i - 1, (c - 1) + j - 2, l)
  <2>1. Eval(p) = IF All THEN <<run, a, l + 1>> ELSE JunkX
    <3>1. p[2][1][2][2] = a /\ p[2][1][2][3] = l
      BY <1>4
    <3> QED BY <1>1, <3>1 DEF Eval
  <2>2. All \/ ~Far(Image, r, c, l + 1)
    BY <1>2 DEF patchWH
  <2> HIDE DEF All
  <2> QED BY <2>1, <2>2, ImageFields DEF StateOk
<1>5. CASE ~Far(Image, r, c, l) /\ p[2][1][2] = JunkX
  <2>1. p[2][1][2][2] = NoPixel
    BY <1>5 DEF JunkX
  <2>2. Eval(p) = JunkX
    BY <2>1 DEF Eval
  <2>3. ~Far(Image, r, c, l + 1)
    BY <1>5, FarNeighbour
  <2> QED BY <2>2, <2>3 DEF StateOk
<1> QED BY <1>3, <1>4, <1>5 DEF StateOk

\* A patch of an earlier run gives a value nothing is known of.
LEMMA EvalStale ==
  ASSUME NEW p, p[2][1][1][1] # run
  PROVE  Eval(p) = JunkX
<1>1. ASSUME NEW i, NEW j, NEW v PROVE PixelAt(i, j, v)[1][1] = run
  BY DEF PixelAt, Pixel, Bnd
<1>2. ASSUME NEW i, NEW j, NEW v PROVE p[2][1] # PixelAt(i, j, v)
  BY <1>1
<1>3. 1 \in 0..patchWH-1 /\ 2 \in 1..patchWH
  BY DEF patchWH
<1> QED BY <1>2, <1>3 DEF Eval

\* Far is the distance from the pixel of the stale store.
LEMMA FarDistance ==
  ASSUME IsImage(Image), NEW r \in 1..Image.h, NEW c \in 1..Image.w, NEW v \in Nat,
         Distance(Addr(Image, r, c), StalePixel) > v
  PROVE  Far(Image, r, c, v)
<1>0. Image.h \in Nat /\ Image.w \in Nat /\ Image.h >= 3 /\ Image.w >= 1
  BY DEF IsImage
<1>1. Addr(Image, r, c) \div cacheWidth = r - 1 /\ Addr(Image, r, c) % cacheWidth = c - 1
  BY AddrFacts, ImageFields
<1>2. StalePixel = Addr(Image, Image.h - 2, Image.w)
  <2>1. (Image.h - 2) - 1 = Image.h - 3 /\ (Image.h - 3) * Image.w \in Int
    BY <1>0
  <2>2. Addr(Image, Image.h - 2, Image.w) = (Image.h - 3) * Image.w + (Image.w - 1)
    BY <2>1 DEF Addr
  <2>3. StalePixel = (Image.h - 3) * Image.w + Image.w - 1
    BY ImageFields DEF StalePixel
  <2> QED BY <1>0, <2>1, <2>2, <2>3
<1>3. StalePixel \div cacheWidth = Image.h - 3 /\ StalePixel % cacheWidth = Image.w - 1
  <2>1. Image.h - 2 \in 1..Image.h /\ Image.w \in 1..Image.w /\ (Image.h - 2) - 1 = Image.h - 3
    BY <1>0
  <2> QED BY <1>2, <2>1, AddrFacts, ImageFields
<1> DEFINE dr == (r - 1) - (Image.h - 3)
           dc == (c - 1) - (Image.w - 1)
           Abs(n) == IF n < 0 THEN -n ELSE n
<1>4. (IF Abs(dr) > Abs(dc) THEN Abs(dr) ELSE Abs(dc)) > v
  BY <1>1, <1>3 DEF Distance
<1> QED BY <1>0, <1>4 DEF Far
-----------------------------------------------------------------------------
\* An enabled edge of the line buffers during a run.
LEMMA RingShift ==
  ASSUME RingInv, Running, cacheWidth \in 1..cacheWidthMAX, NEW d, Bank!Shift(cacheWidth, d)
  PROVE  /\ read_address' = IF read_address = cacheWidth THEN 0 ELSE read_address + 1
         /\ write_address' = read_address
         /\ q' = FIFO[read_address']
         /\ FIFO' = [s \in 0..cacheWidthMAX |-> IF s = read_address THEN d ELSE FIFO[s]]
<1>1. /\ cacheWidth \in 1..cacheWidthMAX /\ read_address \in 0..cacheWidth
      /\ PtrMod \in Nat /\ PtrMod > cacheWidthMAX /\ cacheWidthMAX \in Nat
      /\ write_address = IF read_address = 0 THEN cacheWidth ELSE read_address - 1
  BY ProcessorAssumption, MachineAssumption DEF ProcessorAssumption, MachineAssumption, RingInv
<1> DEFINE r == Bank!NextPointers(cacheWidth)[1]
           wr == Bank!NextPointers(cacheWidth)[2]
<1>2. r = (IF read_address = cacheWidth THEN 0 ELSE read_address + 1) /\ wr = read_address
  <2>1. CASE read_address = cacheWidth
    BY <1>1, <2>1 DEF Bank!NextPointers
  <2>2. CASE read_address = 0
    BY <1>1, <2>2 DEF Bank!NextPointers
  <2>3. CASE read_address # cacheWidth /\ read_address # 0
    <3>1. /\ read_address + 1 \in 0..PtrMod-1 /\ write_address = read_address - 1
          /\ write_address # cacheWidth
      BY <1>1, <2>3
    <3>2. /\ (read_address + 1) % PtrMod = read_address + 1
          /\ (write_address + 1) % PtrMod = read_address
      BY <1>1, <3>1
    <3> QED BY <1>1, <2>3, <3>1, <3>2 DEF Bank!NextPointers
  <2> QED BY <2>1, <2>2, <2>3
<1>3. /\ read_address' = r /\ write_address' = wr
      /\ q' \in IF r <= cacheWidthMAX THEN {FIFO[r]} ELSE {JunkColumn}
      /\ FIFO' = [a \in 0..cacheWidthMAX |-> IF a = wr THEN d ELSE FIFO[a]]
  BY DEF Bank!Shift
<1> HIDE DEF r, wr
<1>4. r <= cacheWidthMAX
  BY <1>1, <1>2
<1> QED BY <1>2, <1>3, <1>4

\* The image, the lap and the code of a position stay while the machine stays there.
LEMMA SamePlace ==
  ASSUME UNCHANGED <<run, cacheWidth, cacheHeight, init_state, iter, ii, jj>>
  PROVE  /\ Image' = Image /\ Early' = Early /\ Lap' = Lap /\ Z' = Z /\ InImage' = InImage
         /\ SRow' = SRow /\ SCol' = SCol /\ SStep' = SStep /\ NoCalc' = NoCalc
<1>1. Image' = Image
  BY DEF Image
<1>2. Early' = Early
  BY DEF Early
<1>3. Lap' = Lap
  BY <1>2 DEF Lap
<1>4. Z' = Z /\ SRow' = SRow /\ SCol' = SCol /\ SStep' = SStep
  BY <1>1, <1>3 DEF Z, SRow, SCol, SStep
<1>5. NoCalc' = NoCalc /\ InImage' = InImage
  BY DEF NoCalc, InImage, Origin
<1> QED BY <1>1, <1>2, <1>3, <1>4, <1>5

\* A clock keeps the image.
LEMMA ClockImage ==
  ASSUME ProcessorClock
  PROVE  /\ UNCHANGED <<rst, cacheWidth, cacheHeight, iter_cnt, run>> /\ Image' = Image
         /\ Clock /\ AluClock /\ UNCHANGED inputs
  BY DEF ProcessorClock, inputs, Image, Clock

\* The data registers at a clock at which nothing is pushed and no calculation starts.
LEMMA QuietClock ==
  ASSUME ProcessorClock, ~PushPixel, ~fifo_clk_en', ~(alu_calc' /\ ~alu_calc)
  PROVE  /\ UNCHANGED <<fifo_data_in, cols, ideal, read_address, FIFO, q, lat, lat_ideal, x_out, err>>
         /\ write_address' = IF read_address = 0 THEN cacheWidth ELSE write_address
  BY DEF ProcessorClock, PatchClock, LineClock, AuLatch, Bank!Hold

\* What is known of the position during a run.
LEMMA Place ==
  ASSUME IInv, TagInv, PassInv, Running
  PROVE  /\ IsImage(Image) /\ run \in Nat /\ run > 0
         /\ Image.w = cacheWidth /\ Image.h = cacheHeight /\ Image.run = run
         /\ cacheWidth \in Nat /\ cacheWidth >= 1 /\ cacheHeight \in Nat /\ cacheHeight >= 3
         /\ cacheWidth \in 1..cacheWidthMAX
         /\ ii \in 0..cacheHeight /\ jj \in 0..cacheWidth /\ ii_1d = ii * cacheWidth
         /\ iter \in Nat /\ iter <= iter_cnt /\ iter_cnt \in Nat /\ iter_cnt <= iterMAX
         /\ init_state \in {0, 1}
         /\ Lap \in Nat /\ Z \in Int
         /\ ~Early /\ init_state = 0 => Lap = iter
         /\ Early /\ init_state = 0 => Lap = iter + 1
         /\ init_state = 1 => Lap = 0 /\ Early /\ iter = 0
<1>1. TypeOK /\ PositionInv
  BY DEF IInv, StoresInImage
<1>2. run \in Nat /\ run > 0
  BY DEF TagInv, PassInv, Running
<1>3. IsImage(Image)
  BY <1>1, <1>2, ImageLoaded
<1>4. /\ iter \in Nat /\ iter <= iter_cnt /\ iter_cnt \in Nat /\ iter_cnt <= iterMAX
      /\ init_state \in {0, 1}
  BY <1>1, MachineAssumption DEF MachineAssumption, TypeOK, InputTypes, RasterTypes, PositionInv
<1>5. init_state = 1 => Early /\ iter = 0
  BY DEF PassInv
<1>6. /\ ~Early /\ init_state = 0 => Lap = iter
      /\ Early /\ init_state = 0 => Lap = iter + 1
      /\ init_state = 1 => Lap = 0
  BY <1>5 DEF Lap
<1>7. Lap \in Nat
  BY <1>4, <1>6
<1>8. /\ cacheWidth \in Nat /\ cacheWidth >= 1 /\ cacheHeight \in Nat /\ cacheHeight >= 3
      /\ cacheWidth \in 1..cacheWidthMAX
  BY <1>1, SizeFacts DEF TypeOK, InputTypes
<1>9. ii \in 0..cacheHeight /\ jj \in 0..cacheWidth /\ ii_1d = ii * cacheWidth
  BY <1>1 DEF PositionInv
<1>10. Z \in Int
  <2>1. Lap \in Int /\ ii \in Int /\ jj \in Int
    BY <1>7, <1>8, <1>9
  <2> QED BY <1>3, <2>1, CodeSteps DEF Z
<1> QED BY <1>2, <1>3, <1>4, <1>5, <1>6, <1>7, <1>8, <1>9, <1>10, ImageFields
-----------------------------------------------------------------------------
\* The machine's own invariant at a clock.
LEMMA ClockMachine ==
  ASSUME IInv, ProcessorClock
  PROVE  IInv'
  BY ClockImage, NextInv DEF Next

\* Writing a word keeps the cache's size.
LEMMA RamSize ==
  ASSUME xram = [a \in 0..AddrSpace-1 |-> xram[a]], CacheClock
  PROVE  xram' = [a \in 0..AddrSpace-1 |-> xram'[a]]
  BY DEF CacheClock

\* The run tags of the columns while they stay.
LEMMA TagKeep ==
  ASSUME TagInv, CacheClock, UNCHANGED <<run, FIFO, q, cols, lat>>
  PROVE  TagInv'
<1>1. xram' = [a \in 0..AddrSpace-1 |-> xram'[a]]
  BY RamSize DEF TagInv
<1> QED BY <1>1 DEF TagInv, Tagged

\* A clock between runs moves no data.
LEMMA IdleData ==
  ASSUME PInv, ProcessorClock, ~Running, fifo_clk_en' = fifo_clk_en, alu_calc' = alu_calc
  PROVE  /\ UNCHANGED <<FIFO, q, cols, lat, x_out, xram, err, read_address, run>>
         /\ ~x_we /\ ~alu_calc /\ ~fifo_clk_en /\ TagInv'
         /\ write_address' = IF read_address = 0 THEN cacheWidth ELSE write_address
<1>1. ~x_we /\ ~alu_calc /\ ~fifo_clk_en
  BY DEF PInv, IInv, PhaseInv, TimerInv, RingInv, Running
<1>2. ~PushPixel
  BY DEF PushPixel, Reading, Running
<1>3. ~fifo_clk_en' /\ ~(alu_calc' /\ ~alu_calc)
  BY <1>1
<1>4. /\ UNCHANGED <<FIFO, q, cols, lat, x_out, err, read_address>>
      /\ write_address' = IF read_address = 0 THEN cacheWidth ELSE write_address
  BY <1>2, <1>3, QuietClock
<1>5. UNCHANGED xram /\ CacheClock /\ UNCHANGED run
  BY <1>1 DEF ProcessorClock, CacheClock
<1>6. TagInv'
  BY <1>4, <1>5, TagKeep DEF PInv
<1> QED BY <1>1, <1>4, <1>5, <1>6

\* rst='1'.
LEMMA ResetKeeps ==
  ASSUME PInv, ProcessorClock, Reset
  PROVE  PInv'
<1>1. IInv' /\ UNCHANGED <<rst, cacheWidth, cacheHeight, iter_cnt, run>>
  BY ClockMachine, ClockImage DEF PInv
<1>2. rst /\ ~Running
  BY DEF Reset, PInv, IInv, PhaseInv
<1>3. state' = "X_OLD_U_INIT" /\ fifo_clk_en' = fifo_clk_en /\ alu_calc' = alu_calc
  BY DEF Reset
<1>4. /\ UNCHANGED <<FIFO, q, cols, lat, x_out, xram, err, read_address, run>>
      /\ ~x_we /\ ~alu_calc /\ ~fifo_clk_en /\ TagInv'
      /\ write_address' = IF read_address = 0 THEN cacheWidth ELSE write_address
  BY <1>2, <1>3, IdleData
<1>5. RingInv'
  BY <1>1, <1>3, <1>4 DEF PInv, RingInv, Running
<1>6. PassInv' /\ FlowInv' /\ ReadInv' /\ WriteInv' /\ LatInv' /\ DoneInv'
  BY <1>1, <1>2, <1>3 DEF PassInv, FlowInv, ReadInv, WriteInv, LatInv, DoneInv, Running, Addressed, ready
<1>7. StartInv'
  BY <1>1, <1>2, <1>4 DEF PInv, StartInv
<1> QED BY <1>1, <1>4, <1>5, <1>6, <1>7 DEF PInv

\* SUCCESS.
LEMMA FinishedKeeps ==
  ASSUME PInv, ProcessorClock, Finished
  PROVE  PInv'
<1>1. IInv' /\ UNCHANGED <<rst, cacheWidth, cacheHeight, iter_cnt, run>> /\ Image' = Image
  BY ClockMachine, ClockImage DEF PInv
<1>2. ~rst /\ ~Running /\ state = "SUCCESS"
  BY DEF Finished, Running
<1>3. state' = state /\ fifo_clk_en' = fifo_clk_en /\ alu_calc' = alu_calc
  BY DEF Finished, progress
<1>4. /\ UNCHANGED <<FIFO, q, cols, lat, x_out, xram, err, read_address, run>>
      /\ ~x_we /\ ~alu_calc /\ ~fifo_clk_en /\ TagInv'
      /\ write_address' = IF read_address = 0 THEN cacheWidth ELSE write_address
  BY <1>2, <1>3, IdleData
<1>5. RingInv'
  BY <1>1, <1>2, <1>3, <1>4 DEF PInv, RingInv, Running
<1>6. PassInv' /\ FlowInv' /\ ReadInv' /\ WriteInv' /\ LatInv' /\ StartInv'
  BY <1>1, <1>2, <1>3 DEF PInv, PassInv, FlowInv, ReadInv, WriteInv, LatInv, StartInv, Running, Addressed
<1>7. DoneInv'
  BY <1>1, <1>2, <1>3, <1>4 DEF PInv, DoneInv, ready
<1> QED BY <1>1, <1>4, <1>5, <1>6, <1>7 DEF PInv

\* X_OLD_U_INIT: nothing of the run has been pushed, and the cache holds the loaded image.
LEMMA StartRunKeeps ==
  ASSUME PInv, ProcessorClock, StartRun
  PROVE  PInv'
<1>1. IInv' /\ UNCHANGED <<rst, cacheWidth, cacheHeight, iter_cnt, run>> /\ Image' = Image
  BY ClockMachine, ClockImage DEF PInv
<1>2. ~rst /\ ~Running /\ state = "X_OLD_U_INIT"
  BY DEF StartRun, Running
<1>3. /\ state' = "X_OLD_U_READ" /\ fifo_clk_en' = fifo_clk_en /\ alu_calc' = alu_calc
      /\ init_state' = 1 /\ ii' = 0 /\ jj' = 0 /\ cache_lag' = 0 /\ iter' = iter /\ x_we' = x_we
  BY DEF StartRun
<1>4. /\ UNCHANGED <<FIFO, q, cols, lat, x_out, xram, err, read_address, run>>
      /\ ~x_we /\ ~alu_calc /\ ~fifo_clk_en /\ TagInv'
      /\ write_address' = IF read_address = 0 THEN cacheWidth ELSE write_address
  BY <1>2, <1>3, IdleData
<1>5. RingInv'
  BY <1>1, <1>2, <1>3, <1>4 DEF PInv, RingInv, Running
<1>6. run > 0 /\ run \in Nat /\ iter = 0
  BY <1>2 DEF PInv, PassInv, TagInv, IInv, StoresInImage, PositionInv
<1>7. PassInv'
  BY <1>1, <1>3, <1>6 DEF PassInv, Early
<1>8. IsImage(Image) /\ Image.w = cacheWidth /\ Image.h = cacheHeight /\ Image.run = run
  BY <1>6, ImageLoaded, ImageFields DEF PInv, IInv
<1>9. Z' = 0 /\ Last' = -1
  <2>1. Lap' = 0
    BY <1>3, <1>6 DEF Lap
  <2>2. Code(Image, 0, 0, 0) = 0
    BY <1>8 DEF Code, IsImage
  <2> QED BY <1>1, <1>3, <2>1, <2>2 DEF Z, Last
<1>10. FlowInv'
  <2>1. LinesGood(Image, FIFO, read_address, -1)
    <3>1. ASSUME NEW s \in 0..Image.w
          PROVE  ColumnGood(Image, FIFO[s], (-1) - Age(Image.w, read_address, s))
      <4>1. (-1) - Age(Image.w, read_address, s) \in Int /\ (-1) - Age(Image.w, read_address, s) < 0
        BY <1>8 DEF PInv, RingInv, Age, IsImage
      <4> QED BY <1>8, <4>1, ColumnBefore
    <3> QED BY <3>1 DEF LinesGood
  <2>2. /\ -1 - cacheWidth \in Int /\ -1 - cacheWidth < 0
        /\ -1 - 1 - cacheWidth \in Int /\ -1 - 1 - cacheWidth < 0
        /\ -1 - 2 - cacheWidth \in Int /\ -1 - 2 - cacheWidth < 0
    BY <1>8 DEF IsImage
  <2>3. /\ ColumnGood(Image, q, -1 - cacheWidth)
        /\ ColumnGood(Image, cols[2], -1 - 1 - cacheWidth)
        /\ ColumnGood(Image, cols[1], -1 - 2 - cacheWidth)
    BY <1>8, <2>2, ColumnBefore
  <2>4. CacheGood(Image, xram, 0)
    <3>1. \A a \in 0..(Image.w * Image.h - 1) : xram[a] = <<Image.run, a, 0>>
      BY <1>2, <1>6, <1>8 DEF PInv, StartInv
    <3> QED BY <1>8, <3>1, CacheStart
  <2>5. Ram' = xram
    BY <1>3, <1>4 DEF Ram
  <2> QED BY <1>1, <1>4, <1>9, <2>1, <2>3, <2>4, <2>5 DEF FlowInv
<1>11. ReadInv' /\ WriteInv' /\ DoneInv'
  BY <1>3 DEF ReadInv, WriteInv, DoneInv, Addressed, ready
<1>12. LatInv'
  BY <1>3, <1>4 DEF LatInv
<1>13. StartInv'
  BY <1>1, <1>2, <1>3, <1>4 DEF PInv, StartInv
<1> QED BY <1>1, <1>4, <1>5, <1>7, <1>10, <1>11, <1>12, <1>13 DEF PInv
-----------------------------------------------------------------------------
\* What the first two clocks of X_OLD_U_READ have in common: a pending write lands, all else stays.
LEMMA ReadKeeps ==
  ASSUME PInv, ProcessorClock, NEW lag \in {0, 1}, Reading(lag), state' = "X_OLD_U_READ",
         fifo_clk_en' = fifo_clk_en
  PROVE  /\ IInv' /\ RingInv' /\ TagInv' /\ PassInv' /\ StartInv' /\ FlowInv' /\ LatInv' /\ DoneInv'
         /\ Running /\ state = "X_OLD_U_READ" /\ cache_lag = lag /\ cache_lag' = lag + 1
         /\ UNCHANGED <<run, cacheWidth, cacheHeight, init_state, iter, ii, jj, ii_1d>>
         /\ UNCHANGED <<cacheAddressShift, lat, err, lat_ideal, ideal>>
         /\ ~alu_calc /\ alu_calc' = alu_calc
         /\ lag = 1 => ~x_we
<1>1. IInv' /\ UNCHANGED <<rst, cacheWidth, cacheHeight, iter_cnt, run>> /\ Image' = Image
  BY ClockMachine, ClockImage DEF PInv
<1>2. /\ ~rst /\ Running /\ state = "X_OLD_U_READ" /\ cache_lag = lag
      /\ x_we' = FALSE /\ alu_calc' = alu_calc /\ cacheAddressShift' = cacheAddressShift
      /\ UNCHANGED <<init_state, iter, ii, jj, ii_1d>>
  BY DEF Reading, Running, position
<1>3. cache_lag' = lag + 1
  BY DEF Reading, cacheLagMAX
<1>4. ~alu_calc /\ ~fifo_clk_en /\ (lag = 1 => ~x_we)
  BY <1>2 DEF PInv, IInv, TimerInv, RingInv, PhaseInv
<1>5. ~PushPixel
  BY <1>2 DEF PushPixel, Reading
<1>6. /\ UNCHANGED <<FIFO, q, cols, lat, x_out, err, read_address, lat_ideal, ideal>>
      /\ write_address' = IF read_address = 0 THEN cacheWidth ELSE write_address
  BY <1>2, <1>4, <1>5, QuietClock
<1>7. CacheClock
  BY DEF ProcessorClock
<1>8. TagInv'
  BY <1>1, <1>6, <1>7, TagKeep DEF PInv
<1>9. RingInv'
  BY <1>1, <1>2, <1>4, <1>6 DEF PInv, RingInv, Running
<1>10. /\ Early' = Early /\ Lap' = Lap /\ Z' = Z
       /\ SRow' = SRow /\ SCol' = SCol /\ SStep' = SStep /\ NoCalc' = NoCalc
  BY <1>1, <1>2, SamePlace
<1>11. PassInv'
  BY <1>1, <1>2, <1>10 DEF PInv, PassInv, Running
<1>12. FlowInv'
  <2>1. Ram' = Ram
    BY <1>2, <1>7 DEF Ram, CacheClock
  <2>2. Last' = Last
    BY <1>2, <1>10 DEF Last
  <2> QED BY <1>1, <1>2, <1>6, <1>10, <2>1, <2>2 DEF PInv, FlowInv
<1>13. LatInv'
  BY <1>1, <1>2, <1>4, <1>6, <1>10 DEF PInv, LatInv
<1>14. StartInv' /\ DoneInv'
  BY <1>1, <1>2, <1>4, <1>6 DEF PInv, StartInv, DoneInv, ready, Running
<1> QED BY <1>1, <1>2, <1>3, <1>4, <1>6, <1>8, <1>9, <1>11, <1>12, <1>13, <1>14

\* A pixel's address is a word of the cache, which to_unsigned keeps.
LEMMA PixelWord ==
  ASSUME TypeOK, IsImage(Image), NEW r \in 1..cacheHeight, NEW c \in 1..cacheWidth
  PROVE  /\ Addr(Image, r, c) \in 0..(cacheWidth * cacheHeight - 1)
         /\ Addr(Image, r, c) \in 0..AddrSpace-1
         /\ ToUnsigned(Addr(Image, r, c)) = Addr(Image, r, c)
<1>1. Addr(Image, r, c) \in 0..(cacheWidth * cacheHeight - 1)
  BY AddrFacts, ImageFields
<1>2. Addr(Image, r, c) \in 0..AddrSpace-1
  BY <1>1, SizeFacts
<1> QED BY <1>1, <1>2, ToUnsignedRange

\* X_OLD_U_READ, first clock: the read address is the pixel of the position.
LEMMA AssignReadKeeps ==
  ASSUME PInv, ProcessorClock, AssignReadAddress
  PROVE  PInv'
<1>1. Reading(0) /\ state' = "X_OLD_U_READ" /\ fifo_clk_en' = fifo_clk_en
  BY DEF AssignReadAddress, Reading
<1>2. /\ IInv' /\ RingInv' /\ TagInv' /\ PassInv' /\ StartInv' /\ FlowInv' /\ LatInv' /\ DoneInv'
      /\ Running /\ cache_lag' = 0 + 1
      /\ UNCHANGED <<run, cacheWidth, cacheHeight, init_state, iter, ii, jj, ii_1d>>
  BY <1>1, ReadKeeps
<1>3. WriteInv'
  BY <1>1, <1>2 DEF WriteInv, Addressed
<1>4. Image' = Image /\ InImage' = InImage
  BY <1>2, SamePlace
<1>5. ASSUME InImage
      PROVE  x_address' = Addr(Image, ii, jj) /\ u_address' = Addr(Image, ii, jj)
  <2>1. TypeOK /\ IsImage(Image) /\ ii \in 1..cacheHeight /\ jj \in 1..cacheWidth
        /\ ii_1d = ii * cacheWidth /\ cacheWidth \in Nat /\ cacheHeight \in Nat
    BY <1>2, <1>5, Place DEF PInv, IInv, InImage
  <2>2. ii_1d - cacheWidth + (jj - 1) = Addr(Image, ii, jj)
    <3>1. (ii - 1) * cacheWidth = ii * cacheWidth - cacheWidth /\ ii * cacheWidth \in Int
      BY <2>1
    <3>2. Addr(Image, ii, jj) = (ii - 1) * cacheWidth + (jj - 1)
      BY ImageFields DEF Addr
    <3> QED BY <2>1, <3>1, <3>2
  <2>3. ToUnsigned(Addr(Image, ii, jj)) = Addr(Image, ii, jj)
    BY <2>1, PixelWord
  <2>4. x_address' = ToUnsigned(ii_1d - cacheWidth + (jj - 1))
        /\ u_address' = ToUnsigned(ii_1d - cacheWidth + (jj - 1))
    BY <1>5 DEF AssignReadAddress
  <2> QED BY <2>2, <2>3, <2>4
<1>6. ReadInv'
  BY <1>2, <1>4, <1>5 DEF ReadInv
<1> QED BY <1>2, <1>3, <1>6 DEF PInv

(***************************************************************************)
(* The address of a store is that of the pixel two rows and a column       *)
(* behind, also at the rows where it belongs to the pass before.           *)
(***************************************************************************)
LEMMA WriteAddress ==
  ASSUME IInv, TagInv, PassInv, Running, NEW a,
         \/ AfterWrap /\ a = WrapBase + (jj - 2)
         \/ AfterWrapRowEnd /\ a = WrapBase - cacheWidth + (cacheWidth - 1)
         \/ Body /\ a = BodyBase + (jj - 2)
         \/ BodyRowEnd /\ a = BodyBase - cacheWidth + (cacheWidth - 1)
         \/ Origin /\ a = WrapBase - cacheWidth + (cacheWidth - 1)
  PROVE  ToUnsigned(a) = Addr(Image, SRow, SCol) /\ ~NoCalc /\ jj # 1
<1>0. TypeOK /\ PositionInv
  BY DEF IInv, StoresInImage
<1>1. /\ Image.w = cacheWidth /\ Image.h = cacheHeight
      /\ cacheWidth \in Nat /\ cacheWidth >= 1 /\ cacheHeight \in Nat /\ cacheHeight >= 3
      /\ ii \in 0..cacheHeight /\ jj \in 0..cacheWidth /\ init_state \in {0, 1}
      /\ init_state = 1 => Early
  BY Place
<1>2. /\ ii_1d = ii * cacheWidth /\ cacheAddressShift = cacheWidth * cacheHeight
      /\ ii_1d \in Int /\ cacheAddressShift \in Int
      /\ ii = 0 => ii_1d = 0
      /\ ii = 1 => ii_1d = cacheWidth
      /\ ii = 2 => ii_1d = 2 * cacheWidth
  BY <1>0, RowBase, SizeFacts DEF PositionInv
<1>3. a = Addr(Image, SRow, SCol)
  <2>1. Addr(Image, SRow, SCol) = (SRow - 1) * cacheWidth + (SCol - 1)
    BY <1>1 DEF Addr
  <2>2. /\ (ii - 3) * cacheWidth = ii_1d - 3 * cacheWidth
        /\ (ii - 4) * cacheWidth = ii_1d - 4 * cacheWidth
        /\ (ii + cacheHeight - 2) * cacheWidth = cacheAddressShift + ii_1d - 2 * cacheWidth
        /\ (ii + cacheHeight - 3) * cacheWidth = cacheAddressShift + ii_1d - 3 * cacheWidth
    BY <1>1, <1>2
  <2>3. CASE AfterWrap /\ a = WrapBase + (jj - 2)
    <3>1. SRow - 1 = ii + cacheHeight - 2 /\ SCol = jj - 1
      BY <1>1, <2>3 DEF AfterWrap, SRow, SCol, RowOf, ColOf, Back
    <3> QED BY <1>1, <1>2, <2>1, <2>2, <2>3, <3>1 DEF WrapBase
  <2>4. CASE \/ AfterWrapRowEnd /\ a = WrapBase - cacheWidth + (cacheWidth - 1)
             \/ Origin /\ a = WrapBase - cacheWidth + (cacheWidth - 1)
    <3>1. SRow - 1 = ii + cacheHeight - 3 /\ SCol = cacheWidth
      BY <1>1, <2>4 DEF AfterWrapRowEnd, Origin, SRow, SCol, RowOf, ColOf, Back
    <3> QED BY <1>1, <1>2, <2>1, <2>2, <2>4, <3>1 DEF WrapBase
  <2>5. CASE Body /\ a = BodyBase + (jj - 2)
    <3>1. SRow - 1 = ii - 3 /\ SCol = jj - 1
      BY <1>1, <2>5 DEF Body, SRow, SCol, RowOf, ColOf, Back
    <3> QED BY <1>1, <1>2, <2>1, <2>2, <2>5, <3>1 DEF BodyBase
  <2>6. CASE BodyRowEnd /\ a = BodyBase - cacheWidth + (cacheWidth - 1)
    <3>1. SRow - 1 = ii - 4 /\ SCol = cacheWidth
      BY <1>1, <2>6 DEF BodyRowEnd, SRow, SCol, RowOf, ColOf, Back
    <3> QED BY <1>1, <1>2, <2>1, <2>2, <2>6, <3>1 DEF BodyBase
  <2> QED BY <2>3, <2>4, <2>5, <2>6
<1>4. ToUnsigned(a) = a
  BY <1>0, StoreAddress
<1>5. ~NoCalc /\ jj # 1
  BY <1>1 DEF NoCalc, AfterWrap, AfterWrapRowEnd, Body, BodyRowEnd, Origin, Early
<1> QED BY <1>3, <1>4, <1>5

\* X_OLD_U_READ, second clock: the pixel read still has the value of this lap.
LEMMA AssignWriteKeeps ==
  ASSUME PInv, ProcessorClock, AssignWriteAddress
  PROVE  PInv'
<1>1. Reading(1) /\ state' = "X_OLD_U_READ" /\ fifo_clk_en' = fifo_clk_en
  BY DEF AssignWriteAddress, Reading
<1>2. /\ IInv' /\ RingInv' /\ TagInv' /\ PassInv' /\ StartInv' /\ FlowInv' /\ LatInv' /\ DoneInv'
      /\ Running /\ state = "X_OLD_U_READ" /\ cache_lag = 1 /\ cache_lag' = 1 + 1 /\ ~x_we
      /\ UNCHANGED <<run, cacheWidth, cacheHeight, init_state, iter, ii, jj, ii_1d>>
  BY <1>1, ReadKeeps
<1>3. /\ Image' = Image /\ InImage' = InImage /\ Lap' = Lap
      /\ SRow' = SRow /\ SCol' = SCol /\ NoCalc' = NoCalc
  BY <1>2, SamePlace
<1>4. /\ IsImage(Image) /\ Image.w = cacheWidth /\ Image.h = cacheHeight /\ Image.run = run
      /\ Lap \in Nat /\ ii \in 0..cacheHeight /\ jj \in 0..cacheWidth /\ init_state \in {0, 1}
      /\ cacheWidth \in Nat /\ cacheHeight \in Nat /\ cacheHeight >= 3
  BY <1>2, Place DEF PInv
<1>5. WriteInv'
  <2>1. ASSUME NEW a, Store(a),
               \/ AfterWrap /\ a = WrapBase + (jj - 2)
               \/ AfterWrapRowEnd /\ a = WrapBase - cacheWidth + (cacheWidth - 1)
               \/ Body /\ a = BodyBase + (jj - 2)
               \/ BodyRowEnd /\ a = BodyBase - cacheWidth + (cacheWidth - 1)
               \/ Origin /\ a = WrapBase - cacheWidth + (cacheWidth - 1)
        PROVE  cache_wr_lag' = 0 /\ ~NoCalc /\ x_address' = Addr(Image, SRow, SCol)
    BY <1>2, <2>1, WriteAddress DEF PInv, Store
  <2>2. RowStart => ~NoCalc /\ jj = 1
    BY DEF RowStart, NoCalc
  <2>3. ~(AfterWrap \/ AfterWrapRowEnd \/ Body \/ BodyRowEnd \/ Origin \/ RowStart) => NoCalc
    BY <1>4 DEF NoCalc, AfterWrap, AfterWrapRowEnd, Body, BodyRowEnd, Origin, RowStart
  <2>4. /\ cache_wr_lag' = 2 <=> NoCalc
        /\ ~NoCalc /\ jj # 1 => x_address' = Addr(Image, SRow, SCol)
    BY <2>1, <2>2, <2>3 DEF AssignWriteAddress
  <2> QED BY <1>2, <1>3, <2>4 DEF WriteInv
<1>6. ASSUME InImage
      PROVE  u_data_out' = <<run, Addr(Image, ii, jj)>> /\ StateOk(Image, x_data_out', ii, jj, Lap)
  <2>1. ii \in 1..Image.h /\ jj \in 1..Image.w
    BY <1>4, <1>6 DEF InImage
  <2>2. x_address = Addr(Image, ii, jj) /\ u_address = Addr(Image, ii, jj)
    BY <1>2, <1>6 DEF PInv, ReadInv
  <2>3. x_data_out' = xram[x_address] /\ u_data_out' = <<run, u_address>>
    BY <1>2 DEF ProcessorClock, CacheClock
  <2>4. CacheGood(Image, xram, Code(Image, Lap, ii, jj))
    BY <1>2 DEF PInv, FlowInv, Ram, Z
  <2>5. StateOk(Image, xram[Addr(Image, ii, jj)], ii, jj, Lap)
    BY <1>4, <2>1, <2>4, CacheRead
  <2> QED BY <2>2, <2>3, <2>5
<1>7. ReadInv'
  BY <1>2, <1>3, <1>6 DEF ReadInv
<1> QED BY <1>2, <1>5, <1>7 DEF PInv
-----------------------------------------------------------------------------
\* X_OLD_U_READ, third clock: the column pushed continues the three lines by one pixel.
LEMMA PushKeeps ==
  ASSUME PInv, ProcessorClock, PushPixel
  PROVE  PInv'
<1>1. IInv' /\ UNCHANGED <<rst, cacheWidth, cacheHeight, iter_cnt, run>> /\ Image' = Image
  BY ClockMachine, ClockImage DEF PInv
<1>2. /\ ~rst /\ Running /\ state = "X_OLD_U_READ" /\ cache_lag = 2 /\ state' = "X_NEW_WRITE"
      /\ x_we' = FALSE /\ alu_calc' = alu_calc /\ fifo_clk_en' = TRUE
      /\ UNCHANGED <<init_state, iter, ii, jj, cache_wr_lag, x_address>>
  BY DEF PushPixel, Reading, Running, position, addresses
<1>3. ~alu_calc /\ ~x_we
  BY <1>2 DEF PInv, IInv, TimerInv, PhaseInv
<1>4. /\ IsImage(Image) /\ Image.w = cacheWidth /\ Image.h = cacheHeight /\ Image.run = run
      /\ Lap \in Nat /\ Z \in Int /\ ii \in 0..cacheHeight /\ jj \in 0..cacheWidth
      /\ run \in Nat /\ cacheWidth \in 1..cacheWidthMAX /\ cacheWidth \in Nat /\ cacheHeight \in Nat
  BY <1>2, Place DEF PInv
<1>m. cacheWidthMAX \in Nat
  BY MachineAssumption DEF MachineAssumption
<1>5. /\ Early' = Early /\ Lap' = Lap /\ Z' = Z
      /\ SRow' = SRow /\ SCol' = SCol /\ SStep' = SStep /\ NoCalc' = NoCalc
  BY <1>1, <1>2, SamePlace
<1> DEFINE word == IF InImage THEN <<u_data_out, x_data_out>> ELSE Bnd
           d == fifo_data_in'
<1>6. d[0] = q[1] /\ d[1] = q[2] /\ d[2] = word /\ cols' = <<cols[2], q>>
  BY DEF ProcessorClock, PatchClock, patchWH
<1>7. /\ read_address' = IF read_address = cacheWidth THEN 0 ELSE read_address + 1
      /\ write_address' = read_address
      /\ q' = FIFO[read_address']
      /\ FIFO' = [s \in 0..cacheWidthMAX |-> IF s = read_address THEN d ELSE FIFO[s]]
  <2>1. Bank!Shift(cacheWidth, fifo_data_in')
    BY <1>2 DEF ProcessorClock, LineClock
  <2> QED BY <1>2, <1>4, <2>1, RingShift DEF PInv
<1>8. UNCHANGED <<lat, x_out>> /\ CacheClock /\ xram' = xram
  BY <1>2, <1>3 DEF ProcessorClock, AuLatch, CacheClock
<1>9. WordOk(Image, word, Lap, ii, jj) /\ word[1][1] = run
  <2>1. CASE InImage
    <3>1. ii >= 1 /\ jj >= 1
      BY <1>4, <2>1 DEF InImage
    <3>2. u_data_out = <<run, Addr(Image, ii, jj)>> /\ StateOk(Image, x_data_out, ii, jj, Lap)
      BY <1>2, <2>1 DEF PInv, ReadInv
    <3> QED BY <1>4, <2>1, <3>1, <3>2 DEF WordOk
  <2>2. CASE ~InImage
    <3>1. ~(ii >= 1 /\ jj >= 1)
      BY <1>4, <2>2 DEF InImage
    <3> QED BY <1>4, <2>2, <3>1 DEF WordOk, Bnd, Pixel, BndWord
  <2> QED BY <2>1, <2>2
<1> HIDE DEF word, d
<1>10. /\ LinesGood(Image, FIFO, read_address, Z - 1)
       /\ ColumnGood(Image, q, Z - 1 - cacheWidth)
       /\ ColumnGood(Image, cols[2], Z - 1 - 1 - cacheWidth)
       /\ CacheGood(Image, xram, Z)
  BY <1>2, <1>3 DEF PInv, FlowInv, Last, Ram
<1>11. ColumnGood(Image, d, Z)
  <2>1. Good(Image, word, Z)
    BY <1>4, <1>9, GoodAt DEF Z
  <2>2. /\ Z - 1 - cacheWidth - (cacheWidth + 1) = Z - 2 * (cacheWidth + 1)
        /\ Z - 1 - cacheWidth = Z - (cacheWidth + 1)
    BY <1>4
  <2>3. Good(Image, q[1], Z - 2 * (cacheWidth + 1)) /\ Good(Image, q[2], Z - (cacheWidth + 1))
    BY <1>4, <1>10, <2>2 DEF ColumnGood
  <2> QED BY <1>4, <1>6, <2>1, <2>3 DEF ColumnGood
<1>12. LinesGood(Image, FIFO', read_address', Z) /\ ColumnGood(Image, q', Z - cacheWidth)
  <2>1. (Z - 1) + 1 = Z /\ Z - 1 \in Int /\ read_address \in 0..Image.w
    BY <1>4 DEF PInv, RingInv
  <2>2. \A s \in 0..Image.w : FIFO'[s] = IF s = read_address THEN d ELSE FIFO[s]
    BY <1>4, <1>m, <1>7
  <2>r. /\ read_address' = IF read_address = Image.w THEN 0 ELSE read_address + 1
        /\ ColumnGood(Image, d, (Z - 1) + 1)
    BY <1>4, <1>7, <1>11, <2>1
  <2>3. /\ LinesGood(Image, FIFO', read_address', (Z - 1) + 1)
        /\ ColumnGood(Image, FIFO[read_address'], (Z - 1) + 1 - Image.w)
    BY <1>4, <1>10, <2>1, <2>2, <2>r, LinesPush
  <2>4. (Z - 1) + 1 - Image.w = Z - cacheWidth
    BY <1>4
  <2> QED BY <1>7, <2>1, <2>3, <2>4
<1>13. FlowInv'
  <2>1. Last' = Z /\ Ram' = xram
    BY <1>2, <1>5, <1>8 DEF Last, Ram
  <2>2. Z - 1 - 1 - cacheWidth = Z - 2 - cacheWidth
    BY <1>4
  <2>3. cols'[2] = q /\ cols'[1] = cols[2]
    BY <1>6
  <2> QED BY <1>1, <1>5, <1>10, <1>12, <2>1, <2>2, <2>3 DEF FlowInv
<1>14. RingInv'
  BY <1>1, <1>2, <1>4, <1>7 DEF PInv, RingInv, Running
<1>15. TagInv'
  <2>1. xram' = [a \in 0..AddrSpace-1 |-> xram'[a]]
    BY <1>8, RamSize DEF PInv, TagInv
  <2>2. Tagged(q) /\ Tagged(cols[2]) /\ \A s \in 0..cacheWidthMAX : Tagged(FIFO[s])
    BY DEF PInv, TagInv
  <2>3. Tagged(d)
    BY <1>4, <1>6, <1>9, <2>2 DEF Tagged
  <2>4. read_address' \in 0..cacheWidthMAX
    BY <1>4, <1>m, <1>7 DEF PInv, RingInv
  <2>5. /\ \A s \in 0..cacheWidthMAX : Tagged(FIFO'[s])
        /\ Tagged(q') /\ Tagged(cols'[1]) /\ Tagged(cols'[2])
    BY <1>6, <1>7, <2>2, <2>3, <2>4
  <2>6. ASSUME NEW e, Tagged(e) PROVE e[1][1][1] \in 0..run' /\ e[2][1][1] \in 0..run'
    BY <1>1, <2>6 DEF Tagged
  <2> QED BY <1>1, <1>8, <2>1, <2>5, <2>6 DEF PInv, TagInv, Tagged
<1>16. WriteInv'
  BY <1>1, <1>2, <1>5 DEF PInv, WriteInv, Addressed
<1>17. LatInv'
  BY <1>1, <1>2, <1>3, <1>5, <1>8 DEF PInv, LatInv
<1>18. PassInv' /\ StartInv' /\ DoneInv' /\ ReadInv'
  BY <1>1, <1>2, <1>5, <1>8 DEF PInv, PassInv, StartInv, DoneInv, ReadInv, Running, ready
<1> QED BY <1>1, <1>13, <1>14, <1>15, <1>16, <1>17, <1>18 DEF PInv

\* Where a pixel is stored and where none is.
LEMMA StoresHere ==
  ASSUME IInv, TagInv, PassInv, Running
  PROVE  /\ ~NoCalc /\ jj # 1 => SRow \in 1..cacheHeight /\ SCol \in 1..cacheWidth
         /\ SStep \in Nat /\ Z = StoreCode(Image, SStep - 1, SRow, SCol)
         /\ init_state = 0 => SStep > 0
         /\ NoCalc \/ jj = 1 => \A r \in 1..cacheHeight, c \in 1..cacheWidth, l \in Nat :
                                  StoreCode(Image, l, r, c) # Z
<1>1. /\ IsImage(Image) /\ Image.w = cacheWidth /\ Image.h = cacheHeight
      /\ Lap \in Nat /\ ii \in 0..Image.h /\ jj \in 0..Image.w /\ init_state \in {0, 1}
      /\ cacheWidth \in Nat /\ cacheHeight \in Nat /\ cacheHeight >= 3 /\ cacheWidth >= 1
      /\ iter \in Nat
      /\ ~Early /\ init_state = 0 => Lap = iter
      /\ Early /\ init_state = 0 => Lap = iter + 1
      /\ init_state = 1 => Lap = 0 /\ Early
  BY Place
<1>2. SStep \in Nat /\ Z = StoreCode(Image, SStep - 1, SRow, SCol)
  BY <1>1, StoredPixel DEF Z, SStep, SRow, SCol
<1>3. ~NoCalc /\ jj # 1 => SRow \in 1..cacheHeight /\ SCol \in 1..cacheWidth
  BY <1>1 DEF NoCalc, Origin, Early, SRow, SCol, RowOf, ColOf, Back
<1>4. init_state = 0 => SStep > 0
  BY <1>1 DEF SStep, StepOf, Back, Early
<1>5. ASSUME NoCalc \/ jj = 1, NEW r \in 1..cacheHeight, NEW c \in 1..cacheWidth, NEW l \in Nat,
             StoreCode(Image, l, r, c) = Z
      PROVE  FALSE
  <2>1. l = SStep - 1 /\ r = SRow /\ c = SCol
    BY <1>1, <1>5, StoredPixelOnly DEF Z, SStep, SRow, SCol
  <2>2. jj # 1
    BY <2>1 DEF SCol, ColOf
  <2>3. CASE init_state = 0
    BY <1>1, <1>5, <2>1, <2>2, <2>3 DEF NoCalc, SRow, RowOf, Back
  <2>4. CASE init_state = 1
    <3>1. ~Back(ii, jj)
      BY <1>1, <2>1, <2>4 DEF SStep, StepOf
    <3>2. (ii = 2 /\ jj >= 2) \/ (ii = 3 /\ jj = 0)
      BY <1>1, <2>2, <2>4, <3>1 DEF Back, Early
    <3> QED BY <1>1, <2>1, <3>1, <3>2 DEF SRow, RowOf
  <2> QED BY <1>1, <2>3, <2>4
<1> QED BY <1>2, <1>3, <1>4, <1>5

(***************************************************************************)
(* X_NEW_WRITE, first clock: the AU delivers the next value of the pixel   *)
(* to be stored and latches the patch of the next one.  At the origin of   *)
(* the first pass it delivers what it latched in an earlier run.           *)
(***************************************************************************)
LEMMA CalcKeeps ==
  ASSUME PInv, ProcessorClock, StartCalc
  PROVE  PInv'
<1>1. IInv' /\ UNCHANGED <<rst, cacheWidth, cacheHeight, iter_cnt, run>> /\ Image' = Image
  BY ClockMachine, ClockImage DEF PInv
<1>2. /\ ~rst /\ Running /\ state = "X_NEW_WRITE" /\ cache_wr_lag = 0 /\ ~fifo_clk_en'
      /\ UNCHANGED <<state, init_state, iter, ii, jj, x_we, x_address>>
  BY DEF StartCalc, Running, progress, position, addresses
<1>3. ~alu_calc /\ ~x_we /\ x_out_ready
  BY <1>2 DEF PInv, IInv, TimerInv, PhaseInv
<1>4. alu_calc' /\ cache_wr_lag' = 1
  BY <1>3 DEF StartCalc
<1>5. /\ IsImage(Image) /\ Image.w = cacheWidth /\ Image.h = cacheHeight /\ Image.run = run
      /\ Lap \in Nat /\ Z \in Int /\ ii \in 0..cacheHeight /\ jj \in 0..cacheWidth
      /\ cacheWidth \in Nat /\ cacheHeight \in Nat /\ cacheHeight >= 3 /\ init_state \in {0, 1}
      /\ init_state = 1 => Lap = 0
      /\ run > 0
  BY <1>2, Place DEF PInv
<1>6. /\ Early' = Early /\ Lap' = Lap /\ Z' = Z
      /\ SRow' = SRow /\ SCol' = SCol /\ SStep' = SStep /\ NoCalc' = NoCalc
  BY <1>1, <1>2, SamePlace
<1>7. ~PushPixel
  BY <1>2 DEF PushPixel, Reading
<1>8. /\ UNCHANGED <<cols, FIFO, q, read_address>>
      /\ write_address' = IF read_address = 0 THEN cacheWidth ELSE write_address
      /\ lat' = <<cols[1], cols[2], q>> /\ x_out' = Eval(lat)
      /\ CacheClock /\ xram' = xram
  BY <1>2, <1>3, <1>4, <1>7
     DEF ProcessorClock, PatchClock, LineClock, Bank!Hold, AuLatch, CacheClock
<1>9. RingInv'
  BY <1>1, <1>2, <1>8 DEF PInv, RingInv, Running
<1>10. TagInv'
  <2>1. xram' = [a \in 0..AddrSpace-1 |-> xram'[a]]
    BY <1>8, RamSize DEF PInv, TagInv
  <2>2. lat'[2] = cols[2] /\ cols[2][1][1][1] \in 0..run
    BY <1>8 DEF PInv, TagInv, Tagged
  <2> QED BY <1>1, <1>8, <2>1, <2>2 DEF PInv, TagInv, Tagged
<1>11. FlowInv'
  <2>1. Ram' = Ram /\ Last' = Last
    BY <1>2, <1>3, <1>6, <1>8 DEF Ram, Last
  <2> QED BY <1>1, <1>2, <1>6, <1>8, <2>1 DEF PInv, FlowInv
<1>12. PatchGood(Image, lat', Z - 2 * (cacheWidth + 1))
  <2>1. /\ ColumnGood(Image, cols[1], Z - 2 - Image.w) /\ ColumnGood(Image, cols[2], Z - 1 - Image.w)
        /\ ColumnGood(Image, q, Z - Image.w)
    BY <1>2, <1>5 DEF PInv, FlowInv, Last
  <2>2. PatchGood(Image, <<cols[1], cols[2], q>>, Z - 2 * (Image.w + 1))
    BY <1>5, <2>1, PatchOfColumns
  <2> QED BY <1>5, <1>8, <2>2
<1>13. ~NoCalc
  BY <1>2 DEF PInv, WriteInv, Addressed
<1>14. ASSUME jj # 1 PROVE StateOk(Image, x_out', SRow, SCol, SStep)
  <2>1. /\ SRow \in 1..cacheHeight /\ SCol \in 1..cacheWidth /\ SStep \in Nat
        /\ Z = StoreCode(Image, SStep - 1, SRow, SCol) /\ (init_state = 0 => SStep > 0)
    BY <1>2, <1>13, <1>14, StoresHere DEF PInv
  <2>2. CASE init_state = 0
    <3>1. PatchGood(Image, lat, Z - 1 - 2 * (cacheWidth + 1))
      BY <1>2, <1>3, <1>13, <1>14, <2>2 DEF PInv, LatInv
    <3>2. Z - 1 - 2 * (cacheWidth + 1) = Code(Image, SStep - 1, SRow, SCol)
      <4>1. Code(Image, SStep - 1, SRow, SCol) \in Int
        BY <1>5, <2>1, CodeSteps
      <4> QED BY <1>5, <2>1, <4>1 DEF StoreCode
    <3>3. StateOk(Image, Eval(lat), SRow, SCol, (SStep - 1) + 1)
      BY <1>5, <2>1, <2>2, <3>1, <3>2, EvalGood
    <3>4. (SStep - 1) + 1 = SStep
      BY <2>1
    <3> QED BY <1>8, <3>3, <3>4
  <2>3. CASE init_state = 1
    <3>1. ii = 0 /\ jj = 0
      BY <1>13, <1>14, <2>3 DEF NoCalc, Origin
    <3>2. lat[2][1][1][1] # run
      BY <1>2, <1>3, <1>5, <2>3, <3>1 DEF PInv, StartInv
    <3>3. x_out' = JunkX
      BY <1>8, <3>2, EvalStale
    <3>4. SRow = cacheHeight - 2 /\ SCol = cacheWidth /\ SStep = 0
      BY <1>5, <2>3, <3>1 DEF SRow, SCol, SStep, RowOf, ColOf, StepOf, Back
    <3>5. ~Far(Image, SRow, SCol, SStep)
      BY <1>5, <3>4 DEF Far
    <3> QED BY <3>3, <3>5 DEF StateOk
  <2> QED BY <1>5, <2>2, <2>3
<1>15. LatInv'
  BY <1>1, <1>2, <1>4, <1>6, <1>12, <1>14 DEF LatInv
<1>16. WriteInv'
  BY <1>1, <1>2, <1>4, <1>6, <1>13 DEF PInv, WriteInv, Addressed
<1>17. PassInv' /\ StartInv' /\ DoneInv' /\ ReadInv'
  BY <1>1, <1>2, <1>4, <1>6 DEF PInv, PassInv, StartInv, DoneInv, ReadInv, Running, ready
<1> QED BY <1>1, <1>9, <1>10, <1>11, <1>15, <1>16, <1>17 DEF PInv
-----------------------------------------------------------------------------
\* The next position has the next code; after (patchWH,0) it belongs to the next pass.
LEMMA NextPlace ==
  ASSUME IInv, TagInv, PassInv, ProcessorClock, FinishPosition
  PROVE  /\ ii' \in 0..cacheHeight /\ jj' \in 0..cacheWidth
         /\ state' = "SUCCESS" => Code(Image, iter_cnt + 1, 3, 1) = Z + 1
         /\ state' # "SUCCESS" => state' = "X_OLD_U_READ" /\ Z' = Z + 1
         /\ init_state' = 1 => /\ init_state = 1 /\ iter' = iter /\ Early'
                               /\ ~(ii' = 0 /\ jj' = 0)
         /\ init_state' = 0 /\ ~(ii' = 3 /\ jj' = 1) => init_state = 0
         /\ init_state' = 0 /\ NoCalc /\ init_state = 0 => NoCalc' \/ (ii' = 3 /\ jj' = 1)
<1>1. Running /\ Image' = Image /\ UNCHANGED <<cacheWidth, cacheHeight, iter_cnt>>
  BY ClockImage DEF FinishPosition, Running
<1>2. /\ IsImage(Image) /\ Image.w = cacheWidth /\ Image.h = cacheHeight
      /\ cacheWidth \in Nat /\ cacheWidth >= 1 /\ cacheHeight \in Nat /\ cacheHeight >= 3
      /\ ii \in 0..cacheHeight /\ jj \in 0..cacheWidth
      /\ iter \in Nat /\ iter <= iter_cnt /\ iter_cnt \in Nat /\ iter_cnt <= iterMAX
      /\ init_state \in {0, 1} /\ Lap \in Nat /\ Z \in Int
      /\ ~Early /\ init_state = 0 => Lap = iter
      /\ Early /\ init_state = 0 => Lap = iter + 1
      /\ init_state = 1 => Lap = 0 /\ Early /\ iter = 0
  BY <1>1, Place
<1>3. /\ jj' = IF jj = cacheWidth THEN 0 ELSE jj + 1
      /\ ii' = IF jj = cacheWidth THEN (IF ii = cacheHeight THEN 0 ELSE ii + 1) ELSE ii
  BY DEF FinishPosition, Advance
<1>4. ii' \in 0..cacheHeight /\ jj' \in 0..cacheWidth
  BY <1>2, <1>3
<1> DEFINE lap == IF jj = cacheWidth /\ ii = cacheHeight THEN Lap + 1 ELSE Lap
<1>5. Code(Image, lap, ii', jj') = Z + 1
  <2>1. CASE jj # cacheWidth
    <3>1. Code(Image, Lap, ii, jj + 1) = Code(Image, Lap, ii, jj) + 1
      BY <1>2, CodeSteps
    <3> QED BY <1>3, <2>1, <3>1 DEF Z
  <2>2. CASE jj = cacheWidth
    <3>1. Code(Image, Lap, ii + 1, 0) = Code(Image, Lap, ii, Image.w) + 1
      BY <1>2, CodeSteps
    <3>2. CASE ii # cacheHeight
      BY <1>2, <1>3, <2>2, <3>1, <3>2 DEF Z
    <3>3. CASE ii = cacheHeight
      <4>1. Code(Image, Lap + 1, 0, 0) = Code(Image, Lap, 0 + Image.h + 1, 0)
        BY <1>2, CodeSteps
      <4>2. 0 + Image.h + 1 = ii + 1
        BY <1>2, <3>3
      <4> QED BY <1>2, <1>3, <2>2, <3>1, <3>3, <4>1, <4>2 DEF Z
    <3> QED BY <3>2, <3>3
  <2> QED BY <2>1, <2>2
<1>6. CASE ii' = 3 /\ jj' = 1
  <2>1. ii = 3 /\ jj = 0 /\ Early /\ lap = Lap
    BY <1>2, <1>3, <1>6 DEF Early
  <2>2. PassEnd
    BY <1>6 DEF FinishPosition, patchWH
  <2>3. ~Early'
    BY <1>6 DEF Early
  <2>4. CASE init_state = 1
    <3>1. init_state' = 0 /\ state' = "X_OLD_U_READ" /\ iter' = iter
      BY <2>2, <2>4 DEF PassEnd
    <3>2. Lap' = Lap
      BY <1>2, <2>3, <2>4, <3>1 DEF Lap
    <3>3. Z' = Z + 1
      BY <1>1, <1>5, <2>1, <3>2 DEF Z
    <3> QED BY <1>4, <1>6, <3>1, <3>3
  <2>5. CASE init_state = 0 /\ iter = iter_cnt
    <3>1. init_state' = 0 /\ state' = "SUCCESS"
      BY <2>2, <2>5 DEF PassEnd
    <3>2. Code(Image, iter_cnt + 1, 3, 1) = Z + 1
      BY <1>2, <1>5, <1>6, <2>1, <2>5
    <3> QED BY <1>4, <1>6, <3>1, <3>2
  <2>6. CASE init_state = 0 /\ iter # iter_cnt
    <3>1. init_state' = 0 /\ state' = "X_OLD_U_READ" /\ iter' = (iter + 1) % (iterMAX + 1)
      BY <2>2, <2>6 DEF PassEnd
    <3>2. (iter + 1) % (iterMAX + 1) = iter + 1
      BY <1>2, <2>6, MachineAssumption DEF MachineAssumption
    <3>3. Lap' = Lap
      BY <1>2, <2>1, <2>3, <2>6, <3>1, <3>2 DEF Lap
    <3>4. Z' = Z + 1
      BY <1>1, <1>5, <2>1, <3>3 DEF Z
    <3> QED BY <1>4, <1>6, <3>1, <3>4
  <2> QED BY <1>2, <2>4, <2>5, <2>6
<1>7. CASE ~(ii' = 3 /\ jj' = 1)
  <2>1. state' = "X_OLD_U_READ" /\ init_state' = init_state /\ iter' = iter
    BY <1>7 DEF FinishPosition, patchWH
  <2>2. CASE init_state = 1
    <3>1. Early' /\ ~(ii' = 0 /\ jj' = 0) /\ lap = Lap
      BY <1>2, <1>3, <1>7, <2>2 DEF Early
    <3>2. Lap' = Lap
      BY <1>2, <2>1, <2>2 DEF Lap
    <3>3. Z' = Z + 1
      BY <1>1, <1>5, <3>1, <3>2 DEF Z
    <3> QED BY <1>4, <2>1, <2>2, <3>1, <3>3
  <2>3. CASE init_state = 0
    <3>1. Early' = (Early \/ (jj = cacheWidth /\ ii = cacheHeight))
      BY <1>2, <1>3, <1>7 DEF Early
    <3>2. jj = cacheWidth /\ ii = cacheHeight => ~Early
      BY <1>2 DEF Early
    <3>3. Lap' = lap
      BY <1>2, <2>1, <2>3, <3>1, <3>2 DEF Lap
    <3>4. Z' = Z + 1
      BY <1>1, <1>5, <3>3 DEF Z
    <3>5. NoCalc => NoCalc'
      BY <1>2, <1>3, <1>7, <2>1, <2>3 DEF NoCalc
    <3> QED BY <1>4, <2>1, <2>3, <3>4, <3>5
  <2> QED BY <1>2, <2>2, <2>3
<1> QED BY <1>6, <1>7

(***************************************************************************)
(* X_NEW_WRITE, last clock: the pixel whose turn it is gets its next value *)
(* and no other pixel's turn is missed.                                    *)
(***************************************************************************)
LEMMA StoreKeepsCache ==
  ASSUME PInv, ProcessorClock, FinishPosition
  PROVE  CacheGood(Image, Ram', Z + 1) /\ xram' = xram
<1>1. Running /\ state = "X_NEW_WRITE" /\ cache_wr_lag \in {1, 2}
  BY DEF FinishPosition, Running
<1>2. ~x_we /\ (alu_calc <=> cache_wr_lag = 1)
  BY <1>1 DEF PInv, IInv, PhaseInv, TimerInv
<1>3. /\ IsImage(Image) /\ Image.w = cacheWidth /\ Image.h = cacheHeight /\ Z \in Int
      /\ cacheWidth \in Nat /\ cacheHeight \in Nat
  BY <1>1, Place DEF PInv
<1>4. CacheGood(Image, xram, Z)
  BY <1>1, <1>2 DEF PInv, FlowInv, Ram
<1>5. xram' = xram /\ x_address' = x_address
  BY <1>2 DEF ProcessorClock, CacheClock, FinishPosition, addresses
<1>6. CASE cache_wr_lag = 1 /\ jj # 1
  <2>1. x_we' = TRUE /\ x_data_in' = x_out
    BY <1>6 DEF ProcessorClock, StoreClock, FinishPosition
  <2>2. ~NoCalc
    BY <1>1, <1>6 DEF PInv, WriteInv, Addressed
  <2>3. x_address = Addr(Image, SRow, SCol) /\ StateOk(Image, x_out, SRow, SCol, SStep)
    BY <1>1, <1>2, <1>6, <2>2 DEF PInv, WriteInv, LatInv, Addressed
  <2>4. /\ SRow \in 1..Image.h /\ SCol \in 1..Image.w /\ SStep \in Nat
        /\ Z = StoreCode(Image, SStep - 1, SRow, SCol)
    BY <1>1, <1>3, <1>6, <2>2, StoresHere DEF PInv
  <2>5. Ram' = [xram EXCEPT ![x_address] = x_out]
    BY <1>5, <2>1 DEF Ram
  <2>6. ASSUME NEW s \in 1..Image.h, NEW d \in 1..Image.w
        PROVE  Ram'[Addr(Image, s, d)]
                 = IF s = SRow /\ d = SCol THEN x_out ELSE xram[Addr(Image, s, d)]
    <3>1. Addr(Image, s, d) \in 0..AddrSpace-1
      BY <1>3, PixelWord DEF PInv, IInv
    <3>2. Addr(Image, s, d) = Addr(Image, SRow, SCol) => s = SRow /\ d = SCol
      BY <1>3, <2>4, AddrUnique
    <3>3. DOMAIN xram = 0..AddrSpace-1
      BY DEF PInv, TagInv
    <3> QED BY <2>3, <2>5, <3>1, <3>2, <3>3
  <2>7. CacheGood(Image, Ram', Z + 1)
    BY <1>3, <1>4, <2>3, <2>4, <2>6, CacheStore
  <2> QED BY <1>5, <2>7
<1>7. CASE ~(cache_wr_lag = 1 /\ jj # 1)
  <2>1. x_we' = x_we
    BY <1>7 DEF FinishPosition
  <2>2. NoCalc \/ jj = 1
    BY <1>1, <1>7 DEF PInv, WriteInv, Addressed
  <2>3. Ram' = xram
    BY <1>2, <1>5, <2>1 DEF Ram
  <2>4. \A r \in 1..Image.h, c \in 1..Image.w, l \in Nat : StoreCode(Image, l, r, c) # Z
    BY <1>1, <1>3, <2>2, StoresHere DEF PInv
  <2>5. CacheGood(Image, Ram', Z + 1)
    BY <1>3, <1>4, <2>3, <2>4, CacheKeep
  <2> QED BY <1>5, <2>5
<1> QED BY <1>6, <1>7

\* X_NEW_WRITE, last clock.
LEMMA FinishKeeps ==
  ASSUME PInv, ProcessorClock, FinishPosition
  PROVE  PInv'
<1>1. IInv' /\ UNCHANGED <<rst, cacheWidth, cacheHeight, iter_cnt, run>> /\ Image' = Image
  BY ClockMachine, ClockImage DEF PInv
<1>2. /\ ~rst /\ Running /\ state = "X_NEW_WRITE" /\ cache_wr_lag \in {1, 2} /\ ~fifo_clk_en'
      /\ alu_calc' = (IF cache_wr_lag = 1 THEN FALSE ELSE alu_calc) /\ cache_lag' = cache_lag
  BY DEF FinishPosition, Running
<1>3. (alu_calc <=> cache_wr_lag = 1) /\ ~alu_calc' /\ cache_lag = 0
  BY <1>2 DEF PInv, IInv, TimerInv, PhaseInv
<1>4. ~PushPixel
  BY <1>2 DEF PushPixel, Reading
<1>5. /\ UNCHANGED <<cols, FIFO, q, read_address, lat, x_out>>
      /\ write_address' = IF read_address = 0 THEN cacheWidth ELSE write_address
  BY <1>2, <1>3, <1>4, QuietClock
<1>6. /\ state' = "SUCCESS" => Code(Image, iter_cnt + 1, 3, 1) = Z + 1
      /\ state' # "SUCCESS" => state' = "X_OLD_U_READ" /\ Z' = Z + 1
      /\ init_state' = 1 => /\ init_state = 1 /\ iter' = iter /\ Early'
                            /\ ~(ii' = 0 /\ jj' = 0)
      /\ init_state' = 0 /\ ~(ii' = 3 /\ jj' = 1) => init_state = 0
      /\ init_state' = 0 /\ NoCalc /\ init_state = 0 => NoCalc' \/ (ii' = 3 /\ jj' = 1)
  BY NextPlace DEF PInv
<1>7. Z \in Int /\ cacheWidth \in Nat /\ run > 0
  BY <1>2, Place DEF PInv
<1>8. CacheGood(Image, Ram', Z + 1) /\ xram' = xram
  BY StoreKeepsCache
<1>9. RingInv'
  BY <1>1, <1>2, <1>5 DEF PInv, RingInv, Running
<1>10. TagInv'
  BY <1>1, <1>5, TagKeep DEF PInv, ProcessorClock
<1>11. PassInv'
  BY <1>1, <1>2, <1>6, <1>7 DEF PInv, PassInv, Running
<1>12. StartInv'
  BY <1>1, <1>2, <1>6 DEF StartInv
<1>13. FlowInv'
  <2>1. CASE state' # "SUCCESS"
    <3>1. Last' = Last /\ Z' = Z + 1
      BY <1>2, <1>6, <1>7, <2>1 DEF Last
    <3> QED BY <1>1, <1>2, <1>5, <1>8, <3>1 DEF PInv, FlowInv
  <2>2. CASE state' = "SUCCESS"
    BY <2>2 DEF FlowInv, Running
  <2> QED BY <2>1, <2>2
<1>14. ReadInv' /\ WriteInv'
  BY <1>2, <1>3, <1>6 DEF ReadInv, WriteInv, Addressed
<1>15. LatInv'
  <2>1. ASSUME Running', init_state' = 0, ~NoCalc', ~(ii' = 3 /\ jj' = 1)
        PROVE  PatchGood(Image, lat, Z' - 1 - 2 * (cacheWidth + 1))
    <3>1. ~NoCalc
      BY <1>6, <2>1
    <3>2. alu_calc
      BY <1>2, <1>3, <3>1 DEF PInv, WriteInv, Addressed
    <3>3. PatchGood(Image, lat, Z - 2 * (cacheWidth + 1))
      BY <1>2, <3>2 DEF PInv, LatInv
    <3>4. Z' - 1 - 2 * (cacheWidth + 1) = Z - 2 * (cacheWidth + 1)
      BY <1>6, <1>7, <2>1 DEF Running
    <3> QED BY <3>3, <3>4
  <2> QED BY <1>1, <1>3, <1>5, <2>1 DEF LatInv
<1>16. DoneInv'
  <2>1. ASSUME ready' PROVE CacheGood(Image, xram', Code(Image, iter_cnt + 1, 3, 1))
    <3>1. Code(Image, iter_cnt + 1, 3, 1) = Z + 1
      BY <1>6, <2>1 DEF ready
    <3>2. ~x_we'
      BY <1>1, <2>1 DEF IInv, PhaseInv, ready
    <3>3. Ram' = xram'
      BY <3>2 DEF Ram
    <3> QED BY <1>8, <3>1, <3>3
  <2> QED BY <1>1, <2>1 DEF DoneInv
<1> QED BY <1>1, <1>9, <1>10, <1>11, <1>12, <1>13, <1>14, <1>15, <1>16 DEF PInv
-----------------------------------------------------------------------------
(***************************************************************************)
(* The steps the theorems are about: no run is cut short, and the read     *)
(* pointer of the line buffers fits each commanded width (the condition    *)
(* under which cnn_fifo.vhd is a delay line).                              *)
(***************************************************************************)
Fits == ~Cut /\ read_address <= cacheWidth'

\* Every image size fits the cache.
LEMMA ImageFits ==
  ASSUME NEW w \in 1..cacheWidthMAX, NEW h \in 3..cacheHeightMAX
  PROVE  w * h \in Nat /\ w * h <= AddrSpace /\ AddrSpace \in Nat
<1>1. /\ w \in Nat /\ h \in Nat /\ cacheWidthMAX \in Nat /\ cacheHeightMAX \in Nat
      /\ w <= cacheWidthMAX /\ h <= cacheHeightMAX
      /\ AddrSpace \in Nat /\ AddrSpace >= cacheWidthMAX * cacheHeightMAX
  BY MachineAssumption DEF MachineAssumption
<1>2. w * h <= cacheWidthMAX * cacheHeightMAX /\ w * h \in Nat /\ cacheWidthMAX * cacheHeightMAX \in Nat
  BY <1>1, NatProductMonotone
<1> QED BY <1>1, <1>2

\* cnn_driver loads an image: nothing of an earlier run bears the new run's tag.
LEMMA LoadKeeps ==
  ASSUME PInv, Load, read_address <= cacheWidth'
  PROVE  PInv'
<1>1. /\ Configure /\ rst' = TRUE /\ run' = run + 1 /\ UNCHANGED machineVars
      /\ UNCHANGED <<FIFO, q, cols, lat, read_address, write_address>>
      /\ xram' = [a \in 0..AddrSpace-1 |->
                    IF a < cacheWidth' * cacheHeight' THEN <<run', a, 0>> ELSE xram[a]]
  BY DEF Load
<1>2. IInv'
  <2>1. rst' \in BOOLEAN
    BY <1>1
  <2> QED BY <1>1, <2>1, EnvironmentInv DEF PInv
<1>3. ~Running /\ state' = state /\ fifo_clk_en' = fifo_clk_en
  BY <1>1 DEF Configure, ready, Running, machineVars, progress
<1>4. ~Running'
  BY <1>3 DEF Running
<1>5. run \in Nat
  BY DEF PInv, TagInv
<1>6. RingInv'
  <2>1. cacheWidth' \in Nat /\ cacheWidth \in Nat
    BY <1>2, MachineAssumption DEF PInv, IInv, TypeOK, InputTypes, MachineAssumption
  <2> QED BY <1>1, <1>3, <1>4, <2>1 DEF PInv, RingInv, Running
<1>7. TagInv'
  <2>1. run' \in Nat /\ \A t \in 0..run : t \in 0..run'
    BY <1>1, <1>5
  <2>2. xram' = [a \in 0..AddrSpace-1 |-> xram'[a]]
    BY <1>1
  <2> QED BY <1>1, <2>1, <2>2 DEF PInv, TagInv, Tagged
<1>8. PassInv' /\ FlowInv' /\ ReadInv' /\ WriteInv' /\ LatInv' /\ DoneInv'
  <2>1. run' # 0
    BY <1>1, <1>5
  <2>2. state' # "X_OLD_U_READ" /\ ~Addressed'
    BY <1>4 DEF Running, Addressed
  <2> QED BY <1>1, <1>4, <2>1, <2>2 DEF PassInv, FlowInv, ReadInv, WriteInv, LatInv, DoneInv
<1>9. StartInv'
  <2>1. /\ cacheWidth' * cacheHeight' \in Nat /\ cacheWidth' * cacheHeight' <= AddrSpace
        /\ AddrSpace \in Nat
    <3>1. cacheWidth' \in 1..cacheWidthMAX /\ cacheHeight' \in 3..cacheHeightMAX
      BY <1>2 DEF IInv, TypeOK, InputTypes
    <3> QED BY <3>1, ImageFits
  <2>2. \A a \in 0..(cacheWidth' * cacheHeight' - 1) : xram'[a] = <<run', a, 0>>
    BY <1>1, <2>1
  <2>3. lat'[2][1][1][1] # run'
    BY <1>1, <1>5 DEF PInv, TagInv
  <2> QED BY <2>2, <2>3 DEF StartInv
<1> QED BY <1>2, <1>6, <1>7, <1>8, <1>9 DEF PInv

\* The firmware releases rst.
LEMMA GoKeeps ==
  ASSUME PInv, Go
  PROVE  PInv'
<1>1. /\ LowerRst /\ UNCHANGED machineVars /\ run > 0
      /\ UNCHANGED <<run, FIFO, q, cols, lat, xram, read_address, write_address>>
  BY DEF Go, data
<1>2. IInv'
  BY <1>1, EnvironmentInv DEF PInv
<1>3. rst /\ state = "X_OLD_U_INIT" /\ state' = state /\ fifo_clk_en' = fifo_clk_en
      /\ UNCHANGED <<cacheWidth, cacheHeight, iter_cnt>>
  BY <1>1 DEF LowerRst, machineVars, progress
<1>4. RingInv'
  BY <1>1, <1>3 DEF PInv, RingInv, Running
<1>5. TagInv'
  BY <1>1 DEF PInv, TagInv, Tagged
<1>6. run \in Nat
  BY DEF PInv, TagInv
<1>7. PassInv' /\ FlowInv' /\ ReadInv' /\ WriteInv' /\ LatInv' /\ DoneInv'
  BY <1>1, <1>3, <1>6
     DEF PassInv, FlowInv, ReadInv, WriteInv, LatInv, DoneInv, Running, Addressed, ready
<1>8. StartInv'
  BY <1>1, <1>3 DEF PInv, StartInv
<1> QED BY <1>2, <1>4, <1>5, <1>7, <1>8 DEF PInv

\* Power-up.
LEMMA ProcessorInitInv == ProcessorInit => PInv
<1> SUFFICES ASSUME ProcessorInit PROVE PInv
  OBVIOUS
<1>1. Init /\ DataInit /\ IInv
  BY InitInv DEF ProcessorInit
<1>2. /\ rst = TRUE /\ state = "X_OLD_U_INIT" /\ fifo_clk_en = FALSE /\ cacheWidth = cacheWidthMAX
      /\ run = 0 /\ read_address = 0
  BY <1>1 DEF Init, MachineInit, DataInit
<1>3. RingInv
  BY <1>2, MachineAssumption DEF MachineAssumption, RingInv, Running
<1>4. TagInv
  <2>1. JunkColumn[1][1][1] = 0 /\ JunkColumn[2][1][1] = 0
    BY DEF JunkColumn, Junk, patchWH
  <2>2. Tagged(JunkColumn)
    BY <1>2, <2>1 DEF Tagged
  <2>3. /\ cols[1] = JunkColumn /\ cols[2] = JunkColumn /\ q = JunkColumn /\ lat[2] = JunkColumn
        /\ \A s \in 0..cacheWidthMAX : FIFO[s] = JunkColumn
        /\ xram = [a \in 0..AddrSpace-1 |-> xram[a]]
    BY <1>1 DEF DataInit
  <2> QED BY <1>2, <2>1, <2>2, <2>3 DEF TagInv
<1>5. PassInv /\ StartInv /\ FlowInv /\ ReadInv /\ WriteInv /\ LatInv /\ DoneInv
  BY <1>2 DEF PassInv, StartInv, FlowInv, ReadInv, WriteInv, LatInv, DoneInv, Running, Addressed
<1> QED BY <1>1, <1>3, <1>4, <1>5 DEF PInv

\* A step that changes nothing.
LEMMA StutterKeeps ==
  ASSUME PInv, UNCHANGED allVars
  PROVE  PInv'
<1>1. UNCHANGED vars /\ UNCHANGED data
  BY DEF allVars
<1>2. IInv'
  BY <1>1, NextInv DEF PInv
<1>3. /\ UNCHANGED <<run, xram, x_data_in, x_data_out, u_data_out, cols, read_address, write_address>>
      /\ UNCHANGED <<FIFO, q, lat, x_out>>
      /\ UNCHANGED <<rst, cacheWidth, cacheHeight, iter_cnt, state, init_state, iter, ii, jj>>
      /\ UNCHANGED <<cache_lag, cache_wr_lag, x_we, u_address, x_address, fifo_clk_en, alu_calc>>
  BY <1>1 DEF vars, data
<1>4. /\ Image' = Image /\ Early' = Early /\ Lap' = Lap /\ Z' = Z /\ InImage' = InImage
      /\ SRow' = SRow /\ SCol' = SCol /\ SStep' = SStep /\ NoCalc' = NoCalc
  BY <1>3, SamePlace
<1>5. Last' = Last /\ Ram' = Ram /\ Running' = Running /\ Addressed' = Addressed /\ ready' = ready
  BY <1>3, <1>4 DEF Last, Ram, Running, Addressed, ready
<1>6. RingInv' /\ TagInv' /\ PassInv' /\ StartInv'
  BY <1>3, <1>4, <1>5 DEF PInv, RingInv, TagInv, Tagged, PassInv, StartInv
<1>7. FlowInv' /\ ReadInv' /\ WriteInv'
  BY <1>3, <1>4, <1>5 DEF PInv, FlowInv, ReadInv, WriteInv
<1>8. LatInv' /\ DoneInv'
  BY <1>3, <1>4, <1>5 DEF PInv, LatInv, DoneInv
<1> QED BY <1>2, <1>6, <1>7, <1>8 DEF PInv

\* PInv is inductive.
LEMMA ProcessorNextInv ==
  ASSUME PInv, [ProcessorNext /\ Fits]_allVars
  PROVE  PInv'
<1>1. CASE ProcessorClock
  BY <1>1, ClockImage, ResetKeeps, StartRunKeeps, AssignReadKeeps, AssignWriteKeeps, PushKeeps,
     CalcKeeps, FinishKeeps, FinishedKeeps DEF Clock
<1>2. CASE Load /\ Fits
  BY <1>2, LoadKeeps DEF Fits
<1>3. CASE Go
  BY <1>3, GoKeeps
<1>4. CASE UNCHANGED allVars
  BY <1>4, StutterKeeps
<1> QED BY <1>1, <1>2, <1>3, <1>4 DEF ProcessorNext, Fits

\* The inductive invariant holds in every state of the runs the theorems are about.
THEOREM ProcessorInvariant == ProcessorSpec /\ [][Fits]_allVars => []PInv
<1>1. PInv /\ [ProcessorNext]_allVars /\ [Fits]_allVars => PInv'
  BY ProcessorNextInv
<1> QED BY ProcessorInitInv, <1>1, PTL DEF ProcessorSpec

\* The invariant gives the result of a run.
LEMMA PInvResult == PInv => ResultExact
<1> SUFFICES ASSUME PInv, Done, NEW a \in Pixels, Distance(a, StalePixel) > iter_cnt + 1
             PROVE  xram[a] = <<run, a, iter_cnt + 1>>
  BY DEF ResultExact
<1>1. ready /\ ~rst
  BY DEF Done
<1>2. run > 0 /\ run \in Nat /\ TypeOK /\ iter_cnt \in Nat
  BY <1>1, MachineAssumption DEF PInv, PassInv, TagInv, IInv, TypeOK, InputTypes, MachineAssumption
<1>3. IsImage(Image) /\ Image.w = cacheWidth /\ Image.h = cacheHeight /\ Image.run = run
  BY <1>2, ImageLoaded, ImageFields
<1>4. CacheGood(Image, xram, Code(Image, iter_cnt + 1, 3, 1))
  BY <1>1 DEF PInv, DoneInv
<1>5. a \in 0..(Image.w * Image.h - 1)
  BY <1>3 DEF Pixels
<1>6. PICK r \in 1..Image.h, c \in 1..Image.w : a = Addr(Image, r, c)
  BY <1>3, <1>5, AddrOnto
<1>7. StateOk(Image, xram[a], r, c, iter_cnt + 1)
  BY <1>2, <1>3, <1>4, <1>6, CacheEnd
<1>8. Far(Image, r, c, iter_cnt + 1)
  BY <1>2, <1>3, <1>6, FarDistance
<1> QED BY <1>3, <1>6, <1>7, <1>8 DEF StateOk

(***************************************************************************)
(* For every image size, iteration count and number of runs: when ready is *)
(* raised, every pixel the stale store cannot have reached holds its value *)
(* of exactly iter_cnt+1 synchronous steps.                                *)
(***************************************************************************)
THEOREM ResultExactHolds == ProcessorSpec /\ [][Fits]_allVars => []ResultExact
  BY ProcessorInvariant, PInvResult, PTL
-----------------------------------------------------------------------------
\* The code of a pixel's position is of no other position.
LEMMA LapUnique ==
  ASSUME NEW im, IsImage(im), NEW k \in Int, NEW t \in 0..im.h, NEW j \in 0..im.w,
         NEW l \in Nat, NEW r \in 1..im.h, NEW c \in 1..im.w, Code(im, k, t, j) = Code(im, l, r, c)
  PROVE  k = l /\ t = r /\ j = c
<1>1. l \in Int /\ r \in 0..im.h /\ c \in 0..im.w
  BY DEF IsImage
<1> QED BY <1>1, CodeUnique

\* The position two rows up: the centre of the patch that a push completes.
LEMMA CentrePixel ==
  ASSUME NEW im, IsImage(im), NEW n \in Nat, NEW i \in 0..im.h, NEW j \in 0..im.w,
         NEW l \in Nat, NEW r \in 1..im.h, NEW c \in 1..im.w,
         Code(im, n, i, j) - 2 * (im.w + 1) = Code(im, l, r, c)
  PROVE  /\ c = j
         /\ i >= 3 => r = i - 2 /\ l = n
         /\ i < 3 => i < 2 /\ r = i + im.h - 1 /\ l = n - 1
<1>1. /\ im.h \in Nat /\ im.w \in Nat /\ im.h >= 3 /\ im.w >= 1 /\ n \in Int /\ l \in Int
      /\ i \in Int /\ j \in Int /\ i - 1 \in Int /\ i - 2 \in Int /\ r \in 0..im.h /\ c \in 0..im.w
  BY DEF IsImage
<1>2. Code(im, n, i - 2, j) = Code(im, l, r, c)
  <2>1. Code(im, n, i, j) \in Int /\ Code(im, n, i - 1, j) = Code(im, n, i, j) - (im.w + 1)
    BY <1>1, CodeSteps
  <2>2. Code(im, n, (i - 1) - 1, j) = Code(im, n, i - 1, j) - (im.w + 1)
    BY <1>1, CodeSteps
  <2>3. (i - 1) - 1 = i - 2
    BY <1>1
  <2> QED BY <1>1, <2>1, <2>2, <2>3
<1>3. CASE i >= 2
  <2>1. i - 2 \in 0..im.h
    BY <1>1, <1>3
  <2>2. n = l /\ i - 2 = r /\ j = c
    <3>1. ASSUME NEW k \in Int, NEW t \in 0..im.h, Code(im, k, t, j) = Code(im, l, r, c)
          PROVE  k = l /\ t = r /\ j = c
      BY <3>1, LapUnique
    <3>2. n \in Int
      BY <1>1
    <3> QED BY <1>2, <2>1, <3>1, <3>2
  <2> QED BY <1>1, <1>3, <2>2
<1>4. CASE i < 2
  <2> DEFINE s == i + im.h - 1
  <2>1. s \in 0..im.h /\ s \in Int /\ n - 1 \in Int
    BY <1>1, <1>4
  <2>2. Code(im, n - 1, s, j) = Code(im, n, s - im.h - 1, j)
    BY <1>1, <2>1, CodeSteps
  <2>3. s - im.h - 1 = i - 2
    BY <1>1
  <2>4. Code(im, n - 1, s, j) = Code(im, l, r, c)
    BY <1>2, <2>2, <2>3
  <2>5. ASSUME NEW k \in Int, NEW t \in 0..im.h, Code(im, k, t, j) = Code(im, l, r, c)
        PROVE  k = l /\ t = r /\ j = c
    BY <2>5, LapUnique
  <2>6. n - 1 = l /\ s = r /\ j = c
    BY <2>1, <2>4, <2>5
  <2> QED BY <1>1, <1>4, <2>6
<1> QED BY <1>1, <1>3, <1>4

\* X_OLD_U_READ, first clock: the ideal address is one before the centre's.
LEMMA IdealAddress ==
  ASSUME PInv, Running, AssignReadAddress
  PROVE  IdealGood(Image, ideal_address', Z - 2 * (cacheWidth + 1))
<1>1. /\ IsImage(Image) /\ Image.w = cacheWidth /\ Image.h = cacheHeight
      /\ cacheWidth \in Nat /\ cacheWidth >= 1 /\ cacheHeight \in Nat /\ cacheHeight >= 3
      /\ ii \in 0..cacheHeight /\ jj \in 0..cacheWidth /\ ii_1d = ii * cacheWidth
      /\ Lap \in Nat /\ init_state \in {0, 1}
      /\ init_state = 1 => Lap = 0
  BY Place DEF PInv
<1>2. cacheAddressShift = cacheWidth * cacheHeight
  BY DEF PInv, IInv, StoresInImage, PositionInv
<1> SUFFICES ASSUME NEW l \in Nat, NEW r \in 1..Image.h, NEW c \in 1..Image.w,
                    Z - 2 * (cacheWidth + 1) = Code(Image, l, r, c)
             PROVE  ideal_address' = (Addr(Image, r, c) - 1) % AddrSpace
  BY DEF IdealGood
<1>3. /\ c = jj
      /\ ii >= 3 => r = ii - 2 /\ l = Lap
      /\ ii < 3 => ii < 2 /\ r = ii + cacheHeight - 1 /\ l = Lap - 1
  <2>1. Code(Image, Lap, ii, jj) - 2 * (Image.w + 1) = Code(Image, l, r, c)
    BY <1>1 DEF Z
  <2>2. ii \in 0..Image.h /\ jj \in 0..Image.w
    BY <1>1
  <2>3. IsImage(Image) /\ Lap \in Nat
    BY <1>1
  <2>4. ASSUME NEW n \in Nat, NEW i \in 0..Image.h, NEW j \in 0..Image.w,
               Code(Image, n, i, j) - 2 * (Image.w + 1) = Code(Image, l, r, c)
        PROVE  /\ c = j
               /\ i >= 3 => r = i - 2 /\ l = n
               /\ i < 3 => i < 2 /\ r = i + Image.h - 1 /\ l = n - 1
    BY <2>3, <2>4, CentrePixel
  <2>5. /\ c = jj
        /\ ii >= 3 => r = ii - 2 /\ l = Lap
        /\ ii < 3 => ii < 2 /\ r = ii + Image.h - 1 /\ l = Lap - 1
    BY <2>1, <2>2, <2>3, <2>4
  <2> QED BY <1>1, <2>5
<1>4. CASE ii >= 3
  <2>1. ii \in 3..cacheHeight /\ jj \in 1..cacheWidth /\ ~(ii \in 0..1)
    BY <1>1, <1>3, <1>4
  <2>2. BodyBase + (jj - 2) = Addr(Image, r, c) - 1
    <3>1. ii * cacheWidth - 3 * cacheWidth = (ii - 2 - 1) * cacheWidth /\ (ii - 2 - 1) * cacheWidth \in Int
      BY <1>1
    <3>2. Addr(Image, r, c) = (ii - 2 - 1) * cacheWidth + (jj - 1)
      BY <1>1, <1>3, <1>4 DEF Addr
    <3>3. BodyBase = ii * cacheWidth - 3 * cacheWidth
      BY <1>1 DEF BodyBase
    <3> HIDE DEF BodyBase
    <3> QED BY <1>1, <3>1, <3>2, <3>3
  <2>3. ideal_address' = ToUnsigned(BodyBase + (jj - 2))
    BY <2>1 DEF AssignReadAddress
  <2> QED BY <2>2, <2>3 DEF ToUnsigned
<1>5. CASE ii < 3
  <2>1. ii \in 0..1 /\ jj \in 1..cacheWidth /\ init_state = 0
    BY <1>1, <1>3, <1>5
  <2>2. WrapBase + (jj - 2) = Addr(Image, r, c) - 1
    <3>1. /\ cacheWidth * cacheHeight + ii * cacheWidth - 2 * cacheWidth = (ii + cacheHeight - 1 - 1) * cacheWidth
          /\ (ii + cacheHeight - 1 - 1) * cacheWidth \in Int
      BY <1>1
    <3>2. Addr(Image, r, c) = (ii + cacheHeight - 1 - 1) * cacheWidth + (jj - 1)
      BY <1>1, <1>3, <1>5 DEF Addr
    <3>3. WrapBase = cacheWidth * cacheHeight + ii * cacheWidth - 2 * cacheWidth
      BY <1>1, <1>2 DEF WrapBase
    <3> HIDE DEF WrapBase
    <3> QED BY <1>1, <3>1, <3>2, <3>3
  <2>3. ideal_address' = ToUnsigned(WrapBase + (jj - 2))
    BY <2>1 DEF AssignReadAddress
  <2> QED BY <2>2, <2>3 DEF ToUnsigned
<1> QED BY <1>1, <1>4, <1>5

\* The error sums while they and the position stay.
LEMMA ErrStays ==
  ASSUME EInv, UNCHANGED <<run, cacheWidth, cacheHeight, init_state, iter, ii, jj>>,
         UNCHANGED <<rst, iter_cnt, alu_calc, err>>, Running, Running'
  PROVE  ErrType' /\ ErrClearInv' /\ ErrSumInv' /\ ErrDoneInv'
<1>1. Image' = Image /\ Z' = Z
  BY SamePlace
<1>2. Calcs' = Calcs
  BY <1>1 DEF Calcs
<1>3. ~ready'
  BY DEF Running, ready
<1> QED BY <1>1, <1>2, <1>3 DEF EInv, ErrType, ErrClearInv, ErrSumInv, ErrDoneInv

\* X_OLD_U_READ, first and second clock.
LEMMA ReadKeepsErr ==
  ASSUME PInv, PInv', EInv, ProcessorClock, AssignReadAddress \/ AssignWriteAddress
  PROVE  EInv'
<1>0. PICK lag \in {0, 1} : Reading(lag) /\ (lag = 0 => AssignReadAddress)
  <2>1. CASE AssignReadAddress
    <3>1. Reading(0)
      BY <2>1 DEF AssignReadAddress
    <3> QED BY <2>1, <3>1
  <2>2. CASE AssignWriteAddress
    <3>1. Reading(1)
      BY <2>2 DEF AssignWriteAddress
    <3> QED BY <3>1
  <2> QED BY <2>1, <2>2
<1>1. state' = "X_OLD_U_READ" /\ fifo_clk_en' = fifo_clk_en
  BY DEF AssignReadAddress, AssignWriteAddress, Reading
<1>2. /\ Running /\ state = "X_OLD_U_READ" /\ cache_lag = lag /\ cache_lag' = lag + 1
      /\ UNCHANGED <<run, cacheWidth, cacheHeight, init_state, iter, ii, jj, ii_1d>>
      /\ UNCHANGED <<cacheAddressShift, lat, err, lat_ideal, ideal>>
      /\ ~alu_calc /\ alu_calc' = alu_calc
  BY <1>0, <1>1, ReadKeeps
<1>3. UNCHANGED <<rst, iter_cnt>> /\ Running'
  BY <1>1, ClockImage DEF Running
<1>4. Image' = Image /\ Z' = Z /\ NoCalc' = NoCalc
  BY <1>2, SamePlace
<1>5. ErrType' /\ ErrClearInv' /\ ErrSumInv' /\ ErrDoneInv'
  BY <1>2, <1>3, ErrStays
<1>6. ErrRstInv'
  <2>1. iter \in Nat /\ iter <= iter_cnt /\ iter_cnt \in Nat
    BY <1>2, Place DEF PInv
  <2>2. alu_err_rst' = IF iter < iter_cnt THEN TRUE ELSE IF iter = iter_cnt THEN FALSE ELSE alu_err_rst
    BY <1>0 DEF Reading
  <2>3. alu_err_rst' <=> iter < iter_cnt
    BY <2>1, <2>2
  <2> QED BY <1>2, <1>3, <2>3 DEF ErrRstInv
<1>7. ASSUME cache_lag' = 1 PROVE IdealGood(Image, ideal_address', Z - 2 * (cacheWidth + 1))
  <2>1. AssignReadAddress
    BY <1>0, <1>2, <1>7
  <2> QED BY <1>2, <2>1, IdealAddress
<1>8. ASSUME cache_lag' = 2 PROVE IdealGood(Image, ideal_data_out', Z - 2 * (cacheWidth + 1))
  <2>1. cache_lag = 1 /\ ideal_data_out' = ideal_address
    BY <1>0, <1>2, <1>8 DEF ProcessorClock, CacheClock
  <2> QED BY <1>2, <2>1 DEF EInv, IdealInv
<1>9. IdealInv'
  BY <1>1, <1>2, <1>4, <1>7, <1>8 DEF EInv, IdealInv
<1> QED BY <1>5, <1>6, <1>9 DEF EInv

\* X_OLD_U_READ, third clock: the ideal pixel moves on with the patch columns.
LEMMA PushKeepsErr ==
  ASSUME PInv, PInv', EInv, ProcessorClock, PushPixel
  PROVE  EInv'
<1>1. /\ Running /\ Running' /\ state = "X_OLD_U_READ" /\ state' = "X_NEW_WRITE" /\ cache_lag = 2
      /\ UNCHANGED <<init_state, iter, ii, jj, alu_calc>>
      /\ Reading(2)
  BY DEF PushPixel, Reading, Running, position
<1>2. UNCHANGED <<rst, cacheWidth, cacheHeight, iter_cnt, run>> /\ Image' = Image
  BY ClockImage
<1>3. Z' = Z /\ NoCalc' = NoCalc
  BY <1>1, <1>2, SamePlace
<1>4. UNCHANGED <<lat, lat_ideal, err>> /\ ideal' = ideal_data_out
  BY <1>1 DEF ProcessorClock, AuLatch, PatchClock
<1>5. ErrType' /\ ErrClearInv' /\ ErrSumInv' /\ ErrDoneInv'
  BY <1>1, <1>2, <1>4, ErrStays
<1>6. ErrRstInv'
  <2>1. iter \in Nat /\ iter <= iter_cnt /\ iter_cnt \in Nat
    BY <1>1, Place DEF PInv
  <2>2. alu_err_rst' = IF iter < iter_cnt THEN TRUE ELSE IF iter = iter_cnt THEN FALSE ELSE alu_err_rst
    BY <1>1 DEF Reading
  <2>3. alu_err_rst' <=> iter < iter_cnt
    BY <2>1, <2>2
  <2> QED BY <1>1, <1>2, <2>3 DEF ErrRstInv
<1>7. IdealInv'
  BY <1>1, <1>2, <1>3, <1>4 DEF EInv, IdealInv
<1> QED BY <1>5, <1>6, <1>7 DEF EInv
\* How far a position of a pass is from the first one: the positions without a calculation end it.
LEMMA PassOffset ==
  ASSUME PInv, Running, init_state = 0
  PROVE  /\ Z - Code(Image, iter, 3, 1) \in Nat /\ Terms(Image) \in Nat
         /\ ~NoCalc => Z - Code(Image, iter, 3, 1) < Terms(Image)
         /\ NoCalc => Z - Code(Image, iter, 3, 1) >= Terms(Image)
         /\ Z = Code(Image, iter, 3, 1) <=> ii = 3 /\ jj = 1
<1> DEFINE m == cacheWidth + 1
           R == iter * (cacheHeight + 1)
<1>1. /\ Image.w = cacheWidth /\ Image.h = cacheHeight
      /\ cacheWidth \in Nat /\ cacheWidth >= 1 /\ cacheHeight \in Nat /\ cacheHeight >= 3
      /\ ii \in 0..cacheHeight /\ jj \in 0..cacheWidth /\ iter \in Nat
  BY Place DEF PInv
<1>2. /\ ~Early => Lap = iter
      /\ Early => Lap = iter + 1
  BY DEF Lap
<1>3. m \in Nat /\ m >= 2 /\ R \in Int /\ (iter + 1) * (cacheHeight + 1) = R + cacheHeight + 1
      /\ m = cacheWidth + 1
  BY <1>1
<1>4. Code(Image, iter, 3, 1) = (R + 3) * m + 1
  BY <1>1 DEF Code
<1>5. Terms(Image) = cacheHeight * m + 1
  BY <1>1 DEF Terms
<1>6. /\ ~Early => Z = (R + ii) * m + jj
      /\ Early => Z = (R + cacheHeight + 1 + ii) * m + jj
  <2>1. Code(Image, iter, ii, jj) = (R + ii) * m + jj
    BY <1>1 DEF Code
  <2>2. Code(Image, iter + 1, ii, jj) = (R + cacheHeight + 1 + ii) * m + jj
    BY <1>1, <1>3 DEF Code
  <2> QED BY <1>2, <2>1, <2>2 DEF Z
<1> HIDE DEF m, R
<1>7. /\ (R + 3) * m \in Int /\ cacheHeight * m \in Int
      /\ (R + ii) * m = (R + 3) * m + (ii - 3) * m /\ (ii - 3) * m \in Int
      /\ (R + cacheHeight + 1 + ii) * m = (R + 3) * m + (cacheHeight + (ii - 2)) * m
      /\ (cacheHeight + (ii - 2)) * m \in Int
  BY <1>1, <1>3
<1>8. /\ (cacheHeight - 3) * m = cacheHeight * m - 3 * m
      /\ (cacheHeight + 1) * m = cacheHeight * m + m
      /\ (cacheHeight + 0) * m = cacheHeight * m
      /\ (cacheHeight - 1) * m = cacheHeight * m - m
      /\ (cacheHeight - 2) * m = cacheHeight * m - 2 * m
      /\ 3 * m <= cacheHeight * m
      /\ 0 * m = 0 /\ 1 * m = m
  BY <1>1, <1>3, ProductMonotone
<1>9. CASE ~Early
  <2>1. ii >= 3 /\ ~(ii = 3 /\ jj = 0) /\ ~NoCalc
    BY <1>1, <1>9 DEF Early, NoCalc
  <2>2. Z - Code(Image, iter, 3, 1) = (ii - 3) * m + (jj - 1)
    BY <1>1, <1>4, <1>6, <1>7, <1>9
  <2>3. (ii - 3) * m <= (cacheHeight - 3) * m /\ 0 * m <= (ii - 3) * m
    <3>1. ii - 3 \in Int /\ cacheHeight - 3 \in Int /\ ii - 3 <= cacheHeight - 3 /\ 0 <= ii - 3
      BY <1>1, <2>1
    <3> QED BY <1>3, <3>1, ProductMonotone
  <2>4. CASE ii = 3
    <3>1. (ii - 3) * m = 0
      BY <1>8, <2>4
    <3> QED BY <1>1, <1>3, <1>4, <1>5, <1>6, <1>7, <1>8, <1>9, <2>1, <2>2, <2>4, <3>1
  <2>5. CASE ii >= 4
    <3>1. 1 * m <= (ii - 3) * m
      <4>1. ii - 3 \in Int /\ 1 <= ii - 3
        BY <1>1, <2>5
      <4> QED BY <1>3, <4>1, ProductMonotone
    <3> QED BY <1>1, <1>3, <1>4, <1>5, <1>6, <1>7, <1>8, <1>9, <2>1, <2>2, <2>3, <2>5, <3>1
  <2> QED BY <1>1, <2>1, <2>4, <2>5
<1>10. CASE Early
  <2>1. ii \in 0..2 \/ (ii = 3 /\ jj = 0)
    BY <1>1, <1>10 DEF Early
  <2>2. Z - Code(Image, iter, 3, 1) = (cacheHeight + (ii - 2)) * m + (jj - 1)
    BY <1>1, <1>4, <1>6, <1>7, <1>10
  <2>3. NoCalc <=> (ii = 2 /\ jj >= 2) \/ (ii = 3 /\ jj = 0)
    BY <1>1 DEF NoCalc
  <2>4. CASE ii = 0
    <3>1. (cacheHeight + (ii - 2)) * m = cacheHeight * m - 2 * m
      BY <1>1, <1>8, <2>4
    <3> QED BY <1>1, <1>3, <1>4, <1>5, <1>6, <1>7, <1>8, <1>10, <2>2, <2>3, <2>4, <3>1
  <2>5. CASE ii = 1
    <3>1. (cacheHeight + (ii - 2)) * m = cacheHeight * m - m
      BY <1>1, <1>8, <2>5
    <3> QED BY <1>1, <1>3, <1>4, <1>5, <1>6, <1>7, <1>8, <1>10, <2>2, <2>3, <2>5, <3>1
  <2>6. CASE ii = 2
    <3>1. (cacheHeight + (ii - 2)) * m = cacheHeight * m
      BY <1>1, <1>8, <2>6
    <3> QED BY <1>1, <1>3, <1>4, <1>5, <1>6, <1>7, <1>8, <1>10, <2>2, <2>3, <2>6, <3>1
  <2>7. CASE ii = 3 /\ jj = 0
    <3>1. (cacheHeight + (ii - 2)) * m = cacheHeight * m + m
      BY <1>1, <1>8, <2>7
    <3> QED BY <1>1, <1>3, <1>4, <1>5, <1>6, <1>7, <1>8, <1>10, <2>2, <2>3, <2>7, <3>1
  <2> QED BY <2>1, <2>4, <2>5, <2>6, <2>7
<1> QED BY <1>9, <1>10

\* A term taken: the sums stay good when the new term is.
LEMMA ErrAppend ==
  ASSUME NEW S, NEW e \in Seq(S), NEW t, NEW im, NEW n, ErrGood(im, e, n),
         ErrGood(im, <<t>>, n) \/ Len(e) > 0,
         Len(e) > 0 => \A r \in 0..im.h+1, c \in 0..im.w :
            Code(im, n, 1, 1) + (Len(e) + 1) - 2 = Code(im, n, r, c) =>
              IF r \in 1..im.h /\ c >= 1
              THEN StateOk(im, t[2], r, c, n) /\ t[1] = (Addr(im, r, c) - 1) % AddrSpace
              ELSE t[2] = <<im.run, NoPixel, 0>>
  PROVE  Len(Append(e, t)) = Len(e) + 1 /\ ErrGood(im, Append(e, t), n)
<1>1. /\ Len(e) \in Nat /\ Len(Append(e, t)) = Len(e) + 1
      /\ Append(e, t)[Len(e) + 1] = t
      /\ \A k \in 1..Len(e) : Append(e, t)[k] = e[k]
  OBVIOUS
<1> SUFFICES ASSUME NEW k \in 1..(Len(e) + 1)
             PROVE  IF k = 1 THEN Append(e, t)[k][2] = <<im.run, NoPixel, 0>>
                    ELSE \A r \in 0..im.h+1, c \in 0..im.w :
                       Code(im, n, 1, 1) + k - 2 = Code(im, n, r, c) =>
                         IF r \in 1..im.h /\ c >= 1
                         THEN /\ StateOk(im, Append(e, t)[k][2], r, c, n)
                              /\ Append(e, t)[k][1] = (Addr(im, r, c) - 1) % AddrSpace
                         ELSE Append(e, t)[k][2] = <<im.run, NoPixel, 0>>
  BY <1>1 DEF ErrGood
<1>2. CASE k \in 1..Len(e)
  <2>1. Append(e, t)[k] = e[k]
    BY <1>1, <1>2
  <2> QED BY <1>2, <2>1 DEF ErrGood
<1>3. CASE k = Len(e) + 1 /\ Len(e) > 0
  <2>1. Append(e, t)[k] = t /\ k # 1
    BY <1>1, <1>3
  <2> QED BY <1>3, <2>1
<1>4. CASE k = 1 /\ Len(e) = 0
  <2>1. Append(e, t)[k] = t
    BY <1>1, <1>4
  <2>2. t[2] = <<im.run, NoPixel, 0>>
    <3>1. ErrGood(im, <<t>>, n)
      BY <1>4
    <3>2. Len(<<t>>) = 1 /\ <<t>>[1] = t /\ 1 \in 1..1
      OBVIOUS
    <3> QED BY <3>1, <3>2 DEF ErrGood
  <2> QED BY <1>4, <2>1, <2>2
<1> QED BY <1>1, <1>2, <1>3, <1>4

\* The centre of the latched patch is the pixel of the term that is taken.
LEMMA CentreTerm ==
  ASSUME PInv, EInv, Running, ~alu_calc, init_state = 0, ~NoCalc, ~(ii = 3 /\ jj = 1),
         NEW n \in Nat, NEW r \in 0..cacheHeight+1, NEW c \in 0..cacheWidth,
         Z - 1 - 2 * (cacheWidth + 1) = Code(Image, n, r, c)
  PROVE  IF r \in 1..cacheHeight /\ c >= 1
         THEN /\ StateOk(Image, lat[2][1][2], r, c, n)
              /\ lat_ideal = (Addr(Image, r, c) - 1) % AddrSpace
         ELSE lat[2][1][2] = <<run, NoPixel, 0>>
<1>1. /\ IsImage(Image) /\ Image.w = cacheWidth /\ Image.h = cacheHeight /\ Image.run = run
      /\ cacheWidth \in Nat /\ cacheHeight \in Nat
  BY Place DEF PInv
<1>2. /\ PatchGood(Image, lat, Code(Image, n, r, c))
      /\ IdealGood(Image, lat_ideal, Code(Image, n, r, c))
  BY DEF PInv, LatInv, EInv, IdealInv
<1>3. Good(Image, lat[2][1], Code(Image, n, r, c))
  <2>1. n \in Int /\ r \in Int /\ c \in Int /\ (r + 1) - 1 = r /\ (c + 2) - 2 = c
    BY <1>1
  <2>2. Good(Image, lat[2][1], Code(Image, n, (r + 1) - 1, (c + 2) - 2))
    BY <1>1, <1>2, <2>1, PatchCells
  <2> QED BY <2>1, <2>2
<1>4. IF r \in 1..cacheHeight /\ c \in 1..cacheWidth
      THEN WordOk(Image, lat[2][1], n, r, c) ELSE lat[2][1] = BndWord(Image)
  <2>1. r \in 0..Image.h+1 /\ c \in 0..Image.w+1
    BY <1>1
  <2> QED BY <1>1, <1>3, <2>1, NeighbourWord
<1>5. CASE r \in 1..cacheHeight /\ c >= 1
  <2>1. r \in 1..Image.h /\ c \in 1..Image.w /\ r >= 1
    BY <1>1, <1>5
  <2>2. StateOk(Image, lat[2][1][2], r, c, n)
    BY <1>1, <1>4, <1>5, <2>1 DEF WordOk
  <2>3. lat_ideal = (Addr(Image, r, c) - 1) % AddrSpace
    BY <1>2, <2>1 DEF IdealGood
  <2> QED BY <1>5, <2>2, <2>3
<1>6. CASE ~(r \in 1..cacheHeight /\ c >= 1)
  <2>1. lat[2][1] = BndWord(Image)
    BY <1>1, <1>4, <1>6
  <2>2. lat[2][1][2] = <<run, NoPixel, 0>>
    BY <1>1, <2>1 DEF BndWord
  <2> QED BY <1>6, <2>2
<1> QED BY <1>5, <1>6

\* X_NEW_WRITE, the AU takes the patch: the error sums take the centre of the patch before it.
LEMMA CalcKeepsErr ==
  ASSUME PInv, PInv', EInv, ProcessorClock, StartCalc
  PROVE  EInv'
<1>1. UNCHANGED <<rst, cacheWidth, cacheHeight, iter_cnt, run>> /\ Image' = Image
  BY ClockImage
<1>2. /\ Running /\ Running' /\ state = "X_NEW_WRITE" /\ cache_wr_lag = 0 /\ cache_lag' = cache_lag
      /\ UNCHANGED <<state, init_state, iter, ii, jj, alu_err_rst>>
  BY DEF StartCalc, Running, progress, position
<1>3. ~alu_calc /\ x_out_ready
  BY <1>2 DEF PInv, IInv, TimerInv, PhaseInv
<1>4. alu_calc'
  BY <1>3 DEF StartCalc
<1>5. Z' = Z /\ NoCalc' = NoCalc
  BY <1>1, <1>2, SamePlace
<1>6. ~NoCalc
  BY <1>2 DEF PInv, WriteInv, Addressed
<1>7. /\ lat_ideal' = ideal
      /\ err' = IF alu_err_rst THEN <<>> ELSE Append(err, <<lat_ideal, lat[2][1][2]>>)
  BY <1>3, <1>4 DEF ProcessorClock, AuLatch
<1>8. IdealInv'
  <2>1. ideal' = ideal
    BY <1>2 DEF ProcessorClock, PatchClock, PushPixel, Reading
  <2> QED BY <1>1, <1>2, <1>4, <1>5, <1>7, <2>1 DEF EInv, IdealInv
<1>9. ErrType'
  <2>1. PICK S : err \in Seq(S)
    BY DEF EInv, ErrType
  <2>2. err' \in Seq(S \cup {<<lat_ideal, lat[2][1][2]>>})
    BY <1>7, <2>1
  <2> QED BY <2>2 DEF ErrType
<1>10. ErrRstInv' /\ (alu_err_rst <=> iter < iter_cnt)
  BY <1>1, <1>2 DEF EInv, ErrRstInv
<1>11. ErrClearInv'
  BY <1>1, <1>2, <1>7, <1>10 DEF ErrClearInv
<1>12. ErrDoneInv'
  BY <1>2 DEF ErrDoneInv, Running, ready
<1>13. ErrSumInv'
  <2> SUFFICES ASSUME init_state = 0, iter = iter_cnt, iter_cnt > 0
               PROVE  /\ Len(err') = IF Calcs' < Terms(Image) THEN Calcs' ELSE Terms(Image)
                      /\ ErrGood(Image, err', iter_cnt)
    BY <1>1, <1>2 DEF ErrSumInv
  <2> DEFINE t == <<lat_ideal, lat[2][1][2]>>
             K == Z - Code(Image, iter_cnt, 3, 1)
  <2>1. PICK S : err \in Seq(S)
    BY DEF EInv, ErrType
  <2>2. /\ K \in Nat /\ Terms(Image) \in Nat /\ K < Terms(Image)
        /\ Z = Code(Image, iter_cnt, 3, 1) <=> ii = 3 /\ jj = 1
    BY <1>2, <1>6, PassOffset
  <2>3. Calcs = K + 0 /\ Calcs' = K + 1
    BY <1>1, <1>3, <1>4, <1>5 DEF Calcs
  <2>4. Len(err) = K /\ ErrGood(Image, err, iter_cnt)
    BY <1>2, <2>2, <2>3 DEF EInv, ErrSumInv
  <2>5. /\ IsImage(Image) /\ Image.w = cacheWidth /\ Image.h = cacheHeight /\ Image.run = run
        /\ cacheWidth \in Nat /\ iter_cnt \in Nat /\ Z \in Int
    BY <1>2, Place DEF PInv
  <2>6. /\ Code(Image, iter_cnt, 3, 1) = Code(Image, iter_cnt, 1, 1) + 2 * (cacheWidth + 1)
        /\ Code(Image, iter_cnt, 1, 1) \in Int
    <3>1. iter_cnt \in Int /\ 1 + 1 = 2 /\ 2 + 1 = 3
      BY <2>5
    <3>2. /\ Code(Image, iter_cnt, 2, 1) = Code(Image, iter_cnt, 1, 1) + (Image.w + 1)
          /\ Code(Image, iter_cnt, 1, 1) \in Int
      BY <2>5, <3>1, CodeSteps
    <3>3. Code(Image, iter_cnt, 3, 1) = Code(Image, iter_cnt, 2, 1) + (Image.w + 1)
      BY <2>5, <3>1, CodeSteps
    <3> QED BY <2>5, <3>2, <3>3
  <2>7. ErrGood(Image, <<t>>, iter_cnt) \/ Len(err) > 0
    <3>1. CASE K = 0
      <4>1. ii = 3 /\ jj = 1
        BY <2>2, <2>5, <2>6, <3>1
      <4>2. lat[2][1] = BndWord(Image)
        BY <1>2, <1>3, <4>1 DEF EInv, IdealInv
      <4>3. t[2] = <<Image.run, NoPixel, 0>>
        BY <4>2 DEF BndWord
      <4>4. Len(<<t>>) = 1 /\ <<t>>[1] = t /\ \A k \in 1..1 : k = 1
        OBVIOUS
      <4> HIDE DEF t
      <4> QED BY <4>3, <4>4 DEF ErrGood
    <3>2. CASE K > 0
      BY <2>4, <3>2
    <3> QED BY <2>2, <3>1, <3>2
  <2>8. ASSUME Len(err) > 0, NEW r \in 0..Image.h+1, NEW c \in 0..Image.w,
               Code(Image, iter_cnt, 1, 1) + (Len(err) + 1) - 2 = Code(Image, iter_cnt, r, c)
        PROVE  IF r \in 1..Image.h /\ c >= 1
               THEN StateOk(Image, t[2], r, c, iter_cnt) /\ t[1] = (Addr(Image, r, c) - 1) % AddrSpace
               ELSE t[2] = <<Image.run, NoPixel, 0>>
    <3>1. ~(ii = 3 /\ jj = 1)
      BY <2>2, <2>4, <2>5, <2>6, <2>8
    <3>2. Z - 1 - 2 * (cacheWidth + 1) = Code(Image, iter_cnt, r, c)
      BY <2>4, <2>5, <2>6, <2>8, SMTT(30)
    <3>3. r \in 0..cacheHeight+1 /\ c \in 0..cacheWidth
      BY <2>5
    <3>4. IF r \in 1..cacheHeight /\ c >= 1
          THEN /\ StateOk(Image, lat[2][1][2], r, c, iter_cnt)
               /\ lat_ideal = (Addr(Image, r, c) - 1) % AddrSpace
          ELSE lat[2][1][2] = <<run, NoPixel, 0>>
      BY <1>2, <1>3, <1>6, <2>5, <3>1, <3>2, <3>3, CentreTerm
    <3>5. t[1] = lat_ideal /\ t[2] = lat[2][1][2]
      OBVIOUS
    <3> QED BY <2>5, <3>4, <3>5
  <2>9. err' = Append(err, t)
    BY <1>7, <1>10, <2>5
  <2> HIDE DEF t
  <2>10. Len(Append(err, t)) = Len(err) + 1 /\ ErrGood(Image, Append(err, t), iter_cnt)
    BY <2>1, <2>4, <2>7, <2>8, ErrAppend
  <2> QED BY <2>2, <2>3, <2>4, <2>9, <2>10
<1> QED BY <1>8, <1>9, <1>10, <1>11, <1>12, <1>13 DEF EInv

\* The patch latched at (2,1), in the boundary row, stays latched until (patchWH,1).
LEMMA RowEndPatch ==
  ASSUME PInv, EInv, ProcessorClock, FinishPosition, (ii' = 2 /\ jj' >= 2) \/ (ii' = 3 /\ jj' <= 1)
  PROVE  lat[2][1] = BndWord(Image)
<1>1. Running /\ state = "X_NEW_WRITE" /\ cache_wr_lag \in {1, 2}
  BY DEF FinishPosition, Running
<1>2. /\ IsImage(Image) /\ Image.w = cacheWidth /\ Image.h = cacheHeight
      /\ cacheWidth \in Nat /\ cacheWidth >= 1 /\ cacheHeight \in Nat /\ cacheHeight >= 3
      /\ ii \in 0..cacheHeight /\ jj \in 0..cacheWidth /\ Lap \in Nat
  BY <1>1, Place DEF PInv
<1>3. /\ jj' = IF jj = cacheWidth THEN 0 ELSE jj + 1
      /\ ii' = IF jj = cacheWidth THEN (IF ii = cacheHeight THEN 0 ELSE ii + 1) ELSE ii
  BY DEF FinishPosition, Advance
<1>4. (alu_calc <=> cache_wr_lag = 1) /\ (cache_wr_lag = 2 <=> NoCalc)
  BY <1>1 DEF PInv, IInv, TimerInv, WriteInv, Addressed
<1>5. \/ ii = 2 /\ jj = 1
      \/ ii = 2 /\ jj >= 2
      \/ ii = 3 /\ jj = 0
  BY <1>2, <1>3
<1>6. CASE ii = 2 /\ jj = 1
  <2>1. alu_calc
    BY <1>1, <1>4, <1>6 DEF NoCalc
  <2>2. PatchGood(Image, lat, Z - 2 * (cacheWidth + 1))
    BY <1>1, <2>1 DEF PInv, LatInv
  <2>3. Z - 2 * (cacheWidth + 1) = Code(Image, Lap, 0, 1)
    <3>1. Lap \in Int /\ 0 + 1 = 1 /\ 1 + 1 = 2
      BY <1>2
    <3>2. /\ Code(Image, Lap, 1, 1) = Code(Image, Lap, 0, 1) + (Image.w + 1)
          /\ Code(Image, Lap, 0, 1) \in Int
      BY <1>2, <3>1, CodeSteps
    <3>3. Code(Image, Lap, 2, 1) = Code(Image, Lap, 1, 1) + (Image.w + 1)
      BY <1>2, <3>1, CodeSteps
    <3>4. Z = Code(Image, Lap, 2, 1)
      BY <1>6 DEF Z
    <3> QED BY <1>2, <3>2, <3>3, <3>4
  <2>4. Good(Image, lat[2][1], Code(Image, Lap, 0, 1))
    <3>1. Lap \in Int /\ (0 + 1) - 1 = 0 /\ (1 + 2) - 2 = 1 /\ 0 \in Int /\ 1 \in Int
      BY <1>2
    <3>2. Good(Image, lat[2][1], Code(Image, Lap, (0 + 1) - 1, (1 + 2) - 2))
      BY <1>2, <2>2, <2>3, <3>1, PatchCells
    <3> QED BY <3>1, <3>2
  <2>5. WordOk(Image, lat[2][1], Lap, 0, 1)
    <3>1. 0 \in 0..Image.h /\ 1 \in 0..Image.w
      BY <1>2
    <3> QED BY <1>2, <2>4, <3>1, GoodAt
  <2> QED BY <2>5 DEF WordOk
<1>7. CASE (ii = 2 /\ jj >= 2) \/ (ii = 3 /\ jj = 0)
  <2>1. ~alu_calc
    BY <1>4, <1>7 DEF NoCalc
  <2>2. (ii = 2 /\ jj >= 2) \/ (ii = 3 /\ jj <= 1)
    BY <1>7
  <2> QED BY <1>1, <2>1, <2>2 DEF EInv, IdealInv
<1> QED BY <1>5, <1>6, <1>7

\* X_NEW_WRITE, last clock: a position that took no term is one after the last term.
LEMMA FinishKeepsErr ==
  ASSUME PInv, PInv', EInv, ProcessorClock, FinishPosition
  PROVE  EInv'
<1>1. UNCHANGED <<rst, cacheWidth, cacheHeight, iter_cnt, run>> /\ Image' = Image
  BY ClockImage
<1>2. /\ ~rst /\ Running /\ state = "X_NEW_WRITE" /\ cache_wr_lag \in {1, 2} /\ ~fifo_clk_en'
      /\ alu_calc' = (IF cache_wr_lag = 1 THEN FALSE ELSE alu_calc) /\ cache_lag' = cache_lag
  BY DEF FinishPosition, Running
<1>3. (alu_calc <=> cache_wr_lag = 1) /\ ~alu_calc' /\ cache_lag = 0 /\ (cache_wr_lag = 2 <=> NoCalc)
  BY <1>2 DEF PInv, IInv, TimerInv, PhaseInv, WriteInv, Addressed
<1>4. ~PushPixel
  BY <1>2 DEF PushPixel, Reading
<1>5. UNCHANGED <<lat, lat_ideal, ideal, err>>
  BY <1>2, <1>3, <1>4, QuietClock
<1>6. /\ state' = "SUCCESS" => Code(Image, iter_cnt + 1, 3, 1) = Z + 1
      /\ state' # "SUCCESS" => state' = "X_OLD_U_READ" /\ Z' = Z + 1
      /\ init_state' = 0 /\ ~(ii' = 3 /\ jj' = 1) => init_state = 0
      /\ init_state' = 0 /\ NoCalc /\ init_state = 0 => NoCalc' \/ (ii' = 3 /\ jj' = 1)
  BY NextPlace DEF PInv
<1>7. /\ Z \in Int /\ cacheWidth \in Nat /\ cacheWidth >= 1 /\ iter \in Nat /\ iter_cnt \in Nat
      /\ iter <= iter_cnt /\ iter_cnt <= iterMAX /\ init_state \in {0, 1}
      /\ init_state = 1 => iter = 0
      /\ ii \in 0..cacheHeight /\ jj \in 0..cacheWidth /\ cacheHeight \in Nat
  BY <1>2, Place DEF PInv
<1>8. IdealInv'
  <2>1. ASSUME Running', init_state' = 0, ~NoCalc', ~(ii' = 3 /\ jj' = 1)
        PROVE  IdealGood(Image, lat_ideal, Z' - 1 - 2 * (cacheWidth + 1))
    <3>1. ~NoCalc
      BY <1>6, <2>1
    <3>2. alu_calc
      BY <1>2, <1>3, <3>1
    <3>3. IdealGood(Image, lat_ideal, Z - 2 * (cacheWidth + 1))
      BY <1>2, <3>2 DEF EInv, IdealInv
    <3>4. Z' - 1 - 2 * (cacheWidth + 1) = Z - 2 * (cacheWidth + 1)
      BY <1>6, <1>7, <2>1 DEF Running
    <3> QED BY <3>3, <3>4
  <2>2. ASSUME (ii' = 2 /\ jj' >= 2) \/ (ii' = 3 /\ jj' <= 1)
        PROVE  lat[2][1] = BndWord(Image)
    BY <2>2, RowEndPatch
  <2>3. Running' => state' # "X_NEW_WRITE" /\ cache_lag' = 0
    BY <1>2, <1>3, <1>6 DEF Running
  <2> QED BY <1>1, <1>3, <1>5, <2>1, <2>2, <2>3 DEF IdealInv
<1>9. ErrType'
  BY <1>5 DEF EInv, ErrType
<1>10. ErrRstInv'
  BY <1>2, <1>3, <1>6 DEF ErrRstInv, Running
<1>11. CASE ii' = 3 /\ jj' = 1
  <2>1. ii = 3 /\ jj = 0 /\ NoCalc /\ ~alu_calc
    <3>1. /\ jj' = IF jj = cacheWidth THEN 0 ELSE jj + 1
          /\ ii' = IF jj = cacheWidth THEN (IF ii = cacheHeight THEN 0 ELSE ii + 1) ELSE ii
      BY DEF FinishPosition, Advance
    <3>2. ii = 3 /\ jj = 0
      BY <1>7, <1>11, <3>1
    <3> QED BY <1>3, <3>2 DEF NoCalc
  <2>2. PassEnd
    BY <1>11 DEF FinishPosition, patchWH
  <2>3. CASE init_state = 1
    <3>1. state' = "X_OLD_U_READ" /\ iter' = 0
      BY <1>7, <2>2, <2>3 DEF PassEnd
    <3> QED BY <1>1, <1>3, <1>7, <1>8, <1>9, <1>10, <1>11, <3>1
            DEF EInv, ErrClearInv, ErrSumInv, ErrDoneInv, ready
  <2>4. CASE init_state = 0 /\ iter = iter_cnt
    <3>1. state' = "SUCCESS"
      BY <2>2, <2>4 DEF PassEnd
    <3>2. ASSUME iter_cnt > 0 PROVE Len(err) = Terms(Image) /\ ErrGood(Image, err, iter_cnt)
      <4>1. Z - Code(Image, iter_cnt, 3, 1) >= Terms(Image) /\ Terms(Image) \in Nat
            /\ Z - Code(Image, iter_cnt, 3, 1) \in Nat
        BY <1>2, <2>1, <2>4, PassOffset
      <4>2. Calcs = Z - Code(Image, iter_cnt, 3, 1)
        BY <2>1, <4>1 DEF Calcs
      <4> QED BY <1>2, <2>4, <3>2, <4>1, <4>2 DEF EInv, ErrSumInv
    <3> QED BY <1>1, <1>5, <1>8, <1>9, <1>10, <3>1, <3>2
            DEF EInv, ErrClearInv, ErrSumInv, ErrDoneInv, Running
  <2>5. CASE init_state = 0 /\ iter # iter_cnt
    <3>1. state' = "X_OLD_U_READ" /\ iter' = (iter + 1) % (iterMAX + 1) /\ init_state' = 0
      BY <2>2, <2>5 DEF PassEnd
    <3>2. (iter + 1) % (iterMAX + 1) = iter + 1
      BY <1>7, <2>5, MachineAssumption DEF MachineAssumption
    <3>3. err' = <<>>
      BY <1>2, <1>5, <1>7, <2>1, <2>5 DEF EInv, ErrClearInv
    <3>4. ASSUME iter' = iter_cnt PROVE Calcs' = 0
      <4>1. Lap' = iter_cnt
        BY <1>11, <3>1, <3>4 DEF Lap, Early
      <4>2. Z' = Code(Image, iter_cnt, 3, 1) /\ Z' \in Int
        BY <1>1, <1>6, <1>7, <1>11, <3>1, <4>1 DEF Z
      <4> QED BY <1>1, <1>3, <4>2 DEF Calcs
    <3>5. Terms(Image) > 0
      <4>1. Running /\ Terms(Image) \in Nat /\ Z - Code(Image, iter, 3, 1) \in Nat
        BY <1>2, <2>5, PassOffset
      <4>2. Image.w = cacheWidth /\ Image.h = cacheHeight /\ cacheHeight * (cacheWidth + 1) \in Nat
        BY <1>7, ImageFields
      <4> QED BY <4>2 DEF Terms
    <3>6. Len(err') = 0 /\ ErrGood(Image, err', iter_cnt)
      BY <3>3 DEF ErrGood
    <3> QED BY <1>1, <1>3, <1>8, <1>9, <1>10, <1>11, <3>1, <3>3, <3>4, <3>5, <3>6
            DEF EInv, ErrClearInv, ErrSumInv, ErrDoneInv, ready
  <2> QED BY <1>7, <2>3, <2>4, <2>5
<1>12. CASE ~(ii' = 3 /\ jj' = 1)
  <2>1. state' = "X_OLD_U_READ" /\ init_state' = init_state /\ iter' = iter /\ Z' = Z + 1
    <3>1. state' = "X_OLD_U_READ" /\ init_state' = init_state /\ iter' = iter
      BY <1>12 DEF FinishPosition, patchWH
    <3> QED BY <1>6, <3>1
  <2>2. ErrClearInv'
    <3>1. ii = 3 /\ jj = 1 => ~NoCalc \/ init_state # 0
      BY DEF NoCalc
    <3>2. ii = 3 /\ jj = 1 /\ init_state = 0 => alu_calc
      BY <1>2, <1>3, <3>1
    <3> QED BY <1>1, <1>2, <1>5, <2>1, <3>2 DEF EInv, ErrClearInv
  <2>3. ErrSumInv'
    <3> SUFFICES ASSUME init_state = 0, iter = iter_cnt, iter_cnt > 0
                 PROVE  /\ Len(err) = IF Calcs' < Terms(Image) THEN Calcs' ELSE Terms(Image)
                        /\ ErrGood(Image, err, iter_cnt)
      BY <1>1, <1>5, <2>1 DEF ErrSumInv
    <3> DEFINE K == Z - Code(Image, iter_cnt, 3, 1)
    <3>1. /\ Len(err) = IF Calcs < Terms(Image) THEN Calcs ELSE Terms(Image)
          /\ ErrGood(Image, err, iter_cnt)
      BY <1>2 DEF EInv, ErrSumInv
    <3>2. K \in Nat /\ Terms(Image) \in Nat /\ (NoCalc => K >= Terms(Image))
      BY <1>2, PassOffset
    <3>3. Calcs = K + (IF alu_calc THEN 1 ELSE 0)
      BY DEF Calcs
    <3>4. Calcs' = K + 1
      <4>1. Code(Image, iter_cnt, 3, 1) \in Int
        <5>1. IsImage(Image) /\ iter_cnt \in Int /\ 3 \in Int /\ 1 \in Int
          BY <1>2, <1>7, Place DEF PInv
        <5> QED BY <5>1, CodeSteps
      <4>2. Calcs' = ((Z + 1) - Code(Image, iter_cnt, 3, 1)) + 0
        BY <1>1, <1>3, <2>1 DEF Calcs
      <4> QED BY <1>7, <4>1, <4>2
    <3> HIDE DEF K
    <3> QED BY <1>2, <1>3, <3>1, <3>2, <3>3, <3>4
  <2>4. ErrDoneInv'
    BY <2>1 DEF ErrDoneInv, ready
  <2> QED BY <1>8, <1>9, <1>10, <2>2, <2>3, <2>4 DEF EInv
<1> QED BY <1>11, <1>12

\* A clock between runs, a load or a release of rst takes no term.
LEMMA IdleKeepsErr ==
  ASSUME PInv, EInv, ~Running, err' = err,
         \/ ready' => ready /\ rst' = rst /\ UNCHANGED <<run, cacheWidth, cacheHeight, iter_cnt>>
         \/ rst',
         Running' => /\ state' = "X_OLD_U_READ" /\ cache_lag' = 0 /\ init_state' = 1
                     /\ ii' = 0 /\ ~alu_calc'
  PROVE  EInv'
<1>1. ErrType'
  BY DEF EInv, ErrType
<1>2. IdealInv' /\ ErrRstInv' /\ ErrClearInv' /\ ErrSumInv'
  BY DEF IdealInv, ErrRstInv, ErrClearInv, ErrSumInv
<1>3. ErrDoneInv'
  BY DEF EInv, ErrDoneInv, Image
<1> QED BY <1>1, <1>2, <1>3 DEF EInv

\* The clocks outside a run.
LEMMA IdleClockErr ==
  ASSUME PInv, EInv, ProcessorClock, Reset \/ StartRun \/ Finished
  PROVE  EInv'
<1>1. UNCHANGED <<rst, cacheWidth, cacheHeight, iter_cnt, run>>
  BY ClockImage
<1>2. ~Running
  <2>1. CASE Reset
    BY <2>1 DEF Reset, PInv, IInv, PhaseInv
  <2> QED BY <2>1 DEF StartRun, Finished, Running
<1>3. fifo_clk_en' = fifo_clk_en /\ alu_calc' = alu_calc
  BY DEF Reset, StartRun, Finished
<1>4. err' = err /\ ~alu_calc
  BY <1>2, <1>3, IdleData
<1>5. ready' => ready
  BY DEF Reset, StartRun, Finished, ready, progress
<1>6. Running' => /\ state' = "X_OLD_U_READ" /\ cache_lag' = 0 /\ init_state' = 1
                  /\ ii' = 0 /\ ~alu_calc'
  BY <1>3, <1>4 DEF Reset, StartRun, Finished, Running, progress
<1> QED BY <1>1, <1>2, <1>4, <1>5, <1>6, IdleKeepsErr

\* Power-up.
LEMMA ErrInit == ProcessorInit => EInv
<1> SUFFICES ASSUME ProcessorInit PROVE EInv
  OBVIOUS
<1>1. state = "X_OLD_U_INIT" /\ err = <<>>
  BY DEF ProcessorInit, Init, MachineInit, DataInit
<1>2. ErrType
  <2>1. err \in Seq({})
    BY <1>1
  <2> QED BY <2>1 DEF ErrType
<1> QED BY <1>1, <1>2 DEF EInv, IdealInv, ErrRstInv, ErrClearInv, ErrSumInv, ErrDoneInv, Running, ready

\* A step that changes nothing.
LEMMA ErrStutter ==
  ASSUME EInv, UNCHANGED allVars
  PROVE  EInv'
<1>1. UNCHANGED vars /\ UNCHANGED data
  BY DEF allVars
<1>2. /\ UNCHANGED <<run, ideal_data_out, ideal, lat, lat_ideal, err>>
      /\ UNCHANGED <<rst, cacheWidth, cacheHeight, iter_cnt, state, init_state, iter, ii, jj>>
      /\ UNCHANGED <<cache_lag, ideal_address, alu_calc, alu_err_rst>>
  BY <1>1 DEF vars, data
<1>3. Image' = Image /\ Z' = Z /\ NoCalc' = NoCalc
  BY <1>2, SamePlace
<1>4. Running' = Running /\ ready' = ready /\ Calcs' = Calcs
  BY <1>2, <1>3 DEF Running, ready, Calcs
<1>5. IdealInv'
  BY <1>2, <1>3, <1>4 DEF EInv, IdealInv
<1>6. ErrType' /\ ErrRstInv' /\ ErrClearInv' /\ ErrSumInv' /\ ErrDoneInv'
  BY <1>2, <1>3, <1>4 DEF EInv, ErrType, ErrRstInv, ErrClearInv, ErrSumInv, ErrDoneInv
<1> QED BY <1>5, <1>6 DEF EInv

\* EInv is inductive, given PInv.
LEMMA ErrNext ==
  ASSUME PInv, PInv', EInv, [ProcessorNext /\ Fits]_allVars
  PROVE  EInv'
<1>1. CASE ProcessorClock
  BY <1>1, ClockImage, IdleClockErr, ReadKeepsErr, PushKeepsErr, CalcKeepsErr, FinishKeepsErr DEF Clock
<1>2. CASE Load
  <2>1. rst' = TRUE /\ err' = err /\ UNCHANGED machineVars /\ Configure
    BY <1>2 DEF Load
  <2>2. ~Running /\ state' = state
    BY <2>1 DEF Configure, ready, Running, machineVars, progress, PInv, IInv, PhaseInv
  <2>3. ~Running'
    BY <2>2 DEF Running
  <2> QED BY <2>1, <2>2, <2>3, IdleKeepsErr
<1>3. CASE Go
  <2>1. err' = err /\ state = "X_OLD_U_INIT" /\ state' = state
    BY <1>3 DEF Go, LowerRst, data, machineVars, progress
  <2>2. ~Running /\ ~Running' /\ ~ready'
    BY <2>1 DEF Running, ready
  <2> QED BY <2>1, <2>2, IdleKeepsErr
<1>4. CASE UNCHANGED allVars
  BY <1>4, ErrStutter
<1> QED BY <1>1, <1>2, <1>3, <1>4 DEF ProcessorNext, Fits

(***************************************************************************)
(* The invariant of the error sums: a term of the last pass pairs the      *)
(* centre of the patch with the ideal pixel fetched for it, in raster      *)
(* order.                                                                  *)
(***************************************************************************)
THEOREM ErrorInvariant == ProcessorSpec /\ [][Fits]_allVars => []EInv
<1>1. PInv /\ PInv' /\ EInv /\ [ProcessorNext]_allVars /\ [Fits]_allVars => EInv'
  BY ErrNext
<1> QED BY ProcessorInvariant, ErrInit, <1>1, PTL DEF ProcessorSpec
-----------------------------------------------------------------------------
\* A number up to h*m as row and column; only the last number is of row h.
LEMMA RowColumn ==
  ASSUME NEW m \in Nat \ {0}, NEW h \in Nat, NEW t \in Int, 0 <= t, t <= h * m
  PROVE  \E u \in 0..h, v \in 0..m-1 : t = u * m + v /\ (v >= 1 => u < h)
<1>1. PICK u \in Int, v \in 0..m-1 : t = m * u + v
  BY DivMod
<1>2. m * u = u * m /\ u * m \in Int /\ h * m \in Int
  OBVIOUS
<1>3. ~(u <= -1)
  <2>1. u <= -1 => u * m <= (-1) * m /\ (-1) * m = -m
    BY ProductMonotone
  <2> QED BY <1>1, <1>2, <2>1
<1>4. ~(h + 1 <= u)
  <2>1. h + 1 <= u => (h + 1) * m <= u * m /\ (h + 1) * m = h * m + m
    BY ProductMonotone
  <2> QED BY <1>1, <1>2, <2>1
<1>5. u = h => v = 0
  BY <1>1, <1>2
<1>6. u \in 0..h /\ (v >= 1 => u < h) /\ t = u * m + v
  BY <1>1, <1>2, <1>3, <1>4, <1>5
<1> QED BY <1>6

\* And back.
LEMMA RowColumnIn ==
  ASSUME NEW m \in Nat \ {0}, NEW h \in Nat, NEW u \in 0..h, NEW v \in 0..m-1, v >= 1 => u < h
  PROVE  u * m + v \in Int /\ 0 <= u * m + v /\ u * m + v <= h * m /\ h * m \in Nat
<1>1. u * m \in Int /\ h * m \in Nat
  OBVIOUS
<1>2. 0 * m <= u * m /\ u * m <= h * m /\ 0 * m = 0
  BY ProductMonotone
<1>3. u + 1 <= h => (u + 1) * m <= h * m /\ (u + 1) * m = u * m + m
  BY ProductMonotone
<1> QED BY <1>1, <1>2, <1>3

\* The number of the term of row u+1, column v.
TermNo(im, u, v) == u * (im.w + 1) + v + 1

\* The k-th term is of row u+1, column v, with k-1 = u*(w+1) + v; column 0 is the boundary.
LEMMA TermOf ==
  ASSUME NEW im, IsImage(im), NEW e, NEW n \in Nat, ErrGood(im, e, n), Len(e) = Terms(im),
         NEW k \in 1..Len(e)
  PROVE  \E u \in 0..im.h, v \in 0..im.w :
           /\ k = TermNo(im, u, v)
           /\ v = 0 => e[k][2] = <<im.run, NoPixel, 0>>
           /\ v >= 1 => /\ u + 1 \in 1..im.h /\ v \in 1..im.w /\ StateOk(im, e[k][2], u + 1, v, n)
                        /\ e[k][1] = (Addr(im, u + 1, v) - 1) % AddrSpace
<1> DEFINE m == im.w + 1
<1>1. im.w \in Nat /\ im.h \in Nat /\ im.w >= 1 /\ im.h >= 3 /\ m \in Nat \ {0} /\ m = im.w + 1
  BY DEF IsImage
<1>2. Len(e) = im.h * m + 1 /\ im.h * m \in Nat
  BY <1>1 DEF Terms
<1>3. k - 1 \in Int /\ 0 <= k - 1 /\ k - 1 <= im.h * m /\ k \in Int
  BY <1>2
<1> HIDE DEF m
<1>4. PICK u \in 0..im.h, v \in 0..m-1 : k - 1 = u * m + v /\ (v >= 1 => u < im.h)
  <2>0. m \in Nat \ {0} /\ im.h \in Nat
    BY <1>1
  <2>1. ASSUME NEW t \in Int, 0 <= t, t <= im.h * m
        PROVE  \E u \in 0..im.h, v \in 0..m-1 : t = u * m + v /\ (v >= 1 => u < im.h)
    BY <2>0, <2>1, RowColumn
  <2> QED BY <1>3, <2>1
<1>5. v \in 0..im.w /\ u * m \in Int /\ u * m >= 0 /\ u \in Int /\ v \in Int
  <2>1. 0 * m <= u * m /\ 0 * m = 0
    BY <1>1, ProductMonotone
  <2> QED BY <1>1, <2>1
<1>7. k = u * m + v + 1
  BY <1>3, <1>4, <1>5
<1>10. k = TermNo(im, u, v)
  BY <1>1, <1>7 DEF TermNo
<1>6. v >= 1 => u + 1 \in 1..im.h /\ v \in 1..im.w
  <2>1. v >= 1 => u < im.h
    BY <1>4
  <2> QED BY <1>1, <2>1
<1>8. CASE k = 1
  <2>1. v = 0 /\ e[k][2] = <<im.run, NoPixel, 0>>
    <3>2. v = 0
      BY <1>5, <1>7, <1>8
    <3> QED BY <1>8, <3>2 DEF ErrGood
  <2> QED BY <1>5, <1>10, <2>1
<1>9. CASE k # 1
  <2>1. Code(im, n, 1, 1) + k - 2 = Code(im, n, u + 1, v)
    <3> DEFINE R == n * (im.h + 1)
    <3>1. R \in Int /\ Code(im, n, 1, 1) = (R + 1) * m + 1 /\ Code(im, n, u + 1, v) = (R + (u + 1)) * m + v
      BY <1>1 DEF Code
    <3> HIDE DEF R
    <3>2. (R + (u + 1)) * m = (R + 1) * m + u * m /\ (R + 1) * m \in Int
      <4>1. \A x, y, z \in Int : (x + (y + 1)) * z = (x + 1) * z + y * z /\ (x + 1) * z \in Int
        OBVIOUS
      <4>2. m \in Int
        BY <1>1
      <4> QED BY <1>5, <3>1, <4>1, <4>2
    <3> DEFINE x == (R + 1) * m
               y == u * m
    <3>3. /\ Code(im, n, 1, 1) = x + 1 /\ Code(im, n, u + 1, v) = x + y + v /\ k = y + v + 1
          /\ x \in Int /\ y \in Int /\ v \in Int
      BY <1>5, <1>7, <3>1, <3>2
    <3> HIDE DEF x, y
    <3> QED BY <3>3
  <2>2. u + 1 \in 0..im.h+1 /\ v \in 0..im.w
    BY <1>1
  <2>3. IF u + 1 \in 1..im.h /\ v >= 1
        THEN /\ StateOk(im, e[k][2], u + 1, v, n)
             /\ e[k][1] = (Addr(im, u + 1, v) - 1) % AddrSpace
        ELSE e[k][2] = <<im.run, NoPixel, 0>>
    BY <1>9, <2>1, <2>2 DEF ErrGood
  <2> QED BY <1>5, <1>6, <1>10, <2>3
<1> QED BY <1>8, <1>9

\* The term of row u+1, column v.
LEMMA TermAt ==
  ASSUME NEW im, IsImage(im), NEW e, NEW n \in Nat, ErrGood(im, e, n), Len(e) = Terms(im),
         NEW u \in 0..im.h, NEW v \in 0..im.w, NEW k, k = TermNo(im, u, v), v >= 1 => u < im.h
  PROVE  /\ k \in 1..Len(e)
         /\ v = 0 => e[k][2] = <<im.run, NoPixel, 0>>
         /\ v >= 1 => StateOk(im, e[k][2], u + 1, v, n)
<1> DEFINE m == im.w + 1
<1>1. im.w \in Nat /\ im.h \in Nat /\ im.w >= 1 /\ im.h >= 3 /\ m \in Nat \ {0} /\ m = im.w + 1
  BY DEF IsImage
<1>2. Len(e) = im.h * m + 1 /\ im.h * m \in Nat
  BY <1>1 DEF Terms
<1> HIDE DEF m
<1>3. k \in 1..Len(e) /\ u * m \in Int
  <2>1. v \in 0..m-1
    BY <1>1
  <2>2. u * m + v \in Int /\ 0 <= u * m + v /\ u * m + v <= im.h * m
    BY <1>1, <2>1, RowColumnIn
  <2>3. u * m \in Int /\ k = u * m + v + 1
    BY <1>1 DEF TermNo
  <2> QED BY <1>2, <2>2, <2>3
<1>4. PICK s \in 0..im.h, d \in 0..im.w :
           /\ k = TermNo(im, s, d)
           /\ d = 0 => e[k][2] = <<im.run, NoPixel, 0>>
           /\ d >= 1 => StateOk(im, e[k][2], s + 1, d, n)
  BY <1>3, TermOf
<1>5. s = u /\ d = v
  <2>0. TermNo(im, s, d) = TermNo(im, u, v)
    BY <1>4
  <2>1. s * m + d = u * m + v
    <3> DEFINE x == s * m
               y == u * m
    <3>1. x \in Int /\ y \in Int
      BY <1>1
    <3>2. x + d + 1 = y + v + 1
      BY <1>1, <2>0 DEF TermNo
    <3> HIDE DEF x, y
    <3>3. x + d = y + v
      BY <1>1, <3>1, <3>2
    <3> QED BY <3>3 DEF x, y
  <2>2. d \in 0..m-1 /\ v \in 0..m-1 /\ s \in Int /\ u \in Int
    BY <1>1
  <2>3. \A a, b \in Int : \A x, y \in 0..m-1 : a * m + x = b * m + y => a = b /\ x = y
    <3>1. m \in Nat \ {0}
      BY <1>1
    <3> QED BY <3>1, RasterUnique
  <2> QED BY <2>1, <2>2, <2>3
<1> QED BY <1>3, <1>4, <1>5

\* What the invariants say of the error sums of a run that has ended.
LEMMA ErrorTerms ==
  ASSUME PInv, EInv, Done, iter_cnt > 0
  PROVE  /\ IsImage(Image) /\ Image.w = cacheWidth /\ Image.h = cacheHeight /\ Image.run = run
         /\ run \in Nat /\ run > 0 /\ iter_cnt \in Nat
         /\ Len(err) = Terms(Image) /\ ErrGood(Image, err, iter_cnt)
<1>1. ready /\ ~rst
  BY DEF Done
<1>2. run > 0 /\ run \in Nat /\ TypeOK /\ iter_cnt \in Nat
  BY <1>1, MachineAssumption DEF PInv, PassInv, TagInv, IInv, TypeOK, InputTypes, MachineAssumption
<1>3. IsImage(Image) /\ Image.w = cacheWidth /\ Image.h = cacheHeight /\ Image.run = run
  BY <1>2, ImageLoaded, ImageFields
<1>4. Len(err) = Terms(Image) /\ ErrGood(Image, err, iter_cnt)
  BY <1>1 DEF EInv, ErrDoneInv
<1> QED BY <1>2, <1>3, <1>4

\* A term that is not of the boundary and not unknown is of one pixel, at the last step but one.
LEMMA PixelTerm ==
  ASSUME PInv, EInv, Done, iter_cnt > 0, NEW k \in 1..Len(err), err[k][2][2] # NoPixel
  PROVE  \E r \in 1..Image.h, c \in 1..Image.w :
           /\ k = TermNo(Image, r - 1, c)
           /\ err[k][2] = <<run, Addr(Image, r, c), iter_cnt>>
           /\ err[k][1] = (Addr(Image, r, c) - 1) % AddrSpace
<1>1. /\ IsImage(Image) /\ Image.w = cacheWidth /\ Image.h = cacheHeight /\ Image.run = run
      /\ run \in Nat /\ run > 0 /\ iter_cnt \in Nat
      /\ Len(err) = Terms(Image) /\ ErrGood(Image, err, iter_cnt)
  BY ErrorTerms
<1>2. PICK u \in 0..Image.h, v \in 0..Image.w :
        /\ k = TermNo(Image, u, v)
        /\ v = 0 => err[k][2] = <<Image.run, NoPixel, 0>>
        /\ v >= 1 => /\ u + 1 \in 1..Image.h /\ v \in 1..Image.w
                     /\ StateOk(Image, err[k][2], u + 1, v, iter_cnt)
                     /\ err[k][1] = (Addr(Image, u + 1, v) - 1) % AddrSpace
  BY <1>1, TermOf
<1>3. v # 0
  BY <1>2
<1>4. v >= 1 /\ (u + 1) - 1 = u
  <2>1. Image.w \in Nat /\ Image.h \in Nat
    BY <1>1 DEF IsImage
  <2> QED BY <1>3, <2>1
<1>5. err[k][2] = <<Image.run, Addr(Image, u + 1, v), iter_cnt>>
  BY <1>2, <1>4 DEF StateOk, JunkX
<1> QED BY <1>1, <1>2, <1>4, <1>5

\* The invariants give ErrorOncePerPixel.
LEMMA ErrorOnce == PInv /\ EInv => ErrorOncePerPixel
<1> SUFFICES ASSUME PInv, EInv, Done, iter_cnt > 0
             PROVE  /\ \A a \in Pixels : Distance(a, StalePixel) > iter_cnt =>
                         Cardinality({k \in 1..Len(err) : err[k][2][2] = a}) = 1
                    /\ \A k \in 1..Len(err) : err[k][2][2] # NoPixel =>
                         err[k][2] = <<run, err[k][2][2], iter_cnt>>
  BY DEF ErrorOncePerPixel
<1>1. /\ IsImage(Image) /\ Image.w = cacheWidth /\ Image.h = cacheHeight /\ Image.run = run
      /\ run \in Nat /\ run > 0 /\ iter_cnt \in Nat
      /\ Len(err) = Terms(Image) /\ ErrGood(Image, err, iter_cnt)
  BY ErrorTerms
<1>2. ASSUME NEW k \in 1..Len(err), err[k][2][2] # NoPixel
      PROVE  err[k][2] = <<run, err[k][2][2], iter_cnt>>
  <2>1. PICK r \in 1..Image.h, c \in 1..Image.w : err[k][2] = <<run, Addr(Image, r, c), iter_cnt>>
    BY <1>2, PixelTerm
  <2> QED BY <2>1
<1>3. ASSUME NEW a \in Pixels, Distance(a, StalePixel) > iter_cnt
      PROVE  Cardinality({k \in 1..Len(err) : err[k][2][2] = a}) = 1
  <2>1. a \in 0..(Image.w * Image.h - 1)
    BY <1>1 DEF Pixels
  <2>2. PICK r \in 1..Image.h, c \in 1..Image.w : a = Addr(Image, r, c)
    BY <1>1, <2>1, AddrOnto
  <2>3. Far(Image, r, c, iter_cnt)
    BY <1>1, <1>3, <2>2, FarDistance
  <2>4. a # NoPixel
    <3>1. Image.w \in Nat /\ Image.h \in Nat
      BY <1>1 DEF IsImage
    <3>2. a >= 0
      BY <2>1, <3>1
    <3> QED BY <3>2 DEF NoPixel
  <2> DEFINE n == TermNo(Image, r - 1, c)
  <2>5. n \in 1..Len(err) /\ err[n][2][2] = a
    <3>1. /\ r - 1 \in 0..Image.h /\ c \in 0..Image.w /\ c >= 1 /\ r - 1 < Image.h
          /\ (r - 1) + 1 = r
      BY <1>1 DEF IsImage
    <3>2. n \in 1..Len(err) /\ StateOk(Image, err[n][2], (r - 1) + 1, c, iter_cnt)
      BY <1>1, <3>1, TermAt
    <3>3. err[n][2] = <<Image.run, Addr(Image, r, c), iter_cnt>>
      BY <2>3, <3>1, <3>2 DEF StateOk
    <3> QED BY <2>2, <3>2, <3>3
  <2>6. ASSUME NEW k \in 1..Len(err), err[k][2][2] = a PROVE k = n
    <3>1. PICK s \in 1..Image.h, d \in 1..Image.w :
            k = TermNo(Image, s - 1, d) /\ err[k][2] = <<run, Addr(Image, s, d), iter_cnt>>
      BY <2>4, <2>6, PixelTerm
    <3>2. Addr(Image, r, c) = Addr(Image, s, d)
      BY <2>2, <2>6, <3>1
    <3>3. r = s /\ c = d
      BY <1>1, <3>2, AddrUnique
    <3> QED BY <3>1, <3>3
  <2> HIDE DEF n
  <2>7. {k \in 1..Len(err) : err[k][2][2] = a} = {n}
    BY <2>5, <2>6
  <2> QED BY <2>7, FS_Singleton
<1> QED BY <1>2, <1>3

\* The invariants give ErrorPairing.
LEMMA ErrorPairs == PInv /\ EInv => ErrorPairing
<1> SUFFICES ASSUME PInv, EInv, Done, iter_cnt > 0
             PROVE  /\ \A k \in 1..Len(err) : err[k][2][2] # NoPixel =>
                         err[k][1] = (err[k][2][2] - 1) % AddrSpace
                    /\ Cardinality({k \in 1..Len(err) : err[k][2] = <<run, NoPixel, 0>>}) = cacheHeight + 1
  BY DEF ErrorPairing
<1>1. /\ IsImage(Image) /\ Image.w = cacheWidth /\ Image.h = cacheHeight /\ Image.run = run
      /\ run \in Nat /\ run > 0 /\ iter_cnt \in Nat
      /\ Len(err) = Terms(Image) /\ ErrGood(Image, err, iter_cnt)
  BY ErrorTerms
<1>2. ASSUME NEW k \in 1..Len(err), err[k][2][2] # NoPixel
      PROVE  err[k][1] = (err[k][2][2] - 1) % AddrSpace
  <2>1. PICK r \in 1..Image.h, c \in 1..Image.w :
          /\ err[k][2] = <<run, Addr(Image, r, c), iter_cnt>>
          /\ err[k][1] = (Addr(Image, r, c) - 1) % AddrSpace
    BY <1>2, PixelTerm
  <2> QED BY <2>1
<1> DEFINE B == {k \in 1..Len(err) : err[k][2] = <<run, NoPixel, 0>>}
           f == [u \in 0..Image.h |-> TermNo(Image, u, 0)]
<1>3. Image.h \in Nat /\ Image.w \in Nat /\ 0 \in 0..Image.w /\ Image.h >= 3
  BY <1>1 DEF IsImage
<1>4. ASSUME NEW u \in 0..Image.h PROVE f[u] = TermNo(Image, u, 0) /\ f[u] \in B
  <2>1. TermNo(Image, u, 0) \in 1..Len(err) /\ err[TermNo(Image, u, 0)][2] = <<Image.run, NoPixel, 0>>
    BY <1>1, <1>3, TermAt
  <2> QED BY <1>1, <2>1
<1>5. ASSUME NEW k \in B PROVE \E u \in 0..Image.h : f[u] = k
  <2>1. PICK u \in 0..Image.h, v \in 0..Image.w :
          /\ k = TermNo(Image, u, v)
          /\ v >= 1 => /\ u + 1 \in 1..Image.h /\ v \in 1..Image.w
                       /\ StateOk(Image, err[k][2], u + 1, v, iter_cnt)
    BY <1>1, <1>5, TermOf
  <2>2. ASSUME v >= 1 PROVE FALSE
    <3>1. Addr(Image, u + 1, v) \in 0..(Image.w * Image.h - 1)
      BY <1>1, <2>1, <2>2, AddrFacts
    <3>2. Addr(Image, u + 1, v) # NoPixel
      BY <1>3, <3>1 DEF NoPixel
    <3>3. err[k][2] # <<Image.run, Addr(Image, u + 1, v), iter_cnt>>
      BY <1>5, <3>2
    <3>4. err[k][2] # JunkX
      BY <1>1, <1>5 DEF JunkX
    <3> QED BY <2>1, <2>2, <3>3, <3>4 DEF StateOk
  <2>3. v = 0
    BY <1>3, <2>2
  <2> QED BY <1>4, <2>1, <2>3
<1>6. ASSUME NEW u \in 0..Image.h, NEW v \in 0..Image.h, f[u] = f[v] PROVE u = v
  <2>1. TermNo(Image, u, 0) = TermNo(Image, v, 0)
    BY <1>4, <1>6
  <2> DEFINE m == Image.w + 1
  <2>2. m \in Nat \ {0} /\ u \in Int /\ v \in Int /\ 0 \in 0..m-1
    BY <1>3
  <2>3. u * m + 0 = v * m + 0
    <3>1. u * m \in Int /\ v * m \in Int
      BY <2>2
    <3>2. u * m + 0 + 1 = v * m + 0 + 1
      BY <2>1 DEF TermNo
    <3> HIDE DEF m
    <3> QED BY <3>1, <3>2
  <2> HIDE DEF m
  <2> QED BY <2>2, <2>3, RasterUnique
<1>7. f \in [0..Image.h -> B]
  BY <1>4
<1> HIDE DEF f, B
<1>8. f \in Bijection(0..Image.h, B)
  BY <1>5, <1>6, <1>7, Fun_IsBij
<1>9. IsFiniteSet(0..Image.h) /\ Cardinality(0..Image.h) = Image.h + 1
  <2>1. 0 \in Int /\ Image.h \in Int /\ ~(0 > Image.h) /\ Image.h - 0 + 1 = Image.h + 1
    BY <1>3
  <2>2. /\ IsFiniteSet(0..Image.h)
        /\ Cardinality(0..Image.h) = IF 0 > Image.h THEN 0 ELSE Image.h - 0 + 1
    BY <2>1, FS_Interval, Zenon
  <2> QED BY <2>1, <2>2
<1>10. ExistsBijection(0..Image.h, B)
  BY <1>8 DEF ExistsBijection
<1>11. Cardinality(B) = cacheHeight + 1
  BY <1>1, <1>9, <1>10, FS_Bijection
<1> QED BY <1>2, <1>11 DEF B

(***************************************************************************)
(* For every image size, iteration count above 0 and number of runs: the   *)
(* error sums of a run hold each pixel the stale store cannot have reached *)
(* exactly once, at the last step but one, and nothing of an earlier pass  *)
(* or run.                                                                 *)
(***************************************************************************)
THEOREM ErrorOncePerPixelHolds == ProcessorSpec /\ [][Fits]_allVars => []ErrorOncePerPixel
  BY ProcessorInvariant, ErrorInvariant, ErrorOnce, PTL

(***************************************************************************)
(* Likewise: the ideal pixel of a term is the one an address before the    *)
(* state's, and one boundary cell is counted for each row and one more.    *)
(***************************************************************************)
THEOREM ErrorPairingHolds == ProcessorSpec /\ [][Fits]_allVars => []ErrorPairing
  BY ProcessorInvariant, ErrorInvariant, ErrorPairs, PTL
=============================================================================
