--------------------------- MODULE DivisionLemmas ---------------------------
(***************************************************************************)
(* Facts about division with remainder, for the fixed-point arithmetic of  *)
(* cnn_au.vhd and of the firmware.                                         *)
(***************************************************************************)
EXTENDS Integers, TLAPS

\* Division with remainder by a positive number.
LEMMA DivMod ==
  ASSUME NEW n \in Int, NEW m \in Nat \ {0}
  PROVE  /\ n % m \in 0..m-1 /\ n \div m \in Int
         /\ n = m * (n \div m) + (n % m)
  OBVIOUS

\* A multiple of m that lies strictly between -m and m is zero.
LEMMA SmallMultiple ==
  ASSUME NEW m \in Nat \ {0}, NEW p \in Int, m * p < m, m * p > -m
  PROVE  p = 0
<1>1. CASE p >= 1
  <2>1. m * p = m + m * (p - 1)
    OBVIOUS
  <2>2. m * (p - 1) >= 0
    BY <1>1
  <2> QED BY <2>1, <2>2
<1>2. CASE p <= -1
  <2>1. m * p = -m - m * (-p - 1)
    OBVIOUS
  <2>2. m * (-p - 1) >= 0
    BY <1>2
  <2> QED BY <2>1, <2>2
<1> QED BY <1>1, <1>2

\* Quotient and remainder are unique.
LEMMA RemainderUnique ==
  ASSUME NEW m \in Nat \ {0}, NEW c \in Int, NEW d \in Int,
         NEW r \in 0..m-1, NEW s \in 0..m-1, m * c + r = m * d + s
  PROVE  r = s
<1>1. m * (d - c) = m * d - m * c
  OBVIOUS
<1>2. m * (d - c) = r - s
  BY <1>1
<1>3. m * (d - c) < m /\ m * (d - c) > -m
  BY <1>2
<1>4. d - c = 0
  BY <1>3, SmallMultiple
<1>5. m * (d - c) = 0
  BY <1>4
<1> QED BY <1>2, <1>5

\* Two remainders of numbers that differ by a multiple of m are equal.
LEMMA ModUnique ==
  ASSUME NEW m \in Nat \ {0}, NEW a \in Int, NEW b \in Int, NEW q \in Int, a = b + m * q
  PROVE  a % m = b % m
<1>1. PICK c \in Int, r \in 0..m-1 : a % m = r /\ a = m * c + r
  BY DivMod
<1>2. PICK d \in Int, s \in 0..m-1 : b % m = s /\ b = m * d + s
  BY DivMod
<1>3. m * (d + q) = m * d + m * q
  OBVIOUS
<1>4. d + q \in Int /\ m * c + r = m * (d + q) + s
  BY <1>1, <1>2, <1>3
<1>5. r = s
  BY <1>4, RemainderUnique
<1> QED BY <1>1, <1>2, <1>5

\* The product of numbers of known sign, and its order.
LEMMA ProductMonotone ==
  ASSUME NEW a \in Int, NEW b \in Int, NEW k \in Nat, a <= b
  PROVE  a * k <= b * k /\ k * a <= k * b
<1>1. b - a >= 0 /\ b - a \in Int
  OBVIOUS
<1>2. (b - a) * k >= 0
  BY <1>1
<1>3. (b - a) * k = b * k - a * k /\ a * k \in Int /\ b * k \in Int
  OBVIOUS
<1>4. k * a = a * k /\ k * b = b * k
  OBVIOUS
<1> QED BY <1>2, <1>3, <1>4

\* A positive factor cancels.
LEMMA ProductCancels ==
  ASSUME NEW a \in Int, NEW b \in Int, NEW k \in Nat \ {0}, a * k < b * k
  PROVE  a < b
<1>1. CASE b <= a
  <2>1. b * k <= a * k
    BY <1>1, ProductMonotone
  <2>2. a * k \in Int /\ b * k \in Int
    OBVIOUS
  <2> QED BY <2>1, <2>2
<1> QED BY <1>1

\* The quotient of a number between two multiples of the divisor.
LEMMA QuotientBetween ==
  ASSUME NEW n \in Int, NEW m \in Nat \ {0}, NEW a \in Int, NEW b \in Int,
         a * m <= n, n <= b * m
  PROVE  n \div m \in Int /\ a <= n \div m /\ n \div m <= b
<1>1. PICK q \in Int, r \in 0..m-1 : n \div m = q /\ n = m * q + r
  BY DivMod
<1>2. q * m = m * q /\ q * m \in Int /\ a * m \in Int /\ b * m \in Int
  OBVIOUS
<1>3. (q + 1) * m = q * m + m /\ q + 1 \in Int
  OBVIOUS
<1>4. a < q + 1
  <2>1. a * m < (q + 1) * m
    BY <1>1, <1>2, <1>3
  <2> QED BY <2>1, <1>3, ProductCancels
<1>5. q < b + 1
  <2>1. (b + 1) * m = b * m + m /\ b + 1 \in Int
    OBVIOUS
  <2>2. q * m < (b + 1) * m
    BY <1>1, <1>2, <2>1
  <2> QED BY <2>1, <2>2, ProductCancels
<1> QED BY <1>1, <1>4, <1>5

\* The product of two numbers of at most F in size is at most F*F in size.
LEMMA ProductBounded ==
  ASSUME NEW v \in Int, NEW e \in Int, NEW F \in Nat, -F <= v, v <= F, -F <= e, e <= F
  PROVE  v * e \in Int /\ (-F) * F <= v * e /\ v * e <= F * F
<1>1. v * e \in Int /\ F * F \in Int /\ (-F) * F = -(F * F)
  OBVIOUS
<1>2. CASE e >= 0
  <2>1. (-F) * e <= v * e /\ v * e <= F * e /\ F * e <= F * F
    BY <1>2, ProductMonotone
  <2>2. (-F) * e = -(F * e) /\ F * e \in Int
    BY <1>2
  <2> QED BY <1>1, <2>1, <2>2
<1>3. CASE e < 0
  <2> DEFINE n == -e
  <2>0. n \in Nat /\ n <= F
    BY <1>3
  <2>1. v * e = -(v * n) /\ v * n \in Int
    OBVIOUS
  <2> HIDE DEF n
  <2>2. (-F) * n <= v * n /\ v * n <= F * n /\ F * n <= F * F
    BY <2>0, ProductMonotone
  <2>3. (-F) * n = -(F * n) /\ F * n \in Int
    BY <2>0
  <2> QED BY <1>1, <2>1, <2>2, <2>3
<1> QED BY <1>2, <1>3
=============================================================================
