---------------------------- MODULE CnnAu_proofs ----------------------------
(***************************************************************************)
(* Proofs about CnnAu, for every word width, number of fraction bits,      *)
(* template, time step of at most 1.0 and image: types, the direction and  *)
(* the accuracy of a step, and the exactness of the error sums.            *)
(***************************************************************************)
EXTENDS CnnAu, DivisionLemmas, TLAPS

\* What the proofs use of the constants.
LEMMA Widths ==
  /\ busFMax \in Nat \ {0} /\ busHalf \in Nat \ {0} /\ busHalf >= 4 * busFMax
  /\ errorHalf \in Nat /\ MaxTerms \in Nat /\ MaxTerms * busFMax < errorHalf
  BY AuAssumption

\* Limiting a value gives one between the limits, and keeps one that is there.
LEMMA ClampRange ==
  ASSUME NEW v \in Int, NEW b \in Int, NEW t \in Int, b <= t
  PROVE  /\ Clamp(v, b, t) \in b..t
         /\ v \in b..t => Clamp(v, b, t) = v
         /\ v > t => Clamp(v, b, t) = t
         /\ v < b => Clamp(v, b, t) = b
  BY DEF Clamp

\* The low bits of a value that is a word are the value.
LEMMA WordIdentity ==
  ASSUME NEW v \in s16Range
  PROVE  Word(v) = v
<1> DEFINE m == 2 * busHalf
<1>1. busHalf \in Nat \ {0} /\ v \in Int
  BY Widths DEF s16Range
<1>2. v + busHalf \in 0..m-1 /\ m \in Nat \ {0} /\ v + busHalf \in Int
  BY <1>1 DEF s16Range
<1>3. PICK c \in Int, r \in 0..m-1 : (v + busHalf) % m = r /\ v + busHalf = m * c + r
  BY <1>2, DivMod
<1>4. m * c + r = m * 0 + (v + busHalf)
  BY <1>2, <1>3
<1>5. r = v + busHalf
  <2> HIDE DEF m
  <2> QED BY <1>2, <1>3, <1>4, RemainderUnique
<1> QED BY <1>1, <1>3, <1>5 DEF Word
-----------------------------------------------------------------------------
\* The types of the operands in a state of the right type.
LEMMA OperandTypes ==
  ASSUME TypeOK
  PROVE  /\ x["mid"] \in Int /\ -busFMax <= x["mid"] /\ x["mid"] <= busFMax
         /\ x["mid"] \in Borders /\ ideal \in Borders
         /\ \A c \in Cells : A[c] \in Int /\ B[c] \in Int /\ x[c] \in Borders /\ u[c] \in Borders
         /\ I \in Int /\ Ts \in Nat /\ Ts <= busFMax /\ "mid" \in Cells /\ "side" \in Cells
  BY Widths DEF TypeOK, Borders, Cells, s16Range, I

\* The chain of products is an integer, and is the weighted sum.
LEMMA MulExact ==
  ASSUME TypeOK
  PROVE  mul \in Int /\ mul = WeightedSum
<1>1. /\ A["mid"] * x["mid"] \in Int /\ A["side"] * x["side"] \in Int
      /\ B["mid"] * u["mid"] \in Int /\ B["side"] * u["side"] \in Int
      /\ I * busFMax \in Int
  BY OperandTypes, Widths DEF Borders
<1> QED BY <1>1 DEF mul, WeightedSum

\* x_temp_1 is a word, and x_temp_2 the distance to it.
LEMMA Heading ==
  ASSUME TypeOK
  PROVE  /\ x_temp_1 \in s16Range /\ x_temp_1 \in Int
         /\ x_temp_2 \in Int /\ x_temp_2 = x["mid"] - x_temp_1
         /\ x_temp_3 \in Int /\ x_temp_3 = x_temp_2 * Ts
<1>1. mul \div busFMax \in Int
  BY MulExact, Widths, DivMod
<1>2. x_temp_1 \in s16Range
  <2>1. -busHalf \in Int /\ busHalf - 1 \in Int /\ -busHalf <= busHalf - 1
    BY Widths
  <2>2. Clamp(mul \div busFMax, -busHalf, busHalf - 1) \in -busHalf..busHalf - 1
    BY <1>1, <2>1, ClampRange
  <2> QED BY <2>2 DEF x_temp_1, s16Range
<1>3. x_temp_1 \in Int
  BY <1>2, Widths DEF s16Range
<1>4. x_temp_2 \in Int /\ x_temp_2 = x["mid"] - x_temp_1
  BY <1>3, OperandTypes DEF x_temp_2
<1> QED BY <1>2, <1>3, <1>4, OperandTypes DEF x_temp_3

(***************************************************************************)
(* A step goes from the state towards the target and not past it: the      *)
(* product of the distance and a Ts of at most 1.0, saturated or truncated,*)
(* lies between zero and the distance.                                     *)
(***************************************************************************)
LEMMA StepBetween ==
  ASSUME TypeOK
  PROVE  /\ x_temp_4 \in Int
         /\ x_temp_2 >= 0 => 0 <= x_temp_4 /\ x_temp_4 <= x_temp_2
         /\ x_temp_2 < 0 => x_temp_2 <= x_temp_4 /\ x_temp_4 <= 0
         /\ x_temp_4 = 0 => 0 <= x_temp_3 /\ x_temp_3 < busFMax
         /\ \/ x_temp_3 > busFMax * (busHalf - 1) /\ x_temp_4 = busHalf - 1
            \/ x_temp_3 < -(busFMax * busHalf) /\ x_temp_4 = -busHalf
            \/ x_temp_4 = x_temp_3 \div busFMax
<1> DEFINE d == x_temp_2
           p == x_temp_3
           F == busFMax
           H == busHalf
<1>1. /\ d \in Int /\ p \in Int /\ p = d * Ts /\ Ts \in Nat /\ Ts <= F
      /\ F \in Nat \ {0} /\ H \in Nat \ {0} /\ H >= 4 * F
  BY Heading, OperandTypes, Widths
<1>d. x_temp_4 = IF p > F * (H - 1) THEN H - 1 ELSE IF p < -(F * H) THEN -H ELSE Slice(p)
  BY DEF x_temp_4
<1>s. Slice(p) = Word(p \div F)
  BY DEF Slice
<1>w. p \div F \in -H..H-1 => Slice(p) = p \div F
  BY <1>s, WordIdentity DEF s16Range
<1> SUFFICES /\ x_temp_4 \in Int
             /\ d >= 0 => 0 <= x_temp_4 /\ x_temp_4 <= d
             /\ d < 0 => d <= x_temp_4 /\ x_temp_4 <= 0
             /\ x_temp_4 = 0 => 0 <= p /\ p < F
             /\ \/ p > F * (H - 1) /\ x_temp_4 = H - 1
                \/ p < -(F * H) /\ x_temp_4 = -H
                \/ x_temp_4 = p \div F
  OBVIOUS
<1> HIDE DEF d, p, F, H
<1>2. F * (H - 1) = (H - 1) * F /\ -(F * H) = (-H) * F /\ (H - 1) * F \in Int /\ (-H) * F \in Int
  BY <1>1
<1>3. CASE d >= 0
  <2>1. 0 <= p /\ p <= d * F /\ d * F \in Int
    <3>1. d * Ts <= d * F
      BY <1>1, <1>3, ProductMonotone
    <3>2. d * Ts >= 0 /\ d * F \in Int
      BY <1>1, <1>3
    <3> QED BY <1>1, <3>1, <3>2
  <2>2. (-H) * F < 0
    BY <1>1
  <2>3. CASE p > F * (H - 1)
    <3>1. (H - 1) * F < d * F
      BY <1>1, <1>2, <2>1, <2>3
    <3>2. H - 1 < d
      BY <1>1, <3>1, ProductCancels
    <3> QED BY <1>1, <1>d, <1>3, <2>3, <3>2
  <2>4. CASE ~(p > F * (H - 1))
    <3>1. p <= (H - 1) * F /\ 0 * F <= p
      BY <1>1, <1>2, <2>1, <2>4
    <3>2. p \div F \in Int /\ 0 <= p \div F /\ p \div F <= H - 1
      BY <1>1, <3>1, QuotientBetween
    <3>3. p \div F <= d
      BY <1>1, <2>1, <3>1, QuotientBetween
    <3>4. x_temp_4 = p \div F
      BY <1>1, <1>2, <1>d, <1>w, <2>1, <2>2, <2>4, <3>2
    <3>5. p \div F = 0 => p < F
      BY <1>1, DivMod
    <3> QED BY <1>1, <1>3, <2>1, <3>2, <3>3, <3>4, <3>5
  <2> QED BY <2>3, <2>4
<1>4. CASE d < 0
  <2>1. p <= 0 /\ d * F <= p /\ d * F \in Int
    <3>1. (-d) * Ts <= (-d) * F /\ (-d) * Ts >= 0
      BY <1>1, <1>4, ProductMonotone
    <3>2. (-d) * Ts = -(d * Ts) /\ (-d) * F = -(d * F) /\ d * F \in Int
      BY <1>1
    <3> QED BY <1>1, <3>1, <3>2
  <2>2. (H - 1) * F >= 0
    BY <1>1
  <2>3. CASE p < -(F * H)
    <3>1. d * F < (-H) * F
      BY <1>1, <1>2, <2>1, <2>3
    <3>2. d < -H
      BY <1>1, <3>1, ProductCancels
    <3> QED BY <1>1, <1>2, <1>d, <1>4, <2>1, <2>2, <2>3, <3>2
  <2>4. CASE ~(p < -(F * H))
    <3>1. (-H) * F <= p /\ p <= 0 * F
      BY <1>1, <1>2, <2>1, <2>4
    <3>2. p \div F \in Int /\ -H <= p \div F /\ p \div F <= 0
      BY <1>1, <3>1, QuotientBetween
    <3>3. d <= p \div F
      BY <1>1, <2>1, <3>1, QuotientBetween
    <3>4. x_temp_4 = p \div F
      BY <1>1, <1>2, <1>d, <1>w, <2>1, <2>2, <2>4, <3>2
    <3>5. p \div F = 0 => 0 <= p /\ p < F
      BY <1>1, DivMod
    <3> QED BY <1>1, <1>4, <2>1, <3>2, <3>3, <3>4, <3>5
  <2> QED BY <2>3, <2>4
<1> QED BY <1>1, <1>3, <1>4
-----------------------------------------------------------------------------
\* x_new is the state less x_temp_4, limited to a pixel value.
LEMMA NewState ==
  ASSUME TypeOK
  PROVE  /\ x_temp_5 \in Int /\ x_temp_5 = x["mid"] - x_temp_4
         /\ x_new \in -busFMax..busFMax
         /\ x_temp_5 \in -busFMax..busFMax => x_new = x_temp_5
         /\ x_temp_5 > busFMax => x_new = busFMax
         /\ x_temp_5 < -busFMax => x_new = -busFMax
<1>1. x_temp_5 \in Int /\ x_temp_5 = x["mid"] - x_temp_4
  BY OperandTypes, StepBetween DEF x_temp_5
<1>2. -busFMax \in Int /\ busFMax \in Int /\ -busFMax <= busFMax
  BY Widths
<1> QED BY <1>1, <1>2, ClampRange DEF x_new

\* A state never steps past its target (with a time step of at most 1.0).
LEMMA StepsStayBetween == TypeOK => NoOvershoot
<1> SUFFICES ASSUME TypeOK PROVE NoOvershoot
  OBVIOUS
<1> DEFINE c == x["mid"]
           F == busFMax
<1>1. c \in Int /\ -F <= c /\ c <= F /\ F \in Nat \ {0}
  BY OperandTypes, Widths
<1>2. x_temp_1 \in Int /\ x_temp_2 = c - x_temp_1
  BY Heading
<1>3. Target = Clamp(x_temp_1, -F, F)
  BY DEF Target
<1>4. /\ Target \in -F..F
      /\ x_temp_1 \in -F..F => Target = x_temp_1
      /\ x_temp_1 > F => Target = F
      /\ x_temp_1 < -F => Target = -F
  <2>1. -F \in Int /\ F \in Int /\ -F <= F
    BY <1>1
  <2> HIDE DEF F
  <2> QED BY <1>2, <1>3, <2>1, ClampRange
<1>5. CASE x_temp_2 >= 0
  <2>1. x_temp_1 <= x_temp_5 /\ x_temp_5 <= c /\ x_temp_5 \in Int
    BY <1>1, <1>2, <1>5, StepBetween, NewState
  <2>2. Target <= x_new /\ x_new <= c
    BY <1>1, <1>2, <1>4, <2>1, NewState
  <2> QED BY <2>2 DEF NoOvershoot
<1>6. CASE x_temp_2 < 0
  <2>1. c <= x_temp_5 /\ x_temp_5 <= x_temp_1 /\ x_temp_5 \in Int
    BY <1>1, <1>2, <1>6, StepBetween, NewState
  <2>2. c <= x_new /\ x_new <= Target
    BY <1>1, <1>2, <1>4, <2>1, NewState
  <2> QED BY <2>2 DEF NoOvershoot
<1> QED BY <1>1, <1>2, <1>5, <1>6

\* A state that does not move is at its target, but for the rounding.
LEMMA StandsAtTarget == TypeOK => StopsAtTarget
<1> SUFFICES ASSUME TypeOK, x_new = x["mid"]
             PROVE  \/ 0 <= x_temp_3 /\ x_temp_3 < busFMax
                    \/ x["mid"] = busFMax /\ x_temp_1 > busFMax
                    \/ x["mid"] = -busFMax /\ x_temp_1 < -busFMax
  BY DEF StopsAtTarget
<1>1. /\ x["mid"] \in Int /\ busFMax \in Nat /\ x_temp_1 \in Int /\ x_temp_4 \in Int
      /\ x_temp_2 = x["mid"] - x_temp_1 /\ x_temp_5 = x["mid"] - x_temp_4
  BY OperandTypes, Widths, Heading, NewState, StepBetween
<1>2. CASE x_temp_5 \in -busFMax..busFMax
  <2>1. x_temp_4 = 0
    BY <1>1, <1>2, NewState
  <2> QED BY <2>1, StepBetween
<1>3. CASE x_temp_5 > busFMax
  <2>1. x["mid"] = busFMax /\ x_temp_4 < 0
    BY <1>1, <1>3, NewState
  <2>2. x_temp_2 < 0
    BY <1>1, <2>1, StepBetween
  <2> QED BY <1>1, <2>1, <2>2
<1>4. CASE x_temp_5 < -busFMax
  <2>1. x["mid"] = -busFMax /\ x_temp_4 > 0
    BY <1>1, <1>4, NewState
  <2>2. x_temp_2 > 0
    BY <1>1, <2>1, StepBetween
  <2> QED BY <1>1, <2>1, <2>2
<1> QED BY <1>1, <1>2, <1>3, <1>4
-----------------------------------------------------------------------------
\* Half the error of a pixel is a pixel value: the limits of error_step1 are not met.
LEMMA HalfErrorExact ==
  ASSUME TypeOK
  PROVE  HalfError \in Int /\ HalfError \in Borders /\ error_step1 = HalfError
<1>1. /\ ideal - x["mid"] \in Int /\ (-busFMax) * 2 <= ideal - x["mid"]
      /\ ideal - x["mid"] <= busFMax * 2
  BY OperandTypes, Widths DEF Borders
<1>2. -busFMax \in Int /\ busFMax \in Int /\ -busFMax <= busFMax /\ 2 \in Nat \ {0}
  BY Widths
<1>3. /\ HalfError \in Int /\ -busFMax <= HalfError /\ HalfError <= busFMax
  BY <1>1, <1>2, QuotientBetween DEF HalfError
<1>4. HalfError \in -busFMax..busFMax
  BY <1>2, <1>3
<1>5. error_step1 = Clamp(HalfError, -busFMax, busFMax)
  BY DEF error_step1, HalfError
<1> QED BY <1>2, <1>3, <1>4, <1>5, ClampRange DEF Borders

\* The product with a pixel value is a pixel value: neither slice nor limit changes it.
LEMMA TermExact ==
  ASSUME TypeOK, NEW v \in Borders
  PROVE  Product(v) \in Int /\ Product(v) \in Borders /\ ErrorTerm(v) = Product(v)
<1> DEFINE F == busFMax
           p == v * HalfError
<1>1. F \in Nat \ {0} /\ -F \in Int /\ F \in Int /\ -F <= F
  BY Widths
<1>2. v \in Int /\ -F <= v /\ v <= F /\ HalfError \in Int /\ -F <= HalfError /\ HalfError <= F
  BY <1>1, HalfErrorExact DEF Borders
<1>3. p \in Int /\ (-F) * F <= p /\ p <= F * F
  <2> HIDE DEF F
  <2> QED BY <1>1, <1>2, ProductBounded
<1>4. p \div F \in Int /\ -F <= p \div F /\ p \div F <= F
  <2> HIDE DEF F, p
  <2> QED BY <1>1, <1>3, QuotientBetween
<1>5. Product(v) = p \div F /\ ErrorTerm(v) = Clamp(Word(p \div F), -F, F)
  BY HalfErrorExact DEF Product, ErrorTerm, Slice
<1>6. p \div F \in s16Range /\ p \div F \in -F..F
  <2>1. busHalf \in Nat /\ busHalf >= 4 * F
    BY Widths
  <2> HIDE DEF p
  <2> QED BY <1>1, <1>4, <2>1 DEF s16Range
<1>7. Clamp(Word(p \div F), -F, F) = p \div F
  <2> HIDE DEF p, F
  <2> QED BY <1>1, <1>4, <1>6, WordIdentity, ClampRange
<1> QED BY <1>4, <1>5, <1>6, <1>7 DEF Borders

\* Adding a term to a sum of fewer than MaxTerms terms does not saturate.
LEMMA AccumulateExact ==
  ASSUME TypeOK, terms < MaxTerms, NEW reg \in Int, NEW term \in Borders,
         -(terms * busFMax) <= reg, reg <= terms * busFMax
  PROVE  /\ Accumulate(reg, term) = reg + term /\ reg + term \in ErrorRange
         /\ reg + term \in Int
         /\ -((terms + 1) * busFMax) <= reg + term /\ reg + term <= (terms + 1) * busFMax
<1> DEFINE b == terms * busFMax
           t == (terms + 1) * busFMax
           m == MaxTerms * busFMax
<1>1. terms \in Nat /\ terms + 1 <= MaxTerms /\ terms + 1 \in Int
  BY Widths DEF TypeOK
<1>2. b \in Int /\ t = b + busFMax /\ t \in Int /\ m \in Int
  BY <1>1, Widths
<1>3. t <= m
  BY <1>1, Widths, ProductMonotone
<1>4. m < errorHalf /\ errorHalf \in Nat
  BY Widths
<1>5. term \in Int /\ -busFMax <= term /\ term <= busFMax /\ busFMax \in Nat
  BY Widths DEF Borders
<1>6. -b <= reg /\ reg <= b
  OBVIOUS
<1> SUFFICES /\ Accumulate(reg, term) = reg + term /\ reg + term \in ErrorRange
             /\ reg + term \in Int /\ -t <= reg + term /\ reg + term <= t
  OBVIOUS
<1> HIDE DEF b, t, m
<1>7. reg + term \in Int /\ -t <= reg + term /\ reg + term <= t
  BY <1>2, <1>5, <1>6
<1>8. reg + term \in ErrorRange
  BY <1>2, <1>3, <1>4, <1>7 DEF ErrorRange
<1>9. Accumulate(reg, term) = reg + term
  BY <1>2, <1>3, <1>4, <1>7 DEF Accumulate, Clamp
<1> QED BY <1>7, <1>8, <1>9

(***************************************************************************)
(* The inductive invariant: the error sums are exact because a sum of n    *)
(* terms is at most n times 1.0 in size, so that it meets no limit.        *)
(***************************************************************************)
SumsBounded ==
  /\ \A c \in Cells :
       /\ -(terms * busFMax) <= sums.u[c] /\ sums.u[c] <= terms * busFMax
       /\ -(terms * busFMax) <= sums.x[c] /\ sums.x[c] <= terms * busFMax
  /\ -(terms * busFMax) <= sums.i /\ sums.i <= terms * busFMax

IInv == TypeOK /\ ErrorSumsExact /\ SumsBounded

\* The invariant holds at power-up.
LEMMA InitInv == Init => IInv
<1> SUFFICES ASSUME Init PROVE IInv
  OBVIOUS
<1>1. 0 \in Borders /\ 0 \in s16Range /\ 0 \in ErrorRange /\ 0 \in 0..busFMax /\ 0 \in 0..MaxTerms
  BY Widths DEF Borders, s16Range, ErrorRange
<1>2. /\ Zeros \in [Cells -> s16Range] /\ Zeros \in [Cells -> Borders]
      /\ Zeros \in [Cells -> ErrorRange] /\ Zeros \in [Cells -> Int]
  BY <1>1 DEF Zeros
<1>3. TypeOK
  BY <1>1, <1>2 DEF Init, TypeOK
<1>4. ErrorSumsExact
  BY DEF Init, ErrorSumsExact
<1>5. terms * busFMax = 0
  BY Widths DEF Init
<1>6. SumsBounded
  BY <1>5 DEF Init, SumsBounded, Zeros
<1> QED BY <1>3, <1>4, <1>6 DEF IInv

\* A rising edge of calc that resets the error sums.
LEMMA ResetInv ==
  ASSUME TypeOK, ErrorClock(TRUE), SumsClock(TRUE)
  PROVE  /\ error_u_reg' \in [Cells -> ErrorRange] /\ error_x_reg' \in [Cells -> ErrorRange]
         /\ error_i_reg' \in ErrorRange /\ terms' \in 0..MaxTerms
         /\ sums' \in [u : [Cells -> Int], x : [Cells -> Int], i : Int]
         /\ ErrorSumsExact' /\ SumsBounded'
<1>1. 0 \in ErrorRange /\ 0 \in 0..MaxTerms
  BY Widths DEF ErrorRange
<1>2. Zeros \in [Cells -> ErrorRange] /\ Zeros \in [Cells -> Int]
  BY <1>1 DEF Zeros
<1>3. /\ error_u_reg' = Zeros /\ error_x_reg' = Zeros /\ error_i_reg' = 0
      /\ sums' = [u |-> Zeros, x |-> Zeros, i |-> 0] /\ terms' = 0
  BY DEF ErrorClock, SumsClock
<1>4. ErrorSumsExact'
  BY <1>3 DEF ErrorSumsExact
<1>5. terms' * busFMax = 0
  BY <1>3, Widths
<1>6. SumsBounded'
  BY <1>3, <1>5 DEF SumsBounded, Zeros
<1> QED BY <1>1, <1>2, <1>3, <1>4, <1>6

\* A rising edge of calc that adds a term to each sum.
LEMMA SumInv ==
  ASSUME IInv, terms < MaxTerms, ErrorClock(FALSE), SumsClock(FALSE)
  PROVE  /\ error_u_reg' \in [Cells -> ErrorRange] /\ error_x_reg' \in [Cells -> ErrorRange]
         /\ error_i_reg' \in ErrorRange /\ terms' \in 0..MaxTerms
         /\ sums' \in [u : [Cells -> Int], x : [Cells -> Int], i : Int]
         /\ ErrorSumsExact' /\ SumsBounded'
<1>0. TypeOK /\ ErrorSumsExact /\ SumsBounded
  BY DEF IInv
<1>1. /\ error_u_reg' = [c \in Cells |-> Accumulate(error_u_reg[c], ErrorTerm(u[c]))]
      /\ error_x_reg' = [c \in Cells |-> Accumulate(error_x_reg[c], ErrorTerm(x[c]))]
      /\ error_i_reg' = Accumulate(error_i_reg, error_step1)
  BY DEF ErrorClock
<1>2. /\ sums'.u = [c \in Cells |-> sums.u[c] + Product(u[c])]
      /\ sums'.x = [c \in Cells |-> sums.x[c] + Product(x[c])]
      /\ sums'.i = sums.i + HalfError
      /\ sums' = [u |-> sums'.u, x |-> sums'.x, i |-> sums'.i]
      /\ terms' = terms + 1
  BY DEF SumsClock
<1>3. ASSUME NEW c \in Cells
      PROVE  /\ Accumulate(error_u_reg[c], ErrorTerm(u[c])) = sums.u[c] + Product(u[c])
             /\ sums.u[c] + Product(u[c]) \in ErrorRange /\ sums.u[c] + Product(u[c]) \in Int
             /\ -((terms + 1) * busFMax) <= sums.u[c] + Product(u[c])
             /\ sums.u[c] + Product(u[c]) <= (terms + 1) * busFMax
  <2>1. error_u_reg[c] = sums.u[c] /\ sums.u[c] \in Int /\ u[c] \in Borders
    BY <1>0 DEF ErrorSumsExact, TypeOK
  <2>2. -(terms * busFMax) <= sums.u[c] /\ sums.u[c] <= terms * busFMax
    BY <1>0 DEF SumsBounded
  <2> QED BY <1>0, <2>1, <2>2, TermExact, AccumulateExact
<1>4. ASSUME NEW c \in Cells
      PROVE  /\ Accumulate(error_x_reg[c], ErrorTerm(x[c])) = sums.x[c] + Product(x[c])
             /\ sums.x[c] + Product(x[c]) \in ErrorRange /\ sums.x[c] + Product(x[c]) \in Int
             /\ -((terms + 1) * busFMax) <= sums.x[c] + Product(x[c])
             /\ sums.x[c] + Product(x[c]) <= (terms + 1) * busFMax
  <2>1. error_x_reg[c] = sums.x[c] /\ sums.x[c] \in Int /\ x[c] \in Borders
    BY <1>0 DEF ErrorSumsExact, TypeOK
  <2>2. -(terms * busFMax) <= sums.x[c] /\ sums.x[c] <= terms * busFMax
    BY <1>0 DEF SumsBounded
  <2> QED BY <1>0, <2>1, <2>2, TermExact, AccumulateExact
<1>5. /\ Accumulate(error_i_reg, error_step1) = sums.i + HalfError
      /\ sums.i + HalfError \in ErrorRange /\ sums.i + HalfError \in Int
      /\ -((terms + 1) * busFMax) <= sums.i + HalfError
      /\ sums.i + HalfError <= (terms + 1) * busFMax
  <2>1. error_i_reg = sums.i /\ sums.i \in Int
    BY <1>0 DEF ErrorSumsExact, TypeOK
  <2>2. -(terms * busFMax) <= sums.i /\ sums.i <= terms * busFMax
    BY <1>0 DEF SumsBounded
  <2> QED BY <1>0, <2>1, <2>2, HalfErrorExact, AccumulateExact
<1>6. ErrorSumsExact'
  BY <1>1, <1>2, <1>3, <1>4, <1>5 DEF ErrorSumsExact
<1>7. SumsBounded'
  <2>1. \A c \in Cells :
          /\ -(terms' * busFMax) <= sums'.u[c] /\ sums'.u[c] <= terms' * busFMax
          /\ -(terms' * busFMax) <= sums'.x[c] /\ sums'.x[c] <= terms' * busFMax
    BY <1>2, <1>3, <1>4
  <2>2. -(terms' * busFMax) <= sums'.i /\ sums'.i <= terms' * busFMax
    BY <1>2, <1>5
  <2> QED BY <2>1, <2>2 DEF SumsBounded
<1>8. terms' \in 0..MaxTerms
  BY <1>0, <1>2, Widths DEF TypeOK
<1>9. sums' \in [u : [Cells -> Int], x : [Cells -> Int], i : Int]
  <2>1. sums'.u \in [Cells -> Int] /\ sums'.x \in [Cells -> Int] /\ sums'.i \in Int
    BY <1>2, <1>3, <1>4, <1>5
  <2> QED BY <1>2, <2>1
<1>10. /\ error_u_reg' \in [Cells -> ErrorRange] /\ error_x_reg' \in [Cells -> ErrorRange]
       /\ error_i_reg' \in ErrorRange
  BY <1>1, <1>3, <1>4, <1>5
<1> QED BY <1>6, <1>7, <1>8, <1>9, <1>10

\* Every step keeps the invariant.
LEMMA NextInv == IInv /\ [Next]_vars => IInv'
<1> SUFFICES ASSUME IInv, [Next]_vars PROVE IInv'
  OBVIOUS
<1>0. TypeOK
  BY DEF IInv
<1>1. ASSUME NEW patch \in Patches, NEW ideal_line \in Ideals, NEW err_rst \in BOOLEAN,
             Calc(patch, ideal_line, err_rst)
      PROVE  IInv'
  <2>1. /\ error_u_reg' \in [Cells -> ErrorRange] /\ error_x_reg' \in [Cells -> ErrorRange]
        /\ error_i_reg' \in ErrorRange /\ terms' \in 0..MaxTerms
        /\ sums' \in [u : [Cells -> Int], x : [Cells -> Int], i : Int]
        /\ ErrorSumsExact' /\ SumsBounded'
    <3>1. CASE err_rst = TRUE
      BY <1>0, <1>1, <3>1, ResetInv DEF Calc
    <3>2. CASE err_rst = FALSE
      BY <1>1, <3>2, SumInv DEF Calc
    <3> QED BY <3>1, <3>2
  <2>2. x_out' \in Borders
    BY <1>0, <1>1, NewState DEF Calc, Borders
  <2>3. /\ template' = template /\ Ts' = Ts /\ A' = template.A /\ B' = template.B
        /\ x' = patch.x /\ u' = patch.u /\ ideal' = ideal_line
    BY <1>1 DEF Calc
  <2>4. /\ patch.x \in [Cells -> Borders] /\ patch.u \in [Cells -> Borders]
        /\ ideal_line \in Borders
    BY AuAssumption
  <2>5. TypeOK'
    BY <1>0, <2>1, <2>2, <2>3, <2>4 DEF TypeOK, ErrorRange, Borders, s16Range
  <2> QED BY <2>1, <2>5 DEF IInv
<1>2. CASE Configure
  <2>1. /\ template' \in [A : [Cells -> s16Range], B : [Cells -> s16Range], I : s16Range]
        /\ Ts' \in 0..busFMax
    BY <1>2, AuAssumption DEF Configure
  <2>2. TypeOK'
    BY <1>0, <1>2, <2>1 DEF TypeOK, Configure, latched, registered, ErrorRange, Borders, s16Range
  <2>3. ErrorSumsExact' /\ SumsBounded'
    BY <1>2 DEF IInv, Configure, latched, registered, ErrorSumsExact, SumsBounded
  <2> QED BY <2>2, <2>3 DEF IInv
<1>3. CASE UNCHANGED vars
  BY <1>3 DEF IInv, vars, TypeOK, ErrorSumsExact, SumsBounded, ErrorRange, Borders, s16Range
<1> QED BY <1>1, <1>2, <1>3 DEF Next
-----------------------------------------------------------------------------
\* Two values that are close are close after both are limited.
LEMMA ClampNear ==
  ASSUME NEW a \in Int, NEW b \in Int, NEW L \in Nat, NEW D \in Nat, a - b < D, b - a < D
  PROVE  /\ Clamp(a, -L, L) - Clamp(b, -L, L) < D
         /\ Clamp(b, -L, L) - Clamp(a, -L, L) < D
  BY DEF Clamp

\* Limiting a value and then scaling it is scaling it and then limiting it.
LEMMA ClampScaled ==
  ASSUME NEW v \in Int, NEW F \in Nat, NEW U \in Nat \ {0}
  PROVE  Clamp(v, -F, F) * U = Clamp(v * U, -(F * U), F * U)
<1>1. v * U \in Int /\ F * U \in Nat /\ (-F) * U = -(F * U)
  OBVIOUS
<1>2. CASE v > F
  <2>1. F * U < v * U
    <3>1. (F + 1) * U <= v * U /\ (F + 1) * U = F * U + U
      BY <1>2, ProductMonotone
    <3> QED BY <1>1, <3>1
  <2> QED BY <1>1, <1>2, <2>1 DEF Clamp
<1>3. CASE v < -F
  <2>1. v * U < -(F * U)
    <3>1. v * U <= (-F - 1) * U
      BY <1>3, ProductMonotone
    <3>2. (-F - 1) * U = -(F * U) - U
      OBVIOUS
    <3> QED BY <1>1, <3>1, <3>2
  <2>2. ~(v * U > F * U) /\ ~(v > F)
    BY <1>1, <1>3, <2>1
  <2> QED BY <1>1, <1>3, <2>1, <2>2 DEF Clamp
<1>4. CASE -F <= v /\ v <= F
  <2>1. v * U <= F * U /\ (-F) * U <= v * U
    BY <1>4, ProductMonotone
  <2>2. ~(v * U > F * U) /\ ~(v * U < -(F * U)) /\ ~(v > F) /\ ~(v < -F)
    BY <1>1, <1>4, <2>1
  <2> QED BY <2>2 DEF Clamp
<1> QED BY <1>2, <1>3, <1>4

(***************************************************************************)
(* The exact step, in terms of the truncated heading: the remainder r of   *)
(* the first truncation moves it by Ts * r.                                *)
(***************************************************************************)
LEMMA EulerExpanded ==
  ASSUME TypeOK, WeightedSum \div busFMax \in s16Range
  PROVE  \E r \in 0..busFMax-1 :
           /\ Ts * r \in Int /\ busFMax * x_temp_3 \in Int /\ x["mid"] * Unit \in Int
           /\ EulerStep = x["mid"] * Unit - busFMax * x_temp_3 + Ts * r
<1> DEFINE F == busFMax
           W == WeightedSum
           c == x["mid"]
           q == W \div F
           d == c - q
<1>1. F \in Nat \ {0} /\ W \in Int /\ c \in Int /\ Ts \in Nat
  BY Widths, MulExact, OperandTypes
<1>2. PICK r \in 0..F-1 : q \in Int /\ W = F * q + r
  BY <1>1, DivMod
<1>3. x_temp_1 = q
  <2>1. -busHalf \in Int /\ busHalf - 1 \in Int /\ -busHalf <= busHalf - 1
    BY Widths
  <2>2. q \in -busHalf..busHalf - 1
    BY DEF s16Range
  <2>3. x_temp_1 = Clamp(q, -busHalf, busHalf - 1)
    BY MulExact DEF x_temp_1
  <2> HIDE DEF q
  <2> QED BY <1>2, <2>1, <2>2, <2>3, ClampRange
<1>4. x_temp_3 = d * Ts /\ d \in Int
  BY <1>1, <1>2, <1>3, Heading
<1>5. EulerStep = c * Unit - Ts * (c * F - W) /\ Unit = F * F
  BY DEF EulerStep, Unit
<1>6. Ts * (c * F - W) = F * (d * Ts) - Ts * r
  <2>1. r \in Int /\ F \in Int /\ Ts \in Int
    BY <1>1, <1>2
  <2>2. F * d = F * c - F * q
    <3> HIDE DEF q, F, c
    <3> QED BY <1>1, <1>2
  <2>3. c * F - W = F * d - r
    <3>1. c * F = F * c /\ F * c \in Int /\ F * q \in Int
      BY <1>1, <1>2
    <3> HIDE DEF q, F, c, d, W
    <3> QED BY <1>2, <2>1, <2>2, <3>1
  <2> HIDE DEF q, F, c, d, W
  <2>4. Ts * (F * d - r) = Ts * (F * d) - Ts * r
    BY <1>4, <2>1
  <2>5. Ts * (F * d) = F * (d * Ts)
    BY <1>4, <2>1
  <2> QED BY <2>3, <2>4, <2>5
<1>7. Ts * r \in Int /\ F * x_temp_3 \in Int /\ c * Unit \in Int
  <2>1. r \in Int /\ F * F \in Int /\ x_temp_3 \in Int
    BY <1>1, <1>2, Heading
  <2>2. Unit \in Int
    BY <1>5, <2>1
  <2> QED BY <1>1, <2>1, <2>2
<1>8. EulerStep = c * Unit - F * x_temp_3 + Ts * r
  <2> HIDE DEF q, F, c, d, W
  <2>1. EulerStep = c * Unit - (F * x_temp_3 - Ts * r)
    BY <1>4, <1>5, <1>6
  <2> QED BY <1>7, <2>1
<1> QED BY <1>2, <1>7, <1>8

\* The remainder's share of a step is less than one bit.
LEMMA RemainderShare ==
  ASSUME TypeOK, NEW r \in 0..busFMax-1
  PROVE  /\ Unit \in Nat \ {0} /\ 0 <= Ts * r /\ Ts * r < Unit /\ Ts * r \in Int
         /\ 0 <= busFMax * r /\ busFMax * r < Unit /\ busFMax * r \in Int
<1>1. busFMax \in Nat \ {0} /\ Ts \in Nat /\ Ts <= busFMax /\ r \in Nat
  BY Widths, OperandTypes
<1>2. Ts * r <= busFMax * r
  BY <1>1, ProductMonotone
<1>3. busFMax * r <= busFMax * (busFMax - 1)
  BY <1>1, ProductMonotone
<1>4. busFMax * (busFMax - 1) = busFMax * busFMax - busFMax
  BY <1>1
<1>5. Ts * r \in Nat /\ busFMax * r \in Nat /\ busFMax * busFMax \in Nat \ {0}
  BY <1>1
<1> QED BY <1>1, <1>2, <1>3, <1>4, <1>5 DEF Unit

(***************************************************************************)
(* Truncated, the step is off by less than one bit and limiting it adds    *)
(* nothing; saturated, both the step and the reference are at the border.  *)
(***************************************************************************)
LEMMA StepIsAccurate == TypeOK => StepAccurate
<1> SUFFICES ASSUME TypeOK, WeightedSum \div busFMax \in s16Range
             PROVE  x_new * Unit - Reference < Unit /\ Reference - x_new * Unit < Unit
  BY DEF StepAccurate
<1> DEFINE F == busFMax
           H == busHalf
           U == Unit
           c == x["mid"]
           p == x_temp_3
           E == EulerStep
           L == F * U
<1>1. PICK r \in 0..F-1 : /\ Ts * r \in Int /\ F * p \in Int /\ c * U \in Int
                          /\ E = c * U - F * p + Ts * r
  BY EulerExpanded
<1>2. /\ U \in Nat \ {0} /\ 0 <= Ts * r /\ Ts * r < U /\ U = F * F
      /\ F \in Nat \ {0} /\ H \in Nat /\ H >= 4 * F
      /\ c \in Int /\ -F <= c /\ c <= F /\ p \in Int
      /\ x_temp_4 \in Int /\ x_temp_5 = c - x_temp_4
  BY RemainderShare, Widths, OperandTypes, Heading, StepBetween, NewState DEF Unit
<1>3. E \in Int
  BY <1>1, <1>2
<1>4. L \in Nat /\ L >= U /\ L = F * U
  <2>1. F * U >= 1 * U /\ F * U \in Nat
    <3> HIDE DEF F, U
    <3> QED BY <1>2, ProductMonotone
  <2> QED BY <1>2, <2>1
<1>5. Reference = Clamp(E, -L, L) /\ x_new = Clamp(x_temp_5, -F, F)
  BY DEF Reference, x_new
<1>b. \/ p > F * (H - 1) /\ x_temp_4 = H - 1
      \/ p < -(F * H) /\ x_temp_4 = -H
      \/ x_temp_4 = p \div F
  BY StepBetween
<1>6. x_new * U = Clamp(x_temp_5 * U, -L, L)
  <2>1. x_temp_5 \in Int
    BY <1>2
  <2> HIDE DEF F, U, c
  <2> QED BY <1>2, <1>5, <2>1, ClampScaled
<1>c. c * U <= L /\ -L <= c * U
  <2> HIDE DEF F, U, c
  <2>1. c * U <= F * U /\ (-F) * U <= c * U
    BY <1>2, ProductMonotone
  <2>2. (-F) * U = -(F * U)
    BY <1>2
  <2> QED BY <2>1, <2>2
<1> SUFFICES x_new * U - Reference < U /\ Reference - x_new * U < U
  OBVIOUS
<1> HIDE DEF F, H, U, c, p, E, L
<1>7. CASE x_temp_4 = p \div F
  <2>1. PICK s \in 0..F-1 : p = F * x_temp_4 + s
    BY <1>2, <1>7, DivMod
  <2>2. 0 <= F * s /\ F * s < U /\ F * s \in Int
    BY <2>1, RemainderShare DEF F, U
  <2>3. x_temp_5 * U = c * U - F * p + F * s
    <3>1. x_temp_5 * U = c * U - x_temp_4 * U
      BY <1>2
    <3>2. F * p = F * (F * x_temp_4) + F * s
      BY <1>2, <2>1
    <3>3. F * (F * x_temp_4) = x_temp_4 * (F * F)
      BY <1>2
    <3>4. F * p = x_temp_4 * U + F * s
      BY <1>2, <3>2, <3>3
    <3>5. x_temp_4 * U \in Int
      BY <1>2
    <3> QED BY <1>1, <2>2, <3>1, <3>4, <3>5
  <2>4. x_temp_5 * U \in Int /\ x_temp_5 * U - E < U /\ E - x_temp_5 * U < U
    BY <1>1, <1>2, <2>2, <2>3
  <2> QED BY <1>2, <1>3, <1>4, <1>5, <1>6, <2>4, ClampNear
<1>8. CASE p > F * (H - 1) /\ x_temp_4 = H - 1
  <2>1. x_temp_5 < -F /\ x_temp_5 \in Int
    BY <1>2, <1>8
  <2>2. E <= -L
    <3>1. F * p >= F * (F * (H - 1))
      <4>1. F * (H - 1) \in Int /\ F * (H - 1) <= p
        BY <1>2, <1>8
      <4> QED BY <1>2, <4>1, ProductMonotone
    <3>2. F * (F * (H - 1)) = (H - 1) * U
      BY <1>2
    <3>3. (H - 1) * U >= (3 * F) * U
      <4>1. H - 1 >= 3 * F /\ H - 1 \in Int /\ 3 * F \in Int
        BY <1>2
      <4> QED BY <1>2, <4>1, ProductMonotone
    <3>4. (3 * F) * U = 3 * L
      BY <1>2, <1>4
    <3>5. (H - 1) * U \in Int
      BY <1>2
    <3> QED BY <1>1, <1>2, <1>4, <1>c, <3>1, <3>2, <3>3, <3>4, <3>5
  <2>3. Reference = -L
    BY <1>3, <1>4, <1>5, <2>2 DEF Clamp
  <2>4. x_new = -F
    BY <1>2, <1>5, <2>1 DEF Clamp
  <2>5. x_new * U = -L
    BY <1>2, <1>4, <2>4
  <2> QED BY <1>2, <1>4, <2>3, <2>5
<1>9. CASE p < -(F * H) /\ x_temp_4 = -H
  <2>1. x_temp_5 > F /\ x_temp_5 \in Int
    BY <1>2, <1>9
  <2>2. E >= L
    <3>1. F * p <= F * (-(F * H))
      <4>1. -(F * H) \in Int /\ p <= -(F * H)
        BY <1>2, <1>9
      <4> QED BY <1>2, <4>1, ProductMonotone
    <3>2. F * (-(F * H)) = -(H * U)
      BY <1>2
    <3>3. H * U >= (4 * F) * U
      <4>1. H >= 4 * F /\ H \in Int /\ 4 * F \in Int
        BY <1>2
      <4> QED BY <1>2, <4>1, ProductMonotone
    <3>4. (4 * F) * U = 4 * L
      BY <1>2, <1>4
    <3>5. H * U \in Int
      BY <1>2
    <3> QED BY <1>1, <1>2, <1>4, <1>c, <3>1, <3>2, <3>3, <3>4, <3>5
  <2>3. Reference = L
    BY <1>3, <1>4, <1>5, <2>2 DEF Clamp
  <2>4. x_new = F
    BY <1>2, <1>5, <2>1 DEF Clamp
  <2>5. x_new * U = L
    BY <1>2, <1>4, <2>4
  <2> QED BY <1>2, <1>4, <2>3, <2>5
<1> QED BY <1>b, <1>7, <1>8, <1>9
-----------------------------------------------------------------------------
\* The arithmetic unit's registers keep their types, and its invariant holds.
THEOREM InductiveInvariant == Spec => []IInv
  BY InitInv, NextInv, PTL DEF Spec

\* No register of the arithmetic unit leaves its range; x_out is always a pixel value.
THEOREM TypesHold == Spec => []TypeOK
<1>1. IInv => TypeOK
  BY DEF IInv
<1> QED BY <1>1, InductiveInvariant, PTL

\* Whatever the template saturates, a step never goes the wrong way or past its target.
THEOREM NoOvershootHolds == Spec => []NoOvershoot
  BY StepsStayBetween, TypesHold, PTL

\* A cell stops only at its target, up to the rounding of the product, or at a border.
THEOREM StopsAtTargetHolds == Spec => []StopsAtTarget
  BY StandsAtTarget, TypesHold, PTL

\* The new state is within one bit of the step of cnn_system.m, for every word format.
THEOREM StepAccurateHolds == Spec => []StepAccurate
  BY StepIsAccurate, TypesHold, PTL

\* The error registers hold the sums of an image exactly.
THEOREM ErrorSumsExactHolds == Spec => []ErrorSumsExact
<1>1. IInv => ErrorSumsExact
  BY DEF IInv
<1> QED BY <1>1, InductiveInvariant, PTL
=============================================================================
