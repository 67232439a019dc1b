------------------------- MODULE CnnLearning_proofs -------------------------
(***************************************************************************)
(* Proofs about CnnLearning: types, the exactness of learning in the first *)
(* layer, and what the second layer learns.                                *)
(***************************************************************************)
EXTENDS CnnLearning, DivisionLemmas, TLAPS

-----------------------------------------------------------------------------
\* Narrowing to s16 yields an s16 and drops a multiple of its modulus.
LEMMA NarrowRange ==
  ASSUME NEW n \in Int
  PROVE  /\ s16(n) \in s16Range
         /\ \E q \in Int : n = s16(n) + (2 * busHalf) * q
<1> DEFINE m == 2 * busHalf
<1>1. m \in Nat \ {0} /\ n + busHalf \in Int
  BY LearningAssumption
<1>2. PICK q \in Int, r \in 0..m-1 : (n + busHalf) % m = r /\ n + busHalf = m * q + r
  BY <1>1, DivMod
<1>3. s16(n) = r - busHalf
  BY <1>2 DEF s16
<1>4. s16(n) \in s16Range
  BY <1>1, <1>2, <1>3, LearningAssumption DEF s16Range
<1>5. n = s16(n) + m * q
  BY <1>1, <1>2, <1>3, LearningAssumption
<1> QED BY <1>4, <1>5

\* Narrowing does not see multiples of the modulus.
LEMMA NarrowCongruent ==
  ASSUME NEW a \in Int, NEW b \in Int, NEW q \in Int, a = b + (2 * busHalf) * q
  PROVE  s16(a) = s16(b)
<1> DEFINE m == 2 * busHalf
<1>1. m \in Nat \ {0} /\ busHalf \in Nat
  BY LearningAssumption
<1>2. m * q \in Int
  BY <1>1
<1>3. a + busHalf \in Int /\ b + busHalf \in Int /\ a + busHalf = (b + busHalf) + m * q
  BY <1>1, <1>2
<1>4. (a + busHalf) % m = (b + busHalf) % m
  BY <1>1, <1>3, ModUnique
<1> QED BY <1>4 DEF s16

\* A sum may be narrowed before or after the addition.
LEMMA NarrowAdd ==
  ASSUME NEW a \in Int, NEW b \in Int
  PROVE  s16(s16(a) + b) = s16(a + b) /\ s16(b + s16(a)) = s16(a + b)
<1>1. PICK q \in Int : a = s16(a) + (2 * busHalf) * q
  BY NarrowRange
<1>2. s16(a) \in Int /\ (2 * busHalf) * q \in Int
  BY NarrowRange, LearningAssumption DEF s16Range
<1>3. a + b \in Int /\ s16(a) + b \in Int /\ a + b = (s16(a) + b) + (2 * busHalf) * q
  BY <1>1, <1>2
<1>4. s16(a + b) = s16(s16(a) + b)
  BY <1>3, NarrowCongruent
<1> QED BY <1>2, <1>4

\* Narrowing an s16 changes nothing.
LEMMA NarrowIdentity ==
  ASSUME NEW n \in s16Range
  PROVE  s16(n) = n
<1> DEFINE m == 2 * busHalf
<1>1. busHalf \in Nat \ {0} /\ n \in Int
  BY LearningAssumption DEF s16Range
<1>2. n + busHalf \in 0..m-1 /\ m \in Nat \ {0}
  BY <1>1 DEF s16Range
<1> n + busHalf \in Int
  BY <1>1
<1>3. PICK c \in Int, r \in 0..m-1 : (n + busHalf) % m = r /\ n + busHalf = m * c + r
  BY <1>2, DivMod
<1>4. m * c + r = m * 0 + (n + busHalf)
  BY <1>2, <1>3
<1>5. r = n + busHalf
  BY <1>2, <1>3, <1>4, RemainderUnique
<1> QED BY <1>1, <1>3, <1>5 DEF s16

\* The limits of template_pixel_update are never met: it narrows the sum.
LEMMA UpdateNarrows ==
  ASSUME NEW var \in s16Range, NEW error \in s16Range
  PROVE  TemplatePixelUpdate(var, error) = s16(var + error)
<1>1. var + error \in Int /\ var + error <= errorMax /\ var + error >= errorMin
  BY LearningAssumption DEF s16Range, errorMax, errorMin
<1>a. errorMax \in Int /\ errorMin \in Int
  BY LearningAssumption DEF errorMax, errorMin
<1>b. ~(var + error > errorMax) /\ ~(var + error < errorMin)
  BY <1>1, <1>a
<1>2. TemplatePixelUpdate(var, error) = s16(s16(var + error))
  BY <1>b DEF TemplatePixelUpdate
<1>3. s16(var + error) \in s16Range
  BY <1>1, NarrowRange
<1> QED BY <1>2, <1>3, NarrowIdentity

-----------------------------------------------------------------------------
\* The coefficients the present algorithm learns in the first layer.
Taught == IF alg = 5 THEN Update2d ELSE Update1d

\* What error_get makes of a sum when nothing overflows.
Correction(s) == Quotient(s * header.learn_rate, busFMax * header.shift)
Fits(s) == s32(s * header.learn_rate) = s * header.learn_rate

\* Where the firmware is in its loop and what that says of k and alg.
ControlInv ==
  /\ pc = "direct" => ~Learning
  /\ pc \notin {"main", "direct", "template_create", "while"} => k < header.learn_loop

(***************************************************************************)
(* What the first layer's template lacks: nothing outside the run, the     *)
(* correction for the present sums between the run and the update.         *)
(***************************************************************************)
LearnInv ==
  Learning /\ exact => \A c \in Taught :
    /\ pc = "template_create" => gain[1][c] = 0
    /\ pc \in {"main", "while", "cnn_driver 1", "cnn_driver 2", "template_update 2"}
         => templates[1][c] = s16(gain[1][c])
    /\ pc \in {"error_get", "template_update 1"}
         => Fits(sums[c]) /\ s16(templates[1][c] + Correction(sums[c])) = s16(gain[1][c])
    /\ pc = "template_update 1" => errors[c] = Scaled(sums[c])

\* The 1d algorithms never touch a coefficient outside the middle row.
EdgeInv ==
  Learning /\ alg # 5 /\ pc # "template_create" =>
    \A t \in Layers : t = 1 \/ alg = 4 => templates[t][Edge] = 0

IInv == TypeOK /\ ControlInv /\ LearnInv /\ EdgeInv

\* The quotient of C is an integer.
LEMMA QuotientType ==
  ASSUME NEW n \in Int, NEW d \in Nat \ {0}
  PROVE  Quotient(n, d) \in Int
<1>1. n \div d \in Int /\ (-n) \div d \in Int
  BY DivMod
<1> QED BY <1>1 DEF Quotient

\* Types of what error_get computes.
LEMMA ScaledType ==
  ASSUME TypeOK, NEW s \in Int
  PROVE  /\ s * header.learn_rate \in Int /\ busFMax * header.shift \in Nat \ {0}
         /\ Correction(s) \in Int /\ Scaled(s) \in s16Range
         /\ Fits(s) => Scaled(s) = s16(Correction(s))
<1>1. header.learn_rate \in Nat /\ header.shift \in Nat \ {0}
  BY LearningAssumption DEF TypeOK
<1>2. s * header.learn_rate \in Int /\ busFMax * header.shift \in Nat \ {0}
  BY <1>1, LearningAssumption
<1>3. 2 * errorHalf \in Nat \ {0} /\ s * header.learn_rate + errorHalf \in Int
  BY <1>2, LearningAssumption
<1> DEFINE n == s * header.learn_rate + errorHalf
           m == 2 * errorHalf
<1>a. n % m \in 0..m-1
  <2> HIDE DEF n, m
  <2> QED BY <1>3, DivMod DEF n, m
<1>4. n % m \in Int
  <2> HIDE DEF n
  <2> QED BY <1>3, <1>a
<1>5. s32(s * header.learn_rate) \in Int
  BY <1>4, LearningAssumption DEF s32
<1>6. Correction(s) \in Int
  BY <1>2, QuotientType DEF Correction
<1>7. Scaled(s) \in s16Range
  BY <1>2, <1>5, QuotientType, NarrowRange DEF Scaled
<1>8. Fits(s) => Scaled(s) = s16(Correction(s))
  BY DEF Fits, Scaled, Correction
<1> QED BY <1>2, <1>6, <1>7, <1>8

\* The specification starts in the inductive invariant.
LEMMA InitIInv == Init => IInv
<1> SUFFICES ASSUME Init PROVE IInv
  OBVIOUS
<1>1. TypeOK
  BY LearningAssumption DEF Init, TypeOK, s16Range, Kinds, Layers
<1>2. ControlInv /\ LearnInv /\ EdgeInv
  BY DEF Init, ControlInv, LearnInv, EdgeInv, Learning
<1> QED BY <1>1, <1>2 DEF IInv

\* Every step keeps the types.
LEMMA NextTypes == TypeOK /\ ControlInv /\ [Next]_vars => TypeOK' /\ ControlInv'
<1> SUFFICES ASSUME TypeOK, ControlInv, [Next]_vars PROVE TypeOK' /\ ControlInv'
  OBVIOUS
<1>t. /\ sums \in [Kinds -> -errorHalf..errorHalf-1] /\ errors \in [Kinds -> s16Range]
      /\ templates \in [Layers -> [Kinds -> s16Range]] /\ gain \in [Layers -> [Kinds -> Int]]
      /\ exact \in BOOLEAN /\ k \in Nat /\ alg \in 0..5
      /\ header \in [learn_rate : LearnRates, shift : Shifts, learn_loop : LearnLoops]
  BY DEF TypeOK
<1>h. header.learn_loop \in Nat /\ header.shift \in Shifts
  BY <1>t, LearningAssumption
<1>e. -errorHalf..errorHalf-1 \subseteq Int /\ s16Range \subseteq Int
  BY LearningAssumption DEF s16Range
<1>s. \A c \in Kinds : Scaled(sums[c]) \in s16Range
  BY <1>t, <1>e, ScaledType
<1>u. \A t \in Layers, ks \in SUBSET Kinds, e \in [Kinds -> s16Range] :
        Updated(t, ks, e) \in [Layers -> [Kinds -> s16Range]]
  <2> TAKE t \in Layers, ks \in SUBSET Kinds, e \in [Kinds -> s16Range]
  <2>1. \A c \in Kinds : TemplatePixelUpdate(templates[t][c], e[c]) \in s16Range
    <3> TAKE c \in Kinds
    <3>1. templates[t][c] \in s16Range /\ e[c] \in s16Range
      BY <1>t
    <3>a. templates[t][c] \in Int /\ e[c] \in Int
      BY <3>1, <1>e
    <3>2. templates[t][c] + e[c] \in Int
      BY <3>a
    <3>3. TemplatePixelUpdate(templates[t][c], e[c]) = s16(templates[t][c] + e[c])
      BY <3>1, UpdateNarrows
    <3> QED BY <3>2, <3>3, NarrowRange
  <2>2. \A c \in Kinds : templates[t][c] \in s16Range
    BY <1>t
  <2>3. [c \in Kinds |-> IF c \in ks THEN TemplatePixelUpdate(templates[t][c], e[c])
                         ELSE templates[t][c]] \in [Kinds -> s16Range]
    BY <2>1, <2>2
  <2> QED BY <1>t, <2>3 DEF Updated
<1>c. \A t \in Layers : CnnDriver(t) =>
        /\ sums' \in [Kinds -> -errorHalf..errorHalf-1]
        /\ gain' \in [Layers -> [Kinds -> Int]] /\ exact' \in BOOLEAN
  <2> SUFFICES ASSUME NEW t \in Layers, CnnDriver(t)
               PROVE  /\ sums' \in [Kinds -> -errorHalf..errorHalf-1]
                      /\ gain' \in [Layers -> [Kinds -> Int]] /\ exact' \in BOOLEAN
    OBVIOUS
  <2>1. sums' \in [Kinds -> -errorHalf..errorHalf-1]
    BY <1>h, LearningAssumption DEF CnnDriver
  <2>2. \A c \in Kinds : sums'[c] \in Int
    BY <2>1, <1>e
  <2>3. \A c \in Kinds : Correction(sums'[c]) \in Int
    BY <2>2, ScaledType
  <2>4. \A c \in Kinds : gain[t][c] + Correction(sums'[c]) \in Int
    BY <1>t, <2>3
  <2>5. gain' = [gain EXCEPT ![t] = [c \in Kinds |-> gain[t][c] + Correction(sums'[c])]]
    BY DEF CnnDriver, Correction
  <2>6. [c \in Kinds |-> gain[t][c] + Correction(sums'[c])] \in [Kinds -> Int]
    BY <2>4
  <2>7. gain' \in [Layers -> [Kinds -> Int]]
    BY <1>t, <2>5, <2>6
  <2>8. exact' \in BOOLEAN
    BY DEF CnnDriver
  <2> QED BY <2>1, <2>7, <2>8
<1>1. CASE HeaderRead
  BY <1>1 DEF HeaderRead, TypeOK, ControlInv, Learning
<1>2. CASE ErrorSend
  BY <1>2, <1>s DEF ErrorSend, TypeOK, ControlInv, Learning
<1>3. CASE AlgorithmRun
  BY <1>3 DEF AlgorithmRun, TypeOK, ControlInv, Learning
<1>4. CASE Direct
  BY <1>4, LearningAssumption DEF Direct, TypeOK, ControlInv, Learning
<1>5. CASE TemplateCreate
  <2>a. ~(0 > busMax) /\ ~(0 < busMin)
    BY LearningAssumption DEF busMax, busMin
  <2>1. TemplatePixelCreate(0) = s16(0)
    BY <2>a DEF TemplatePixelCreate
  <2>b. s16(0) \in s16Range
    BY NarrowRange
  <2>2. TemplatePixelCreate(0) \in s16Range
    BY <2>1, <2>b
  <2>3. templates' \in [Layers -> [Kinds -> s16Range]]
    BY <1>t, <1>5, <2>2 DEF TemplateCreate, Created
  <2> QED BY <1>5, <1>h, <2>3 DEF TemplateCreate, TypeOK, ControlInv, Learning
<1>6. CASE While
  BY <1>6 DEF While, TypeOK, ControlInv, Learning
<1>7. CASE FirstRun
  BY <1>7, <1>c DEF FirstRun, CnnDriver, TypeOK, ControlInv, Learning, Layers
<1>8. CASE ErrorGet
  BY <1>8, <1>s DEF ErrorGet, TypeOK, ControlInv, Learning
<1>9. CASE FirstUpdate
  <2>1. errors' \in [Kinds -> s16Range]
    <3>1. CASE alg = 5
      BY <1>9, <1>s, <3>1 DEF FirstUpdate
    <3>2. CASE alg # 5
      BY <1>9, <1>t, <3>2 DEF FirstUpdate
    <3> QED BY <3>1, <3>2
  <2>2. Update1d \in SUBSET Kinds /\ Update2d \in SUBSET Kinds /\ 1 \in Layers
    BY DEF Update1d, Update2d, Kinds, Layers
  <2>3. templates' \in [Layers -> [Kinds -> s16Range]]
    <3>1. templates' = Updated(1, Update2d, errors') \/ templates' = Updated(1, Update1d, errors)
      BY <1>9 DEF FirstUpdate
    <3>2. Updated(1, Update2d, errors') \in [Layers -> [Kinds -> s16Range]]
      BY <1>u, <2>1, <2>2
    <3>3. Updated(1, Update1d, errors) \in [Layers -> [Kinds -> s16Range]]
      BY <1>u, <1>t, <2>2
    <3> QED BY <3>1, <3>2, <3>3
  <2>4. /\ UNCHANGED <<alg, header, sums, gain, exact>>
        /\ (alg = 4 /\ pc' = "cnn_driver 2" /\ k' = k) \/ (pc' = "while" /\ k' = k + 1)
        /\ k < header.learn_loop
    BY <1>9 DEF FirstUpdate, ControlInv
  <2>a. k' = k \/ k' = k + 1
    BY <2>4
  <2>5. k' \in Nat /\ k' <= header.learn_loop
    <3>1. k \in Nat /\ header.learn_loop \in Nat /\ k < header.learn_loop
      BY <1>t, <1>h, <2>4
    <3> QED BY <2>a, <3>1
  <2>6. TypeOK'
    BY <1>t, <2>1, <2>3, <2>4, <2>5 DEF TypeOK
  <2>7. ControlInv'
    BY <2>4 DEF ControlInv
  <2> QED BY <2>6, <2>7
<1>10. CASE SecondRun
  BY <1>10, <1>c DEF SecondRun, CnnDriver, TypeOK, ControlInv, Learning, Layers
<1>11. CASE SecondUpdate
  <2>1. Update1d \in SUBSET Kinds /\ 2 \in Layers
    BY DEF Update1d, Kinds, Layers
  <2>2. templates' \in [Layers -> [Kinds -> s16Range]]
    BY <1>11, <1>u, <1>t, <2>1 DEF SecondUpdate
  <2>3. /\ UNCHANGED <<alg, header, sums, errors, gain, exact>>
        /\ pc' = "while" /\ k' = k + 1 /\ k < header.learn_loop
    BY <1>11 DEF SecondUpdate, ControlInv
  <2>4. k' \in Nat /\ k' <= header.learn_loop
    BY <1>t, <1>h, <2>3
  <2>5. TypeOK'
    BY <1>t, <2>2, <2>3, <2>4 DEF TypeOK
  <2>6. ControlInv'
    BY <2>3 DEF ControlInv
  <2> QED BY <2>5, <2>6
<1>12. CASE UNCHANGED vars
  BY <1>12 DEF vars, TypeOK, ControlInv, Learning
<1> QED BY <1>1, <1>2, <1>3, <1>4, <1>5, <1>6, <1>7, <1>8, <1>9, <1>10, <1>11, <1>12 DEF Next

\* The run of the first layer raises its gain by the correction still to be learned.
LEMMA FirstRunLearns == IInv /\ FirstRun => LearnInv'
<1> SUFFICES ASSUME IInv, FirstRun, Learning, exact', NEW c \in Taught
             PROVE  /\ Fits(sums'[c])
                    /\ s16(templates[1][c] + Correction(sums'[c])) = s16(gain'[1][c])
  BY DEF LearnInv, FirstRun, CnnDriver, Learning, Taught, Fits, Correction
<1>1. /\ c \in Kinds /\ TypeOK /\ gain \in [Layers -> [Kinds -> Int]] /\ 1 \in Layers
      /\ header.shift \in Shifts
  BY DEF IInv, TypeOK, Taught, Update1d, Update2d, Kinds, Layers
<1>2. /\ exact /\ Fits(sums'[c]) /\ sums' \in [Kinds -> SumsOf(header.shift)]
      /\ gain'[1][c] = gain[1][c] + Correction(sums'[c])
  BY <1>1 DEF FirstRun, CnnDriver, Fits, Correction
<1>3. templates[1][c] = s16(gain[1][c])
  BY <1>2 DEF IInv, LearnInv, FirstRun
<1>4. sums'[c] \in Int
  <2>1. sums'[c] \in -errorHalf..errorHalf-1
    BY <1>1, <1>2, LearningAssumption
  <2>2. -errorHalf..errorHalf-1 \subseteq Int
    BY LearningAssumption
  <2> QED BY <2>1, <2>2
<1>5. Correction(sums'[c]) \in Int /\ gain[1][c] \in Int
  BY <1>1, <1>4, ScaledType
<1> QED BY <1>2, <1>3, <1>5, NarrowAdd

\* The update of the first layer learns that correction, once.
LEMMA FirstUpdateLearns == IInv /\ FirstUpdate => LearnInv'
<1> SUFFICES ASSUME IInv, FirstUpdate, Learning, exact, NEW c \in Taught
             PROVE  templates'[1][c] = s16(gain[1][c])
  BY DEF LearnInv, FirstUpdate, Learning, Taught
<1>1. /\ c \in Kinds /\ TypeOK /\ 1 \in Layers
      /\ sums[c] \in -errorHalf..errorHalf-1
      /\ templates \in [Layers -> [Kinds -> s16Range]]
  BY DEF IInv, TypeOK, Taught, Update1d, Update2d, Kinds, Layers
<1>2. /\ Fits(sums[c]) /\ s16(templates[1][c] + Correction(sums[c])) = s16(gain[1][c])
      /\ errors[c] = Scaled(sums[c])
  BY DEF IInv, LearnInv, FirstUpdate
<1>3. -errorHalf..errorHalf-1 \subseteq Int /\ s16Range \subseteq Int
  BY LearningAssumption DEF s16Range
<1>4. sums[c] \in Int
  BY <1>1, <1>3
<1>5. /\ Correction(sums[c]) \in Int /\ Scaled(sums[c]) \in s16Range
      /\ Scaled(sums[c]) = s16(Correction(sums[c]))
  BY <1>1, <1>2, <1>4, ScaledType
<1>6. templates[1][c] \in s16Range /\ templates[1][c] \in Int
  BY <1>1, <1>3
<1>7. templates'[1][c] = TemplatePixelUpdate(templates[1][c], Scaled(sums[c]))
  <2>1. CASE alg = 5
    <3>1. errors'[c] = Scaled(sums[c]) /\ templates' = Updated(1, Update2d, errors')
      BY <1>1, <2>1 DEF FirstUpdate
    <3>2. Updated(1, Update2d, errors')[1][c] = TemplatePixelUpdate(templates[1][c], errors'[c])
      BY <1>1, <2>1 DEF Updated, Taught
    <3> QED BY <3>1, <3>2
  <2>2. CASE alg # 5
    <3>1. templates' = Updated(1, Update1d, errors)
      BY <2>2 DEF FirstUpdate
    <3>2. Updated(1, Update1d, errors)[1][c] = TemplatePixelUpdate(templates[1][c], errors[c])
      BY <1>1, <2>2 DEF Updated, Taught
    <3> QED BY <1>2, <3>1, <3>2
  <2> QED BY <2>1, <2>2
<1>8. templates'[1][c] = s16(templates[1][c] + s16(Correction(sums[c])))
  BY <1>5, <1>6, <1>7, UpdateNarrows
<1>9. s16(templates[1][c] + s16(Correction(sums[c]))) = s16(templates[1][c] + Correction(sums[c]))
  <2>1. s16(templates[1][c] + s16(Correction(sums[c]))) = s16(Correction(sums[c]) + templates[1][c])
    BY <1>5, <1>6, NarrowAdd
  <2>2. Correction(sums[c]) + templates[1][c] = templates[1][c] + Correction(sums[c])
    BY <1>5, <1>6
  <2> QED BY <2>1, <2>2
<1> QED BY <1>2, <1>8, <1>9

\* Every step keeps what is known of the first layer.
LEMMA NextLearns == IInv /\ [Next]_vars => LearnInv'
<1> SUFFICES ASSUME IInv, [Next]_vars PROVE LearnInv'
  OBVIOUS
<1>t. /\ templates \in [Layers -> [Kinds -> s16Range]] /\ gain \in [Layers -> [Kinds -> Int]]
      /\ Taught \subseteq Kinds /\ 1 \in Layers /\ 2 \in Layers
  BY DEF IInv, TypeOK, Taught, Update1d, Update2d, Kinds, Layers
<1>1. CASE HeaderRead
  BY <1>1 DEF HeaderRead, LearnInv, Learning
<1>2. CASE ErrorSend
  BY <1>2 DEF ErrorSend, IInv, LearnInv, Learning, Taught
<1>3. CASE AlgorithmRun
  BY <1>3 DEF AlgorithmRun, LearnInv, Learning, Taught, Update1d, Update2d, Kinds, Layers
<1>4. CASE Direct
  BY <1>4 DEF Direct, IInv, ControlInv, LearnInv, Learning
<1>5. CASE TemplateCreate
  <2>1. ~(0 > busMax) /\ ~(0 < busMin)
    BY LearningAssumption DEF busMax, busMin
  <2>2. TemplatePixelCreate(0) = s16(0)
    BY <2>1 DEF TemplatePixelCreate
  <2>3. \A c \in Taught : templates'[1][c] = s16(0)
    BY <1>5, <1>t, <2>2 DEF TemplateCreate, Created
  <2> QED BY <1>5, <2>3 DEF TemplateCreate, IInv, LearnInv, Learning, Taught
<1>6. CASE While
  BY <1>6 DEF While, IInv, LearnInv, Learning, Taught
<1>7. CASE FirstRun
  BY <1>7, FirstRunLearns
<1>8. CASE ErrorGet
  BY <1>8, <1>t DEF ErrorGet, IInv, LearnInv, Learning, Taught, Fits, Correction, Scaled
<1>9. CASE FirstUpdate
  BY <1>9, FirstUpdateLearns
<1>10. CASE SecondRun
  <2>1. gain'[1] = gain[1]
    <3>1. CnnDriver(2)
      BY <1>10 DEF SecondRun
    <3>2. PICK g : gain' = [gain EXCEPT ![2] = g]
      BY <3>1 DEF CnnDriver
    <3> QED BY <1>t, <3>2
  <2>2. exact' => exact
    BY <1>10 DEF SecondRun, CnnDriver
  <2> QED BY <1>10, <2>1, <2>2 DEF SecondRun, CnnDriver, IInv, LearnInv, Learning, Taught
<1>11. CASE SecondUpdate
  <2>1. templates'[1] = templates[1]
    <3>1. PICK v : templates' = [templates EXCEPT ![2] = v]
      BY <1>11 DEF SecondUpdate, Updated
    <3> QED BY <1>t, <3>1
  <2> QED BY <1>11, <2>1 DEF SecondUpdate, IInv, LearnInv, Learning, Taught
<1>12. CASE UNCHANGED vars
  BY <1>12 DEF vars, IInv, LearnInv, Learning, Taught, Fits, Correction, Scaled
<1> QED BY <1>1, <1>2, <1>3, <1>4, <1>5, <1>6, <1>7, <1>8, <1>9, <1>10, <1>11, <1>12 DEF Next

\* Every step keeps the outer rows of a 1d algorithm's templates at zero.
LEMMA NextEdges == IInv /\ [Next]_vars => EdgeInv'
<1> SUFFICES ASSUME IInv, [Next]_vars, Learning', alg' # 5, pc' # "template_create",
                    NEW t \in Layers, t = 1 \/ alg' = 4
             PROVE  templates'[t][Edge] = 0
  BY DEF EdgeInv
<1>t. /\ templates \in [Layers -> [Kinds -> s16Range]]
      /\ Edge \in Kinds /\ Edge # Mid /\ 1 \in Layers /\ 2 \in Layers
  BY DEF IInv, TypeOK, Kinds, Edge, Mid, Layers
<1>u. \A r \in Layers : \A e : Updated(r, Update1d, e)[t][Edge] = templates[t][Edge]
  BY <1>t DEF Updated, Update1d
<1>1. CASE TemplateCreate
  <2>1. ~(0 > busMax) /\ ~(0 < busMin) /\ 0 \in s16Range
    BY LearningAssumption DEF busMax, busMin, s16Range
  <2>2. TemplatePixelCreate(0) = 0
    BY <2>1, NarrowIdentity DEF TemplatePixelCreate
  <2> QED BY <1>1, <1>t, <2>2 DEF TemplateCreate, Created
<1>2. CASE FirstUpdate
  <2>1. templates' = Updated(1, Update1d, errors) /\ templates[t][Edge] = 0
    BY <1>2 DEF FirstUpdate, IInv, EdgeInv, Learning
  <2> QED BY <1>t, <1>u, <2>1
<1>3. CASE SecondUpdate
  <2>1. templates' = Updated(2, Update1d, errors) /\ templates[t][Edge] = 0
    BY <1>3 DEF SecondUpdate, IInv, EdgeInv, Learning
  <2> QED BY <1>t, <1>u, <2>1
<1>4. CASE HeaderRead \/ AlgorithmRun \/ Direct
  BY <1>4 DEF HeaderRead, AlgorithmRun, Direct, IInv, ControlInv, Learning
<1>5. CASE ErrorSend \/ While \/ FirstRun \/ ErrorGet \/ SecondRun \/ UNCHANGED vars
  BY <1>5 DEF ErrorSend, While, FirstRun, ErrorGet, SecondRun, CnnDriver, vars,
              IInv, EdgeInv, Learning
<1> QED BY <1>1, <1>2, <1>3, <1>4, <1>5 DEF Next
-----------------------------------------------------------------------------
(***************************************************************************)
(* Every behaviour of the learning algorithms satisfies the inductive      *)
(* invariant.                                                              *)
(***************************************************************************)
THEOREM InductiveInvariant == Spec => []IInv
<1>1. Init => IInv
  BY InitIInv
<1>2. IInv /\ [Next]_vars => IInv'
  BY NextTypes, NextLearns, NextEdges DEF IInv
<1> QED BY <1>1, <1>2, PTL DEF Spec

(***************************************************************************)
(* Errors and coefficients stay s16 values (error_get and                  *)
(* template_pixel_update), for every rate, area and loop count.            *)
(***************************************************************************)
THEOREM TypesHold == Spec => []TypeOK
<1>1. IInv => TypeOK
  BY DEF IInv
<1> QED BY <1>1, InductiveInvariant, PTL

(***************************************************************************)
(* Without overflow in error_get the first layer's template is the sum of  *)
(* its runs' corrections, narrowed to s16, when algorithm3, algorithm4 or  *)
(* algorithm5 returns: for all word widths, rates, areas and loop counts.  *)
(***************************************************************************)
THEOREM LearnedExactHolds == Spec => []LearnedExact
<1>1. IInv => LearnedExact
  BY DEF IInv, LearnInv, LearnedExact, Learned, Taught
<1> QED BY <1>1, InductiveInvariant, PTL

(***************************************************************************)
(* What algorithm3 and algorithm4 learn is zero outside the middle row,    *)
(* whatever the templates held before (template_create,                    *)
(* template_update_1d).                                                    *)
(***************************************************************************)
THEOREM OuterRowsZeroHolds == Spec => []OuterRowsZero
<1>1. IInv => OuterRowsZero
  BY DEF IInv, EdgeInv, OuterRowsZero, Learned, Layers
<1> QED BY <1>1, InductiveInvariant, PTL

(***************************************************************************)
(* Between its two updates algorithm4's first template is one update ahead *)
(* of the second, by the errors that the second update will use.           *)
(***************************************************************************)
CopyInv ==
  alg = 4 =>
    /\ pc # "direct"
    /\ pc \in {"main", "while", "cnn_driver 1", "error_get", "template_update 1"} =>
         templates[2] = templates[1]
    /\ pc \in {"cnn_driver 2", "template_update 2"} =>
         templates[1] = Updated(2, Update1d, errors)[2]

\* An update of one layer leaves the other alone.
LEMMA UpdatedOther ==
  ASSUME templates \in [Layers -> [Kinds -> s16Range]], NEW t \in Layers, NEW l \in Layers,
         l # t, NEW updates, NEW errs
  PROVE  Updated(t, updates, errs)[l] = templates[l]
<1> DEFINE v == [c \in Kinds |-> IF c \in updates
                   THEN TemplatePixelUpdate(templates[t][c], errs[c]) ELSE templates[t][c]]
<1>1. Updated(t, updates, errs) = [templates EXCEPT ![t] = v]
  BY DEF Updated
<1> HIDE DEF v
<1> QED BY <1>1

\* Every step of the learning algorithms keeps the two layers in step.
LEMMA NextCopies == IInv /\ CopyInv /\ [Next]_vars => CopyInv'
<1> SUFFICES ASSUME IInv, CopyInv, [Next]_vars, alg' = 4 PROVE CopyInv'
  BY DEF CopyInv
<1>t. /\ templates \in [Layers -> [Kinds -> s16Range]] /\ 1 \in Layers /\ 2 \in Layers
  BY DEF IInv, TypeOK, Layers
<1>n. 4 # 5 /\ 2 # 1
  OBVIOUS
<1>1. CASE HeaderRead
  BY <1>1 DEF HeaderRead
<1>2. CASE AlgorithmRun
  BY <1>2 DEF AlgorithmRun, CopyInv
<1>3. CASE ErrorSend \/ Direct \/ While \/ FirstRun \/ ErrorGet \/ UNCHANGED vars
  BY <1>3 DEF ErrorSend, Direct, While, FirstRun, ErrorGet, CnnDriver, vars, CopyInv, Updated
<1>4. CASE TemplateCreate
  BY <1>4, <1>t DEF TemplateCreate, Created, CopyInv
<1>5. CASE FirstUpdate
  <2>1. pc' = "cnn_driver 2" /\ errors' = errors /\ templates[2] = templates[1]
        /\ templates' = Updated(1, Update1d, errors)
    <3>0. alg = 4 /\ pc = "template_update 1"
      BY <1>5 DEF FirstUpdate
    <3>1. alg = 4 /\ ~(alg = 5) /\ pc = "template_update 1"
      BY <3>0, <1>n
    <3>2. templates[2] = templates[1]
      BY <3>1 DEF CopyInv
    <3>3. pc' = "cnn_driver 2"
      BY <1>5, <3>1 DEF FirstUpdate
    <3>4. errors' = errors /\ templates' = Updated(1, Update1d, errors)
      BY <1>5, <3>1 DEF FirstUpdate
    <3> QED BY <3>2, <3>3, <3>4
  <2>2. templates'[2] = templates[1] /\ templates' \in [Layers -> [Kinds -> s16Range]]
    <3>1. templates'[2] = templates[2]
      <4>1. Updated(1, Update1d, errors)[2] = templates[2]
        BY <1>t, <1>n, UpdatedOther
      <4> QED BY <2>1, <4>1
    <3>2. TypeOK'
      BY NextTypes DEF IInv
    <3> QED BY <2>1, <3>1, <3>2 DEF TypeOK
  <2>3. templates'[1] = [c \in Kinds |-> IF c \in Update1d
                           THEN TemplatePixelUpdate(templates'[2][c], errors'[c])
                           ELSE templates'[2][c]]
    BY <2>1, <2>2, <1>t DEF Updated
  <2>4. templates'[1] = Updated(2, Update1d, errors)'[2]
    BY <2>1, <2>2, <2>3, <1>t DEF Updated
  <2> QED BY <2>1, <2>4 DEF CopyInv
<1>6. CASE SecondRun
  BY <1>6 DEF SecondRun, CnnDriver, CopyInv, Updated
<1>7. CASE SecondUpdate
  <2>1. pc' = "while" /\ templates' = Updated(2, Update1d, errors)
        /\ templates[1] = Updated(2, Update1d, errors)[2]
    BY <1>7 DEF SecondUpdate, CopyInv
  <2>2. templates'[1] = templates[1] /\ templates'[2] = templates[1]
    BY <2>1, <1>t DEF Updated
  <2> QED BY <2>1, <2>2 DEF CopyInv
<1> QED BY <1>1, <1>2, <1>3, <1>4, <1>5, <1>6, <1>7 DEF Next

(***************************************************************************)
(* Whatever errors its runs meet, algorithm4 returns with two equal        *)
(* templates: for all word widths, rates, areas and loop counts.           *)
(***************************************************************************)
THEOREM SecondLayerCopiesHolds == Spec => []SecondLayerCopies
<1>1. Init => CopyInv
  BY DEF Init, CopyInv
<1>2. CopyInv => SecondLayerCopies
  BY DEF CopyInv, SecondLayerCopies, Learned
<1> QED BY <1>1, <1>2, NextCopies, InductiveInvariant, PTL DEF Spec
=============================================================================
