---------------------------- MODULE CnnLearning ----------------------------
(***************************************************************************)
(* Template learning in the firmware: algorithm3, algorithm4 and           *)
(* algorithm5 (cnn_algorithm.c) with error_get (sys_func.c) and the        *)
(* template functions (cnn_func.c), in the integer widths of the C code.   *)
(*                                                                         *)
(* A run of the processor leaves error sums in the AU, error_get scales    *)
(* them into errors, and the template update adds errors to a template.    *)
(* A coefficient meets only its own sum, so one coefficient stands for     *)
(* each kind: Mid for A[1][j], B[1][j] and I, which every algorithm        *)
(* learns, and Edge for A[i][j] and B[i][j] with i # 1, which only         *)
(* algorithm5 learns.  x_bnd and u_bnd are updated by zero and left out.   *)
(***************************************************************************)
EXTENDS Integers

CONSTANTS
  busHalf,      \* 2^(busWidth-1): s16 is -busHalf..busHalf-1
  errorHalf,    \* 2^(errorWidth-1): s32 is -errorHalf..errorHalf-1
  busFMax,      \* 2^busF
  SumsOf(_),    \* values of the AU's error sums after a run over an image of this area
  LearnRates, Shifts, LearnLoops,   \* learn_rate, image area and learn_loop in headers
  InitTemplate  \* the coefficients of template_init.txt

ASSUME LearningAssumption ==
  /\ busHalf \in Nat \ {0} /\ busFMax \in Nat \ {0}
  /\ errorHalf \in Nat /\ errorHalf >= 2 * busHalf
  /\ LearnRates \subseteq Nat /\ Shifts \subseteq Nat \ {0} /\ LearnLoops \subseteq Nat
  /\ \A shift \in Shifts : SumsOf(shift) \subseteq -errorHalf..errorHalf-1
  /\ InitTemplate \in -busHalf..busHalf-1

Mid == "mid"
Edge == "edge"
Kinds == {Mid, Edge}
Layers == {1, 2}      \* templates[1] and templates[2]

VARIABLES
  pc, alg, k,          \* the firmware: next operation, algorithm, general.k
  header,              \* cnn.learn_rate, image.shift, cnn.learn_loop
  sums,                \* the AU's error sums
  errors, templates,
  gain,                \* history: corrections the runs of a layer asked for in this algorithm
  exact                \* history: no product of error_get has left s32 in this algorithm

vars == <<pc, alg, k, header, sums, errors, templates, gain, exact>>
-----------------------------------------------------------------------------
s16(n) == ((n + busHalf) % (2 * busHalf)) - busHalf
s32(n) == ((n + errorHalf) % (2 * errorHalf)) - errorHalf
busMax == busHalf - 1
busMin == -busHalf
errorMax == errorHalf - 1
errorMin == -errorHalf

\* Division of C: towards zero.
Quotient(n, d) == IF n >= 0 THEN n \div d ELSE -((-n) \div d)

\* Mutants.
ScaledByShift(s) == s16(s32(s * header.learn_rate) \div (busFMax * header.shift))
TemplatePixelUpdateWide(var, error) == var + error
CreatedNone == templates

\* error_get, for one sum.
Scaled(s) == s16(Quotient(s32(s * header.learn_rate), busFMax * header.shift))

\* template_pixel_create, into a coefficient.
TemplatePixelCreate(val) ==
  s16(IF val > busMax THEN busMax ELSE IF val < busMin THEN busMin ELSE val)

\* template_pixel_update: the limits are those of the error sums, the coefficient is an s16.
TemplatePixelUpdate(var, error) ==
  LET template_sum == var + error
  IN s16(IF template_sum > errorMax THEN errorMax
         ELSE IF template_sum < errorMin THEN errorMin ELSE s16(template_sum))

\* The kinds that template_update_1d and template_update_2d change.
Update1d == {Mid}
Update2d == Kinds

Updated(t, updates, errs) ==
  [templates EXCEPT ![t] =
     [c \in Kinds |-> IF c \in updates THEN TemplatePixelUpdate(templates[t][c], errs[c])
                      ELSE templates[t][c]]]

CreatedFirst ==                                               \* mutant
  [templates EXCEPT ![1] = [c \in Kinds |-> TemplatePixelCreate(0)]]

\* template_create: algorithm4 learns both layers, the others the first.
Created ==
  [t \in Layers |-> IF t = 1 \/ alg = 4
                    THEN [c \in Kinds |-> TemplatePixelCreate(0)] ELSE templates[t]]

Init ==
  /\ pc = "main" /\ alg = 0 /\ k = 0
  /\ header \in [learn_rate : LearnRates, shift : Shifts, learn_loop : LearnLoops]
  /\ sums = [c \in Kinds |-> 0] /\ errors = [c \in Kinds |-> 0]
  /\ templates = [t \in Layers |-> [c \in Kinds |-> InitTemplate]]
  /\ gain = [t \in Layers |-> [c \in Kinds |-> 0]] /\ exact = TRUE
-----------------------------------------------------------------------------
\* main, case 0.
HeaderRead ==
  /\ pc = "main"
  /\ header' \in [learn_rate : LearnRates, shift : Shifts, learn_loop : LearnLoops]
  /\ alg' = 0 /\ gain' = [t \in Layers |-> [c \in Kinds |-> 0]] /\ exact' = TRUE
  /\ UNCHANGED <<pc, k, sums, errors, templates>>

\* main, case 4; the bytes sent are left out.
ErrorSend ==
  /\ pc = "main"
  /\ errors' = [c \in Kinds |-> Scaled(sums[c])]
  /\ UNCHANGED <<pc, alg, k, header, sums, templates, gain, exact>>

\* main, case 2.
AlgorithmRun ==
  /\ pc = "main"
  /\ alg' \in 1..5
  /\ pc' = IF alg' \in {1, 2} THEN "direct" ELSE "template_create"
  /\ gain' = [t \in Layers |-> [c \in Kinds |-> 0]] /\ exact' = TRUE
  /\ UNCHANGED <<k, header, sums, errors, templates>>

\* algorithm1, or the last of the four runs of algorithm2: only the sums change.
Direct ==
  /\ pc = "direct" /\ pc' = "main"
  /\ sums' \in [Kinds -> SumsOf(header.shift)]
  /\ UNCHANGED <<alg, k, header, errors, templates, gain, exact>>

TemplateCreate ==
  /\ pc = "template_create" /\ pc' = "while"
  /\ templates' = Created /\ k' = 0
  /\ UNCHANGED <<alg, header, sums, errors, gain, exact>>

\* while(general.k<cnn.learn_loop)
While ==
  /\ pc = "while"
  /\ pc' = IF k < header.learn_loop THEN "cnn_driver 1" ELSE "main"
  /\ UNCHANGED <<alg, k, header, sums, errors, templates, gain, exact>>

\* cnn_driver with the template of layer t, at an error of any size.
CnnDriver(t) ==
  /\ sums' \in [Kinds -> SumsOf(header.shift)]
  /\ gain' = [gain EXCEPT ![t] = [c \in Kinds |-> gain[t][c]
                + Quotient(sums'[c] * header.learn_rate, busFMax * header.shift)]]
  /\ exact' = (exact /\ \A c \in Kinds : LET product == sums'[c] * header.learn_rate
                                         IN s32(product) = product)
  /\ UNCHANGED <<alg, k, header, errors, templates>>

FirstRun == pc = "cnn_driver 1" /\ pc' = "error_get" /\ CnnDriver(1)

ErrorGet ==
  /\ pc = "error_get" /\ pc' = "template_update 1"
  /\ errors' = [c \in Kinds |-> Scaled(sums[c])]
  /\ UNCHANGED <<alg, k, header, sums, templates, gain, exact>>

\* template_update_1d(1), or template_update_2d(1), which calls error_get once more.
FirstUpdate ==
  /\ pc = "template_update 1"
  /\ IF alg = 5
     THEN /\ errors' = [c \in Kinds |-> Scaled(sums[c])]
          /\ templates' = Updated(1, Update2d, errors')
     ELSE UNCHANGED errors /\ templates' = Updated(1, Update1d, errors)
  /\ IF alg = 4 THEN pc' = "cnn_driver 2" /\ k' = k
                ELSE pc' = "while" /\ k' = k + 1
  /\ UNCHANGED <<alg, header, sums, gain, exact>>

\* algorithm4 has no error_get between its second run and its second update.
SecondRun == pc = "cnn_driver 2" /\ pc' = "template_update 2" /\ CnnDriver(2)

SecondUpdate ==
  /\ pc = "template_update 2" /\ pc' = "while"
  /\ templates' = Updated(2, Update1d, errors) /\ k' = k + 1
  /\ UNCHANGED <<alg, header, sums, errors, gain, exact>>

Next ==
  \/ HeaderRead \/ ErrorSend \/ AlgorithmRun \/ Direct \/ TemplateCreate \/ While
  \/ FirstRun \/ ErrorGet \/ FirstUpdate \/ SecondRun \/ SecondUpdate

Spec == Init /\ [][Next]_vars
-----------------------------------------------------------------------------
s16Range == -busHalf..busHalf-1
Learning == alg \in 3..5
Learned == Learning /\ pc = "main"

\* TypeOK: errors and coefficients are s16 values, the sums s32 values.
TypeOK ==
  /\ pc \in {"main", "direct", "template_create", "while", "cnn_driver 1", "error_get",
             "template_update 1", "cnn_driver 2", "template_update 2"}
  /\ alg \in 0..5 /\ k \in Nat
  /\ pc \in {"main", "direct", "template_create"} \/ k <= header.learn_loop
  /\ header \in [learn_rate : LearnRates, shift : Shifts, learn_loop : LearnLoops]
  /\ sums \in [Kinds -> -errorHalf..errorHalf-1]
  /\ errors \in [Kinds -> s16Range] /\ templates \in [Layers -> [Kinds -> s16Range]]
  /\ gain \in [Layers -> [Kinds -> Int]] /\ exact \in BOOLEAN

(***************************************************************************)
(* LearnedExact: when a learning algorithm returns and no product of       *)
(* error_get has overflowed, the first layer's template is, as an s16, the *)
(* sum of the corrections its runs asked for: each run's error was used    *)
(* exactly once, whatever the second layer or template_update_2d's second  *)
(* error_get did in between.                                               *)
(***************************************************************************)
LearnedExact ==
  Learned /\ exact => \A c \in (IF alg = 5 THEN Update2d ELSE Update1d) :
                        templates[1][c] = s16(gain[1][c])

(***************************************************************************)
(* OuterRowsZero: a template learned by a 1d algorithm has zeros outside   *)
(* its middle row, whatever was learned or configured before.              *)
(***************************************************************************)
OuterRowsZero ==
  Learned /\ alg # 5 => \A t \in (IF alg = 4 THEN Layers ELSE {1}) : templates[t][Edge] = 0

(***************************************************************************)
(* SecondLayerCopies: algorithm4 learns the same template twice: the error *)
(* of its second layer's runs, read by nobody (the second error_get is     *)
(* commented out), has no part in what the second layer learns.            *)
(***************************************************************************)
SecondLayerCopies == Learned /\ alg = 4 => templates[2] = templates[1]

(***************************************************************************)
(* LearnedAtAnyRate: the same as LearnedExact for every learning rate a    *)
(* header can carry, as delta in pc_run_algorithm.m is the rate times the  *)
(* error at any rate.                                                      *)
(***************************************************************************)
LearnedAtAnyRate ==
  Learned => templates[1][Mid] = s16(gain[1][Mid])
=============================================================================
