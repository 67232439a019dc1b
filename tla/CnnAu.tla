------------------------------- MODULE CnnAu -------------------------------
(***************************************************************************)
(* cnn_au.vhd: the arithmetic unit's fixed-point datapath.  On a rising    *)
(* edge of calc it registers the results for the patch latched before,     *)
(* the new state x_out and the error sums, and latches the next patch.     *)
(* The ready timer is in CnnStateMachine, the origin of the operands in    *)
(* CnnProcessor.                                                           *)
(*                                                                         *)
(* Values are integers in units of the last bit: 1.0 is busFMax = 2^busF,  *)
(* words are -busHalf..busHalf-1 with busHalf = 2^(busWidth-1).  Of the    *)
(* nine cells of a patch the centre is used in one way and the others in   *)
(* one way: "side" stands for those eight.                                 *)
(***************************************************************************)
EXTENDS Integers

CONSTANTS
  busHalf, busFMax,   \* word range and 1.0
  errorHalf,          \* error sums are -errorHalf..errorHalf-1
  Templates,          \* templates in use: records of A, B and I
  Steps,              \* time steps Ts in use
  Patches,            \* image patches: records of x and u
  Ideals,             \* ideal pixels
  MaxTerms            \* bound: terms summed between two resets (pixels of an image)

Cells == {"mid", "side"}
s16Range == -busHalf..busHalf-1
Borders == -busFMax..busFMax   \* ALUBorderBottom..ALUBorderTop

(***************************************************************************)
(* Images are between -1.0 and 1.0 (cnn_system.m), a step is at most 1.0,  *)
(* and the error words are wide enough for a sum over an image.            *)
(***************************************************************************)
ASSUME AuAssumption ==
  /\ busFMax \in Nat \ {0} /\ busHalf \in Nat /\ busHalf >= 4 * busFMax
  /\ MaxTerms \in Nat /\ errorHalf \in Nat /\ MaxTerms * busFMax < errorHalf
  /\ Templates \subseteq [A : [Cells -> s16Range], B : [Cells -> s16Range], I : s16Range]
  /\ Steps \subseteq 0..busFMax
  /\ Patches \subseteq [x : [Cells -> Borders], u : [Cells -> Borders]]
  /\ Ideals \subseteq Borders

VARIABLES
  template, Ts,                           \* inputs, from the GPIO registers and cnn_commands
  A, B, x, u, ideal,                      \* latched by calc
  x_out,                                  \* registered result
  error_u_reg, error_x_reg, error_i_reg,  \* error sums
  sums,                                   \* history: the error sums in unbounded integers
  terms                                   \* history: terms since the last err_rst

latched == <<A, B, x, u, ideal>>
registered == <<x_out, error_u_reg, error_x_reg, error_i_reg>>
vars == <<template, Ts, A, B, x, u, ideal, x_out, error_u_reg, error_x_reg,
          error_i_reg, sums, terms>>

Zeros == [c \in Cells |-> 0]

Init ==
  /\ template = [A |-> Zeros, B |-> Zeros, I |-> 0] /\ Ts = 0
  /\ A = Zeros /\ B = Zeros /\ x = Zeros /\ u = Zeros /\ ideal = 0
  /\ x_out = 0
  /\ error_u_reg = Zeros /\ error_x_reg = Zeros /\ error_i_reg = 0
  /\ sums = [u |-> Zeros, x |-> Zeros, i |-> 0] /\ terms = 0
-----------------------------------------------------------------------------
Clamp(v, bottom, top) == IF v > top THEN top ELSE IF v < bottom THEN bottom ELSE v

\* The busWidth bits of v; the bits from busF on of a product.
Word(v) == ((v + busHalf) % (2 * busHalf)) - busHalf

SliceToZero(p) ==                                             \* mutant
  Word(IF p < 0 THEN -((-p) \div busFMax) ELSE p \div busFMax)

Slice(p) == Word(p \div busFMax)

\* The assignment of I is outside the clocked branch: the bias follows its input.
I == template.I

mulBiasUnscaled ==                                            \* mutant
  A["mid"] * x["mid"] + A["side"] * x["side"] + B["mid"] * u["mid"]
    + B["side"] * u["side"] + I

\* The last element of the chain of products, 52 bits wide: it cannot overflow.
mul ==
  A["mid"] * x["mid"] + A["side"] * x["side"] + B["mid"] * u["mid"]
    + B["side"] * u["side"] + I * busFMax

\* A*x + B*u + I, saturated to a word: where the cell is heading.
x_temp_1 == Clamp(mul \div busFMax, -busHalf, busHalf - 1)

x_temp_2Narrow == Word(x["mid"] - x_temp_1)                   \* mutant

x_temp_2 == x["mid"] - x_temp_1

x_temp_3 == x_temp_2 * Ts

x_temp_4 ==
  IF x_temp_3 > busFMax * (busHalf - 1) THEN busHalf - 1
  ELSE IF x_temp_3 < -(busFMax * busHalf) THEN -busHalf
  ELSE Slice(x_temp_3)

x_temp_5 == x["mid"] - x_temp_4

\* What x_out takes at the next rising edge of calc.
x_new == Clamp(x_temp_5, -busFMax, busFMax)
-----------------------------------------------------------------------------
\* Half the difference between the ideal pixel and the state at the centre.
error_step1 == Clamp((ideal - x["mid"]) \div 2, -busFMax, busFMax)

ErrorTermOneBitOff(v) ==                                      \* mutant
  Clamp(Word((v * error_step1) \div (2 * busFMax)), -busFMax, busFMax)

\* error_u_step1 and error_x_step1.
ErrorTerm(v) == Clamp(Slice(v * error_step1), -busFMax, busFMax)

\* error_*_step3: saturating addition.
Accumulate(reg, term) == Clamp(reg + term, -errorHalf, errorHalf - 1)

ErrorClock(err_rst) ==
  IF err_rst
  THEN error_u_reg' = Zeros /\ error_x_reg' = Zeros /\ error_i_reg' = 0
  ELSE /\ error_u_reg' = [c \in Cells |-> Accumulate(error_u_reg[c], ErrorTerm(u[c]))]
       /\ error_x_reg' = [c \in Cells |-> Accumulate(error_x_reg[c], ErrorTerm(x[c]))]
       /\ error_i_reg' = Accumulate(error_i_reg, error_step1)

\* History: the same sums as pc_run_algorithm.m forms them, rounded down, without limits.
HalfError == (ideal - x["mid"]) \div 2
Product(v) == (v * HalfError) \div busFMax

SumsClock(err_rst) ==
  IF err_rst
  THEN sums' = [u |-> Zeros, x |-> Zeros, i |-> 0] /\ terms' = 0
  ELSE /\ sums' = [u |-> [c \in Cells |-> sums.u[c] + Product(u[c])],
                   x |-> [c \in Cells |-> sums.x[c] + Product(x[c])],
                   i |-> sums.i + HalfError]
       /\ terms' = terms + 1

CalcUnlimited(patch, ideal_line, err_rst) ==                  \* mutant
  /\ ~err_rst => terms < MaxTerms
  /\ x_out' = Word(x_temp_5)
  /\ ErrorClock(err_rst) /\ SumsClock(err_rst)
  /\ A' = template.A /\ B' = template.B
  /\ x' = patch.x /\ u' = patch.u /\ ideal' = ideal_line
  /\ UNCHANGED <<template, Ts>>

\* A rising edge of calc, with what the state machine and the caches present.
Calc(patch, ideal_line, err_rst) ==
  /\ ~err_rst => terms < MaxTerms
  /\ x_out' = x_new
  /\ ErrorClock(err_rst) /\ SumsClock(err_rst)
  /\ A' = template.A /\ B' = template.B
  /\ x' = patch.x /\ u' = patch.u /\ ideal' = ideal_line
  /\ UNCHANGED <<template, Ts>>

\* template_set and the Ts register of cnn_commands, between runs.
Configure ==
  /\ template' \in Templates /\ Ts' \in Steps
  /\ UNCHANGED <<latched, registered, sums, terms>>

Next ==
  \/ \E patch \in Patches, ideal_line \in Ideals, err_rst \in BOOLEAN :
       Calc(patch, ideal_line, err_rst)
  \/ Configure

Spec == Init /\ [][Next]_vars
-----------------------------------------------------------------------------
ErrorRange == -errorHalf..errorHalf-1

\* Every register holds a value of its type; x_out is a pixel value between -1.0 and 1.0.
TypeOK ==
  /\ template \in [A : [Cells -> s16Range], B : [Cells -> s16Range], I : s16Range]
  /\ Ts \in 0..busFMax
  /\ A \in [Cells -> s16Range] /\ B \in [Cells -> s16Range]
  /\ x \in [Cells -> Borders] /\ u \in [Cells -> Borders] /\ ideal \in Borders
  /\ x_out \in Borders
  /\ error_u_reg \in [Cells -> ErrorRange] /\ error_x_reg \in [Cells -> ErrorRange]
  /\ error_i_reg \in ErrorRange
  /\ sums \in [u : [Cells -> Int], x : [Cells -> Int], i : Int] /\ terms \in 0..MaxTerms

(***************************************************************************)
(* The step of cnn_system.m, x - Ts*(x - (A*x+B*u+I)), in units of         *)
(* 1/busFMax^2 of a bit, and limited to -1.0..1.0 as it is there.          *)
(***************************************************************************)
Unit == busFMax * busFMax
WeightedSum ==   \* Ax+Bu+I
  I * busFMax + A["mid"] * x["mid"] + A["side"] * x["side"]
    + B["mid"] * u["mid"] + B["side"] * u["side"]
EulerStep == x["mid"] * Unit - Ts * (x["mid"] * busFMax - WeightedSum)
Reference == Clamp(EulerStep, -(busFMax * Unit), busFMax * Unit)

(***************************************************************************)
(* StepAccurate: as long as A*x+B*u+I is a word, the new state is within   *)
(* one bit of the step cnn_system.m computes in floating point, through    *)
(* two truncations and three saturations.                                  *)
(***************************************************************************)
StepAccurate ==
  WeightedSum \div busFMax \in s16Range =>
    /\ x_new * Unit - Reference < Unit
    /\ Reference - x_new * Unit < Unit

\* The value the cell is heading for, as far as a state can follow it.
Target == Clamp(x_temp_1, -busFMax, busFMax)

(***************************************************************************)
(* NoOvershoot: with a time step of at most 1.0 the new state lies between *)
(* the old one and the target; a saturated sum or product slows a cell     *)
(* down but never sends it the wrong way or past the target.               *)
(***************************************************************************)
NoOvershoot ==
  \/ x["mid"] <= x_new /\ x_new <= Target
  \/ Target <= x_new /\ x_new <= x["mid"]

(***************************************************************************)
(* StopsAtTarget: a step that leaves the state as it was has reached its   *)
(* target, or is above it by less than 1/Ts bits (the product is rounded   *)
(* down), or is at a border with the target beyond it; never below it.     *)
(***************************************************************************)
StopsAtTarget ==
  x_new = x["mid"] =>
    \/ 0 <= x_temp_3 /\ x_temp_3 < busFMax
    \/ x["mid"] = busFMax /\ x_temp_1 > busFMax
    \/ x["mid"] = -busFMax /\ x_temp_1 < -busFMax

(***************************************************************************)
(* ErrorSumsExact: no limit of the error path is met within an image: the  *)
(* registers hold exactly the sums of the rounded-down products since the  *)
(* last reset, which error_get takes for the gradient of the image.        *)
(***************************************************************************)
ErrorSumsExact ==
  /\ error_u_reg = sums.u /\ error_x_reg = sums.x /\ error_i_reg = sums.i
=============================================================================
