--------------------------- MODULE MCCnnLearning ---------------------------
(***************************************************************************)
(* Small instance of CnnLearning: s16 as 4 bits, s32 as 8 bits, Q2.2.  A   *)
(* pixel's error is at most busFMax, so an image of area shift gives sums  *)
(* up to 4*shift; at shift 16 and rate 4 (1.0) the product overflows, at   *)
(* shift 4 it does not, as 128x128 and 30x3 images do in the real widths.  *)
(***************************************************************************)
EXTENDS CnnLearning

MCSumsOf(shift) == {-(4 * shift - 1), 4 * shift}
MCRates == {1, 4}
MCShifts == {4, 16}
MCLoops == {0, 2}
=============================================================================
