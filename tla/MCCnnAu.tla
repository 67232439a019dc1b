------------------------------ MODULE MCCnnAu ------------------------------
(***************************************************************************)
(* CnnAu with words of five bits in Q3.2 (1.0 is 4), templates whose sums  *)
(* stay inside, reach and leave the word, and steps of 0.25, 0.75 and 1.0. *)
(***************************************************************************)
EXTENDS CnnAu

Pair(mid, side) == [c \in Cells |-> IF c = "mid" THEN mid ELSE side]

MCTemplates ==
  {[A |-> Pair(8, 0), B |-> Pair(4, -4), I |-> -2],
   [A |-> Pair(-16, 15), B |-> Pair(15, -16), I |-> -16],
   [A |-> Pair(15, 0), B |-> Pair(15, 15), I |-> 15]}

MCSteps == {1, 3, 4}

MCPatches ==
  [x : {Pair(4, 4), Pair(-4, -4), Pair(3, -4), Pair(-1, 2)},
   u : {Pair(4, -4), Pair(-3, 1)}]

MCIdeals == {-4, 3}
=============================================================================
