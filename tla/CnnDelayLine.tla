---------------------------- MODULE CnnDelayLine ----------------------------
(***************************************************************************)
(* What the L1 line buffer promises to the cellular array: a delay line of *)
(* exactly cacheWidth words.  A word pushed now leaves cacheWidth pushes   *)
(* later, so that the three buffers in series present three consecutive    *)
(* image rows to the arithmetic unit.  Nothing is promised about the words *)
(* in the line when the width changes.                                     *)
(***************************************************************************)
EXTENDS Naturals

CONSTANTS cacheWidthMAX, Widths, Data, Zero

VARIABLES
  cacheWidth,  \* length of the line
  line,        \* line[k] is the word pushed k pushes ago
  q            \* the word that left the line at the last push

vars == <<cacheWidth, line, q>>

Init ==
  /\ cacheWidth = cacheWidthMAX
  /\ line = [k \in 1..cacheWidthMAX |-> Zero]
  /\ q = Zero

Push(d) ==
  /\ q' = line[cacheWidth]
  /\ line' = [k \in 1..cacheWidth |-> IF k = 1 THEN d ELSE line[k-1]]
  /\ UNCHANGED cacheWidth

Resize(w) ==
  /\ cacheWidth' = w
  /\ line' \in [1..w -> Data]
  /\ UNCHANGED q

Next ==
  \/ \E d \in Data : Push(d)
  \/ \E w \in Widths : Resize(w)

Spec == Init /\ [][Next]_vars
=============================================================================
