----------------------------- MODULE MCCnnFifo -----------------------------
(***************************************************************************)
(* CnnFifo with a ring of five positions (cacheWidthMAX = 4, pointers of   *)
(* three bits), every width up to it, and two word values.                 *)
(***************************************************************************)
EXTENDS CnnFifo

MCWidths == 1..4
MCData == {0, 1}
=============================================================================
