----------------------------- MODULE MCCnnRand -----------------------------
(***************************************************************************)
(* CnnRand with draws at seven phases of the register.                     *)
(***************************************************************************)
EXTENDS CnnRand

MCDrawAt == {2, 3, 100, 101, 512, 700, 1022}
=============================================================================
