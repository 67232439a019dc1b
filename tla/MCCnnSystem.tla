---------------------------- MODULE MCCnnSystem ----------------------------
(***************************************************************************)
(* CnnSystem for images of one or two columns and three rows; a host that  *)
(* asks for zero (65536 in the code), one or two iterations and up to two  *)
(* learning loops.                                                         *)
(***************************************************************************)
EXTENDS CnnSystem_proofs

MCDims == {<<1, 3>>, <<2, 3>>}
MCHostIters == {0, 1, 2}
MCIters == {0, 1, 3}
MCLearnLoops == {2}
MCNarrow == {<<1, 3>>}
MCOnce == {1}
MCOneLoop == {1}
=============================================================================
