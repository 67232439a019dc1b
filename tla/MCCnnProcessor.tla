--------------------------- MODULE MCCnnProcessor ---------------------------
(***************************************************************************)
(* CnnProcessor for two consecutive runs on images of up to 5x3 and        *)
(* 4x4 pixels, and for one cut at any clock followed by two runs.          *)
(***************************************************************************)
EXTENDS CnnProcessor_proofs

MCDims == {<<2, 3>>, <<4, 3>>, <<4, 4>>, <<5, 3>>}
MCIters == 0..2
MCCutRuns == {<<2, 3, 0>>, <<2, 3, 2>>, <<4, 3, 1>>}
=============================================================================
