------------------------- MODULE MCCnnStateMachine -------------------------
(***************************************************************************)
(* CnnStateMachine for images of one to three columns and three or four    *)
(* rows (three is the smallest height the raster supports), and one to     *)
(* three iterations.                                                       *)
(***************************************************************************)
EXTENDS CnnStateMachine

MCDims == {<<1, 3>>, <<2, 3>>, <<3, 3>>, <<2, 4>>, <<3, 4>>}
MCIters == 0..2
=============================================================================
