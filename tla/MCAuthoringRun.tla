--------------------------- MODULE MCAuthoringRun ---------------------------
(* AuthoringRun on a small instance.  Runs and targets are numbered in the *)
(* order they come, so no symmetry applies.                                *)
EXTENDS AuthoringRun
=============================================================================
