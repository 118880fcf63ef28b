--------------------------- MODULE MCSessionTurns ---------------------------
(* SessionTurns for TLC.  Turns and cancellers are model values of the      *)
(* configuration; liveness is checked, so no symmetry is declared.          *)
EXTENDS SessionTurns
=============================================================================
