------------------------- MODULE MCProjectionRunner -------------------------
(* ProjectionRunner on small sets. *)
EXTENDS ProjectionRunner
=============================================================================
