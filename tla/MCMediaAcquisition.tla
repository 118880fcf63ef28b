------------------------- MODULE MCMediaAcquisition -------------------------
(* MediaAcquisition on small sets. *)
EXTENDS MediaAcquisition
=============================================================================
