------------------------- MODULE MCSocraticDialogue -------------------------
(* SocraticDialogue on a small instance. *)
EXTENDS SocraticDialogue
=============================================================================
