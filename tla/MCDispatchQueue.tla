-------------------------- MODULE MCDispatchQueue --------------------------
(* DispatchQueue on a small instance.  Presses are numbered in the order   *)
(* they are made, so no symmetry applies to them.                          *)
EXTENDS DispatchQueue
=============================================================================
