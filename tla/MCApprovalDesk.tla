--------------------------- MODULE MCApprovalDesk ---------------------------
(* ApprovalDesk on small sets: one call that is watched and one that is not. *)
EXTENDS ApprovalDesk
=============================================================================
