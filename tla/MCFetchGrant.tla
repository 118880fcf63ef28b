---------------------------- MODULE MCFetchGrant ----------------------------
(***************************************************************************)
(* FetchGrant for TLC.  Every constant is a number, given in the           *)
(* configurations; calls are numbered in the order they are made, so no    *)
(* symmetry applies.                                                       *)
(***************************************************************************)
EXTENDS FetchGrant
=============================================================================
