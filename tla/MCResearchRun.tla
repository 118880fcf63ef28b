---- MODULE MCResearchRun ----
(***************************************************************************)
(* Small instances of ResearchRun for TLC.                                 *)
(***************************************************************************)
EXTENDS ResearchRun
====
