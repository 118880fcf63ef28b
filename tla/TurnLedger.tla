----------------------------- MODULE TurnLedger -----------------------------
(***************************************************************************)
(* What a session's log promises of a turn, whatever runs beside it: its   *)
(* events land whole or not at all, a turn that did not land may leave one *)
(* marker of the attempt, and either way it is decided once.               *)
(***************************************************************************)
CONSTANT Turns

VARIABLE fate   \* fate[t]: what the log holds of turn t

Fate == {"open", "recorded", "marked", "void"}

Init == fate = [t \in Turns |-> "open"]

Decide(t) ==
  /\ fate[t] = "open"
  /\ \E verdict \in {"recorded", "marked", "void"} :
       fate' = [fate EXCEPT ![t] = verdict]

Next == \E t \in Turns : Decide(t)

Spec == Init /\ [][Next]_fate

=============================================================================
