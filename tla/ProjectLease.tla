---------------------------- MODULE ProjectLease ----------------------------
(***************************************************************************)
(* What a project promises its clients: an exclusive lease on one line of  *)
(* work.  A session holds the project at most once, holders follow one     *)
(* another, and a project is retired only while nobody holds it.           *)
(***************************************************************************)
EXTENDS Sequences

CONSTANTS Sessions, NoSession

VARIABLES
  status,   \* "new", "created", "archived" or "deleted"
  holder,   \* the session holding the project, or NoSession
  custody   \* every session that ever held it, in order

vars == <<status, holder, custody>>

Init == status = "new" /\ holder = NoSession /\ custody = <<>>

Create == status = "new" /\ status' = "created" /\ UNCHANGED <<holder, custody>>

Acquire(s) ==
  /\ status = "created"
  /\ holder = NoSession
  /\ \A i \in DOMAIN custody : custody[i] # s
  /\ holder' = s
  /\ custody' = Append(custody, s)
  /\ UNCHANGED status

GiveBack ==
  /\ holder # NoSession
  /\ holder' = NoSession
  /\ UNCHANGED <<status, custody>>

Retire(next) ==
  /\ holder = NoSession
  /\ \/ status = "created"  /\ next \in {"archived", "deleted"}
     \/ status = "archived" /\ next \in {"created", "deleted"}
  /\ status' = next
  /\ UNCHANGED <<holder, custody>>

Next ==
  \/ Create
  \/ \E s \in Sessions : Acquire(s)
  \/ GiveBack
  \/ \E next \in {"created", "archived", "deleted"} : Retire(next)

Spec == Init /\ [][Next]_vars

=============================================================================
