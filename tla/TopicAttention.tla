--------------------------- MODULE TopicAttention ---------------------------
(***************************************************************************)
(* Which topics of a project want looking at, and why: the trigger         *)
(* registry of research/application/topic_attention.py over the folded     *)
(* state of a topic (research/domain/topic_decider.py, evolve) and a       *)
(* corpus snapshot, and the queue infrastructure/persistence/topics.py     *)
(* computes from them.  Nothing here is stored: attention is a function of *)
(* what a reader is handed, and the reader may be handed an old copy.      *)
(*                                                                         *)
(* The standing triggers are told apart only by how they rank: "blocking"  *)
(* stands for an open sub-question, an unresolved contest or a dropped     *)
(* source, "advisory" for a topic resting on too few live sources.  None   *)
(* of them is cleared by a look, only by work.  Acknowledgements, a linked *)
(* source being replaced, and whether new material is linked already, are  *)
(* left out.                                                               *)
(***************************************************************************)
EXTENDS Integers

CONSTANTS
  NTopics,       \* the topics, numbered in the order they were created
  ThrashLooks    \* DEFAULT_THRASH_LOOKS

ASSUME AttentionAssumption ==
  /\ NTopics \in Nat
  /\ ThrashLooks \in Nat \ {0}

Topics == 1 .. NTopics

Standing == {"none", "advisory", "blocking"}

(***************************************************************************)
(* "live" is open or investigating, "closed" any status after them.  looks *)
(* stops counting at ThrashLooks, the largest number a trigger compares it *)
(* with; fresh says the finding count is above the one the last look       *)
(* snapshotted, which is all findings_at_last_investigation is read for.   *)
(***************************************************************************)
TopicState ==
  [status : {"new", "live", "closed"}, looks : 0 .. ThrashLooks, at : Nat,
   standing : Standing, fresh : BOOLEAN]

NewTopic ==
  [status |-> "new", looks |-> 0, at |-> 0,
   standing |-> "none", fresh |-> FALSE]

-----------------------------------------------------------------------------
(***************************************************************************)
(* evolve: what each fact does to the topic.  A fact is on a topic's       *)
(* stream, a piece of work being told by the standing it leaves and a look *)
(* carrying the position it was stamped with; or, of no topic, it is a     *)
(* source stored, at a position of the corpus.                             *)
(***************************************************************************)
Kinds == {"opened", "found", "looked", "live", "closed", "stored"} \cup Standing

Fact ==
  {f \in [of : Topics \cup {0}, kind : Kinds, position : Nat] :
     f.of = 0 <=> f.kind = "stored"}

Opened(s) == [s EXCEPT !.status = "live", !.standing = "advisory"]

FindingRecorded(s) == [s EXCEPT !.fresh = TRUE]

WorkedOn(s, standing) == [s EXCEPT !.standing = standing]

Investigated(s, position) ==
  [s EXCEPT !.looks = IF @ < ThrashLooks THEN @ + 1 ELSE @,
            !.at = position,
            !.fresh = FALSE]

StatusChanged(s, status) == [s EXCEPT !.status = status]

Evolve(s, f) ==
  CASE f.kind = "opened" -> Opened(s)
    [] f.kind = "found" -> FindingRecorded(s)
    [] f.kind = "looked" -> Investigated(s, f.position)
    [] f.kind \in Standing -> WorkedOn(s, f.kind)
    [] OTHER -> StatusChanged(s, f.kind)

\* What a fact does to a copy of the topics and the corpus.
Told(v, f) ==
  IF f.kind = "stored" THEN [v EXCEPT !.corpus = f.position]
  ELSE [v EXCEPT !.topic[f.of] = Evolve(@, f)]

-----------------------------------------------------------------------------
\* attention_for: the triggers one topic raises against one corpus position.

NeverInvestigated(s) == s.looks = 0

NewMaterial(s, corpus) == s.looks > 0 /\ corpus > s.at

ReworkThrash(s) == s.looks >= ThrashLooks /\ ~ s.fresh

Triggers == {"never", "standing", "low_coverage", "material", "thrash"}

Raised(s, corpus) ==
  {trigger \in Triggers :
     \/ trigger = "never" /\ NeverInvestigated(s)
     \/ trigger = "standing" /\ s.standing = "blocking"
     \/ trigger = "low_coverage" /\ s.standing = "advisory"
     \/ trigger = "material" /\ NewMaterial(s, corpus)
     \/ trigger = "thrash" /\ ReworkThrash(s)}

Attention(s, corpus) == IF s.status = "live" THEN Raised(s, corpus) ELSE {}

IsBlocked(s, corpus) == Attention(s, corpus) \cap {"never", "standing"} # {}

(***************************************************************************)
(* TopicQueue.evaluate over one copy of the tables: blocking topics first, *)
(* then the oldest.                                                        *)
(***************************************************************************)
Waiting(v) == {t \in Topics : Attention(v.topic[t], v.corpus) # {}}

Outranks(v, t, u) ==
  LET blocked(x) == IsBlocked(v.topic[x], v.corpus) IN
  \/ blocked(t) /\ ~ blocked(u)
  \/ (blocked(t) <=> blocked(u)) /\ t < u

Heads(v) == {t \in Waiting(v) : \A u \in Waiting(v) \ {t} : Outranks(v, t, u)}
=============================================================================
