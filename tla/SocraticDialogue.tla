-------------------------- MODULE SocraticDialogue --------------------------
(***************************************************************************)
(* One Socratic dialogue: its stream, the table that follows the stream,   *)
(* and the registry's entry for it, which is a cache of the turns.         *)
(*                                                                         *)
(* A reply takes the dialogue's slot, finds the turns so far in the cache  *)
(* or else in the table, hands them to the model, and records what came    *)
(* back as one save of the stream.  An attempt at a component, and the     *)
(* reader's wish to end, write to the same stream without the slot.  Every *)
(* save compares the version it loaded.                                    *)
(*                                                                         *)
(* Abstractions.  A turn is the reply that drew it.  An assessment of the  *)
(* model's rides with its turn and is left out.  The entry leaves the      *)
(* registry when 64 other dialogues were used since, or after an hour: at  *)
(* any time.  The table has the dialogue's row, with a count of its turns, *)
(* and a row for each turn.  The projection handles one event after        *)
(* another and writes its checkpoint after each; a restart between the two *)
(* handles the event again, and one that no retry gets through is filed    *)
(* and passed over.  DialogueInit is the dialogue after begin, which       *)
(* framed it, saved it and cached it.                                      *)
(***************************************************************************)
EXTENDS Integers, Sequences, FiniteSets, SequencesExt

CONSTANTS
  NReplies,   \* bound: replies asked for, by anyone
  Attempts,   \* components marked
  Enders,     \* times the reader asks to end
  MaxRestarts, \* bound: restarts of the process
  MaxLapses,  \* bound: events whose handler fails for good
  None        \* no entry, and nobody in the slot

\* Replies are numbered in the order they come.
Replies == 1..NReplies

Workers == Replies \union Attempts \union Enders

ASSUME WorkersAssumption ==
  /\ None \notin Workers
  /\ Replies \intersect Attempts = {} /\ Replies \intersect Enders = {}
  /\ Attempts \intersect Enders = {}
ASSUME DialogueBounds == MaxRestarts \in Nat /\ MaxLapses \in Nat /\ NReplies \in Nat

VARIABLES
  log,      \* the stream: who wrote each event, and what it says
  seen,     \* the checkpoint: how many events of it were handled
  handling, \* where the handler of the next one is
  row,      \* the dialogue's row: its status, or none
  count,    \* its turn_count
  stored,   \* the turns' rows, by position
  cache,    \* the turns of the registry's entry, or None
  slot,     \* the reply in _running, or None
  pc,       \* pc[w]: the await worker w is at
  history,  \* history[r]: the turns reply r is asked with
  base,     \* base[w]: the version w loaded
  progress, \* attempts in the reader's LearnerProgress
  answered, \* history: replies whose answer was handed over
  stale,    \* history: whether the entry lacks a turn its reader left
  excused,  \* history: replies asked with other turns than the stream's
  twice,    \* history: turns a restart may have let the handler take again
  missed,   \* history: turns filed, or dropped as the dialogue has no row
  lapses, restarts

table == <<row, count, stored>>
projection == <<seen, handling, table, twice, missed, lapses>>
shown == <<progress, answered>>
why == <<stale, excused>>
dialogueVars == <<log, projection, cache, slot, pc, history, base, shown, why, restarts>>

Event == [kind : {"started", "turn", "observed", "concluded"}, by : Workers \union {None}]

Busy == {"row", "turns", "opened", "asking", "loading", "saving", "saved", "told"}

DialogueTypes ==
  /\ log \in Seq(Event)
  /\ seen \in 0..Len(log) /\ handling \in {"due", "stored", "handled"}
  /\ row \in {"none", "open", "concluded"}
  /\ stored \in Seq(Replies) /\ count \in Nat /\ Len(stored) \in {count, count + 1}
  /\ twice \subseteq Replies /\ missed \subseteq Replies
  /\ lapses \in 0..MaxLapses
  /\ cache = None \/ cache \in Seq(Replies)
  /\ slot \in Replies \union {None}
  /\ pc \in [Workers -> {"new", "over", "scoring", "forgetting"} \union Busy]
  /\ history \in [Replies -> Seq(Replies)]
  /\ base \in [Workers -> 0..Len(log)]
  /\ progress \subseteq Attempts /\ answered \subseteq Replies
  /\ stale \in BOOLEAN /\ excused \subseteq Replies
  /\ restarts \in 0..MaxRestarts

DialogueInit ==
  /\ log = <<[kind |-> "started", by |-> None]>>
  /\ seen = 0 /\ handling = "due"
  /\ row = "none" /\ count = 0 /\ stored = <<>>
  /\ twice = {} /\ missed = {} /\ lapses = 0
  /\ cache = <<>> /\ slot = None
  /\ pc = [w \in Workers |-> "new"]
  /\ history = [r \in Replies |-> <<>>]
  /\ base = [w \in Workers |-> 0]
  /\ progress = {} /\ answered = {}
  /\ stale = FALSE /\ excused = {}
  /\ restarts = 0

Go(w, place) == pc' = [pc EXCEPT ![w] = place]

\* The element of a set that has one.
Only(S) == CHOOSE x \in S : TRUE

\* The turns of a prefix of the stream, the n-th of which is the one with n
\* turns up to it, and whether it says concluded.
TurnsIn(events) ==
  LET turns == {i \in DOMAIN events : events[i].kind = "turn"}
      Nth(n) == {i \in turns : Cardinality({j \in turns : j <= i}) = n} IN
  [n \in 1..Cardinality(turns) |-> Only({events[i].by : i \in Nth(n)})]

Concluded(events) == \E i \in DOMAIN events : events[i].kind = "concluded"

(***************************************************************************)
(* A reply: SocraticDialogueService.respond.                               *)
(***************************************************************************)
\* Everything that leaves respond frees the slot in its outer finally.
Leave(r) == Go(r, "over") /\ slot' = None

\* One reply at a time; the cached turns are taken without looking at the row.
Respond(r) ==
  /\ pc[r] = "new" /\ \A q \in 1..(r - 1) : pc[q] # "new"
  /\ \/ slot # None /\ Go(r, "over") /\ UNCHANGED <<slot, history, excused>>
     \/ /\ slot = None /\ slot' = r
        /\ \/ cache = None /\ Go(r, "row") /\ UNCHANGED <<history, excused>>
           \/ /\ cache # None /\ Go(r, "opened")
              /\ history' = [history EXCEPT ![r] = cache]
              /\ excused' = IF stale THEN excused \union {r} ELSE excused
  /\ UNCHANGED <<log, projection, cache, base, shown, stale, restarts>>

\* No row is an unknown dialogue; a concluded row is refused.
ReadRow(r) ==
  /\ pc[r] = "row"
  /\ IF row # "open" THEN Leave(r) ELSE Go(r, "turns") /\ UNCHANGED slot
  /\ UNCHANGED <<log, projection, cache, history, base, shown, why, restarts>>

ReadTurns(r) ==
  /\ pc[r] = "turns"
  /\ history' = [history EXCEPT ![r] = stored]
  /\ excused' = IF stored # TurnsIn(log) THEN excused \union {r} ELSE excused
  /\ Go(r, "opened")
  /\ UNCHANGED <<log, projection, cache, slot, base, shown, stale, restarts>>

Ask(r) ==
  /\ pc[r] = "opened"
  /\ Go(r, "asking")
  /\ UNCHANGED <<log, projection, cache, slot, history, base, shown, why, restarts>>

ModelAnswers(r) ==
  /\ pc[r] = "asking"
  /\ Go(r, "loading")
  /\ UNCHANGED <<log, projection, cache, slot, history, base, shown, why, restarts>>

\* A mutant of Fail: the slot is freed where the answer is handed over, only.
FailHolding(r) ==
  /\ pc[r] \in Busy \ {"opened", "saved", "told"}
  /\ Go(r, "over")
  /\ UNCHANGED <<log, projection, cache, slot, history, base, shown, why, restarts>>

\* The model, a read, a load or a save raises.
Fail(r) ==
  /\ pc[r] \in Busy \ {"opened", "saved", "told"}
  /\ Leave(r)
  /\ UNCHANGED <<log, projection, cache, history, base, shown, why, restarts>>

\* A mutant of LoadReply: what decide says of a concluded stream is dropped.
LoadReplyOpen(r) ==
  /\ pc[r] = "loading"
  /\ base' = [base EXCEPT ![r] = Len(log)]
  /\ Go(r, "saving") /\ UNCHANGED slot
  /\ UNCHANGED <<log, projection, cache, history, shown, why, restarts>>

\* _record loads the stream, and a concluded one refuses the turn.
LoadReply(r) ==
  /\ pc[r] = "loading"
  /\ base' = [base EXCEPT ![r] = Len(log)]
  /\ IF Concluded(log) THEN Leave(r) ELSE Go(r, "saving") /\ UNCHANGED slot
  /\ UNCHANGED <<log, projection, cache, history, shown, why, restarts>>

Current(w) == Len(log) = base[w]

\* The turn, and the conclusion if the model found its goal met.
SaveReply(r) ==
  /\ pc[r] = "saving" /\ Current(r)
  /\ \E met \in BOOLEAN :
       log' = log \o <<[kind |-> "turn", by |-> r]>>
                  \o (IF met THEN <<[kind |-> "concluded", by |-> r]>> ELSE <<>>)
  /\ Go(r, "saved")
  /\ UNCHANGED <<projection, cache, slot, history, base, shown, why, restarts>>

LoseReply(r) ==
  /\ pc[r] = "saving" /\ ~Current(r)
  /\ Leave(r)
  /\ UNCHANGED <<log, projection, cache, history, base, shown, why, restarts>>

\* The save is back: the entry is put, and the answer handed over.
Remember(r) ==
  /\ pc[r] = "saved"
  /\ cache' = Append(history[r], r)
  /\ stale' = (r \in excused)
  /\ answered' = answered \union {r}
  /\ Go(r, "told")
  /\ UNCHANGED <<log, projection, slot, history, base, progress, excused, restarts>>

Finish(r) ==
  /\ pc[r] = "told"
  /\ Leave(r)
  /\ UNCHANGED <<log, projection, cache, history, base, shown, why, restarts>>

\* The reader is gone: the generator ends where it is.  A turn that was saved
\* stays on the stream, and out of the entry.
Abandon(r) ==
  /\ pc[r] \in Busy
  /\ Leave(r)
  /\ stale' = (stale \/ (pc[r] = "saved" /\ cache # None))
  /\ UNCHANGED <<log, projection, cache, history, base, shown, excused, restarts>>

(***************************************************************************)
(* An attempt: the observation on the dialogue's stream first, then the    *)
(* reader's progress, which is another stream.                             *)
(***************************************************************************)
Load(w) ==
  /\ base' = [base EXCEPT ![w] = Len(log)]
  /\ Go(w, IF Concluded(log) THEN "over" ELSE "saving")

Lose(w) == pc[w] = "saving" /\ ~Current(w) /\ Go(w, "over")

\* The turn that is marked is one the table has.
BeginAttempt(a) ==
  /\ pc[a] = "new" /\ row # "none" /\ stored # <<>>
  /\ Go(a, "loading")
  /\ UNCHANGED <<log, projection, cache, slot, history, base, shown, why, restarts>>

LoadAttempt(a) ==
  /\ pc[a] = "loading"
  /\ Load(a)
  /\ UNCHANGED <<log, projection, cache, slot, history, shown, why, restarts>>

\* A mutant of Observe: the progress is written before the observation.
ObserveAfter(a) ==
  /\ pc[a] = "saving" /\ Current(a)
  /\ progress' = progress \union {a}
  /\ Go(a, "scoring")
  /\ UNCHANGED <<log, projection, cache, slot, history, base, answered, why, restarts>>

Observe(a) ==
  /\ pc[a] = "saving" /\ Current(a)
  /\ log' = Append(log, [kind |-> "observed", by |-> a])
  /\ Go(a, "scoring")
  /\ UNCHANGED <<projection, cache, slot, history, base, shown, why, restarts>>

Score(a) ==
  /\ pc[a] = "scoring"
  /\ progress' = progress \union {a}
  /\ Go(a, "over")
  /\ UNCHANGED <<log, projection, cache, slot, history, base, answered, why, restarts>>

FailAttempt(a) ==
  /\ Lose(a) \/ (pc[a] \in {"loading", "saving", "scoring"} /\ Go(a, "over"))
  /\ UNCHANGED <<log, projection, cache, slot, history, base, shown, why, restarts>>

(***************************************************************************)
(* The end, because the reader says so.                                    *)
(***************************************************************************)
BeginEnd(e) ==
  /\ pc[e] = "new" /\ row # "none"
  /\ Go(e, "loading")
  /\ UNCHANGED <<log, projection, cache, slot, history, base, shown, why, restarts>>

LoadEnd(e) ==
  /\ pc[e] = "loading"
  /\ Load(e)
  /\ UNCHANGED <<log, projection, cache, slot, history, shown, why, restarts>>

Conclude(e) ==
  /\ pc[e] = "saving" /\ Current(e)
  /\ log' = Append(log, [kind |-> "concluded", by |-> e])
  /\ Go(e, "forgetting")
  /\ UNCHANGED <<projection, cache, slot, history, base, shown, why, restarts>>

FailEnd(e) ==
  /\ Lose(e) \/ (pc[e] \in {"loading", "saving"} /\ Go(e, "over"))
  /\ UNCHANGED <<log, projection, cache, slot, history, base, shown, why, restarts>>

Forget(e) ==
  /\ pc[e] = "forgetting"
  /\ cache' = None /\ stale' = FALSE
  /\ Go(e, "over")
  /\ UNCHANGED <<log, projection, slot, history, base, shown, excused, restarts>>

(***************************************************************************)
(* The registry, the projection, the process.                              *)
(***************************************************************************)
Evict ==
  /\ cache # None
  /\ cache' = None /\ stale' = FALSE
  /\ UNCHANGED <<log, projection, slot, pc, history, base, shown, excused, restarts>>

\* The projection's steps leave the service alone.
ServiceStays == UNCHANGED <<log, cache, slot, pc, history, base, shown, why, restarts>>

Arrives(kind) == handling = "due" /\ seen < Len(log) /\ log[seen + 1].kind = kind

\* The row of the dialogue, with no turn.
StartRow ==
  /\ Arrives("started")
  /\ row' = "open" /\ count' = 0 /\ handling' = "handled"
  /\ UNCHANGED <<seen, stored, twice, missed, lapses>> /\ ServiceStays

\* A turn of a dialogue that has no row is dropped.
DropTurn ==
  /\ Arrives("turn") /\ row = "none"
  /\ missed' = missed \union {log[seen + 1].by} /\ handling' = "handled"
  /\ UNCHANGED <<seen, table, twice, lapses>> /\ ServiceStays

\* A mutant of StoreTurn: the position is that of the last row and one.
StoreTurnAfter ==
  /\ Arrives("turn") /\ row # "none"
  /\ stored' = Append(stored, log[seen + 1].by)
  /\ handling' = "stored"
  /\ UNCHANGED <<seen, row, count, twice, missed, lapses>> /\ ServiceStays

\* record: the turn is saved at the position that the row counts, over what is there.
StoreTurn ==
  /\ Arrives("turn") /\ row # "none"
  /\ stored' = Append(SubSeq(stored, 1, count), log[seen + 1].by)
  /\ handling' = "stored"
  /\ UNCHANGED <<seen, row, count, twice, missed, lapses>> /\ ServiceStays

\* Then the row is, with one turn more.
CountTurn ==
  /\ handling = "stored"
  /\ count' = count + 1 /\ handling' = "handled"
  /\ UNCHANGED <<seen, row, stored, twice, missed, lapses>> /\ ServiceStays

\* An observation is kept in the row; a conclusion closes it.
HandleNote ==
  /\ \/ Arrives("observed") /\ UNCHANGED row
     \/ Arrives("concluded") /\ row' = IF row = "none" THEN "none" ELSE "concluded"
  /\ handling' = "handled"
  /\ UNCHANGED <<seen, count, stored, twice, missed, lapses>> /\ ServiceStays

\* The retries are used up, before or between the two saves: the event is passed over.
FileEvent ==
  /\ handling \in {"due", "stored"} /\ seen < Len(log)
  /\ lapses < MaxLapses /\ lapses' = lapses + 1
  /\ missed' = IF log[seen + 1].kind = "turn" THEN missed \union {log[seen + 1].by} ELSE missed
  /\ handling' = "handled"
  /\ UNCHANGED <<seen, table, twice>> /\ ServiceStays

SaveCheckpoint ==
  /\ handling = "handled"
  /\ seen' = seen + 1 /\ handling' = "due"
  /\ UNCHANGED <<table, twice, missed, lapses>> /\ ServiceStays

Project ==
  StartRow \/ DropTurn \/ StoreTurn \/ CountTurn \/ HandleNote \/ FileEvent \/ SaveCheckpoint

\* What was handled past the checkpoint is handled again.
Restart ==
  /\ restarts < MaxRestarts
  /\ restarts' = restarts + 1
  /\ pc' = [w \in Workers |-> IF pc[w] = "new" THEN "new" ELSE "over"]
  /\ cache' = None /\ stale' = FALSE /\ slot' = None
  /\ handling' = "due"
  /\ twice' = IF handling = "handled" /\ log[seen + 1].kind = "turn"
                THEN twice \union {log[seen + 1].by} ELSE twice
  /\ UNCHANGED <<log, seen, table, missed, lapses, history, base, shown, excused>>

Reply(r) ==
  \/ Respond(r) \/ ReadRow(r) \/ ReadTurns(r) \/ Ask(r) \/ ModelAnswers(r) \/ Fail(r)
  \/ LoadReply(r) \/ SaveReply(r) \/ LoseReply(r) \/ Remember(r) \/ Finish(r)

Attempt(a) ==
  BeginAttempt(a) \/ LoadAttempt(a) \/ Observe(a) \/ Score(a) \/ FailAttempt(a)

End(e) == BeginEnd(e) \/ LoadEnd(e) \/ Conclude(e) \/ FailEnd(e) \/ Forget(e)

DialogueNext ==
  \/ \E r \in Replies : Reply(r) \/ Abandon(r)
  \/ \E a \in Attempts : Attempt(a)
  \/ \E e \in Enders : End(e)
  \/ Evict \/ Project \/ Restart

DialogueSpec == DialogueInit /\ [][DialogueNext]_dialogueVars

\* The model, the store and the reader's connection answer or raise.
FairDialogue == DialogueSpec /\ \A r \in Replies : WF_dialogueVars(pc[r] \in Busy /\ Reply(r))

(***************************************************************************)
(* Properties.                                                             *)
(***************************************************************************)
\* What is in the order of the stream's turns, and has each of them once but
\* for those a restart may have let the table take twice.
InOrder(h) ==
  LET turns == TurnsIn(log) IN
  \A i, j \in DOMAIN h : i < j =>
    \E k, l \in DOMAIN turns :
      /\ turns[k] = h[i] /\ turns[l] = h[j]
      /\ k < l \/ (k = l /\ h[i] \in twice)

\* The stream starts once, takes nothing after its conclusion, and has each
\* reply and each attempt at most once; an answer that was handed over is on
\* it.  The table has every turn up to its checkpoint that was not filed or
\* dropped; and what the table has, what is cached, and what the model is
\* asked with, is never ahead of the stream nor out of its order, and has a
\* turn a second time only if a restart fell between handling it and the
\* checkpoint (respond, _record, decide, record).
DialogueInv ==
  /\ DialogueTypes
  /\ \A i \in DOMAIN log :
       /\ log[i].kind = "started" <=> i = 1
       /\ log[i].kind = "concluded" => i = Len(log)
       /\ \A j \in DOMAIN log : log[i] = log[j] => i = j
  /\ answered \subseteq Range(TurnsIn(log))
  /\ \A r \in Replies : pc[r] \in Busy <=> slot = r
  /\ Range(TurnsIn(SubSeq(log, 1, seen))) \ missed \subseteq Range(stored)
  /\ \A h \in {history[r] : r \in Replies} \union {stored} \union ({cache} \ {None}) : InOrder(h)
  /\ (cache # None /\ ~stale) => IsPrefix(cache, TurnsIn(log))

\* The number an answer is handed over with, the length of the history it was
\* asked with, is its turn's place on the stream; and unless a turn up to it was
\* filed, dropped or handled twice, it is the position of the turn's row, and of
\* no other turn's: attempts are graded against the turn they were made at.
\* What the number may fail after is a history that was not the stream's turns
\* (excused): read from a table that is behind, or has a turn twice or not at
\* all, or taken from an entry that came of one, or that a reader left behind
\* between a save and the entry (respond, record, SocraticPrompt.position).
PositionsAgree ==
  \A r \in answered \ excused :
    LET place == Len(history[r]) + 1 IN
    /\ TurnsIn(log)[place] = r
    /\ \A p \in DOMAIN stored :
         (\A k \in 1..place : TurnsIn(log)[k] \notin twice \union missed) =>
           (stored[p] = r <=> p = place)

\* No attempt is in the reader's progress without its observation on the
\* dialogue's stream, whatever fails in between (record_attempt).
AttemptsAreObserved ==
  \A a \in progress : \E i \in DOMAIN log : log[i] = [kind |-> "observed", by |-> a]

\* However a reply ends, the next one is let in (respond, both its finallys).
NextReplyIsLetIn == slot # None ~> slot = None

=============================================================================
