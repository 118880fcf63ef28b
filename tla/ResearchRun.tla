---------------------------- MODULE ResearchRun ----------------------------
(***************************************************************************)
(* Autonomous research runs over one project.  ResearchSupervisor starts   *)
(* at most one run per project as a task; ResearchRunDriver.run works the  *)
(* topic queue round by round until the fold of the run's own stream, a    *)
(* cancel or an empty queue says stop; each round is one turn, after which *)
(* the driver stamps the topic with a look, waits for the topic tables to  *)
(* catch up and appends what the round came to.                            *)
(*                                                                         *)
(* Beside the driver: people and the agent's own tools write to topics and *)
(* the corpus, other streams append to the same store, the projection      *)
(* follows behind and may file an event it cannot apply and pass it over,  *)
(* anybody may ask the run to stop, a store call may raise and the process *)
(* may die.  Between any two awaits of the driver any of them may move, so *)
(* every await is a value of pc.                                           *)
(***************************************************************************)
EXTENDS TopicAttention, FiniteSets, Sequences

CONSTANTS
  MaxRounds, MaxTurns, QuietRounds, MaxFailures,  \* the run's Budget
  OpenAtStart,   \* bound: topics opened before the first step
  MaxRuns,       \* bound: runs started
  MaxChanges,    \* bound: writes to topics and to the corpus beside the looks
  MaxLapses      \* bound: events handled once more, or failing for good

ASSUME BudgetAssumption ==
  /\ MaxRounds \in Nat
  /\ MaxTurns \in Nat
  /\ QuietRounds \in Nat
  /\ MaxFailures \in Nat
  /\ OpenAtStart \in 0 .. NTopics
  /\ MaxRuns \in Nat
  /\ MaxChanges \in Nat
  /\ MaxLapses \in Nat

VARIABLES
  topic,      \* the fold of each topic's stream
  corpus,     \* the corpus version
  view,       \* the topic and corpus-facts tables
  pending,    \* the facts the projection's position has not passed
  drifted,    \* history: the topics a look of which was filed, not applied
  owed,       \* from a round's start to its settle: is the newest event of the
              \* store one that the projection is not given?
  ahead,      \* what caught_up waits for: the facts up to its target
  log,        \* the fold of each run's stream
  cur,        \* the run ResearchSupervisor started last; 0 before the first
  pc,         \* where that run's task is; "idle" when it has finished
  reason,     \* the stop reason the driver has settled on
  round,      \* the round the driver is in
  cancelled,  \* is the current run in ResearchSupervisor._cancelled?
  grant,      \* the run whose grant the session has in GrantRegistry; 0: none
  asked,      \* history: the runs somebody asked to stop
  late,       \* history: rounds the current run began after being asked
  changes,    \* bound: topic and corpus writes so far
  lapses      \* bound: events handled once more, or failed, so far

streams == <<topic, corpus, pending>>
projection == <<view, drifted, lapses>>
store == <<streams, projection, owed, ahead>>
supervisor == <<cancelled, asked>>
driver == <<log, cur, pc, reason, grant, late>>
vars == <<store, driver, round, supervisor, changes>>

Runs == 1 .. MaxRuns

Reasons == {"none", "queue_empty", "budget_exhausted", "no_new_findings",
            "max_rounds", "error_rate", "cancelled"}

\* ResearchRunState, as far as any decision reads it.
RunState ==
  [status : {"new", "running", "stopped"}, rounds : Nat, turns : Nat,
   quiet : Nat, failures : Nat, inflight : Topics \cup {0},
   reason : Reasons, unexamined : Nat]

NewRun ==
  [status |-> "new", rounds |-> 0, turns |-> 0, quiet |-> 0, failures |-> 0,
   inflight |-> 0, reason |-> "none", unexamined |-> 0]

(***************************************************************************)
(* What the driver holds across awaits: the topic, the triggers the round  *)
(* was begun for, whether the topic has gained anything since the turn's   *)
(* "before" copy was loaded, whether the turn raised, the position the     *)
(* look will be stamped with, and, when stopping, the topics left waiting. *)
(***************************************************************************)
Round ==
  [topic : Topics \cup {0}, why : SUBSET Triggers, made : BOOLEAN,
   failed : BOOLEAN, stamp : Nat, outstanding : Nat]

NoRound ==
  [topic |-> 0, why |-> {}, made |-> FALSE, failed |-> FALSE, stamp |-> 0,
   outstanding |-> 0]

\* What is still read of a round once its look is behind it.
Outcome(r) == [NoRound EXCEPT !.made = r.made, !.failed = r.failed]

\* The awaits inside the try of ResearchRunDriver.run.
Driving == {"check", "evaluate", "begin", "turn", "look", "stamp", "target",
            "settle", "record", "count", "stop"}

Now == [topic |-> topic, corpus |-> corpus]

\* A fact is appended: the streams have it at once, the projection when it
\* comes to it.
Save(f) ==
  /\ topic' = Told(Now, f).topic
  /\ corpus' = Told(Now, f).corpus
  /\ pending' = Append(pending, f)
  /\ owed' = FALSE

-----------------------------------------------------------------------------
(***************************************************************************)
(* ResearchRunState.exhausted and the fold of the run's events.            *)
(***************************************************************************)
\* Mutant of Exhausted: one past every limit.
ExhaustedAfter(s) ==
  IF s.failures > MaxFailures THEN "error_rate"
  ELSE IF s.quiet > QuietRounds THEN "no_new_findings"
  ELSE IF s.rounds > MaxRounds THEN "max_rounds"
  ELSE IF s.turns > MaxTurns THEN "budget_exhausted"
  ELSE "none"

Exhausted(s) ==
  IF s.failures >= MaxFailures THEN "error_rate"
  ELSE IF s.quiet >= QuietRounds THEN "no_new_findings"
  ELSE IF s.rounds >= MaxRounds THEN "max_rounds"
  ELSE IF s.turns >= MaxTurns THEN "budget_exhausted"
  ELSE "none"

Started(s) == [s EXCEPT !.status = "running"]

RoundStarted(s, t) ==
  [s EXCEPT !.rounds = @ + 1, !.turns = @ + 1, !.inflight = t]

RoundCompleted(s, made) ==
  [s EXCEPT !.quiet = IF made THEN 0 ELSE @ + 1, !.failures = 0, !.inflight = 0]

RoundFailed(s) == [s EXCEPT !.failures = @ + 1, !.inflight = 0]

Stopped(s, why, outstanding) ==
  [s EXCEPT !.status = "stopped", !.reason = why, !.unexamined = outstanding]

-----------------------------------------------------------------------------
Init ==
  /\ \E n \in 0 .. OpenAtStart :
       topic = [t \in Topics |-> IF t <= n THEN Opened(NewTopic) ELSE NewTopic]
  /\ corpus = 0
  /\ view = Now
  /\ pending = <<>>
  /\ drifted = {}
  /\ owed = FALSE
  /\ ahead = 0
  /\ log = [r \in Runs |-> NewRun]
  /\ cur = 0
  /\ pc = "idle"
  /\ reason = "none"
  /\ round = NoRound
  /\ cancelled = FALSE
  /\ grant = 0
  /\ asked = {}
  /\ late = 0
  /\ changes = 0
  /\ lapses = 0

-----------------------------------------------------------------------------
(***************************************************************************)
(* Starting.                                                               *)
(***************************************************************************)

\* ResearchSupervisor.start: refused while a run's task is not done.
StartRun ==
  /\ pc = "idle"
  /\ cur < MaxRuns
  /\ cur' = cur + 1
  /\ pc' = "create"
  /\ UNCHANGED <<store, log, reason, round, supervisor, grant, late, changes>>

\* The start event saved, and the grant registered in the same continuation.
CreateRun ==
  /\ pc = "create"
  /\ log' = [log EXCEPT ![cur] = Started(@)]
  /\ grant' = cur
  /\ pc' = "check"
  /\ UNCHANGED <<store, cur, reason, round, supervisor, late, changes>>

\* The save raised.  The try has not been entered, and nothing is granted.
CreateRaises ==
  /\ pc = "create"
  /\ pc' = "after"
  /\ UNCHANGED <<store, log, cur, reason, round, supervisor, grant, late,
                 changes>>

-----------------------------------------------------------------------------
(***************************************************************************)
(* The head of the loop.                                                   *)
(***************************************************************************)

\* Mutants of Verdict: the flag first; the flag never.
VerdictFlagFirst(s, flag) == IF flag THEN "cancelled" ELSE Exhausted(s)
VerdictDeaf(s, flag) == Exhausted(s)

\* What the head of the loop decides, "none" being to carry on.
Verdict(s, flag) ==
  IF Exhausted(s) # "none" THEN Exhausted(s)
  ELSE IF flag THEN "cancelled" ELSE "none"

Check ==
  /\ pc = "check"
  /\ LET verdict == Verdict(log[cur], cancelled) IN
     /\ reason' = verdict
     /\ pc' = IF verdict = "none" THEN "evaluate" ELSE "count"
  /\ round' = NoRound
  /\ UNCHANGED <<store, log, cur, supervisor, grant, late, changes>>

\* The queue as the tables have it is empty.
FindNothing ==
  /\ pc = "evaluate"
  /\ Waiting(view) = {}
  /\ reason' = "queue_empty"
  /\ pc' = "stop"
  /\ UNCHANGED <<store, log, cur, round, supervisor, grant, late, changes>>

\* queue[0], and BeginRound executed on the aggregate in hand.
PickTopic ==
  /\ pc = "evaluate"
  /\ log[cur].inflight = 0
  /\ \E t \in Heads(view) :
       round' = [NoRound EXCEPT !.topic = t,
                                !.why = Attention(view.topic[t], view.corpus)]
  /\ pc' = "begin"
  /\ UNCHANGED <<store, log, cur, reason, supervisor, grant, late, changes>>

SaveBegun ==
  /\ pc = "begin"
  /\ log' = [log EXCEPT ![cur] = RoundStarted(@, round.topic)]
  /\ late' = IF cancelled THEN late + 1 ELSE late
  /\ owed' = TRUE
  /\ pc' = "turn"
  /\ UNCHANGED <<streams, projection, ahead, cur, reason, round, supervisor,
                 grant, changes>>

-----------------------------------------------------------------------------
(***************************************************************************)
(* One round.  The turn's own writes are the topic and corpus actions      *)
(* below, taken while pc is "turn"; its session events are appended when   *)
(* it ends well.  One that fails may have appended nothing; its marker, if *)
(* there is one, is another stream's event, as the run's own are.          *)
(***************************************************************************)
TurnEnds ==
  /\ pc = "turn"
  /\ \E failed \in BOOLEAN :
       /\ round' = [round EXCEPT !.why = {}, !.failed = failed,
                                 !.made = @ /\ ~ failed]
       /\ owed' = (owed \/ ~ failed)
  /\ pc' = "look"
  /\ UNCHANGED <<streams, projection, ahead, log, cur, reason, supervisor,
                 grant, late, changes>>

\* _record_look asks the tables, not the log, where the corpus stands.
ReadHighWater ==
  /\ pc = "look"
  /\ round' = [round EXCEPT !.stamp = view.corpus]
  /\ pc' = "stamp"
  /\ UNCHANGED <<store, log, cur, reason, supervisor, grant, late, changes>>

RecordLook ==
  /\ pc = "stamp"
  /\ Save([of |-> round.topic, kind |-> "looked", position |-> round.stamp])
  /\ round' = Outcome(round)
  /\ pc' = "target"
  /\ UNCHANGED <<projection, ahead, log, cur, reason, supervisor, grant, late,
                 changes>>

\* A look that could not be recorded is swallowed.
LookFails ==
  /\ pc \in {"look", "stamp"}
  /\ round' = Outcome(round)
  /\ pc' = "target"
  /\ UNCHANGED <<store, log, cur, reason, supervisor, grant, late, changes>>

(***************************************************************************)
(* caught_up takes the position of the store's newest event for its        *)
(* target, and is over when the subscription's position has reached it.    *)
(* Of an event the projection is not given, that is when it has passed the *)
(* next one that it is.                                                    *)
(***************************************************************************)
ReadTarget ==
  /\ pc = "target"
  /\ ahead' = Len(pending) + (IF owed THEN 1 ELSE 0)
  /\ owed' = FALSE
  /\ pc' = "settle"
  /\ UNCHANGED <<streams, projection, log, cur, reason, round, supervisor,
                 grant, late, changes>>

\* Mutant of CaughtUp: the tables are not waited for.
CaughtUpUnread == TRUE

\* A position is all that is asked for: not that what was passed is in the
\* tables.  (A runner without a manager asks for nothing; this one has its own
\* until all runs have ended: nothing rebuilds it, application.py:309-314.)
CaughtUp == ahead = 0

Settle ==
  /\ pc = "settle"
  /\ CaughtUp
  /\ ahead' = 0
  /\ pc' = "record"
  /\ UNCHANGED <<streams, projection, owed, log, cur, reason, round,
                 supervisor, grant, late, changes>>

\* Mutant of SettleTimesOut: a wait with no deadline.
SettleTimesOutNever ==
  /\ pc = "settle"
  /\ ~ CaughtUp
  /\ UNCHANGED vars

\* The wait's deadline passes: TimeoutError, outside the look's try.
SettleTimesOut ==
  /\ pc = "settle"
  /\ ~ CaughtUp
  /\ ahead' = 0
  /\ pc' = "unwind"
  /\ UNCHANGED <<streams, projection, owed, log, cur, reason, round,
                 supervisor, grant, late, changes>>

\* CompleteRound or FailRound, saved.
SaveRound ==
  /\ pc = "record"
  /\ log' = [log EXCEPT ![cur] = IF round.failed THEN RoundFailed(@)
                                 ELSE RoundCompleted(@, round.made)]
  /\ pc' = "check"
  /\ UNCHANGED <<store, cur, reason, round, supervisor, grant, late, changes>>

-----------------------------------------------------------------------------
(***************************************************************************)
(* Stopping.                                                               *)
(***************************************************************************)

\* _stop counts what is left before it says so.
CountOutstanding ==
  /\ pc = "count"
  /\ round' = [NoRound EXCEPT !.outstanding = Cardinality(Waiting(view))]
  /\ pc' = "stop"
  /\ UNCHANGED <<store, log, cur, reason, supervisor, grant, late, changes>>

\* The stop event saved, and the grant released.
SaveStop ==
  /\ pc = "stop"
  /\ log' = [log EXCEPT ![cur] = Stopped(@, reason, round.outstanding)]
  /\ grant' = 0
  /\ pc' = "unwind"
  /\ UNCHANGED <<store, cur, reason, round, supervisor, late, changes>>

\* The queue or a save raises: the run is over with nothing more appended.
Raises ==
  /\ pc \in {"evaluate", "begin", "record", "count", "stop"}
  /\ pc' = "unwind"
  /\ UNCHANGED <<store, log, cur, reason, round, supervisor, grant, late,
                 changes>>

\* The finally of ResearchRunDriver.run.
Unwind ==
  /\ pc = "unwind"
  /\ grant' = 0
  /\ pc' = "after"
  /\ UNCHANGED <<store, log, cur, reason, round, supervisor, late, changes>>

\* The caller's after() is over, and the task's done-callback has run.
Finish ==
  /\ pc = "after"
  /\ pc' = "idle"
  /\ reason' = "none"
  /\ round' = NoRound
  /\ cancelled' = FALSE
  /\ late' = 0
  /\ UNCHANGED <<store, log, cur, grant, asked, changes>>

\* ResearchSupervisor.cancel: a flag, read at the head of the loop.
Cancel ==
  /\ pc # "idle"
  /\ ~ cancelled
  /\ cancelled' = TRUE
  /\ asked' = asked \cup {cur}
  /\ UNCHANGED <<store, log, cur, pc, reason, round, grant, late, changes>>

\* The process dies.  The streams, the tables and the checkpoint are all that
\* is left.
Crash ==
  /\ pc # "idle"
  /\ pc' = "idle"
  /\ reason' = "none"
  /\ round' = NoRound
  /\ cancelled' = FALSE
  /\ grant' = 0
  /\ late' = 0
  /\ owed' = FALSE
  /\ ahead' = 0
  /\ UNCHANGED <<streams, projection, log, cur, asked, changes>>

-----------------------------------------------------------------------------
(***************************************************************************)
(* Topics, the corpus and the projection.  Writes come from people, and    *)
(* from the agent's tools during a turn.                                   *)
(***************************************************************************)

\* One more fact from beside the driver; counts says a round's outcome counts it.
Write(f, counts) ==
  /\ changes < MaxChanges
  /\ changes' = changes + 1
  /\ Save(f)
  /\ round' = IF pc = "turn" /\ f.of = round.topic /\ counts
              THEN [round EXCEPT !.made = TRUE] ELSE round
  /\ UNCHANGED <<projection, ahead, driver, supervisor>>

OfTopic(t, kind) == [of |-> t, kind |-> kind, position |-> 0]

OpenTopic(t) ==
  /\ topic[t].status = "new"
  /\ \A u \in Topics : u < t => topic[u].status # "new"
  /\ Write(OfTopic(t, "opened"), FALSE)

RecordFinding(t) ==
  /\ topic[t].status # "new"
  /\ Write(OfTopic(t, "found"), TRUE)

\* Sources, sub-questions, contests and gaps: some count as progress.
WorkOn(t) ==
  /\ topic[t].status # "new"
  /\ \E standing \in Standing, counts \in BOOLEAN :
       Write(OfTopic(t, standing), counts)

SetTopicStatus(t) ==
  /\ topic[t].status # "new"
  /\ \E status \in {"live", "closed"} \ {topic[t].status} :
       Write(OfTopic(t, status), FALSE)

StoreSource ==
  Write([of |-> 0, kind |-> "stored", position |-> corpus + 1], FALSE)

\* Another stream of the same store: a session, an extraction.
AppendElsewhere ==
  /\ pc \in {"look", "stamp", "target"}
  /\ ~ owed
  /\ owed' = TRUE
  /\ UNCHANGED <<streams, projection, ahead, driver, round, supervisor, changes>>

(***************************************************************************)
(* TopicProjection: one fact after another, its row and then the position. *)
(***************************************************************************)

\* A handler finds its topic's row, unless it makes it (_require).
Handles(f) ==
  f.kind \notin {"stored", "opened"} => view.topic[f.of].status # "new"

Apply ==
  /\ pending # <<>>
  /\ Handles(Head(pending))
  /\ view' = Told(view, Head(pending))

Pass ==
  /\ pending' = Tail(pending)
  /\ ahead' = IF ahead > 0 THEN ahead - 1 ELSE 0

CatchUp ==
  /\ Apply
  /\ Pass
  /\ UNCHANGED <<topic, corpus, drifted, lapses, owed, driver, round,
                 supervisor, changes>>

\* The checkpoint is another commit: before it a crash comes, or the save
\* raises, and the fact is to be handled once more.  Of what is modelled only
\* the number of looks shows it.
ApplyOnly ==
  /\ pending # <<>>
  /\ Head(pending).kind = "looked"
  /\ lapses < MaxLapses
  /\ lapses' = lapses + 1
  /\ Apply
  /\ UNCHANGED <<streams, drifted, owed, ahead, driver, round, supervisor,
                 changes>>

\* The retries are used up: the event is filed, and passed over.
DeadLetter ==
  /\ pending # <<>>
  /\ \/ ~ Handles(Head(pending)) /\ UNCHANGED lapses
     \/ lapses < MaxLapses /\ lapses' = lapses + 1
  /\ drifted' = IF Head(pending).kind = "looked"
                THEN drifted \cup {Head(pending).of} ELSE drifted
  /\ Pass
  /\ UNCHANGED <<topic, corpus, view, owed, driver, round, supervisor, changes>>

-----------------------------------------------------------------------------
Drive ==
  \/ CreateRun
  \/ CreateRaises
  \/ Check
  \/ FindNothing
  \/ PickTopic
  \/ SaveBegun
  \/ TurnEnds
  \/ ReadHighWater
  \/ RecordLook
  \/ LookFails
  \/ ReadTarget
  \/ Settle
  \/ SettleTimesOut
  \/ SaveRound
  \/ CountOutstanding
  \/ SaveStop
  \/ Raises
  \/ Unwind
  \/ Finish

WriteTopics ==
  \E t \in Topics :
    \/ OpenTopic(t)
    \/ RecordFinding(t)
    \/ WorkOn(t)
    \/ SetTopicStatus(t)

Project == CatchUp \/ ApplyOnly \/ DeadLetter

Next ==
  \/ StartRun
  \/ Drive
  \/ Cancel
  \/ Crash
  \/ WriteTopics
  \/ StoreSource
  \/ AppendElsewhere
  \/ Project

Spec == Init /\ [][Next]_vars

(***************************************************************************)
(* The event loop resumes a task whose await is over, and the store and    *)
(* the model client answer or raise.  Nothing is asked of the projection.  *)
(***************************************************************************)
FairSpec == Spec /\ WF_vars(Drive)

-----------------------------------------------------------------------------
(***************************************************************************)
(* Properties.                                                             *)
(***************************************************************************)

View == [topic : [Topics -> TopicState], corpus : Nat]

\* The types of the streams, the tables and the driver's locals.
TypeOK ==
  /\ topic \in [Topics -> TopicState]
  /\ corpus \in Nat
  /\ view \in View
  /\ pending \in Seq(Fact)
  /\ drifted \in SUBSET Topics
  /\ owed \in BOOLEAN
  /\ ahead \in Nat
  /\ log \in [Runs -> RunState]
  /\ cur \in 0 .. MaxRuns
  /\ pc \in Driving \cup {"idle", "create", "unwind", "after"}
  /\ reason \in Reasons
  /\ round \in Round
  /\ cancelled \in BOOLEAN
  /\ grant \in 0 .. MaxRuns
  /\ asked \in SUBSET Runs
  /\ late \in Nat
  /\ changes \in Nat
  /\ lapses \in Nat

(***************************************************************************)
(* No run spends more than its budget: whatever the order of failed, quiet *)
(* and productive rounds, and however the run was cut short, its stream    *)
(* never shows a counter above the limit exhausted() compares it with.     *)
(***************************************************************************)
BudgetRespected ==
  \A r \in Runs :
    /\ log[r].rounds <= MaxRounds
    /\ log[r].turns <= MaxTurns
    /\ log[r].quiet <= QuietRounds
    /\ log[r].failures <= MaxFailures

(***************************************************************************)
(* "No stop without evidence" (run.py): the reason a stopped run gives is  *)
(* the one its own counters give, and only when they give none is it       *)
(* "cancelled", of a run somebody did ask to stop, or "queue_empty", with  *)
(* nothing left unexamined; and no stopped run has a round in flight.      *)
(***************************************************************************)
StopsAreJust ==
  \A r \in Runs :
    log[r].status = "stopped" =>
      /\ log[r].inflight = 0
      /\ IF Exhausted(log[r]) # "none"
         THEN log[r].reason = Exhausted(log[r])
         ELSE \/ log[r].reason = "cancelled" /\ r \in asked
              \/ log[r].reason = "queue_empty" /\ log[r].unexamined = 0

(***************************************************************************)
(* A registry entry never outlives its run, whichever way the run ends,    *)
(* and no turn of a round is taken without it.                             *)
(***************************************************************************)
GrantsEnd ==
  /\ grant # 0 => grant = cur /\ pc \in Driving \cup {"unwind"}
  /\ pc = "turn" => grant = cur

(***************************************************************************)
(* A run asked to stop begins at most the round it was already choosing.   *)
(***************************************************************************)
CancelIsPrompt == late <= 1

(***************************************************************************)
(* The reasons a round gives for its topic that a look would clear still   *)
(* hold of the topic's own stream, not only of the tables: after its first *)
(* round a run is never handed back what it has just looked at as never    *)
(* looked at, nor for material from before the position of that look; "or  *)
(* the run is handed back the topic it just finished"                      *)
(* (research_run.py:368-369).  Except where a look at that topic was       *)
(* filed and passed over, which the wait takes for applied.                *)
(***************************************************************************)
ReasonsAreCurrent ==
  pc = "turn" /\ log[cur].rounds > 1 /\ round.topic \notin drifted =>
    /\ "never" \in round.why => NeverInvestigated(topic[round.topic])
    /\ "material" \in round.why => NewMaterial(topic[round.topic], corpus)

(***************************************************************************)
(* Every run that is started ends, without anybody asking it to.           *)
(***************************************************************************)
RunEnds == (pc # "idle") ~> (pc = "idle")

(***************************************************************************)
(* Why the safety properties hold: what the driver knows at each await.    *)
(***************************************************************************)

\* Runs not started have no stream; every round has spent exactly one turn.
Streams ==
  \A r \in Runs :
    /\ r > cur => log[r] = NewRun
    /\ log[r].turns = log[r].rounds

\* A task is some run's; from its first save on, that run's stream is open
\* and the session is in the registry under it.
UnderWay ==
  /\ pc # "idle" => cur # 0
  /\ pc = "create" => log[cur] = NewRun
  /\ pc \in Driving => log[cur].status = "running" /\ grant = cur

\* Nothing is in flight, and nothing counted, when a topic is chosen; a round
\* in flight is the one in hand.
InHand ==
  /\ pc \in {"check", "evaluate", "begin", "count", "stop"} => log[cur].inflight = 0
  /\ pc = "evaluate" => round.outstanding = 0
  /\ pc \in {"begin", "turn", "look", "stamp"} => round.topic \in Topics

\* A round is begun only while every counter is below its limit, and nothing
\* counts against the run again before the round is recorded.
BudgetLeft ==
  /\ pc \in {"evaluate", "begin"} => Exhausted(log[cur]) = "none"
  /\ pc \in {"turn", "look", "stamp", "target", "settle", "record"} =>
       log[cur].failures < MaxFailures /\ log[cur].quiet < QuietRounds

\* The reason settled on stays the one the counters give.
StopIsEarned ==
  pc \in {"count", "stop"} =>
    IF Exhausted(log[cur]) # "none" THEN reason = Exhausted(log[cur])
    ELSE \/ reason = "cancelled" /\ cur \in asked
         \/ reason = "queue_empty" /\ pc = "stop" /\ round.outstanding = 0

\* A flag that is up was asked for, and outlives no task; a round begun under
\* it was already chosen.
FlagStands ==
  /\ cancelled => pc # "idle" /\ cur \in asked
  /\ late # 0 => late = 1 /\ cancelled /\ pc \notin {"evaluate", "begin"}

RunInv ==
  /\ Streams
  /\ UnderWay
  /\ InHand
  /\ BudgetLeft
  /\ StopIsEarned
  /\ FlagStands
=============================================================================
