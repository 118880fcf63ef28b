------------------------- MODULE ResearchRunProofs -------------------------
(***************************************************************************)
(* Proofs about ResearchRun, for any number of topics and runs, any budget *)
(* and whatever people, the projection and the store do meanwhile.  RunInv *)
(* says what the driver knows at each await; with the types it carries the *)
(* budget, the evidence of a stop, the lifetime of a grant and the         *)
(* promptness of a cancel from step to step.  Last, why a run ends: its    *)
(* queue is served (Served), and what is left of it falls (RoundsRunOut).  *)
(***************************************************************************)
EXTENDS ResearchRun, FiniteSetTheorems, WellFoundedInduction, TLAPS

-----------------------------------------------------------------------------
(***************************************************************************)
(* The folds keep their types, and change the fields they name.            *)
(***************************************************************************)

\* Every event of a topic's stream leaves a topic's state a topic's state.
LEMMA TopicFolds ==
  ASSUME NEW s \in TopicState, NEW standing \in Standing, NEW position \in Nat
  PROVE  /\ NewTopic \in TopicState
         /\ Opened(s) \in TopicState
         /\ FindingRecorded(s) \in TopicState
         /\ WorkedOn(s, standing) \in TopicState
         /\ Investigated(s, position) \in TopicState
         /\ \A status \in {"live", "closed"} : StatusChanged(s, status) \in TopicState
<1>1. NewTopic \in TopicState
  BY AttentionAssumption DEF NewTopic, TopicState, Standing
<1>2. Opened(s) \in TopicState
  BY DEF Opened, TopicState, Standing
<1>3. FindingRecorded(s) \in TopicState
  BY DEF FindingRecorded, TopicState
<1>4. WorkedOn(s, standing) \in TopicState
  BY DEF WorkedOn, TopicState
<1>5. Investigated(s, position) \in TopicState
  <2> DEFINE looked == IF s.looks < ThrashLooks THEN s.looks + 1 ELSE s.looks
             s1 == [s EXCEPT !.looks = looked]
             s2 == [s1 EXCEPT !.at = position]
             s3 == [s2 EXCEPT !.fresh = FALSE]
  <2>1. looked \in 0 .. ThrashLooks
    BY AttentionAssumption DEF TopicState
  <2> HIDE DEF looked
  <2>2. s1 \in TopicState
    BY <2>1 DEF TopicState
  <2>3. s2 \in TopicState
    BY <2>2 DEF TopicState
  <2>4. s3 \in TopicState
    BY <2>3 DEF TopicState
  <2>5. s3 = Investigated(s, position)
    BY DEF Investigated, TopicState, looked
  <2> QED
    BY <2>4, <2>5
<1>6. \A status \in {"live", "closed"} : StatusChanged(s, status) \in TopicState
  BY DEF StatusChanged, TopicState
<1> QED
  BY <1>1, <1>2, <1>3, <1>4, <1>5, <1>6

\* A fact of a topic leaves it a topic's state.
LEMMA Evolves ==
  ASSUME NEW s \in TopicState, NEW f \in Fact, f.kind # "stored"
  PROVE  Evolve(s, f) \in TopicState
<1>1. f.position \in Nat /\ f.kind \in Kinds \ {"stored"}
  BY DEF Fact
<1>2. CASE f.kind = "opened"
  BY <1>2, TopicFolds DEF Evolve, Standing
<1>3. CASE f.kind = "found"
  BY <1>3, TopicFolds DEF Evolve, Standing
<1>4. CASE f.kind = "looked"
  BY <1>1, <1>4, TopicFolds DEF Evolve, Standing
<1>5. CASE f.kind \in Standing
  <2>1. WorkedOn(s, f.kind) \in TopicState
    BY <1>1, <1>5, TopicFolds
  <2> QED
    BY <1>5, <2>1 DEF Evolve, Standing
<1>6. CASE f.kind \in {"live", "closed"}
  <2>1. StatusChanged(s, f.kind) \in TopicState
    BY <1>1, <1>6, TopicFolds DEF Standing
  <2> QED
    BY <1>6, <2>1 DEF Evolve, Standing
<1> QED
  BY <1>1, <1>2, <1>3, <1>4, <1>5, <1>6 DEF Kinds

\* What a fact does to a copy of the tables, field by field.
LEMMA ToldFields ==
  ASSUME NEW v \in View, NEW f \in Fact
  PROVE  /\ Told(v, f) \in View
         /\ f.kind = "stored" => Told(v, f).topic = v.topic /\ Told(v, f).corpus = f.position
         /\ f.kind # "stored" =>
              /\ f.of \in Topics
              /\ Told(v, f).topic = [v.topic EXCEPT ![f.of] = Evolve(v.topic[f.of], f)]
              /\ Told(v, f).corpus = v.corpus
<1>0. v.topic \in [Topics -> TopicState] /\ v.corpus \in Nat
  BY DEF View
<1>1. CASE f.kind = "stored"
  <2>1. f.position \in Nat
    BY DEF Fact
  <2>2. Told(v, f) = [v EXCEPT !.corpus = f.position]
    BY <1>1 DEF Told
  <2> QED
    BY <1>1, <2>1, <2>2 DEF View
<1>2. CASE f.kind # "stored"
  <2> DEFINE s == Evolve(v.topic[f.of], f)
             rows == [v.topic EXCEPT ![f.of] = s]
  <2>1. f.of \in Topics
    BY <1>2 DEF Fact
  <2>2. s \in TopicState
    BY <1>0, <1>2, <2>1, Evolves
  <2>3. rows \in [Topics -> TopicState]
    BY <1>0, <2>1, <2>2
  <2>4. Told(v, f) = [v EXCEPT !.topic = rows]
    BY <1>2 DEF Told
  <2> HIDE DEF s
  <2>5. Told(v, f) \in View /\ Told(v, f).topic = rows /\ Told(v, f).corpus = v.corpus
    BY <2>3, <2>4 DEF View
  <2> QED
    BY <1>2, <2>1, <2>5 DEF s
<1> QED
  BY <1>1, <1>2

\* A run that starts.
LEMMA StartedFold ==
  ASSUME NEW s \in RunState
  PROVE  /\ Started(s) \in RunState
         /\ Started(s).status = "running"
         /\ Started(s).rounds = s.rounds
         /\ Started(s).turns = s.turns
         /\ Started(s).quiet = s.quiet
         /\ Started(s).failures = s.failures
         /\ Started(s).inflight = s.inflight
BY DEF Started, RunState

\* A round that begins spends a round and a turn.
LEMMA RoundStartedFold ==
  ASSUME NEW s \in RunState, NEW t \in Topics
  PROVE  /\ RoundStarted(s, t) \in RunState
         /\ RoundStarted(s, t).status = s.status
         /\ RoundStarted(s, t).rounds = s.rounds + 1
         /\ RoundStarted(s, t).turns = s.turns + 1
         /\ RoundStarted(s, t).quiet = s.quiet
         /\ RoundStarted(s, t).failures = s.failures
<1> DEFINE rounds == s.rounds + 1
           turns == s.turns + 1
           s1 == [s EXCEPT !.rounds = rounds]
           s2 == [s1 EXCEPT !.turns = turns]
           s3 == [s2 EXCEPT !.inflight = t]
<1>1. rounds \in Nat /\ turns \in Nat
  BY DEF RunState
<1> HIDE DEF rounds, turns
<1>2. s1 \in RunState
  BY <1>1 DEF RunState
<1>3. s2 \in RunState
  BY <1>1, <1>2 DEF RunState
<1>4. s3 \in RunState
  BY <1>3 DEF RunState
<1>5. s3 = RoundStarted(s, t)
  BY DEF RoundStarted, RunState, rounds, turns
<1>6. /\ s3.status = s.status /\ s3.rounds = rounds
      /\ s3.turns = turns /\ s3.quiet = s.quiet
      /\ s3.failures = s.failures
  BY DEF RunState
<1>7. rounds = s.rounds + 1 /\ turns = s.turns + 1
  BY DEF rounds, turns
<1> QED
  BY <1>4, <1>5, <1>6, <1>7

\* A completed round clears the failures and ends what was in flight.
LEMMA RoundCompletedFold ==
  ASSUME NEW s \in RunState, NEW made \in BOOLEAN
  PROVE  /\ RoundCompleted(s, made) \in RunState
         /\ RoundCompleted(s, made).status = s.status
         /\ RoundCompleted(s, made).rounds = s.rounds
         /\ RoundCompleted(s, made).turns = s.turns
         /\ RoundCompleted(s, made).quiet <= s.quiet + 1
         /\ RoundCompleted(s, made).failures = 0
         /\ RoundCompleted(s, made).inflight = 0
<1> DEFINE quiet == IF made THEN 0 ELSE s.quiet + 1
           s1 == [s EXCEPT !.quiet = quiet]
           s2 == [s1 EXCEPT !.failures = 0]
           s3 == [s2 EXCEPT !.inflight = 0]
<1>1. quiet \in Nat /\ quiet <= s.quiet + 1
  BY DEF RunState
<1> HIDE DEF quiet
<1>2. s1 \in RunState
  BY <1>1 DEF RunState
<1>3. s2 \in RunState
  BY <1>2 DEF RunState
<1>4. s3 \in RunState
  BY <1>3 DEF RunState
<1>5. s3 = RoundCompleted(s, made)
  BY DEF RoundCompleted, RunState, quiet
<1>6. /\ s3.status = s.status /\ s3.rounds = s.rounds /\ s3.turns = s.turns
      /\ s3.quiet = quiet /\ s3.failures = 0 /\ s3.inflight = 0
  BY DEF RunState
<1> QED
  BY <1>1, <1>4, <1>5, <1>6

\* A failed round counts against the failures only.
LEMMA RoundFailedFold ==
  ASSUME NEW s \in RunState
  PROVE  /\ RoundFailed(s) \in RunState
         /\ RoundFailed(s).status = s.status
         /\ RoundFailed(s).rounds = s.rounds
         /\ RoundFailed(s).turns = s.turns
         /\ RoundFailed(s).quiet = s.quiet
         /\ RoundFailed(s).failures = s.failures + 1
         /\ RoundFailed(s).inflight = 0
<1> DEFINE failures == s.failures + 1
           s1 == [s EXCEPT !.failures = failures]
           s2 == [s1 EXCEPT !.inflight = 0]
<1>1. failures \in Nat
  BY DEF RunState
<1> HIDE DEF failures
<1>2. s1 \in RunState
  BY <1>1 DEF RunState
<1>3. s2 \in RunState
  BY <1>2 DEF RunState
<1>4. s2 = RoundFailed(s)
  BY DEF RoundFailed, RunState, failures
<1>5. /\ s2.status = s.status /\ s2.rounds = s.rounds /\ s2.turns = s.turns
      /\ s2.quiet = s.quiet /\ s2.failures = failures /\ s2.inflight = 0
  BY DEF RunState
<1>6. failures = s.failures + 1
  BY DEF failures
<1> QED
  BY <1>3, <1>4, <1>5, <1>6

\* Stopping changes no counter, so the evidence for the stop stays readable.
LEMMA StoppedFold ==
  ASSUME NEW s \in RunState, NEW why \in Reasons, NEW n \in Nat
  PROVE  /\ Stopped(s, why, n) \in RunState
         /\ Stopped(s, why, n).status = "stopped"
         /\ Stopped(s, why, n).rounds = s.rounds
         /\ Stopped(s, why, n).turns = s.turns
         /\ Stopped(s, why, n).quiet = s.quiet
         /\ Stopped(s, why, n).failures = s.failures
         /\ Stopped(s, why, n).inflight = s.inflight
         /\ Stopped(s, why, n).reason = why
         /\ Stopped(s, why, n).unexamined = n
         /\ Exhausted(Stopped(s, why, n)) = Exhausted(s)
<1>1. /\ Stopped(s, why, n) \in RunState
      /\ Stopped(s, why, n).status = "stopped"
      /\ Stopped(s, why, n).rounds = s.rounds
      /\ Stopped(s, why, n).turns = s.turns
      /\ Stopped(s, why, n).quiet = s.quiet
      /\ Stopped(s, why, n).failures = s.failures
      /\ Stopped(s, why, n).inflight = s.inflight
      /\ Stopped(s, why, n).reason = why
      /\ Stopped(s, why, n).unexamined = n
  BY DEF Stopped, RunState
<1> QED
  BY <1>1 DEF Exhausted

\* exhausted() answers a stop reason or nothing; nothing means every counter
\* is still below its limit.
LEMMA ExhaustedMeans ==
  ASSUME NEW s \in RunState
  PROVE  /\ Exhausted(s) \in Reasons
         /\ Exhausted(s) = "none" =>
              /\ s.rounds < MaxRounds
              /\ s.turns < MaxTurns
              /\ s.quiet < QuietRounds
              /\ s.failures < MaxFailures
<1>1. Exhausted(s) \in Reasons
  BY DEF Exhausted, Reasons
<1>2. ASSUME Exhausted(s) = "none"
      PROVE  /\ ~ (s.rounds >= MaxRounds)
             /\ ~ (s.turns >= MaxTurns)
             /\ ~ (s.quiet >= QuietRounds)
             /\ ~ (s.failures >= MaxFailures)
  BY <1>2 DEF Exhausted
<1>3. /\ s.rounds \in Nat /\ s.turns \in Nat
      /\ s.quiet \in Nat /\ s.failures \in Nat
  BY DEF RunState
<1> QED
  BY <1>1, <1>2, <1>3, BudgetAssumption

\* What is kept of a round past its look is a round.
LEMMA OutcomeFold ==
  ASSUME NEW r \in Round
  PROVE  Outcome(r) \in Round /\ NoRound \in Round
BY DEF Outcome, NoRound, Round

\* The queue is a set of topics, so what is left waiting can be counted.
LEMMA WaitingCounts ==
  ASSUME NEW v
  PROVE  Cardinality(Waiting(v)) \in Nat
<1>1. Topics = 1 .. NTopics /\ 1 \in Int /\ NTopics \in Int
  BY AttentionAssumption DEF Topics
<1>2. IsFiniteSet(Topics)
  BY <1>1, FS_Interval
<1>3. Waiting(v) \subseteq Topics
  BY DEF Waiting
<1>4. IsFiniteSet(Waiting(v))
  BY <1>2, <1>3, FS_Subset
<1> QED
  BY <1>4, FS_CardinalityType


\* Attention is a set of triggers, and the heads of a queue are topics.
LEMMA QueueTypes ==
  ASSUME NEW v, NEW t \in Heads(v)
  PROVE  t \in Topics /\ Attention(v.topic[t], v.corpus) \subseteq Triggers
BY DEF Heads, Waiting, Attention, Raised

\* A round begun for a topic and its triggers.
LEMMA PickedRound ==
  ASSUME NEW t \in Topics, NEW why \in SUBSET Triggers
  PROVE  [NoRound EXCEPT !.topic = t, !.why = why] \in Round
BY DEF NoRound, Round

\* A turn that ends keeps its round a round.
LEMMA EndedRound ==
  ASSUME NEW r \in Round, NEW flag \in BOOLEAN
  PROVE  [r EXCEPT !.why = {}, !.failed = flag, !.made = @ /\ ~ flag] \in Round
<1> DEFINE r1 == [r EXCEPT !.why = {}]
           r2 == [r1 EXCEPT !.failed = flag]
           r3 == [r2 EXCEPT !.made = r.made /\ ~ flag]
<1>1. r1 \in Round
  BY DEF Round
<1>2. r2 \in Round
  BY <1>1 DEF Round
<1>3. r3 \in Round
  BY <1>2 DEF Round
<1>4. r3 = [r EXCEPT !.why = {}, !.failed = flag, !.made = @ /\ ~ flag]
  BY DEF Round
<1> QED
  BY <1>3, <1>4

\* Reading a position, and counting what is left.
LEMMA StampedRound ==
  ASSUME NEW r \in Round, NEW n \in Nat
  PROVE  [r EXCEPT !.stamp = n] \in Round /\ [NoRound EXCEPT !.outstanding = n] \in Round
BY DEF Round, NoRound

\* Something gained during the turn.
LEMMA ProductiveRound ==
  ASSUME NEW r \in Round
  PROVE  [r EXCEPT !.made = TRUE] \in Round
BY DEF Round

-----------------------------------------------------------------------------
(***************************************************************************)
(* Types.                                                                  *)
(***************************************************************************)

\* The service comes up well typed.
LEMMA TypeInit == Init => TypeOK
<1> SUFFICES ASSUME Init PROVE TypeOK
  OBVIOUS
<1>1. NewTopic \in TopicState /\ Opened(NewTopic) \in TopicState
  <2>1. NewTopic \in TopicState
    BY AttentionAssumption DEF NewTopic, TopicState, Standing
  <2> QED
    BY <2>1 DEF Opened, TopicState, Standing
<1>2. topic \in [Topics -> TopicState]
  BY <1>1 DEF Init
<1>3. corpus \in Nat /\ view \in View
  BY <1>2 DEF Init, Now, View
<1>4. NewRun \in RunState
  BY DEF NewRun, RunState, Reasons
<1>5. log \in [Runs -> RunState] /\ pending \in Seq(Fact)
  BY <1>4 DEF Init
<1>6. NoRound \in Round
  BY DEF NoRound, Round
<1>7. /\ "none" \in Reasons /\ 0 \in 0 .. MaxRuns
  BY BudgetAssumption DEF Reasons
<1> QED
  BY <1>2, <1>3, <1>5, <1>6, <1>7 DEF Init, TypeOK

\* Whoever writes beside the driver saves one fact, and never a look.
LEMMA WritesFacts ==
  ASSUME TypeOK, WriteTopics \/ StoreSource
  PROVE  \E f \in Fact, counts \in BOOLEAN :
           /\ f.kind # "looked"
           /\ f.kind = "stored" => f.position >= corpus
           /\ Write(f, counts)
<1>1. CASE WriteTopics
  <2>0. PICK t \in Topics : OpenTopic(t) \/ RecordFinding(t) \/ WorkOn(t) \/ SetTopicStatus(t)
    BY <1>1 DEF WriteTopics
  <2>1. t \in Topics \ {0}
    BY AttentionAssumption DEF Topics
  <2>2. ASSUME NEW kind \in Kinds \ {"stored", "looked"}
        PROVE  OfTopic(t, kind) \in Fact /\ OfTopic(t, kind).kind \notin {"looked", "stored"}
    BY <2>1 DEF OfTopic, Fact
  <2>3. CASE OpenTopic(t)
    BY <2>2, <2>3 DEF OpenTopic, Kinds
  <2>4. CASE RecordFinding(t)
    BY <2>2, <2>4 DEF RecordFinding, Kinds
  <2>5. CASE WorkOn(t)
    <3>1. PICK standing \in Standing, counts \in BOOLEAN : Write(OfTopic(t, standing), counts)
      BY <2>5 DEF WorkOn
    <3>2. standing \in Kinds \ {"stored", "looked"}
      BY <3>1 DEF Kinds, Standing
    <3> QED
      BY <2>2, <3>1, <3>2
  <2>6. CASE SetTopicStatus(t)
    <3>1. PICK status \in {"live", "closed"} : Write(OfTopic(t, status), FALSE)
      BY <2>6 DEF SetTopicStatus
    <3>2. status \in Kinds \ {"stored", "looked"}
      BY <3>1 DEF Kinds
    <3> QED
      BY <2>2, <3>1, <3>2
  <2> QED
    BY <2>0, <2>3, <2>4, <2>5, <2>6
<1>2. CASE StoreSource
  <2> DEFINE f == [of |-> 0, kind |-> "stored", position |-> corpus + 1]
  <2>1. f \in Fact /\ f.kind # "looked" /\ f.position >= corpus
    BY DEF Fact, Kinds, TypeOK
  <2>2. Write(f, FALSE)
    BY <1>2 DEF StoreSource
  <2> QED
    BY <2>1, <2>2
<1> QED
  BY <1>1, <1>2

\* The look that the driver records is a fact of its topic.
LEMMA LookFact ==
  ASSUME TypeOK, RunInv, pc = "stamp"
  PROVE  [of |-> round.topic, kind |-> "looked", position |-> round.stamp] \in Fact
<1>1. round.topic \in Topics /\ round.stamp \in Nat /\ round.topic # 0
  BY AttentionAssumption DEF RunInv, InHand, TypeOK, Round, Topics
<1> QED
  BY <1>1 DEF Fact, Kinds

\* Saving a fact keeps the types of the streams.
LEMMA SaveTypes ==
  ASSUME TypeOK, NEW f \in Fact, Save(f)
  PROVE  /\ topic' \in [Topics -> TopicState]
         /\ corpus' \in Nat
         /\ pending' \in Seq(Fact)
         /\ owed' \in BOOLEAN
<1>1. Now \in View
  BY DEF TypeOK, Now, View
<1>2. Told(Now, f) \in View
  BY <1>1, ToldFields
<1>3. topic' \in [Topics -> TopicState] /\ corpus' \in Nat
  BY <1>2 DEF Save, View
<1>4. pending' \in Seq(Fact)
  BY DEF Save, TypeOK
<1> QED
  BY <1>3, <1>4 DEF Save

\* The projection keeps the types of the tables.
LEMMA ProjectTypes ==
  ASSUME TypeOK, Project
  PROVE  /\ Head(pending) \in Fact /\ pending \in Seq(Fact) /\ pending # <<>>
         /\ view' \in View
         /\ pending' \in Seq(Fact)
         /\ ahead' \in Nat
         /\ drifted' \in SUBSET Topics
         /\ lapses' \in Nat
<1>1. pending \in Seq(Fact) /\ pending # <<>>
  BY DEF Project, CatchUp, ApplyOnly, DeadLetter, Apply, TypeOK
<1>2. Head(pending) \in Fact /\ Tail(pending) \in Seq(Fact)
  BY <1>1
<1>3. Told(view, Head(pending)) \in View /\ view \in View
  BY <1>2, ToldFields DEF TypeOK
<1>4. view' \in View
  BY <1>3 DEF Project, CatchUp, ApplyOnly, DeadLetter, Apply
<1>5. pending' \in Seq(Fact) /\ ahead' \in Nat
  <2>1. ahead \in Nat
    BY DEF TypeOK
  <2>2. CASE Pass
    BY <1>2, <2>1, <2>2 DEF Pass
  <2>3. CASE ApplyOnly
    BY <1>1, <2>1, <2>3 DEF ApplyOnly, streams
  <2> QED
    BY <2>2, <2>3 DEF Project, CatchUp, DeadLetter
<1>6. lapses' \in Nat
  BY DEF Project, CatchUp, ApplyOnly, DeadLetter, TypeOK
<1>7. Head(pending).kind = "looked" => Head(pending).of \in Topics
  BY <1>2 DEF Fact
<1>8. drifted' \in SUBSET Topics
  BY <1>7 DEF Project, CatchUp, ApplyOnly, DeadLetter, TypeOK
<1> QED
  BY <1>1, <1>2, <1>4, <1>5, <1>6, <1>8

\* Every step keeps the types.
LEMMA TypeStep == TypeOK /\ RunInv /\ [Next]_vars => TypeOK'
<1> SUFFICES ASSUME TypeOK, RunInv, [Next]_vars PROVE TypeOK'
  OBVIOUS
<1> USE BudgetAssumption DEF store, streams, projection, driver, supervisor
<1>a. pc # "idle" => cur \in Runs
  BY DEF TypeOK, RunInv, UnderWay, Runs
<1>b. ASSUME NEW s \in RunState, cur \in Runs
      PROVE  [log EXCEPT ![cur] = s] \in [Runs -> RunState]
  BY <1>b DEF TypeOK
<1>c. cur \in Runs => log[cur] \in RunState
  BY DEF TypeOK
<1>d. NoRound \in Round /\ Outcome(round) \in Round
  BY OutcomeFold DEF TypeOK
<1>e. /\ "none" \in Reasons /\ "queue_empty" \in Reasons
      /\ 0 \in Nat /\ 0 \in 0 .. MaxRuns
  BY DEF Reasons
<1>1. CASE StartRun
  BY <1>1 DEF StartRun, TypeOK, Driving
<1>2. CASE CreateRun
  <2>1. log' \in [Runs -> RunState]
    BY <1>2, <1>a, <1>b, <1>c, StartedFold DEF CreateRun
  <2> QED
    BY <1>2, <2>1 DEF CreateRun, TypeOK, Driving
<1>3. CASE CreateRaises
  BY <1>3 DEF CreateRaises, TypeOK
<1>4. CASE Check
  <2>1. cur \in Runs
    BY <1>4, <1>a DEF Check
  <2>2. Verdict(log[cur], cancelled) \in Reasons
    BY <2>1, <1>c, ExhaustedMeans DEF Verdict, Reasons
  <2>3. reason' \in Reasons /\ round' \in Round
    BY <1>4, <2>2, <1>d DEF Check
  <2> QED
    BY <1>4, <2>3 DEF Check, TypeOK, Driving
<1>5. CASE FindNothing
  BY <1>5, <1>e DEF FindNothing, TypeOK, Driving
<1>6. CASE PickTopic
  <2>1. PICK t \in Heads(view) :
          round' = [NoRound EXCEPT !.topic = t,
                                   !.why = Attention(view.topic[t], view.corpus)]
    BY <1>6 DEF PickTopic
  <2>2. round' \in Round
    BY <2>1, QueueTypes, PickedRound
  <2> QED
    BY <1>6, <2>2 DEF PickTopic, TypeOK, Driving
<1>7. CASE SaveBegun
  <2>1. cur \in Runs /\ round.topic \in Topics
    BY <1>7, <1>a DEF SaveBegun, RunInv, InHand
  <2>2. log' \in [Runs -> RunState]
    BY <1>7, <2>1, <1>b, <1>c, RoundStartedFold DEF SaveBegun
  <2>3. late' \in Nat
    BY <1>7 DEF SaveBegun, TypeOK
  <2> QED
    BY <1>7, <2>2, <2>3 DEF SaveBegun, TypeOK, Driving
<1>8. CASE TurnEnds
  <2>1. round' \in Round /\ owed' \in BOOLEAN
    <3>1. PICK flag \in BOOLEAN :
            /\ round' = [round EXCEPT !.why = {}, !.failed = flag, !.made = @ /\ ~ flag]
            /\ owed' = (owed \/ ~ flag)
      BY <1>8 DEF TurnEnds
    <3>2. round' \in Round
      BY <3>1, EndedRound DEF TypeOK
    <3> QED
      BY <3>1, <3>2 DEF TypeOK
  <2> QED
    BY <1>8, <2>1 DEF TurnEnds, TypeOK, Driving
<1>9. CASE ReadHighWater
  <2>1. view.corpus \in Nat
    BY DEF TypeOK, View
  <2>2. round' \in Round
    BY <1>9, <2>1, StampedRound DEF ReadHighWater, TypeOK
  <2> QED
    BY <1>9, <2>2 DEF ReadHighWater, TypeOK, Driving
<1>10. CASE RecordLook
  <2> DEFINE f == [of |-> round.topic, kind |-> "looked", position |-> round.stamp]
  <2>1. f \in Fact
    BY <1>10, LookFact DEF RecordLook
  <2>2. Save(f)
    BY <1>10 DEF RecordLook
  <2> HIDE DEF f
  <2>3. /\ topic' \in [Topics -> TopicState] /\ corpus' \in Nat
        /\ pending' \in Seq(Fact) /\ owed' \in BOOLEAN
    BY <2>1, <2>2, SaveTypes
  <2> QED
    BY <1>10, <2>3, <1>d DEF RecordLook, TypeOK, Driving
<1>11. CASE LookFails
  BY <1>11, <1>d DEF LookFails, TypeOK, Driving
<1>12. CASE ReadTarget
  <2>1. ahead' \in Nat
    BY <1>12 DEF ReadTarget, TypeOK
  <2> QED
    BY <1>12, <2>1 DEF ReadTarget, TypeOK, Driving
<1>13. CASE Settle
  BY <1>13 DEF Settle, TypeOK, Driving
<1>14. CASE SettleTimesOut
  BY <1>14 DEF SettleTimesOut, TypeOK
<1>15. CASE SaveRound
  <2>1. cur \in Runs /\ round.made \in BOOLEAN
    BY <1>15, <1>a DEF SaveRound, TypeOK, Round
  <2>2. log' \in [Runs -> RunState]
    BY <1>15, <2>1, <1>b, <1>c, RoundFailedFold, RoundCompletedFold DEF SaveRound
  <2> QED
    BY <1>15, <2>2 DEF SaveRound, TypeOK, Driving
<1>16. CASE CountOutstanding
  <2>1. round' \in Round
    <3> DEFINE n == Cardinality(Waiting(view))
    <3>1. n \in Nat
      BY WaitingCounts
    <3>2. round' = [NoRound EXCEPT !.outstanding = n]
      BY <1>16 DEF CountOutstanding
    <3> HIDE DEF n
    <3> QED
      BY <3>1, <3>2, StampedRound DEF TypeOK
  <2> QED
    BY <1>16, <2>1 DEF CountOutstanding, TypeOK, Driving
<1>17. CASE SaveStop
  <2>1. cur \in Runs /\ reason \in Reasons /\ round.outstanding \in Nat
    BY <1>17, <1>a DEF SaveStop, TypeOK, Round
  <2>2. log' \in [Runs -> RunState]
    BY <1>17, <2>1, <1>b, <1>c, StoppedFold DEF SaveStop
  <2> QED
    BY <1>17, <2>2 DEF SaveStop, TypeOK
<1>18. CASE Raises
  BY <1>18 DEF Raises, TypeOK
<1>19. CASE Unwind
  BY <1>19 DEF Unwind, TypeOK
<1>20. CASE Finish
  BY <1>20, <1>d, <1>e DEF Finish, TypeOK
<1>21. CASE Cancel
  BY <1>21, <1>a DEF Cancel, TypeOK
<1>22. CASE Crash
  BY <1>22, <1>d, <1>e DEF Crash, TypeOK
<1>23. CASE WriteTopics \/ StoreSource
  <2>1. PICK f \in Fact, counts \in BOOLEAN : Write(f, counts)
    BY <1>23, WritesFacts
  <2>2. /\ topic' \in [Topics -> TopicState] /\ corpus' \in Nat
        /\ pending' \in Seq(Fact) /\ owed' \in BOOLEAN
    BY <2>1, SaveTypes DEF Write
  <2>3. round' \in Round
    BY <2>1, ProductiveRound DEF Write, TypeOK
  <2>4. changes' \in Nat
    BY <2>1 DEF Write, TypeOK
  <2> QED
    BY <2>1, <2>2, <2>3, <2>4 DEF Write, TypeOK
<1>24. CASE AppendElsewhere
  BY <1>24 DEF AppendElsewhere, TypeOK
<1>25. CASE Project
  <2>1. /\ view' \in View /\ pending' \in Seq(Fact) /\ ahead' \in Nat
        /\ drifted' \in SUBSET Topics /\ lapses' \in Nat
    BY <1>25, ProjectTypes
  <2>2. UNCHANGED <<topic, corpus, owed, driver, round, supervisor, changes>>
    BY <1>25 DEF Project, CatchUp, ApplyOnly, DeadLetter
  <2> QED
    BY <2>1, <2>2 DEF TypeOK
<1>27. CASE UNCHANGED vars
  BY <1>27 DEF vars, TypeOK
<1> QED
  BY <1>1, <1>2, <1>3, <1>4, <1>5, <1>6, <1>7, <1>8, <1>9, <1>10, <1>11, <1>12,
     <1>13, <1>14, <1>15, <1>16, <1>17, <1>18, <1>19, <1>20, <1>21, <1>22,
     <1>23, <1>24, <1>25, <1>27 DEF Next, Drive

-----------------------------------------------------------------------------
(***************************************************************************)
(* What the driver knows at each await.                                    *)
(***************************************************************************)

\* No run is under way when the service comes up.
LEMMA RunInit == Init => RunInv
<1> SUFFICES ASSUME Init PROVE RunInv
  OBVIOUS
<1> USE DEF Init
<1>1. Streams
  BY DEF Streams, NewRun, Runs
<1>2. UnderWay /\ InHand /\ BudgetLeft /\ StopIsEarned /\ FlagStands
  BY DEF UnderWay, InHand, BudgetLeft, StopIsEarned, FlagStands, Driving
<1> QED
  BY <1>1, <1>2 DEF RunInv

\* A step that leaves the streams alone, and what goes with them.
LEMMA StreamsKept ==
  ASSUME TypeOK, RunInv, UNCHANGED <<log, cur>>
  PROVE  Streams'
BY DEF RunInv, Streams

\* A step that appends to the current run's stream only.
LEMMA StreamsGrow ==
  ASSUME TypeOK, RunInv, UNCHANGED cur, cur \in Runs, NEW s \in RunState,
         log' = [log EXCEPT ![cur] = s], s.turns = s.rounds
  PROVE  Streams' /\ log'[cur] = s
<1>1. log'[cur] = s /\ \A r \in Runs : r # cur => log'[r] = log[r]
  BY DEF TypeOK
<1>2. \A r \in Runs : r > cur => r # cur
  BY DEF Runs
<1> QED
  BY <1>1, <1>2 DEF RunInv, Streams

\* A step that leaves the streams, the driver's place and its locals alone.
LEMMA PartsKept ==
  ASSUME TypeOK, RunInv, UNCHANGED <<log, cur, pc, reason, cancelled, grant, asked, late>>,
         round'.topic = round.topic, round'.outstanding = round.outstanding
  PROVE  RunInv'
<1>1. Streams'
  BY StreamsKept
<1>2. UnderWay'
  BY DEF RunInv, UnderWay
<1>3. InHand'
  BY DEF RunInv, InHand
<1>4. BudgetLeft'
  BY DEF RunInv, BudgetLeft
<1>5. StopIsEarned'
  BY DEF RunInv, StopIsEarned
<1>6. FlagStands'
  BY DEF RunInv, FlagStands
<1> QED
  BY <1>1, <1>2, <1>3, <1>4, <1>5, <1>6 DEF RunInv

\* Every step keeps what the driver knows at each await.
LEMMA RunStep == TypeOK /\ RunInv /\ [Next]_vars => RunInv'
<1> SUFFICES ASSUME TypeOK, RunInv, [Next]_vars PROVE RunInv'
  OBVIOUS
<1> USE DEF store, streams, projection, driver, supervisor
<1>a. pc # "idle" => cur \in Runs
  BY BudgetAssumption DEF TypeOK, RunInv, UnderWay, Runs
<1>c. cur \in Runs => log[cur] \in RunState /\ log[cur].turns = log[cur].rounds
  BY DEF TypeOK, RunInv, Streams
<1> DEFINE Parts == UnderWay /\ InHand /\ BudgetLeft /\ StopIsEarned /\ FlagStands
<1>p. Parts
  BY DEF RunInv
<1>q. Streams' /\ Parts' => RunInv'
  BY DEF RunInv
<1>1. CASE StartRun
  <2>1. cur \in 0 .. MaxRuns /\ cur < MaxRuns /\ cur' = cur + 1 /\ UNCHANGED log /\ MaxRuns \in Nat
    BY <1>1, BudgetAssumption DEF StartRun, TypeOK
  <2>2. cur' \in Runs /\ cur' > cur /\ cur' # 0
    BY <2>1 DEF Runs
  <2>3. log'[cur'] = NewRun
    BY <2>1, <2>2 DEF RunInv, Streams
  <2>4. \A r \in Runs : r > cur' => r > cur
    BY <2>1 DEF Runs
  <2>5. Streams'
    BY <2>1, <2>4 DEF RunInv, Streams
  <2>6. pc' = "create" /\ UNCHANGED <<cancelled, late>> /\ pc = "idle"
    BY <1>1 DEF StartRun
  <2>7. UnderWay' /\ InHand' /\ BudgetLeft' /\ StopIsEarned'
    BY <2>2, <2>3, <2>6 DEF UnderWay, InHand, BudgetLeft, StopIsEarned, Driving
  <2>8. FlagStands'
    BY <2>6, <1>p DEF FlagStands
  <2> QED
    BY <2>5, <2>7, <2>8, <1>q
<1>2. CASE CreateRun
  <2> DEFINE s == Started(log[cur])
  <2>0. cur \in Runs /\ log[cur] = NewRun /\ NewRun.inflight = 0 /\ log[cur] \in RunState
    BY <1>2, <1>a, <1>c DEF CreateRun, RunInv, UnderWay, NewRun
  <2>1. s \in RunState /\ s.status = "running" /\ s.inflight = 0 /\ s.turns = s.rounds
    BY <2>0, <1>c, StartedFold
  <2> HIDE DEF s
  <2>2. log' = [log EXCEPT ![cur] = s] /\ UNCHANGED cur
    BY <1>2 DEF CreateRun, s
  <2>3. Streams' /\ log'[cur] = s
    BY <2>0, <2>1, <2>2, StreamsGrow
  <2>4. pc = "create" /\ pc' = "check" /\ grant' = cur /\ UNCHANGED <<cancelled, late, asked, cur>>
    BY <1>2 DEF CreateRun
  <2>5. cur # 0
    BY <2>0 DEF Runs
  <2>6. UnderWay'
    BY <2>1, <2>3, <2>4, <2>5 DEF UnderWay
  <2>7. InHand' /\ BudgetLeft' /\ StopIsEarned'
    BY <2>1, <2>3, <2>4 DEF InHand, BudgetLeft, StopIsEarned
  <2>8. FlagStands'
    BY <1>p, <2>4 DEF FlagStands
  <2> QED
    BY <2>3, <2>6, <2>7, <2>8, <1>q
<1>3. CASE CreateRaises
  <2>1. Streams'
    BY <1>3, StreamsKept DEF CreateRaises
  <2>2. Parts'
    BY <1>3, <1>p
       DEF CreateRaises, UnderWay, InHand, BudgetLeft, StopIsEarned, FlagStands, Driving
  <2> QED
    BY <2>1, <2>2, <1>q
<1>4. CASE Check
  <2> DEFINE verdict == Verdict(log[cur], cancelled)
  <2>1. Streams'
    BY <1>4, StreamsKept DEF Check
  <2>2. /\ pc = "check" /\ reason' = verdict /\ round' = NoRound
        /\ pc' = IF verdict = "none" THEN "evaluate" ELSE "count"
        /\ UNCHANGED <<log, cur, cancelled, asked, grant, late>>
    BY <1>4 DEF Check
  <2>3. NoRound.outstanding = 0
    BY DEF NoRound
  <2>4. /\ verdict = "none" <=> Exhausted(log[cur]) = "none" /\ ~ cancelled
        /\ verdict # "none" =>
             verdict = IF Exhausted(log[cur]) # "none" THEN Exhausted(log[cur]) ELSE "cancelled"
        /\ verdict # "none" /\ Exhausted(log[cur]) = "none" => cancelled
    BY DEF Verdict
  <2> HIDE DEF verdict
  <2>5. UnderWay' /\ InHand'
    BY <1>p, <2>2, <2>3 DEF UnderWay, InHand, Driving
  <2>6. BudgetLeft'
    BY <2>2, <2>4 DEF BudgetLeft
  <2>7. StopIsEarned'
    BY <1>p, <2>2, <2>4 DEF StopIsEarned, FlagStands
  <2>8. FlagStands'
    BY <1>p, <2>2, <2>4 DEF FlagStands
  <2> QED
    BY <2>1, <2>5, <2>6, <2>7, <2>8, <1>q
<1>5. CASE FindNothing
  <2>1. Streams'
    BY <1>5, StreamsKept DEF FindNothing
  <2>2. Parts'
    BY <1>5, <1>p
       DEF FindNothing, UnderWay, InHand, BudgetLeft, StopIsEarned, FlagStands, Driving
  <2> QED
    BY <2>1, <2>2, <1>q
<1>6. CASE PickTopic
  <2>1. Streams'
    BY <1>6, StreamsKept DEF PickTopic
  <2>2. PICK t \in Heads(view) :
          round' = [NoRound EXCEPT !.topic = t,
                                   !.why = Attention(view.topic[t], view.corpus)]
    BY <1>6 DEF PickTopic
  <2>3. round'.topic = t /\ t \in Topics
    BY <2>2, QueueTypes DEF NoRound
  <2>4. Parts'
    BY <1>6, <1>p, <2>3
       DEF PickTopic, UnderWay, InHand, BudgetLeft, StopIsEarned, FlagStands, Driving
  <2> QED
    BY <2>1, <2>4, <1>q
<1>7. CASE SaveBegun
  <2> DEFINE s == RoundStarted(log[cur], round.topic)
  <2>0. cur \in Runs /\ round.topic \in Topics /\ log[cur] \in RunState
        /\ log[cur].status = "running" /\ Exhausted(log[cur]) = "none"
    BY <1>7, <1>a, <1>c DEF SaveBegun, RunInv, InHand, UnderWay, BudgetLeft, Driving
  <2>1. /\ s \in RunState /\ s.status = "running" /\ s.turns = s.rounds
        /\ s.quiet = log[cur].quiet /\ s.failures = log[cur].failures
    BY <2>0, <1>c, RoundStartedFold
  <2>2. log[cur].quiet < QuietRounds /\ log[cur].failures < MaxFailures
    BY <2>0, ExhaustedMeans
  <2> HIDE DEF s
  <2>3. log' = [log EXCEPT ![cur] = s] /\ UNCHANGED cur
    BY <1>7 DEF SaveBegun, s
  <2>4. Streams' /\ log'[cur] = s
    BY <2>0, <2>1, <2>3, StreamsGrow
  <2>5. /\ pc = "begin" /\ pc' = "turn" /\ UNCHANGED <<cur, round, cancelled, grant, asked>>
        /\ late' = IF cancelled THEN late + 1 ELSE late
    BY <1>7 DEF SaveBegun
  <2>6. UnderWay' /\ InHand' /\ StopIsEarned'
    BY <1>p, <2>0, <2>1, <2>4, <2>5 DEF UnderWay, InHand, StopIsEarned, Driving
  <2>7. BudgetLeft'
    BY <2>1, <2>2, <2>4, <2>5 DEF BudgetLeft
  <2>8. late = 0
    BY <1>p, <2>5 DEF FlagStands
  <2>9. FlagStands'
    BY <1>p, <2>5, <2>8 DEF FlagStands
  <2> QED
    BY <2>4, <2>6, <2>7, <2>9, <1>q
<1>8. CASE TurnEnds
  <2>1. Streams'
    BY <1>8, StreamsKept DEF TurnEnds
  <2>2. round'.topic = round.topic
    BY <1>8 DEF TurnEnds, TypeOK, Round
  <2>3. Parts'
    BY <1>8, <1>p, <2>2
       DEF TurnEnds, UnderWay, InHand, BudgetLeft, StopIsEarned, FlagStands, Driving
  <2> QED
    BY <2>1, <2>3, <1>q
<1>9. CASE ReadHighWater
  <2>1. Streams'
    BY <1>9, StreamsKept DEF ReadHighWater
  <2>2. round'.topic = round.topic
    BY <1>9 DEF ReadHighWater, TypeOK, Round
  <2>3. Parts'
    BY <1>9, <1>p, <2>2
       DEF ReadHighWater, UnderWay, InHand, BudgetLeft, StopIsEarned, FlagStands, Driving
  <2> QED
    BY <2>1, <2>3, <1>q
<1>10. CASE RecordLook
  <2>1. Streams'
    BY <1>10, StreamsKept DEF RecordLook
  <2>2. Parts'
    BY <1>10, <1>p
       DEF RecordLook, UnderWay, InHand, BudgetLeft, StopIsEarned, FlagStands, Driving
  <2> QED
    BY <2>1, <2>2, <1>q
<1>11. CASE LookFails
  <2>1. Streams'
    BY <1>11, StreamsKept DEF LookFails
  <2>2. Parts'
    BY <1>11, <1>p
       DEF LookFails, UnderWay, InHand, BudgetLeft, StopIsEarned, FlagStands, Driving
  <2> QED
    BY <2>1, <2>2, <1>q
<1>12. CASE ReadTarget
  <2>1. Streams'
    BY <1>12, StreamsKept DEF ReadTarget
  <2>2. Parts'
    BY <1>12, <1>p
       DEF ReadTarget, UnderWay, InHand, BudgetLeft, StopIsEarned, FlagStands, Driving
  <2> QED
    BY <2>1, <2>2, <1>q
<1>13. CASE Settle
  <2>1. Streams'
    BY <1>13, StreamsKept DEF Settle
  <2>2. Parts'
    BY <1>13, <1>p
       DEF Settle, UnderWay, InHand, BudgetLeft, StopIsEarned, FlagStands, Driving
  <2> QED
    BY <2>1, <2>2, <1>q
<1>14. CASE SettleTimesOut
  <2>1. Streams'
    BY <1>14, StreamsKept DEF SettleTimesOut
  <2>2. Parts'
    BY <1>14, <1>p
       DEF SettleTimesOut, UnderWay, InHand, BudgetLeft, StopIsEarned, FlagStands, Driving
  <2> QED
    BY <2>1, <2>2, <1>q
<1>15. CASE SaveRound
  <2> DEFINE s == IF round.failed THEN RoundFailed(log[cur])
                  ELSE RoundCompleted(log[cur], round.made)
  <2>0. cur \in Runs /\ round.made \in BOOLEAN /\ log[cur] \in RunState
        /\ log[cur].status = "running"
    BY <1>15, <1>a, <1>c DEF SaveRound, RunInv, UnderWay, Driving, TypeOK, Round
  <2>1. s \in RunState /\ s.status = "running" /\ s.turns = s.rounds /\ s.inflight = 0
    BY <2>0, <1>c, RoundFailedFold, RoundCompletedFold
  <2> HIDE DEF s
  <2>3. log' = [log EXCEPT ![cur] = s] /\ UNCHANGED cur
    BY <1>15 DEF SaveRound, s
  <2>4. Streams' /\ log'[cur] = s
    BY <2>0, <2>1, <2>3, StreamsGrow
  <2>5. pc = "record" /\ pc' = "check" /\ UNCHANGED <<cur, cancelled, grant, asked, late>>
    BY <1>15 DEF SaveRound
  <2>6. Parts'
    BY <1>p, <2>1, <2>4, <2>5
       DEF UnderWay, InHand, BudgetLeft, StopIsEarned, FlagStands, Driving
  <2> QED
    BY <2>4, <2>6, <1>q
<1>16. CASE CountOutstanding
  <2>1. Streams'
    BY <1>16, StreamsKept DEF CountOutstanding
  <2>2. Parts'
    BY <1>16, <1>p
       DEF CountOutstanding, UnderWay, InHand, BudgetLeft, StopIsEarned, FlagStands, Driving
  <2> QED
    BY <2>1, <2>2, <1>q
<1>17. CASE SaveStop
  <2> DEFINE s == Stopped(log[cur], reason, round.outstanding)
  <2>0. cur \in Runs /\ reason \in Reasons /\ round.outstanding \in Nat /\ log[cur] \in RunState
    BY <1>17, <1>a, <1>c DEF SaveStop, TypeOK, Round
  <2>1. s \in RunState /\ s.turns = s.rounds
    BY <2>0, <1>c, StoppedFold
  <2> HIDE DEF s
  <2>3. log' = [log EXCEPT ![cur] = s] /\ UNCHANGED cur
    BY <1>17 DEF SaveStop, s
  <2>4. Streams'
    BY <2>0, <2>1, <2>3, StreamsGrow
  <2>5. pc = "stop" /\ pc' = "unwind" /\ UNCHANGED <<cur, cancelled, asked, late>>
    BY <1>17 DEF SaveStop
  <2>6. Parts'
    BY <1>p, <2>5 DEF UnderWay, InHand, BudgetLeft, StopIsEarned, FlagStands, Driving
  <2> QED
    BY <2>4, <2>6, <1>q
<1>18. CASE Raises
  <2>1. Streams'
    BY <1>18, StreamsKept DEF Raises
  <2>2. Parts'
    BY <1>18, <1>p
       DEF Raises, UnderWay, InHand, BudgetLeft, StopIsEarned, FlagStands, Driving
  <2> QED
    BY <2>1, <2>2, <1>q
<1>19. CASE Unwind
  <2>1. Streams'
    BY <1>19, StreamsKept DEF Unwind
  <2>2. Parts'
    BY <1>19, <1>p
       DEF Unwind, UnderWay, InHand, BudgetLeft, StopIsEarned, FlagStands, Driving
  <2> QED
    BY <2>1, <2>2, <1>q
<1>20. CASE Finish
  <2>1. Streams'
    BY <1>20, StreamsKept DEF Finish
  <2>2. Parts'
    BY <1>20, <1>p
       DEF Finish, UnderWay, InHand, BudgetLeft, StopIsEarned, FlagStands, Driving
  <2> QED
    BY <2>1, <2>2, <1>q
<1>21. CASE Cancel
  <2>1. Streams'
    BY <1>21, StreamsKept DEF Cancel
  <2>2. Parts'
    BY <1>21, <1>p
       DEF Cancel, UnderWay, InHand, BudgetLeft, StopIsEarned, FlagStands, Driving
  <2> QED
    BY <2>1, <2>2, <1>q
<1>22. CASE Crash
  <2>1. Streams'
    BY <1>22, StreamsKept DEF Crash
  <2>2. Parts'
    BY <1>22, <1>p
       DEF Crash, UnderWay, InHand, BudgetLeft, StopIsEarned, FlagStands, Driving
  <2> QED
    BY <2>1, <2>2, <1>q
<1>23. CASE WriteTopics \/ StoreSource
  <2>1. PICK f \in Fact, counts \in BOOLEAN : Write(f, counts)
    BY <1>23, WritesFacts
  <2>2. round'.topic = round.topic /\ round'.outstanding = round.outstanding
    BY <2>1 DEF Write, TypeOK, Round
  <2> QED
    BY <2>1, <2>2, PartsKept DEF Write
<1>24. CASE AppendElsewhere
  BY <1>24, PartsKept DEF AppendElsewhere
<1>25. CASE Project
  BY <1>25, PartsKept DEF Project, CatchUp, ApplyOnly, DeadLetter
<1>27. CASE UNCHANGED vars
  BY <1>27, PartsKept DEF vars
<1> QED
  BY <1>1, <1>2, <1>3, <1>4, <1>5, <1>6, <1>7, <1>8, <1>9, <1>10, <1>11, <1>12,
     <1>13, <1>14, <1>15, <1>16, <1>17, <1>18, <1>19, <1>20, <1>21, <1>22,
     <1>23, <1>24, <1>25, <1>27 DEF Next, Drive

-----------------------------------------------------------------------------
(***************************************************************************)
(* What a step does to the streams, for the properties that read them.     *)
(***************************************************************************)

\* Only four steps write a run's stream, and only the current run's.
LEMMA LogSteps ==
  ASSUME TypeOK, RunInv, [Next]_vars
  PROVE  CreateRun \/ SaveBegun \/ SaveRound \/ SaveStop \/ UNCHANGED log
BY DEF Next, Drive, StartRun, CreateRaises, Check, FindNothing, PickTopic, TurnEnds,
       ReadHighWater, RecordLook, LookFails, ReadTarget, Settle, SettleTimesOut,
       CountOutstanding, Raises, Unwind, Finish, Cancel, Crash, WriteTopics,
       OpenTopic, RecordFinding, WorkOn, SetTopicStatus, Write, StoreSource,
       AppendElsewhere, Project, CatchUp, ApplyOnly, DeadLetter, vars, driver

\* Nobody takes back having asked.
LEMMA AskedGrows ==
  ASSUME TypeOK, RunInv, [Next]_vars
  PROVE  asked \subseteq asked'
BY DEF Next, Drive, StartRun, CreateRun, CreateRaises, Check, FindNothing, PickTopic,
       SaveBegun, TurnEnds, ReadHighWater, RecordLook, LookFails, ReadTarget, Settle,
       SettleTimesOut, SaveRound, CountOutstanding, SaveStop, Raises, Unwind, Finish,
       Cancel, Crash, WriteTopics, OpenTopic, RecordFinding, WorkOn, SetTopicStatus,
       Write, StoreSource, AppendElsewhere, Project, CatchUp, ApplyOnly, DeadLetter,
       vars, supervisor

\* A run's stream when a run that is under way appends.
LEMMA CurrentRun ==
  ASSUME TypeOK, RunInv, pc # "idle"
  PROVE  cur \in Runs /\ log[cur] \in RunState
BY BudgetAssumption DEF TypeOK, RunInv, UnderWay, Runs

\* What one stream has spent is within its budget.
Within(s) ==
  /\ s.rounds <= MaxRounds
  /\ s.turns <= MaxTurns
  /\ s.quiet <= QuietRounds
  /\ s.failures <= MaxFailures

\* Appending within the budget to one stream keeps all of them within it.
LEMMA BudgetKept ==
  ASSUME TypeOK, BudgetRespected, cur \in Runs, NEW s, Within(s),
         log' = [log EXCEPT ![cur] = s]
  PROVE  BudgetRespected'
<1>1. \A r \in Runs : log'[r] = IF r = cur THEN s ELSE log[r]
  BY DEF TypeOK
<1> QED
  BY <1>1 DEF BudgetRespected, Within

\* No step takes a run past its budget.
LEMMA BudgetStep ==
  ASSUME TypeOK, RunInv, BudgetRespected, [Next]_vars
  PROVE  BudgetRespected'
<1> USE BudgetAssumption
<1>1. CASE CreateRun
  <2>1. cur \in Runs /\ log[cur] \in RunState /\ log' = [log EXCEPT ![cur] = Started(@)]
    BY <1>1, CurrentRun DEF CreateRun
  <2> DEFINE s == Started(log[cur])
  <2>2. /\ s.rounds = log[cur].rounds /\ s.turns = log[cur].turns
        /\ s.quiet = log[cur].quiet /\ s.failures = log[cur].failures
    BY <2>1, StartedFold
  <2>3. log' = [log EXCEPT ![cur] = s]
    BY <2>1
  <2> HIDE DEF s
  <2>4. Within(s)
    BY <2>1, <2>2 DEF Within, BudgetRespected
  <2> QED
    BY <2>1, <2>3, <2>4, BudgetKept
<1>2. CASE SaveBegun
  <2>1. /\ cur \in Runs /\ log[cur] \in RunState /\ round.topic \in Topics
        /\ Exhausted(log[cur]) = "none"
        /\ log' = [log EXCEPT ![cur] = RoundStarted(@, round.topic)]
    BY <1>2, CurrentRun DEF SaveBegun, RunInv, InHand, BudgetLeft
  <2> DEFINE s == RoundStarted(log[cur], round.topic)
  <2>2. /\ s.rounds = log[cur].rounds + 1 /\ s.turns = log[cur].turns + 1
        /\ s.quiet = log[cur].quiet /\ s.failures = log[cur].failures
    BY <2>1, RoundStartedFold
  <2>3. log' = [log EXCEPT ![cur] = s]
    BY <2>1
  <2>4. /\ log[cur].rounds < MaxRounds /\ log[cur].turns < MaxTurns
        /\ log[cur].quiet < QuietRounds /\ log[cur].failures < MaxFailures
    BY <2>1, ExhaustedMeans
  <2>5. /\ log[cur].rounds \in Nat /\ log[cur].turns \in Nat
        /\ log[cur].quiet \in Nat /\ log[cur].failures \in Nat
    BY <2>1 DEF RunState
  <2> HIDE DEF s
  <2>6. Within(s)
    BY <2>2, <2>4, <2>5 DEF Within
  <2> QED
    BY <2>1, <2>3, <2>6, BudgetKept
<1>3. CASE SaveRound
  <2>1. /\ cur \in Runs /\ log[cur] \in RunState /\ round.made \in BOOLEAN
        /\ log[cur].failures < MaxFailures /\ log[cur].quiet < QuietRounds
    BY <1>3, CurrentRun DEF SaveRound, RunInv, BudgetLeft, TypeOK, Round
  <2> DEFINE s == IF round.failed THEN RoundFailed(log[cur])
                  ELSE RoundCompleted(log[cur], round.made)
  <2>2. log' = [log EXCEPT ![cur] = s]
    BY <1>3 DEF SaveRound
  <2>3. /\ log[cur].quiet \in Nat /\ log[cur].failures \in Nat
        /\ log[cur].rounds \in Nat /\ log[cur].turns \in Nat
    BY <2>1 DEF RunState
  <2>4. s \in RunState
    BY <2>1, RoundFailedFold, RoundCompletedFold
  <2>5. /\ s.rounds = log[cur].rounds /\ s.turns = log[cur].turns
        /\ s.quiet <= log[cur].quiet + 1 /\ s.failures <= log[cur].failures + 1
    BY <2>1, <2>3, RoundFailedFold, RoundCompletedFold
  <2>6. s.quiet \in Nat /\ s.failures \in Nat
    BY <2>4 DEF RunState
  <2> HIDE DEF s
  <2>7. log[cur].rounds <= MaxRounds /\ log[cur].turns <= MaxTurns
    BY <2>1 DEF BudgetRespected
  <2>8. Within(s)
    BY <2>1, <2>3, <2>5, <2>6, <2>7 DEF Within
  <2> QED
    BY <2>1, <2>2, <2>8, BudgetKept
<1>4. CASE SaveStop
  <2>1. /\ cur \in Runs /\ log[cur] \in RunState
        /\ reason \in Reasons /\ round.outstanding \in Nat
    BY <1>4, CurrentRun DEF SaveStop, TypeOK, Round
  <2> DEFINE s == Stopped(log[cur], reason, round.outstanding)
  <2>2. log' = [log EXCEPT ![cur] = s]
    BY <1>4 DEF SaveStop
  <2>3. /\ s.rounds = log[cur].rounds /\ s.turns = log[cur].turns
        /\ s.quiet = log[cur].quiet /\ s.failures = log[cur].failures
    BY <2>1, StoppedFold
  <2> HIDE DEF s
  <2>4. Within(s)
    BY <2>1, <2>3 DEF Within, BudgetRespected
  <2> QED
    BY <2>1, <2>2, <2>4, BudgetKept
<1>5. CASE UNCHANGED log
  BY <1>5 DEF BudgetRespected
<1> QED
  BY <1>1, <1>2, <1>3, <1>4, <1>5, LogSteps

\* A stop that is justified by one stream, given who was asked by then.
Just(r, s) ==
  s.status = "stopped" =>
    /\ s.inflight = 0
    /\ IF Exhausted(s) # "none" THEN s.reason = Exhausted(s)
       ELSE \/ s.reason = "cancelled" /\ r \in asked
            \/ s.reason = "queue_empty" /\ s.unexamined = 0

\* Every stop a step appends is justified, and none already there is unsettled.
LEMMA StopsStep ==
  ASSUME TypeOK, RunInv, StopsAreJust, [Next]_vars
  PROVE  StopsAreJust'
<1> USE DEF Just
<1>0. \A r \in Runs : Just(r, log[r])
  BY DEF StopsAreJust
<1>a. asked \subseteq asked'
  BY AskedGrows
<1>b. ASSUME cur \in Runs, NEW s, s.status # "stopped", log' = [log EXCEPT ![cur] = s]
      PROVE  StopsAreJust'
  <2>1. \A r \in Runs : log'[r] = IF r = cur THEN s ELSE log[r]
    BY <1>b DEF TypeOK
  <2> QED
    BY <2>1, <1>0, <1>a, <1>b DEF StopsAreJust, Exhausted
<1>1. CASE CreateRun
  <2>1. cur \in Runs /\ log[cur] \in RunState /\ log' = [log EXCEPT ![cur] = Started(@)]
    BY <1>1, CurrentRun DEF CreateRun
  <2>2. Started(log[cur]).status # "stopped"
    BY <2>1, StartedFold
  <2> QED
    BY <2>1, <2>2, <1>b
<1>2. CASE SaveBegun
  <2>1. /\ cur \in Runs /\ log[cur] \in RunState /\ round.topic \in Topics
        /\ log[cur].status = "running"
        /\ log' = [log EXCEPT ![cur] = RoundStarted(@, round.topic)]
    BY <1>2, CurrentRun DEF SaveBegun, RunInv, InHand, UnderWay, Driving
  <2>2. RoundStarted(log[cur], round.topic).status # "stopped"
    BY <2>1, RoundStartedFold
  <2> QED
    BY <2>1, <2>2, <1>b
<1>3. CASE SaveRound
  <2>1. /\ cur \in Runs /\ log[cur] \in RunState /\ round.made \in BOOLEAN
        /\ log[cur].status = "running"
    BY <1>3, CurrentRun DEF SaveRound, RunInv, UnderWay, Driving, TypeOK, Round
  <2> DEFINE s == IF round.failed THEN RoundFailed(log[cur])
                  ELSE RoundCompleted(log[cur], round.made)
  <2>2. log' = [log EXCEPT ![cur] = s]
    BY <1>3 DEF SaveRound
  <2>3. s.status # "stopped"
    BY <2>1, RoundFailedFold, RoundCompletedFold
  <2> HIDE DEF s
  <2> QED
    BY <2>1, <2>2, <2>3, <1>b
<1>4. CASE SaveStop
  <2>1. /\ cur \in Runs /\ log[cur] \in RunState
        /\ reason \in Reasons /\ round.outstanding \in Nat
        /\ log[cur].inflight = 0 /\ pc = "stop"
    BY <1>4, CurrentRun DEF SaveStop, RunInv, InHand, TypeOK, Round
  <2> DEFINE s == Stopped(log[cur], reason, round.outstanding)
  <2>2. log' = [log EXCEPT ![cur] = s]
    BY <1>4 DEF SaveStop
  <2>3. /\ s.inflight = 0 /\ s.reason = reason /\ s.unexamined = round.outstanding
        /\ Exhausted(s) = Exhausted(log[cur])
    BY <2>1, StoppedFold
  <2> HIDE DEF s
  <2>4. IF Exhausted(s) # "none" THEN s.reason = Exhausted(s)
        ELSE \/ s.reason = "cancelled" /\ cur \in asked
             \/ s.reason = "queue_empty" /\ s.unexamined = 0
    BY <2>1, <2>3 DEF RunInv, StopIsEarned
  <2>5. \A r \in Runs : log'[r] = IF r = cur THEN s ELSE log[r]
    BY <2>2 DEF TypeOK
  <2> QED
    BY <2>3, <2>4, <2>5, <1>0, <1>a DEF StopsAreJust, Exhausted
<1>5. CASE UNCHANGED log
  BY <1>5, <1>0, <1>a DEF StopsAreJust
<1> QED
  BY <1>1, <1>2, <1>3, <1>4, <1>5, LogSteps

\* A step never leaves a grant behind its run.
LEMMA GrantsStep ==
  ASSUME TypeOK, RunInv, RunInv', GrantsEnd, [Next]_vars
  PROVE  GrantsEnd'
<1>1. pc' = "turn" => grant' = cur'
  BY DEF RunInv, UnderWay, Driving
<1>2. pc' \in Driving => grant' = cur'
  BY DEF RunInv, UnderWay
<1>3. grant' # 0 => grant' = cur' /\ pc' \in Driving \cup {"unwind"}
  BY <1>2
     DEF GrantsEnd, Next, Drive, StartRun, CreateRun, CreateRaises, Check, FindNothing,
         PickTopic, SaveBegun, TurnEnds, ReadHighWater, RecordLook, LookFails,
         ReadTarget, Settle, SettleTimesOut, SaveRound, CountOutstanding, SaveStop,
         Raises, Unwind, Finish, Cancel, Crash, WriteTopics, OpenTopic,
         RecordFinding, WorkOn, SetTopicStatus, Write, StoreSource,
         AppendElsewhere, Project, CatchUp, ApplyOnly, DeadLetter, vars, supervisor,
         driver, Driving
<1> QED
  BY <1>1, <1>3 DEF GrantsEnd

-----------------------------------------------------------------------------
(***************************************************************************)
(* The theorems.                                                           *)
(***************************************************************************)

Safe == TypeOK /\ RunInv

\* The types, and what the driver knows at each await, hold of every
\* behaviour of the service: neither is inductive without the other.
THEOREM Safety == Spec => []Safe
<1>1. Init => Safe
  BY TypeInit, RunInit DEF Safe
<1>2. Safe /\ [Next]_vars => Safe'
  BY TypeStep, RunStep DEF Safe
<1> QED
  BY <1>1, <1>2, PTL DEF Spec

\* The streams, the tables and the driver's locals stay well typed.
THEOREM Types == Spec => []TypeOK
<1>1. Safe => TypeOK
  BY DEF Safe
<1> QED
  BY <1>1, Safety, PTL

\* At every await the driver knows what the next step relies on.
THEOREM Knows == Spec => []RunInv
<1>1. Safe => RunInv
  BY DEF Safe
<1> QED
  BY <1>1, Safety, PTL

\* No run ever spends more than its budget.
THEOREM Budget == Spec => []BudgetRespected
<1>1. Init => BudgetRespected
  BY BudgetAssumption DEF Init, BudgetRespected, NewRun
<1>2. Safe /\ BudgetRespected /\ [Next]_vars => BudgetRespected'
  BY BudgetStep DEF Safe
<1> QED
  BY <1>1, <1>2, Safety, PTL DEF Spec

\* No run stops without the evidence for the reason it gives.
THEOREM Stops == Spec => []StopsAreJust
<1>1. Init => StopsAreJust
  BY DEF Init, StopsAreJust, NewRun
<1>2. Safe /\ StopsAreJust /\ [Next]_vars => StopsAreJust'
  BY StopsStep DEF Safe
<1> QED
  BY <1>1, <1>2, Safety, PTL DEF Spec

\* No grant outlives its run, and no round's turn is taken without one.
THEOREM Grants == Spec => []GrantsEnd
<1>1. Init => GrantsEnd
  BY DEF Init, GrantsEnd
<1>2. Safe /\ Safe' /\ GrantsEnd /\ [Next]_vars => GrantsEnd'
  BY GrantsStep DEF Safe
<1> QED
  BY <1>1, <1>2, Safety, PTL DEF Spec

\* A run asked to stop begins at most the round it was already choosing.
THEOREM Prompt == Spec => []CancelIsPrompt
<1>1. Safe => CancelIsPrompt
  BY DEF Safe, TypeOK, RunInv, FlagStands, CancelIsPrompt
<1> QED
  BY <1>1, Safety, PTL
-----------------------------------------------------------------------------
(***************************************************************************)
(* Why the reasons of a round are current: only the driver records looks,  *)
(* and it goes on only when the projection has passed all of them; and of  *)
(* looks that were passed the tables lack only those that were filed.      *)
(***************************************************************************)

IsLook(i) == pending[i].kind = "looked"

LookAt(t, i) == IsLook(i) /\ pending[i].of = t

\* The row of a topic shows its looks.
Abreast(t) ==
  /\ view.topic[t].at = topic[t].at
  /\ view.topic[t].looks = 0 <=> topic[t].looks = 0

\* With no look on its way a topic's row shows them all; of those on their way
\* the last is the topic's last.
LooksArrive ==
  \A t \in Topics \ drifted :
    /\ (\A i \in DOMAIN pending : ~ LookAt(t, i)) => Abreast(t)
    /\ \A i \in DOMAIN pending :
         LookAt(t, i) /\ (\A k \in DOMAIN pending : k > i => ~ LookAt(t, k)) =>
           topic[t].looks # 0 /\ topic[t].at = pending[i].position

\* The tables are never ahead of the corpus, nor is what they are to be told.
CorpusBehind ==
  /\ view.corpus <= corpus
  /\ \A i \in DOMAIN pending : pending[i].kind = "stored" => pending[i].position <= corpus

NoLooks == \A i \in DOMAIN pending : ~ IsLook(i)

\* The wait is for every look there is, and after it none is on its way.
LooksPassed ==
  /\ pc = "settle" => \A i \in DOMAIN pending : IsLook(i) => i <= ahead
  /\ pc = "record" => NoLooks
  /\ pc \in {"check", "evaluate"} /\ log[cur].rounds > 0 => NoLooks

\* What a look clears and the round was begun for is still to be cleared.
Current ==
  /\ "never" \in round.why => NeverInvestigated(topic[round.topic])
  /\ "material" \in round.why => NewMaterial(topic[round.topic], corpus)

ReasonsStand ==
  /\ pc = "begin" /\ log[cur].rounds > 0 /\ round.topic \notin drifted => Current
  /\ pc = "turn" /\ log[cur].rounds > 1 /\ round.topic \notin drifted => Current

ViewInv == LooksArrive /\ CorpusBehind /\ LooksPassed /\ ReasonsStand

\* What is on its way when one more fact is saved.
LEMMA Queued ==
  ASSUME TypeOK, NEW f \in Fact, pending' = Append(pending, f)
  PROVE  /\ DOMAIN pending' = DOMAIN pending \cup {Len(pending) + 1}
         /\ DOMAIN pending = 1 .. Len(pending) /\ Len(pending) \in Nat
         /\ \A i \in DOMAIN pending : pending'[i] = pending[i]
         /\ pending'[Len(pending) + 1] = f
BY DEF TypeOK

\* What is on its way when the first fact has been passed.
LEMMA Shifted ==
  ASSUME TypeOK, pending # <<>>, pending' = Tail(pending)
  PROVE  /\ DOMAIN pending = 1 .. Len(pending) /\ Len(pending) \in Nat \ {0}
         /\ Head(pending) = pending[1]
         /\ \A i \in DOMAIN pending' : i \in Nat /\ i + 1 \in DOMAIN pending
         /\ \A i \in DOMAIN pending' : pending'[i] = pending[i + 1]
         /\ \A i \in DOMAIN pending \ {1} : i - 1 \in DOMAIN pending' /\ pending'[i - 1] = pending[i]
<1>1. pending \in Seq(Fact)
  BY DEF TypeOK
<1>2. /\ DOMAIN pending = 1 .. Len(pending) /\ Len(pending) \in Nat \ {0}
      /\ Head(pending) = pending[1]
  BY <1>1
<1>3. /\ DOMAIN pending' = 1 .. (Len(pending) - 1)
      /\ \A i \in 1 .. (Len(pending) - 1) : pending'[i] = pending[i + 1]
  BY <1>1
<1> QED
  BY <1>2, <1>3

\* What a fact that is no look does to a row leaves the looks alone.
LEMMA OnlyLooksLook ==
  ASSUME NEW v \in View, NEW f \in Fact, f.kind # "looked", NEW t \in Topics
  PROVE  /\ Told(v, f).topic[t].looks = v.topic[t].looks
         /\ Told(v, f).topic[t].at = v.topic[t].at
<1>1. CASE f.kind = "stored"
  BY <1>1, ToldFields
<1>2. CASE f.kind # "stored"
  <2> DEFINE s == v.topic[f.of]
             e == Evolve(s, f)
  <2>1. s \in TopicState /\ v.topic \in [Topics -> TopicState] /\ f.of \in Topics
    BY <1>2, ToldFields DEF View
  <2>2. e.looks = s.looks /\ e.at = s.at
    BY <1>2, <2>1
       DEF Evolve, Opened, FindingRecorded, WorkedOn, StatusChanged, TopicState
  <2>3. Told(v, f).topic = [v.topic EXCEPT ![f.of] = e]
    BY <1>2, ToldFields
  <2> HIDE DEF e
  <2>4. CASE t = f.of
    BY <2>1, <2>2, <2>3, <2>4
  <2>5. CASE t # f.of
    BY <2>1, <2>3, <2>5
  <2> QED
    BY <2>4, <2>5
<1> QED
  BY <1>1, <1>2

\* A look is counted, and leaves its position.
LEMMA LooksLook ==
  ASSUME NEW v \in View, NEW f \in Fact, f.kind = "looked", NEW t \in Topics
  PROVE  /\ Told(v, f).corpus = v.corpus
         /\ t = f.of =>
              Told(v, f).topic[t].looks # 0 /\ Told(v, f).topic[t].at = f.position
         /\ t # f.of => Told(v, f).topic[t] = v.topic[t]
<1> DEFINE s == v.topic[f.of]
           e == Evolve(s, f)
<1>1. s \in TopicState /\ v.topic \in [Topics -> TopicState] /\ f.of \in Topics
  BY ToldFields DEF View
<1>2. e = Investigated(s, f.position)
  BY DEF Evolve, Standing
<1>3. e.looks # 0 /\ e.at = f.position
  <2>1. s.looks \in Nat
    BY <1>1, AttentionAssumption DEF TopicState
  <2>2. /\ e.looks = IF s.looks < ThrashLooks THEN s.looks + 1 ELSE s.looks
        /\ e.at = f.position
    BY <1>1, <1>2 DEF Investigated, TopicState
  <2> QED
    BY <2>1, <2>2, AttentionAssumption
<1>4. Told(v, f).topic = [v.topic EXCEPT ![f.of] = e] /\ Told(v, f).corpus = v.corpus
  BY ToldFields
<1> HIDE DEF e
<1> QED
  BY <1>1, <1>3, <1>4

\* The tables and the streams move by a fact saved, or by the projection.
LEMMA TablesMove ==
  ASSUME TypeOK, RunInv, [Next]_vars
  PROVE  \/ UNCHANGED <<topic, corpus, pending, view, drifted>>
         \/ Project
         \/ /\ \E f \in Fact :
                 /\ Save(f)
                 /\ f.kind = "looked" => RecordLook
                 /\ f.kind = "stored" => f.position >= corpus
            /\ UNCHANGED <<view, drifted>>
<1> USE DEF store, streams, projection, driver, supervisor
<1>1. CASE WriteTopics \/ StoreSource
  <2>1. PICK f \in Fact, counts \in BOOLEAN :
          /\ f.kind # "looked" /\ Write(f, counts)
          /\ f.kind = "stored" => f.position >= corpus
    BY <1>1, WritesFacts
  <2> QED
    BY <2>1 DEF Write
<1>2. CASE RecordLook
  <2> DEFINE f == [of |-> round.topic, kind |-> "looked", position |-> round.stamp]
  <2>1. f \in Fact /\ f.kind = "looked"
    BY <1>2, LookFact DEF RecordLook
  <2>2. Save(f) /\ UNCHANGED <<view, drifted>>
    BY <1>2 DEF RecordLook
  <2> HIDE DEF f
  <2> QED
    BY <1>2, <2>1, <2>2
<1>3. CASE Drive /\ ~ RecordLook
  BY <1>3 DEF Drive, CreateRun, CreateRaises, Check, FindNothing, PickTopic, SaveBegun,
     TurnEnds, ReadHighWater, LookFails, ReadTarget, Settle, SettleTimesOut, SaveRound,
     CountOutstanding, SaveStop, Raises, Unwind, Finish
<1>4. CASE StartRun \/ Cancel \/ Crash \/ AppendElsewhere \/ UNCHANGED vars
  BY <1>4 DEF StartRun, Cancel, Crash, AppendElsewhere, vars
<1> QED
  BY <1>1, <1>2, <1>3, <1>4 DEF Next

\* A fact that is saved is on its way, and the last look on its way the last.
LEMMA SaveArrives ==
  ASSUME TypeOK, LooksArrive, CorpusBehind, UNCHANGED <<view, drifted>>,
         NEW f \in Fact, Save(f), f.kind = "stored" => f.position >= corpus
  PROVE  LooksArrive' /\ CorpusBehind' /\ corpus <= corpus'
<1>0. Now \in View /\ Now.topic = topic /\ Now.corpus = corpus /\ corpus \in Nat /\ view.corpus \in Nat
  BY DEF Now, View, TypeOK
<1>1. topic' = Told(Now, f).topic /\ corpus' = Told(Now, f).corpus /\ pending' = Append(pending, f)
  BY DEF Save
<1>2. f.position \in Nat /\ (f.kind = "stored" => corpus' = f.position)
      /\ (f.kind # "stored" => corpus' = corpus)
  BY <1>0, <1>1, ToldFields DEF Fact
<1>n. PICK n \in Nat : n = Len(pending) + 1
  BY DEF TypeOK
<1>3. /\ DOMAIN pending' = DOMAIN pending \cup {n}
      /\ \A i \in DOMAIN pending : i \in Nat /\ i < n
      /\ \A i \in DOMAIN pending : pending'[i] = pending[i] /\ pending[i] \in Fact
      /\ pending'[n] = f
  BY <1>1, <1>n, Queued DEF TypeOK
<1>4. corpus <= corpus'
  BY <1>0, <1>2
<1>5. CorpusBehind'
  <2>1. view'.corpus <= corpus'
    BY <1>0, <1>2, <1>4 DEF CorpusBehind
  <2>2. ASSUME NEW i \in DOMAIN pending', pending'[i].kind = "stored"
        PROVE  pending'[i].position <= corpus'
    <3>1. CASE i = n
      BY <1>2, <1>3, <2>2, <3>1
    <3>2. CASE i \in DOMAIN pending
      <4>1. pending[i].position <= corpus /\ pending[i].position \in Nat
        BY <1>3, <2>2, <3>2 DEF CorpusBehind, Fact
      <4> QED
        BY <1>0, <1>2, <1>3, <1>4, <3>2, <4>1
    <3> QED
      BY <1>3, <2>2, <3>1, <3>2
  <2> QED
    BY <2>1, <2>2 DEF CorpusBehind
<1>6. LooksArrive'
  <2> SUFFICES ASSUME NEW t \in Topics \ drifted
               PROVE  /\ (\A i \in DOMAIN pending' : ~ LookAt(t, i)') => Abreast(t)'
                      /\ \A i \in DOMAIN pending' :
                           LookAt(t, i)' /\ (\A k \in DOMAIN pending' : k > i => ~ LookAt(t, k)') =>
                             topic'[t].looks # 0 /\ topic'[t].at = pending'[i].position
    BY DEF LooksArrive
  <2>1. \A i \in DOMAIN pending : LookAt(t, i)' <=> LookAt(t, i)
    BY <1>3 DEF LookAt, IsLook
  <2>2. LookAt(t, n)' <=> f.kind = "looked" /\ f.of = t
    BY <1>3 DEF LookAt, IsLook
  <2>3. CASE f.kind = "looked" /\ f.of = t
    <3>1. topic'[t].looks # 0 /\ topic'[t].at = f.position
      BY <1>0, <1>1, <2>3, LooksLook
    <3>2. n \in DOMAIN pending' /\ LookAt(t, n)'
      BY <1>3, <2>2, <2>3
    <3>3. ASSUME NEW i \in DOMAIN pending', LookAt(t, i)',
                 \A k \in DOMAIN pending' : k > i => ~ LookAt(t, k)'
          PROVE  i = n
      BY <1>3, <3>2, <3>3
    <3> QED
      BY <1>3, <3>1, <3>2, <3>3
  <2>4. CASE ~ (f.kind = "looked" /\ f.of = t)
    <3>1. topic'[t].looks = topic[t].looks /\ topic'[t].at = topic[t].at
      BY <1>0, <1>1, <2>4, LooksLook, OnlyLooksLook
    <3>2. (\A i \in DOMAIN pending' : ~ LookAt(t, i)') => Abreast(t)'
      <4> SUFFICES ASSUME \A i \in DOMAIN pending' : ~ LookAt(t, i)' PROVE Abreast(t)'
        OBVIOUS
      <4>1. Abreast(t)
        BY <1>3, <2>1 DEF LooksArrive
      <4> QED
        BY <3>1, <4>1 DEF Abreast
    <3>3. ASSUME NEW i \in DOMAIN pending', LookAt(t, i)',
                 \A k \in DOMAIN pending' : k > i => ~ LookAt(t, k)'
          PROVE  topic'[t].looks # 0 /\ topic'[t].at = pending'[i].position
      <4>1. i \in DOMAIN pending /\ LookAt(t, i)
        <5>1. i # n
          BY <2>2, <2>4, <3>3
        <5> QED
          BY <1>3, <2>1, <3>3, <5>1
      <4>2. \A k \in DOMAIN pending : k > i => ~ LookAt(t, k)
        BY <1>3, <2>1, <3>3
      <4>3. topic[t].looks # 0 /\ topic[t].at = pending[i].position
        BY <4>1, <4>2 DEF LooksArrive
      <4> QED
        BY <1>3, <3>1, <4>1, <4>3
    <3> QED
      BY <3>2, <3>3
  <2> QED
    BY <2>3, <2>4
<1> QED
  BY <1>4, <1>5, <1>6

\* What a fact does to the tables: a look of a topic that is the last on its
\* way puts its row abreast, and nothing else changes what rows say of looks.
LEMMA HeadTold ==
  ASSUME TypeOK, LooksArrive, CorpusBehind, Project, view' = Told(view, Head(pending)),
         UNCHANGED <<topic, corpus>>
  PROVE  /\ view'.corpus <= corpus
         /\ \A t \in Topics \ drifted :
              /\ ~ LookAt(t, 1) /\ Abreast(t) => Abreast(t)'
              /\ LookAt(t, 1) /\ (\A k \in DOMAIN pending : k > 1 => ~ LookAt(t, k)) => Abreast(t)'
<1> DEFINE f == Head(pending)
<1>0. f \in Fact /\ f = pending[1] /\ 1 \in DOMAIN pending /\ view \in View
  BY ProjectTypes DEF TypeOK
<1> HIDE DEF f
<1>1. view' = Told(view, f)
  BY DEF f
<1>2. view'.corpus <= corpus
  <2>1. CASE f.kind = "stored"
    <3>1. f.position <= corpus
      BY <1>0, <2>1 DEF CorpusBehind
    <3>2. view'.corpus = f.position
      <4>1. Told(view, f).corpus = f.position
        BY <1>0, <2>1, ToldFields
      <4> QED
        BY <1>1, <4>1
    <3> QED
      BY <3>1, <3>2
  <2>2. CASE f.kind # "stored"
    <3>1. view'.corpus = view.corpus
      BY <1>0, <1>1, <2>2, ToldFields
    <3> QED
      BY <3>1 DEF CorpusBehind
  <2> QED
    BY <2>1, <2>2
<1>3. ASSUME NEW t \in Topics \ drifted, ~ LookAt(t, 1), Abreast(t)
      PROVE  Abreast(t)'
  <2>1. view'.topic[t].looks = view.topic[t].looks /\ view'.topic[t].at = view.topic[t].at
    BY <1>0, <1>1, <1>3, OnlyLooksLook, LooksLook DEF LookAt, IsLook
  <2> QED
    BY <1>3, <2>1 DEF Abreast
<1>4. ASSUME NEW t \in Topics \ drifted, LookAt(t, 1),
             \A k \in DOMAIN pending : k > 1 => ~ LookAt(t, k)
      PROVE  Abreast(t)'
  <2>1. topic[t].looks # 0 /\ topic[t].at = f.position
    BY <1>0, <1>4 DEF LooksArrive
  <2>2. view'.topic[t].looks # 0 /\ view'.topic[t].at = f.position
    BY <1>0, <1>1, <1>4, LooksLook DEF LookAt, IsLook
  <2> QED
    BY <2>1, <2>2 DEF Abreast
<1> QED
  BY <1>2, <1>3, <1>4

\* The projection brings every look into its row, or files it.
LEMMA ProjectArrives ==
  ASSUME TypeOK, LooksArrive, CorpusBehind, Project
  PROVE  LooksArrive' /\ CorpusBehind'
<1>0. UNCHANGED <<topic, corpus>> /\ pending # <<>> /\ pending \in Seq(Fact)
  BY ProjectTypes DEF Project, CatchUp, ApplyOnly, DeadLetter, streams
<1>1. CASE ApplyOnly
  <2>1. view' = Told(view, Head(pending)) /\ UNCHANGED <<pending, drifted>>
    BY <1>1 DEF ApplyOnly, Apply, streams
  <2>2. CorpusBehind'
    BY <1>0, <2>1, HeadTold DEF CorpusBehind
  <2>3. ASSUME NEW t \in Topics \ drifted, \A i \in DOMAIN pending : ~ LookAt(t, i)
        PROVE  Abreast(t)'
    <3>1. Abreast(t) /\ 1 \in DOMAIN pending
      BY <1>0, <2>3 DEF LooksArrive
    <3> QED
      BY <1>0, <2>1, <2>3, <3>1, HeadTold
  <2>4. \A t \in Topics, i \in DOMAIN pending : LookAt(t, i)' <=> LookAt(t, i)
    BY <2>1 DEF LookAt, IsLook
  <2> QED
    BY <1>0, <2>1, <2>2, <2>3, <2>4 DEF LooksArrive
<1>2. ASSUME pending' = Tail(pending),
             \A t \in Topics \ drifted' :
               /\ t \notin drifted
               /\ ~ LookAt(t, 1) /\ Abreast(t) => Abreast(t)'
               /\ LookAt(t, 1) /\ (\A k \in DOMAIN pending : k > 1 => ~ LookAt(t, k)) => Abreast(t)',
             view'.corpus <= corpus
      PROVE  LooksArrive' /\ CorpusBehind'
  <2>1. /\ DOMAIN pending = 1 .. Len(pending) /\ Len(pending) \in Nat \ {0}
        /\ \A i \in DOMAIN pending' : i \in Nat /\ i + 1 \in DOMAIN pending
        /\ \A i \in DOMAIN pending' : pending'[i] = pending[i + 1]
        /\ \A i \in DOMAIN pending \ {1} : i - 1 \in DOMAIN pending' /\ pending'[i - 1] = pending[i]
    BY <1>0, <1>2, Shifted
  <2>2. CorpusBehind'
    BY <1>0, <1>2, <2>1 DEF CorpusBehind
  <2>3. \A t \in Topics, i \in DOMAIN pending' : LookAt(t, i)' <=> LookAt(t, i + 1)
    BY <2>1 DEF LookAt, IsLook
  <2>4. ASSUME NEW t \in Topics \ drifted', \A i \in DOMAIN pending' : ~ LookAt(t, i)'
        PROVE  Abreast(t)'
    <3>1. \A k \in DOMAIN pending : k > 1 => ~ LookAt(t, k)
      <4> SUFFICES ASSUME NEW k \in DOMAIN pending, k > 1 PROVE ~ LookAt(t, k)
        OBVIOUS
      <4>1. k - 1 \in DOMAIN pending' /\ (k - 1) + 1 = k
        BY <2>1
      <4>2. ~ LookAt(t, (k - 1) + 1)
        BY <2>3, <2>4, <4>1
      <4> QED
        BY <4>1, <4>2
    <3>2. CASE LookAt(t, 1)
      BY <1>2, <3>1, <3>2
    <3>3. CASE ~ LookAt(t, 1)
      <4>1. \A k \in DOMAIN pending : ~ LookAt(t, k)
        BY <2>1, <3>1, <3>3
      <4>2. Abreast(t)
        BY <1>2, <4>1 DEF LooksArrive
      <4> QED
        BY <1>2, <3>3, <4>2
    <3> QED
      BY <3>2, <3>3
  <2>5. ASSUME NEW t \in Topics \ drifted', NEW i \in DOMAIN pending', LookAt(t, i)',
               \A k \in DOMAIN pending' : k > i => ~ LookAt(t, k)'
        PROVE  topic'[t].looks # 0 /\ topic'[t].at = pending'[i].position
    <3>1. i + 1 \in DOMAIN pending /\ LookAt(t, i + 1) /\ i \in Nat
      BY <2>1, <2>3, <2>5
    <3>2. ASSUME NEW k \in DOMAIN pending, k > i + 1 PROVE ~ LookAt(t, k)
      <4>1. k - 1 \in DOMAIN pending' /\ (k - 1) + 1 = k /\ k - 1 > i
        BY <2>1, <3>1, <3>2
      <4>2. ~ LookAt(t, (k - 1) + 1)
        BY <2>3, <2>5, <4>1
      <4> QED
        BY <4>1, <4>2
    <3>3. topic[t].looks # 0 /\ topic[t].at = pending[i + 1].position
      BY <1>2, <3>1, <3>2 DEF LooksArrive
    <3> QED
      BY <1>0, <2>1, <3>3
  <2> QED
    BY <2>2, <2>4, <2>5 DEF LooksArrive
<1>3. CASE CatchUp
  <2>1. view' = Told(view, Head(pending)) /\ pending' = Tail(pending) /\ UNCHANGED drifted
    BY <1>3 DEF CatchUp, Apply, Pass
  <2> QED
    BY <1>0, <1>2, <2>1, HeadTold
<1>4. CASE DeadLetter
  <2>1. /\ UNCHANGED view /\ pending' = Tail(pending) /\ Head(pending) = pending[1]
        /\ drifted' = IF Head(pending).kind = "looked"
                      THEN drifted \cup {Head(pending).of} ELSE drifted
    BY <1>0, <1>4 DEF DeadLetter, Pass
  <2>2. \A t \in Topics \ drifted' : t \notin drifted /\ ~ LookAt(t, 1)
    BY <2>1 DEF LookAt, IsLook
  <2>3. \A t \in Topics : Abreast(t) => Abreast(t)'
    BY <1>0, <2>1 DEF Abreast
  <2>4. view'.corpus <= corpus
    BY <2>1 DEF CorpusBehind
  <2> QED
    BY <1>2, <2>1, <2>2, <2>3, <2>4
<1> QED
  BY <1>1, <1>3, <1>4 DEF Project

\* The rows and what is on its way to them are kept by every step.
LEMMA ArrivesStep ==
  ASSUME TypeOK, RunInv, LooksArrive, CorpusBehind, [Next]_vars
  PROVE  /\ LooksArrive' /\ CorpusBehind'
         /\ corpus \in Nat /\ corpus' \in Nat /\ corpus <= corpus' /\ drifted \subseteq drifted'
<1>0. corpus \in Nat
  BY DEF TypeOK
<1>1. CASE UNCHANGED <<topic, corpus, pending, view, drifted>>
  <2>1. \A t, i : LookAt(t, i)' <=> LookAt(t, i)
    BY <1>1 DEF LookAt, IsLook
  <2>2. \A t : Abreast(t)' <=> Abreast(t)
    BY <1>1 DEF Abreast
  <2> QED
    BY <1>0, <1>1, <2>1, <2>2 DEF LooksArrive, CorpusBehind
<1>2. CASE Project
  <2>1. UNCHANGED corpus /\ drifted \subseteq drifted'
    BY <1>2 DEF Project, CatchUp, ApplyOnly, DeadLetter, streams
  <2> QED
    BY <1>0, <1>2, <2>1, ProjectArrives
<1>3. ASSUME NEW f \in Fact, Save(f), f.kind = "stored" => f.position >= corpus,
             UNCHANGED <<view, drifted>>
      PROVE  LooksArrive' /\ CorpusBehind' /\ corpus' \in Nat /\ corpus <= corpus'
  BY <1>3, SaveArrives, SaveTypes
<1> QED
  BY <1>0, <1>1, <1>2, <1>3, TablesMove

\* The steps that lead from the end of one round into the next.
Onward ==
  CreateRun \/ Check \/ PickTopic \/ SaveBegun \/ ReadTarget \/ Settle \/ SaveRound

\* The steps beside the driver, which do not touch what it holds.
Beside ==
  /\ UNCHANGED <<pc, log, cur>>
  /\ round'.topic = round.topic /\ round'.why = round.why
  /\ ahead' = ahead \/ Project

\* Every step goes onward, is beside the driver, or leads to an await where
\* nothing is promised of the tables.
LEMMA Course ==
  ASSUME TypeOK, RunInv, [Next]_vars
  PROVE  \/ Onward /\ UNCHANGED <<topic, corpus, pending, view, drifted>>
         \/ Beside
         \/ pc' \notin {"settle", "record", "check", "evaluate", "begin", "turn"}
<1> USE DEF store, streams, projection, driver, supervisor
<1>1. CASE Cancel \/ AppendElsewhere \/ UNCHANGED vars
  BY <1>1 DEF Cancel, AppendElsewhere, vars, Beside
<1>2. CASE WriteTopics \/ StoreSource
  <2>1. PICK f \in Fact, counts \in BOOLEAN : Write(f, counts)
    BY <1>2, WritesFacts
  <2>2. round'.topic = round.topic /\ round'.why = round.why
    BY <2>1 DEF Write, TypeOK, Round
  <2> QED
    BY <2>1, <2>2 DEF Write, Beside
<1>3. CASE Project
  BY <1>3 DEF Project, CatchUp, ApplyOnly, DeadLetter, Beside
<1>4. CASE StartRun \/ Crash
  BY <1>4 DEF StartRun, Crash
<1>5. CASE Drive
  BY <1>5 DEF Drive, Onward, CreateRun, CreateRaises, Check, FindNothing, PickTopic, SaveBegun,
     TurnEnds, ReadHighWater, RecordLook, LookFails, ReadTarget, Settle, SettleTimesOut,
     SaveRound, CountOutstanding, SaveStop, Raises, Unwind, Finish
<1> QED
  BY <1>1, <1>2, <1>3, <1>4, <1>5 DEF Next

\* Nobody but the driver looks: beside it the looks of the streams stand, and
\* those on their way only come nearer.
LEMMA LooksStand ==
  ASSUME TypeOK, RunInv, [Next]_vars, Beside
  PROVE  /\ \A t \in Topics : topic'[t].looks = topic[t].looks /\ topic'[t].at = topic[t].at
         /\ \/ \A i \in DOMAIN pending' : IsLook(i)' => i \in DOMAIN pending /\ IsLook(i)
            \/ /\ Pass
               /\ \A i \in DOMAIN pending' :
                    IsLook(i)' => i \in Nat /\ i + 1 \in DOMAIN pending /\ IsLook(i + 1)
<1>1. CASE UNCHANGED <<topic, corpus, pending, view, drifted>>
  BY <1>1 DEF IsLook
<1>2. CASE Project
  <2>1. UNCHANGED topic /\ (UNCHANGED pending \/ Pass) /\ pending # <<>>
    BY <1>2, ProjectTypes DEF Project, CatchUp, ApplyOnly, DeadLetter, streams
  <2>2. CASE UNCHANGED pending
    BY <2>1, <2>2 DEF IsLook
  <2>3. CASE Pass
    <3>1. \A i \in DOMAIN pending' :
            i \in Nat /\ i + 1 \in DOMAIN pending /\ pending'[i] = pending[i + 1]
      BY <2>1, <2>3, Shifted DEF Pass
    <3> QED
      BY <2>1, <2>3, <3>1 DEF IsLook
  <2> QED
    BY <2>1, <2>2, <2>3
<1>3. ASSUME NEW f \in Fact, Save(f), f.kind # "looked"
      PROVE  /\ \A t \in Topics : topic'[t].looks = topic[t].looks /\ topic'[t].at = topic[t].at
             /\ \A i \in DOMAIN pending' : IsLook(i)' => i \in DOMAIN pending /\ IsLook(i)
  <2>1. Now \in View /\ Now.topic = topic /\ topic' = Told(Now, f).topic /\ pending' = Append(pending, f)
    BY <1>3 DEF Now, View, TypeOK, Save
  <2>2. \A t \in Topics : topic'[t].looks = topic[t].looks /\ topic'[t].at = topic[t].at
    BY <1>3, <2>1, OnlyLooksLook
  <2>3. /\ DOMAIN pending' = DOMAIN pending \cup {Len(pending) + 1}
        /\ \A i \in DOMAIN pending : pending'[i] = pending[i]
        /\ pending'[Len(pending) + 1] = f
    BY <2>1, Queued
  <2> QED
    BY <1>3, <2>2, <2>3 DEF IsLook
<1>4. ~ RecordLook
  BY DEF RecordLook, Beside
<1> QED
  BY <1>1, <1>2, <1>3, <1>4, TablesMove

\* The driver goes on from its wait with no look on its way.
LEMMA PassedStep ==
  ASSUME TypeOK, RunInv, LooksPassed, [Next]_vars
  PROVE  LooksPassed'
<1>1. CASE pc' \notin {"settle", "record", "check", "evaluate"}
  BY <1>1 DEF LooksPassed
<1>2. CASE Beside
  <2>1. \A i \in DOMAIN pending : i \in Nat /\ i >= 1
    BY DEF TypeOK
  <2>2. NoLooks => NoLooks'
    BY <1>2, LooksStand DEF NoLooks
  <2>3. ASSUME pc = "settle", NEW i \in DOMAIN pending', IsLook(i)'
        PROVE  i <= ahead'
    <3>1. ahead \in Nat
      BY DEF TypeOK
    <3>2. CASE Pass /\ i \in Nat /\ i + 1 \in DOMAIN pending /\ IsLook(i + 1)
      <4>1. i + 1 <= ahead
        BY <2>3, <3>2 DEF LooksPassed
      <4> QED
        BY <3>1, <3>2, <4>1 DEF Pass
    <3>3. CASE ~ Pass /\ i \in DOMAIN pending /\ IsLook(i)
      <4>1. i <= ahead
        BY <2>3, <3>3 DEF LooksPassed
      <4>2. ahead' = ahead
        BY <1>2, <3>3 DEF Beside, Project, CatchUp, DeadLetter, ApplyOnly
      <4> QED
        BY <4>1, <4>2
    <3>4. CASE Pass /\ i \in DOMAIN pending /\ IsLook(i) /\ ~ (i + 1 \in DOMAIN pending /\ IsLook(i + 1))
      <4>1. pending # <<>>
        BY <3>4
      <4>2. i + 1 \in DOMAIN pending /\ pending'[i] = pending[i + 1]
        BY <2>3, <3>4, <4>1, Shifted DEF Pass
      <4> QED
        BY <2>3, <3>4, <4>2 DEF IsLook
    <3> QED
      BY <1>2, <2>1, <2>3, <3>2, <3>3, <3>4, LooksStand
  <2> QED
    BY <1>2, <2>2, <2>3 DEF LooksPassed, Beside
<1>3. ASSUME Onward, UNCHANGED <<topic, corpus, pending, view, drifted>>
      PROVE  LooksPassed'
  <2>0. (NoLooks => NoLooks') /\ \A i : IsLook(i)' <=> IsLook(i)
    BY <1>3 DEF NoLooks, IsLook
  <2>1. CASE CreateRun
    <3>1. cur \in Runs /\ log[cur] = NewRun /\ log[cur] \in RunState
      BY <2>1, CurrentRun DEF CreateRun, RunInv, UnderWay
    <3>2. /\ log' = [log EXCEPT ![cur] = Started(log[cur])]
          /\ pc' = "check" /\ cur' = cur
      BY <2>1 DEF CreateRun, driver, store
    <3>3. log'[cur] = Started(log[cur])
      BY <3>1, <3>2 DEF TypeOK
    <3>4. log'[cur'].rounds = 0
      BY <3>1, <3>2, <3>3, StartedFold DEF NewRun
    <3> QED
      BY <3>2, <3>4 DEF LooksPassed
  <2>2. CASE Check
    BY <2>0, <2>2 DEF Check, LooksPassed
  <2>3. CASE PickTopic
    BY <2>3 DEF PickTopic, LooksPassed
  <2>4. CASE SaveBegun
    BY <2>4 DEF SaveBegun, LooksPassed
  <2>5. CASE ReadTarget
    <3>1. \A i \in DOMAIN pending : i \in Nat /\ i <= Len(pending)
      BY DEF TypeOK
    <3>2. Len(pending) \in Nat /\ ahead' = Len(pending) + (IF owed THEN 1 ELSE 0)
      BY <2>5 DEF ReadTarget, TypeOK
    <3> QED
      BY <1>3, <2>5, <3>1, <3>2 DEF ReadTarget, LooksPassed
  <2>6. CASE Settle
    <3>1. \A i \in DOMAIN pending : i \in Nat /\ ~ (i <= 0)
      BY DEF TypeOK
    <3>2. NoLooks
      BY <2>6, <3>1 DEF Settle, CaughtUp, LooksPassed, NoLooks
    <3> QED
      BY <2>0, <2>6, <3>2 DEF Settle, LooksPassed
  <2>7. CASE SaveRound
    BY <2>0, <2>7 DEF SaveRound, LooksPassed
  <2> QED
    BY <1>3, <2>1, <2>2, <2>3, <2>4, <2>5, <2>6, <2>7 DEF Onward
<1> QED
  BY <1>1, <1>2, <1>3, Course

\* What the tables give as reasons is so on the streams, if they show the looks.
LEMMA PickedIsCurrent ==
  ASSUME TypeOK, LooksArrive, CorpusBehind, NoLooks, PickTopic, UNCHANGED <<topic, corpus>>,
         round'.topic \notin drifted
  PROVE  Current'
<1>1. PICK t \in Heads(view) :
        round' = [NoRound EXCEPT !.topic = t,
                                 !.why = Attention(view.topic[t], view.corpus)]
  BY DEF PickTopic
<1>2. /\ t \in Topics /\ round'.topic = t
      /\ round'.why = Attention(view.topic[t], view.corpus)
  BY <1>1, QueueTypes DEF NoRound
<1>3. Abreast(t)
  BY <1>2 DEF LooksArrive, NoLooks, LookAt
<1>4. /\ topic[t].at \in Nat /\ topic[t].looks \in Nat /\ view.topic[t].looks \in Nat
      /\ view.corpus \in Nat /\ corpus \in Nat
  BY <1>2, AttentionAssumption DEF TypeOK, TopicState, View
<1>5. "never" \in round'.why => topic[t].looks = 0
  BY <1>2, <1>3 DEF Abreast, Attention, Raised, NeverInvestigated
<1>6. "material" \in round'.why => topic[t].looks > 0 /\ corpus > topic[t].at
  <2> SUFFICES ASSUME "material" \in round'.why
               PROVE  topic[t].looks > 0 /\ corpus > topic[t].at
    OBVIOUS
  <2>1. view.topic[t].looks > 0 /\ view.corpus > view.topic[t].at
    BY <1>2 DEF Attention, Raised, NewMaterial
  <2> QED
    BY <1>3, <1>4, <2>1 DEF Abreast, CorpusBehind
<1> QED
  BY <1>2, <1>5, <1>6 DEF Current, NeverInvestigated, NewMaterial

\* Reasons stay current while nobody looks.
LEMMA CurrentStays ==
  ASSUME TypeOK, Current, round.topic \in Topics, corpus' \in Nat, corpus <= corpus',
         round'.topic = round.topic, round'.why = round.why,
         \A t \in Topics : topic'[t].looks = topic[t].looks /\ topic'[t].at = topic[t].at
  PROVE  Current'
<1>1. corpus \in Nat /\ topic[round.topic].at \in Nat
  BY DEF TypeOK, TopicState
<1> QED
  BY <1>1 DEF Current, NeverInvestigated, NewMaterial

\* The reasons of the round in hand stand through every step.
LEMMA ReasonsStep ==
  ASSUME TypeOK, RunInv, ViewInv, [Next]_vars
  PROVE  ReasonsStand'
<1>0. corpus' \in Nat /\ corpus <= corpus' /\ drifted \subseteq drifted'
  BY ArrivesStep DEF ViewInv
<1>1. CASE pc' \notin {"begin", "turn"}
  BY <1>1 DEF ReasonsStand
<1>2. CASE Beside
  <2>1. pc \in {"begin", "turn"} => round.topic \in Topics
    BY DEF RunInv, InHand
  <2>2. pc \in {"begin", "turn"} /\ Current => Current'
    BY <1>0, <1>2, <2>1, LooksStand, CurrentStays DEF Beside
  <2> QED
    BY <1>0, <1>2, <2>2 DEF ViewInv, ReasonsStand, Beside
<1>3. ASSUME Onward, UNCHANGED <<topic, corpus, pending, view, drifted>>, pc' \in {"begin", "turn"}
      PROVE  ReasonsStand'
  <2>1. CASE PickTopic
    <3>1. pc = "evaluate" /\ pc' = "begin" /\ UNCHANGED <<log, cur>>
      BY <2>1 DEF PickTopic
    <3>2. log[cur].rounds > 0 /\ round'.topic \notin drifted => Current'
      BY <1>3, <2>1, <3>1, PickedIsCurrent DEF ViewInv, LooksPassed
    <3> QED
      BY <1>3, <3>1, <3>2 DEF ReasonsStand
  <2>2. CASE SaveBegun
    <3>1. /\ pc = "begin" /\ pc' = "turn" /\ UNCHANGED <<round, cur>>
          /\ cur \in Runs /\ log[cur] \in RunState /\ round.topic \in Topics
          /\ log' = [log EXCEPT ![cur] = RoundStarted(log[cur], round.topic)]
      BY <2>2, CurrentRun DEF SaveBegun, RunInv, InHand
    <3>2. log'[cur] = RoundStarted(log[cur], round.topic)
      BY <3>1 DEF TypeOK
    <3>3. log'[cur'].rounds = log[cur].rounds + 1 /\ log[cur].rounds \in Nat
      BY <3>1, <3>2, RoundStartedFold DEF RunState
    <3>4. Current => Current'
      BY <1>3, <3>1 DEF Current
    <3> QED
      BY <1>3, <3>1, <3>3, <3>4 DEF ViewInv, ReasonsStand
  <2>3. CASE CreateRun \/ Check \/ ReadTarget \/ Settle \/ SaveRound
    BY <1>3, <2>3 DEF CreateRun, Check, ReadTarget, Settle, SaveRound
  <2> QED
    BY <1>3, <2>1, <2>2, <2>3 DEF Onward
<1> QED
  BY <1>1, <1>2, <1>3, Course

\* After its first round a run is never handed a topic for a reason its own
\* last look has cleared, however late the tables are (settle), unless a look
\* at the topic was filed and passed over.
THEOREM Reasoned == Spec => []ReasonsAreCurrent
<1>1. Init => ViewInv
  <2> SUFFICES ASSUME Init PROVE ViewInv
    OBVIOUS
  <2>1. pending = <<>> /\ DOMAIN pending = {} /\ view = Now /\ corpus = 0 /\ pc = "idle"
    BY DEF Init
  <2>2. LooksArrive
    BY <2>1 DEF LooksArrive, Abreast, Now
  <2>3. CorpusBehind
    BY <2>1 DEF CorpusBehind, Now
  <2> QED
    BY <2>1, <2>2, <2>3 DEF ViewInv, LooksPassed, ReasonsStand
<1>2. Safe /\ ViewInv /\ [Next]_vars => ViewInv'
  BY ArrivesStep, PassedStep, ReasonsStep DEF Safe, ViewInv
<1>3. ViewInv => ReasonsAreCurrent
  BY DEF ViewInv, ReasonsStand, ReasonsAreCurrent, Current
<1> QED
  BY <1>1, <1>2, <1>3, Safety, PTL DEF Spec

-----------------------------------------------------------------------------
(***************************************************************************)
(* The queue has a head.                                                   *)
(***************************************************************************)

\* A set of topics has one created before all the others.
LEMMA OldestTopic ==
  ASSUME NEW S \in SUBSET Topics, S # {}
  PROVE  \E t \in S : \A u \in S \ {t} : t < u
<1> DEFINE Lower == {p \in Nat \X Nat : p[1] < p[2]}
<1>1. IsWellFoundedOn(Lower, Nat)
  BY NatLessThanWellFounded DEF OpToRel
<1>2. Topics \subseteq Nat
  BY AttentionAssumption DEF Topics
<1>3. S \subseteq Nat
  BY <1>2
<1>4. \A t, u \in S : <<u, t>> \in Lower <=> u < t
  BY <1>3
<1> HIDE DEF Lower
<1>5. PICK t \in S : \A u \in S : ~ (<<u, t>> \in Lower)
  BY <1>1, <1>3, WFMin
<1>6. ASSUME NEW u \in S \ {t} PROVE t < u
  <2>1. t \in Nat /\ u \in Nat /\ t # u
    BY <1>3
  <2>2. ~ (u < t)
    BY <1>4, <1>5
  <2> QED
    BY <2>1, <2>2
<1> QED
  BY <1>6

\* Whatever the tables hold, of two topics that wait exactly one outranks the
\* other, so a queue that is not empty has one head: the oldest of those that
\* are blocked, or of all when none is.
LEMMA OneHead ==
  ASSUME NEW v, Waiting(v) # {}
  PROVE  \E t \in Waiting(v) : Heads(v) = {t}
<1> DEFINE Blocked == {t \in Waiting(v) : IsBlocked(v.topic[t], v.corpus)}
<1>1. Waiting(v) \subseteq Topics /\ Blocked \subseteq Topics /\ Topics \subseteq Nat
  BY AttentionAssumption DEF Waiting, Topics
<1>2. PICK t \in Waiting(v) : \A u \in Waiting(v) \ {t} : Outranks(v, t, u)
  <2>1. CASE Blocked # {}
    <3>1. PICK t \in Blocked : \A u \in Blocked \ {t} : t < u
      BY <1>1, <2>1, OldestTopic
    <3>2. \A u \in Waiting(v) \ {t} : Outranks(v, t, u)
      BY <3>1 DEF Outranks
    <3> QED
      BY <3>1, <3>2
  <2>2. CASE Blocked = {}
    <3>1. PICK t \in Waiting(v) : \A u \in Waiting(v) \ {t} : t < u
      BY <1>1, OldestTopic
    <3>2. \A u \in Waiting(v) \ {t} : Outranks(v, t, u)
      BY <2>2, <3>1 DEF Outranks
    <3> QED
      BY <3>2
  <2> QED
    BY <2>1, <2>2
<1>3. \A u \in Waiting(v) \ {t} : ~ Outranks(v, u, t)
  <2> SUFFICES ASSUME NEW u \in Waiting(v) \ {t}, Outranks(v, u, t) PROVE FALSE
    OBVIOUS
  <2>1. Outranks(v, t, u)
    BY <1>2
  <2>2. t \in Nat /\ u \in Nat
    BY <1>1
  <2>3. ~ (t < u /\ u < t)
    BY <2>2
  <2> QED
    BY <2>1, <2>3 DEF Outranks
<1>4. t \in Heads(v)
  BY <1>2 DEF Heads
<1>5. \A u \in Heads(v) : u = t
  BY <1>3 DEF Heads
<1> QED
  BY <1>4, <1>5

\* What the driver at the queue can do: there is nothing to look at, or
\* there is one topic to begin a round for and no round in flight.
QueueIsServed ==
  pc = "evaluate" =>
    \/ Waiting(view) = {}
    \/ log[cur].inflight = 0 /\ \E t \in Topics : Heads(view) = {t}

\* The queue never leaves the driver without an answer, and never with two:
\* the choice of the next topic is a function of the tables.
THEOREM Served == Spec => []QueueIsServed
<1>1. Safe => QueueIsServed
  <2> SUFFICES ASSUME Safe, pc = "evaluate", Waiting(view) # {}
               PROVE  log[cur].inflight = 0 /\ \E t \in Topics : Heads(view) = {t}
    BY DEF QueueIsServed
  <2>1. log[cur].inflight = 0
    BY DEF Safe, RunInv, InHand
  <2>2. PICK t \in Waiting(view) : Heads(view) = {t}
    BY OneHead
  <2>3. t \in Topics
    BY DEF Waiting
  <2> QED
    BY <2>1, <2>2, <2>3
<1> QED
  BY Safety, <1>1, PTL

-----------------------------------------------------------------------------
(***************************************************************************)
(* What is left of a run: its rounds, and the awaits of the round in hand. *)
(***************************************************************************)

RoundsLeft == IF pc = "idle" THEN 0 ELSE MaxRounds - log[cur].rounds

\* The awaits of the driver, numbered from the end of the task.
AwaitsLeft ==
  CASE pc = "idle" -> 0
    [] pc = "after" -> 1
    [] pc = "unwind" -> 2
    [] pc = "stop" -> 3
    [] pc = "count" -> 4
    [] pc = "begin" -> 5
    [] pc = "evaluate" -> 6
    [] pc = "check" -> 7
    [] pc = "record" -> 8
    [] pc = "settle" -> 9
    [] pc = "target" -> 10
    [] pc = "stamp" -> 11
    [] pc = "look" -> 12
    [] pc = "turn" -> 13
    [] OTHER -> 14

\* With another round there are all its awaits again.
Nearer ==
  \/ RoundsLeft' < RoundsLeft
  \/ RoundsLeft' = RoundsLeft /\ AwaitsLeft' < AwaitsLeft

LeftIsBounded == RoundsLeft \in 0 .. MaxRounds /\ AwaitsLeft \in 0 .. 14

\* Every step of the driver, and a crash, brings the run nearer to its end;
\* while a task is under way nothing else touches what is left of it.
DriverComesCloser ==
  [][/\ Drive \/ Crash => Nearer
     /\ pc # "idle" => Nearer \/ UNCHANGED <<RoundsLeft, AwaitsLeft>>]_vars

\* The steps of people, the projection and other streams leave the driver be.
LEMMA OthersLeaveTheDriver ==
  ASSUME TypeOK, Cancel \/ WriteTopics \/ StoreSource \/ AppendElsewhere \/ Project \/ UNCHANGED vars
  PROVE  UNCHANGED <<pc, log, cur>>
BY DEF Cancel, WriteTopics, OpenTopic, RecordFinding, WorkOn, SetTopicStatus, Write,
       StoreSource, AppendElsewhere, Project, CatchUp, ApplyOnly, DeadLetter, vars, driver

\* A step of the driver that begins no round goes on to a later await.
LEMMA AwaitsGoOn ==
  ASSUME TypeOK, RunInv, Drive, ~ SaveBegun
  PROVE  /\ pc # "idle" /\ cur' = cur /\ cur \in Runs
         /\ AwaitsLeft' < AwaitsLeft
         /\ log'[cur].rounds = log[cur].rounds
<1>1. pc # "idle" /\ cur' = cur
  <2>1. CASE CreateRun \/ CreateRaises \/ Check \/ FindNothing \/ PickTopic \/ TurnEnds
    BY <2>1 DEF CreateRun, CreateRaises, Check, FindNothing, PickTopic, TurnEnds
  <2>2. CASE ReadHighWater \/ RecordLook \/ LookFails \/ ReadTarget \/ Settle \/ SettleTimesOut
    BY <2>2 DEF ReadHighWater, RecordLook, LookFails, ReadTarget, Settle, SettleTimesOut
  <2>3. CASE SaveRound \/ CountOutstanding \/ SaveStop \/ Raises \/ Unwind \/ Finish
    BY <2>3 DEF SaveRound, CountOutstanding, SaveStop, Raises, Unwind, Finish
  <2> QED
    BY <2>1, <2>2, <2>3 DEF Drive
<1>2. cur \in Runs /\ log[cur] \in RunState /\ log \in [Runs -> RunState]
  BY <1>1, CurrentRun DEF TypeOK
<1>3. log'[cur].rounds = log[cur].rounds
  <2>1. CASE CreateRun
    BY <1>2, <2>1 DEF CreateRun, Started, RunState
  <2>2. CASE SaveRound
    BY <1>2, <2>2 DEF SaveRound, RoundFailed, RoundCompleted, RunState
  <2>3. CASE SaveStop
    BY <1>2, <2>3 DEF SaveStop, Stopped, RunState
  <2>4. CASE UNCHANGED log
    BY <2>4
  <2>5. CreateRun \/ SaveRound \/ SaveStop \/ UNCHANGED log
    <3>1. [Next]_vars
      BY DEF Next
    <3> QED
      BY <3>1, LogSteps
  <2> QED
    BY <2>1, <2>2, <2>3, <2>4, <2>5
<1>4. AwaitsLeft' < AwaitsLeft
  <2>1. CASE CreateRun \/ CreateRaises \/ Check
    <3>1. \/ pc = "create" /\ pc' \in {"check", "after"}
          \/ pc = "check" /\ pc' \in {"evaluate", "count"}
      BY <2>1 DEF CreateRun, CreateRaises, Check
    <3> QED
      BY <3>1 DEF AwaitsLeft
  <2>2. CASE FindNothing \/ PickTopic \/ TurnEnds \/ ReadHighWater
    <3>1. \/ pc = "evaluate" /\ pc' \in {"stop", "begin"}
          \/ pc = "turn" /\ pc' = "look"
          \/ pc = "look" /\ pc' = "stamp"
      BY <2>2 DEF FindNothing, PickTopic, TurnEnds, ReadHighWater
    <3> QED
      BY <3>1 DEF AwaitsLeft
  <2>3. CASE RecordLook \/ LookFails \/ ReadTarget
    <3>1. \/ pc \in {"look", "stamp"} /\ pc' = "target"
          \/ pc = "target" /\ pc' = "settle"
      BY <2>3 DEF RecordLook, LookFails, ReadTarget
    <3> QED
      BY <3>1 DEF AwaitsLeft
  <2>4. CASE Settle \/ SettleTimesOut \/ SaveRound
    <3>1. \/ pc = "settle" /\ pc' \in {"record", "unwind"}
          \/ pc = "record" /\ pc' = "check"
      BY <2>4 DEF Settle, SettleTimesOut, SaveRound
    <3> QED
      BY <3>1 DEF AwaitsLeft
  <2>5. CASE CountOutstanding \/ SaveStop \/ Raises
    <3>1. \/ pc = "count" /\ pc' = "stop"
          \/ pc \in {"evaluate", "begin", "record", "count", "stop"} /\ pc' = "unwind"
      BY <2>5 DEF CountOutstanding, SaveStop, Raises
    <3> QED
      BY <3>1 DEF AwaitsLeft
  <2>6. CASE Unwind \/ Finish
    <3>1. \/ pc = "unwind" /\ pc' = "after"
          \/ pc = "after" /\ pc' = "idle"
      BY <2>6 DEF Unwind, Finish
    <3> QED
      BY <3>1 DEF AwaitsLeft
  <2> QED
    BY <2>1, <2>2, <2>3, <2>4, <2>5, <2>6 DEF Drive
<1> QED
  BY <1>1, <1>2, <1>3, <1>4

\* No run goes on for ever, whatever its rounds come to: what is left of it is
\* bounded, falls with every step of the driver and is raised by nothing.
THEOREM RoundsRunOut == Spec => []LeftIsBounded /\ DriverComesCloser
<1> USE BudgetAssumption
<1>1. Safe /\ BudgetRespected => LeftIsBounded
  <2> SUFFICES ASSUME Safe, BudgetRespected PROVE LeftIsBounded
    OBVIOUS
  <2>1. RoundsLeft \in 0 .. MaxRounds
    <3>1. CASE pc = "idle"
      BY <3>1 DEF RoundsLeft
    <3>2. CASE pc # "idle"
      <4>1. cur \in Runs /\ log[cur] \in RunState
        BY <3>2, CurrentRun DEF Safe
      <4>2. log[cur].rounds \in Nat /\ log[cur].rounds <= MaxRounds
        BY <4>1 DEF RunState, BudgetRespected
      <4> QED
        BY <3>2, <4>2 DEF RoundsLeft
    <3> QED
      BY <3>1, <3>2
  <2>2. AwaitsLeft \in 0 .. 14
    <3>1. pc \in Driving \cup {"idle", "create", "unwind", "after"}
      BY DEF Safe, TypeOK
    <3> QED
      BY <3>1 DEF AwaitsLeft, Driving
  <2> QED
    BY <2>1, <2>2 DEF LeftIsBounded
<1>2. ASSUME Safe, BudgetRespected, BudgetRespected', Drive PROVE Nearer
  <2>1. TypeOK /\ RunInv
    BY <1>2 DEF Safe
  <2>2. CASE SaveBegun
    <3>1. pc = "begin" /\ pc' = "turn" /\ cur' = cur
      BY <2>2 DEF SaveBegun
    <3>2. cur \in Runs /\ log[cur] \in RunState /\ log \in [Runs -> RunState]
      BY <2>1, <3>1, CurrentRun DEF TypeOK
    <3>3. log'[cur].rounds = log[cur].rounds + 1 /\ log[cur].rounds \in Nat
      BY <2>2, <3>2 DEF SaveBegun, RoundStarted, RunState
    <3> QED
      BY <3>1, <3>3 DEF Nearer, RoundsLeft
  <2>3. CASE ~ SaveBegun
    <3>1. /\ pc # "idle" /\ cur' = cur /\ cur \in Runs /\ AwaitsLeft' < AwaitsLeft
          /\ log'[cur].rounds = log[cur].rounds
      BY <1>2, <2>1, <2>3, AwaitsGoOn
    <3>2. log[cur].rounds \in Nat /\ log[cur].rounds <= MaxRounds
      BY <2>1, <3>1, <1>2 DEF TypeOK, RunState, BudgetRespected
    <3> QED
      BY <3>1, <3>2 DEF Nearer, RoundsLeft
  <2> QED
    BY <2>2, <2>3
<1>3. ASSUME Safe, BudgetRespected, Crash PROVE Nearer
  <2>1. pc # "idle" /\ pc' = "idle" /\ TypeOK
    BY <1>3 DEF Crash, Safe
  <2>2. cur \in Runs /\ log[cur] \in RunState
    BY <1>3, <2>1, CurrentRun DEF Safe
  <2>3. log[cur].rounds \in Nat /\ log[cur].rounds <= MaxRounds
    BY <1>3, <2>2 DEF RunState, BudgetRespected
  <2>4. AwaitsLeft' = 0 /\ AwaitsLeft > 0
    BY <2>1 DEF AwaitsLeft, TypeOK, Driving
  <2> QED
    BY <2>1, <2>3, <2>4 DEF Nearer, RoundsLeft
<1>4. ASSUME Safe, BudgetRespected, BudgetRespected', [Next]_vars, pc # "idle"
      PROVE  Nearer \/ UNCHANGED <<RoundsLeft, AwaitsLeft>>
  <2>1. ~ StartRun
    BY <1>4 DEF StartRun
  <2>2. CASE Drive \/ Crash
    BY <1>2, <1>3, <1>4, <2>2
  <2>3. CASE ~ (Drive \/ Crash)
    <3>1. UNCHANGED <<pc, log, cur>>
      BY <1>4, <2>1, <2>3, OthersLeaveTheDriver DEF Next, Safe
    <3> QED
      BY <3>1 DEF RoundsLeft, AwaitsLeft
  <2> QED
    BY <2>2, <2>3
<1>5. /\ Safe /\ BudgetRespected /\ BudgetRespected' /\ [Next]_vars
      => [/\ Drive \/ Crash => Nearer
          /\ pc # "idle" => Nearer \/ UNCHANGED <<RoundsLeft, AwaitsLeft>>]_vars
  BY <1>2, <1>3, <1>4
<1> QED
  BY Safety, Budget, <1>1, <1>5, PTL DEF Spec, DriverComesCloser

=============================================================================
